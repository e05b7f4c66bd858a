------------------------------ MODULE UDPProxy ------------------------------
(***************************************************************************)
(* The UDP proxy tunnel of udp_proxy.go.  One reader goroutine takes       *)
(* datagrams off the local socket and finds or creates the session of      *)
(* their source address; one handler goroutine per session copies replies  *)
(* back; a cleaner goroutine drops sessions that were idle for             *)
(* InactivityTimeout.  They share the map `sessions` under sessionMu.      *)
(*                                                                         *)
(* Every critical section of sessionMu is one step: no goroutine blocks    *)
(* inside one, and all that it changes is read under the same lock, except *)
(* closeChan, on which a handler reacts only by asking for the lock.       *)
(* Everything done outside the lock (dial, read, write, close, `go`) is a  *)
(* step of its own.  Time is relative: idle[s] is time.Now() minus         *)
(* s.lastActive, and lag is time.Now() minus the `now` the cleaner took.   *)
(***************************************************************************)
EXTENDS Integers, Sequences, FiniteSets

CONSTANTS
    Clients,            \* local source addresses (IP:port)
    Sess,               \* udpSession objects; one is reused once garbage
    None,               \* no session in the map
    InactivityTimeout,  \* clock ticks; zero or less: no cleaner
    MaxLag,             \* bound: ticks the cleaner may wait for sessionMu
    MaxQueue            \* bound: datagrams the local socket buffers

ASSUME ConstantsAssumption ==
    /\ None \notin Sess
    /\ InactivityTimeout \in Int
    /\ MaxLag \in Nat
    /\ MaxQueue \in Nat

VARIABLES
    sessions,  \* client -> its session, or None: the map of udp_proxy.go
    src,       \* session -> client, the srcAddr its handler was started with
    idle,      \* session -> ticks since s.lastActive
    closed,    \* sessions whose closeChan is closed
    open,      \* sessions whose remoteConn is open
    hpc,       \* session -> where its handler goroutine is
    rpc,       \* where the reader goroutine is
    cur,       \* reader: source of the datagram in hand
    rs,        \* reader: the session `s` in hand
    inbox,     \* datagrams waiting on the local socket, as their sources
    cpc,       \* where the cleaner goroutine is
    lag        \* cleaner: ticks since it took `now`

sessionVars == <<sessions, src, idle, closed, open>>
readerVars  == <<rpc, cur, rs, inbox>>
cleanerVars == <<cpc, lag>>
vars == <<sessionVars, hpc, readerVars, cleanerVars>>

\* The age beyond which idle need not be told apart: whatever the lag, such a
\* session is expired for the cleaner.
IdleCap == IF InactivityTimeout > 0 THEN InactivityTimeout + MaxLag ELSE 0

HandlerPcs == {"none", "top", "read", "touch", "reply", "remove", "close"}
ReaderPcs  == {"recv", "lookup", "dial", "insert", "spawn", "touch", "write"}

TypeOK ==
    /\ sessions \in [Clients -> Sess \union {None}]
    /\ src \in [Sess -> Clients]
    /\ idle \in [Sess -> 0..IdleCap]
    /\ closed \subseteq Sess
    /\ open \subseteq Sess
    /\ hpc \in [Sess -> HandlerPcs]
    /\ rpc \in ReaderPcs
    /\ cur \in Clients
    /\ rs \in Sess
    /\ inbox \in Seq(Clients)
    /\ cpc \in {"wait", "sweep"}
    /\ lag \in 0..MaxLag

Init ==
    /\ sessions = [c \in Clients |-> None]
    /\ \E c \in Clients : src = [s \in Sess |-> c] /\ cur = c
    /\ idle = [s \in Sess |-> 0]
    /\ closed = {}
    /\ open = {}
    /\ hpc = [s \in Sess |-> "none"]
    /\ rpc = "recv"
    /\ rs \in Sess
    /\ inbox = <<>>
    /\ cpc = "wait"
    /\ lag = 0

-----------------------------------------------------------------------------
(* Shared state under sessionMu.                                           *)

\* s.lastActive = time.Now()
Touch(s) == idle' = [idle EXCEPT ![s] = 0]

\* Altered removeSession: whatever the map holds for c is closed and deleted.
removeSession_NoIdentity(c, s) ==
    IF sessions[c] # None
    THEN /\ sessions' = [sessions EXCEPT ![c] = None]
         /\ closed' = closed \union {sessions[c]}
    ELSE UNCHANGED <<sessions, closed>>

\* removeSession: only the session the map still holds is closed and deleted.
removeSession(c, s) ==
    IF sessions[c] = s
    THEN /\ sessions' = [sessions EXCEPT ![c] = None]
         /\ closed' = closed \union {s}
    ELSE UNCHANGED <<sessions, closed>>

-----------------------------------------------------------------------------
(* The reader goroutine: main loop and getOrCreateSession.                 *)

\* A local client sends a datagram; a full socket buffer drops it.
ClientSend(c) ==
    /\ Len(inbox) < MaxQueue
    /\ inbox' = Append(inbox, c)
    /\ UNCHANGED <<sessionVars, hpc, rpc, cur, rs, cleanerVars>>

\* ReadFromUDP returns.  Its errors other than ErrClosed are retried and
\* change nothing; the listener is closed by nobody else.
ReaderRecv ==
    /\ rpc = "recv"
    /\ inbox # <<>>
    /\ cur' = Head(inbox)
    /\ inbox' = Tail(inbox)
    /\ rpc' = "lookup"
    /\ UNCHANGED <<sessionVars, hpc, rs, cleanerVars>>

\* Altered ReaderLookup: a miss is used as if it were a session.
ReaderLookup_NoMiss ==
    /\ rpc = "lookup"
    /\ rs' = sessions[cur]
    /\ rpc' = "touch"
    /\ UNCHANGED <<sessionVars, hpc, cur, inbox, cleanerVars>>

ReaderLookup ==
    /\ rpc = "lookup"
    /\ IF sessions[cur] # None
       THEN /\ rs' = sessions[cur]
            /\ Touch(sessions[cur])
            /\ rpc' = "touch"
       ELSE /\ rpc' = "dial"
            /\ UNCHANGED <<rs, idle>>
    /\ UNCHANGED <<sessions, src, closed, open, hpc, cur, inbox, cleanerVars>>

\* vt.Net.Dial returns a socket, and a session object is made for it.
ReaderDialOk ==
    /\ rpc = "dial"
    /\ \E s \in Sess \ open :
         /\ rs' = s
         /\ open' = open \union {s}
         /\ closed' = closed \ {s}
         /\ src' = [src EXCEPT ![s] = cur]
         /\ Touch(s)
    /\ rpc' = "insert"
    /\ UNCHANGED <<sessions, hpc, cur, inbox, cleanerVars>>

\* vt.Net.Dial fails: the datagram is dropped.
ReaderDialError ==
    /\ rpc = "dial"
    /\ rpc' = "recv"
    /\ UNCHANGED <<sessionVars, hpc, cur, rs, inbox, cleanerVars>>

\* The second critical section; the duplicate is dropped if another
\* goroutine inserted a session for the same source meanwhile.
ReaderInsert ==
    /\ rpc = "insert"
    /\ IF sessions[cur] # None
       THEN /\ rs' = sessions[cur]
            /\ Touch(sessions[cur])
            /\ open' = open \ {rs}
            /\ rpc' = "touch"
            /\ UNCHANGED sessions
       ELSE /\ sessions' = [sessions EXCEPT ![cur] = rs]
            /\ rpc' = "spawn"
            /\ UNCHANGED <<rs, idle, open>>
    /\ UNCHANGED <<src, closed, hpc, cur, inbox, cleanerVars>>

\* go conf.handleRemoteToLocal(...)
ReaderSpawn ==
    /\ rpc = "spawn"
    /\ hpc' = [hpc EXCEPT ![rs] = "top"]
    /\ rpc' = "touch"
    /\ UNCHANGED <<sessionVars, cur, rs, inbox, cleanerVars>>

ReaderTouch ==
    /\ rpc = "touch"
    /\ Touch(rs)
    /\ rpc' = "write"
    /\ UNCHANGED <<sessions, src, closed, open, hpc, cur, rs, inbox, cleanerVars>>

\* s.remoteConn.Write: whether it fails is only logged.
ReaderWrite ==
    /\ rpc = "write"
    /\ rpc' = "recv"
    /\ UNCHANGED <<sessionVars, hpc, cur, rs, inbox, cleanerVars>>

ReaderDial == ReaderDialOk \/ ReaderDialError

\* The steps of the reader that wait for nobody but the scheduler.
ReaderStep ==
    \/ ReaderRecv   \/ ReaderLookup \/ ReaderInsert
    \/ ReaderSpawn  \/ ReaderTouch  \/ ReaderWrite

-----------------------------------------------------------------------------
(* The handler goroutine of session s: handleRemoteToLocal.                *)

HandlerGo(s, from, to) ==
    /\ hpc[s] = from
    /\ hpc' = [hpc EXCEPT ![s] = to]

\* The non-blocking look at closeChan at the top of the loop, and the one
\* after a read that ran into its deadline.
HandlerTop(s) ==
    /\ HandlerGo(s, "top", IF s \in closed THEN "remove" ELSE "read")
    /\ UNCHANGED <<sessionVars, readerVars, cleanerVars>>

\* Altered HandlerReadTimeout: no deadline is set, Read never times out.
HandlerReadTimeout_NoDeadline(s) == hpc[s] = "deadline" /\ UNCHANGED vars

HandlerReadTimeout(s) ==
    /\ HandlerGo(s, "read", IF s \in closed THEN "remove" ELSE "top")
    /\ UNCHANGED <<sessionVars, readerVars, cleanerVars>>

HandlerReadData(s) ==
    /\ HandlerGo(s, "read", "touch")
    /\ UNCHANGED <<sessionVars, readerVars, cleanerVars>>

HandlerReadError(s) ==
    /\ HandlerGo(s, "read", "remove")
    /\ UNCHANGED <<sessionVars, readerVars, cleanerVars>>

\* Altered HandlerTouch: the session is stored again with its new time.
HandlerTouch_Restore(s) ==
    /\ HandlerGo(s, "touch", "reply")
    /\ Touch(s)
    /\ sessions' = [sessions EXCEPT ![src[s]] = s]
    /\ UNCHANGED <<src, closed, open, readerVars, cleanerVars>>

HandlerTouch(s) ==
    /\ HandlerGo(s, "touch", "reply")
    /\ Touch(s)
    /\ UNCHANGED <<sessions, src, closed, open, readerVars, cleanerVars>>

\* WriteToUDP to the client; an error ends the handler.
HandlerReply(s) ==
    /\ \E to \in {"top", "remove"} : HandlerGo(s, "reply", to)
    /\ UNCHANGED <<sessionVars, readerVars, cleanerVars>>

\* Altered HandlerRemove: the socket is closed before the map is cleaned.
HandlerRemove_CloseFirst(s) ==
    /\ HandlerGo(s, "remove", "close")
    /\ open' = open \ {s}
    /\ UNCHANGED <<sessions, src, idle, closed, readerVars, cleanerVars>>

\* The deferred function: removeSession, then remoteConn.Close.
HandlerRemove(s) ==
    /\ HandlerGo(s, "remove", "close")
    /\ removeSession(src[s], s)
    /\ UNCHANGED <<src, idle, open, readerVars, cleanerVars>>

\* Altered HandlerClose: the handler ends without closing its socket.
HandlerClose_Leak(s) ==
    /\ HandlerGo(s, "close", "none")
    /\ UNCHANGED <<sessionVars, readerVars, cleanerVars>>

HandlerClose(s) ==
    /\ HandlerGo(s, "close", "none")
    /\ open' = open \ {s}
    /\ UNCHANGED <<sessions, src, idle, closed, readerVars, cleanerVars>>

\* The steps a handler takes by itself: Read returns by its deadline even if
\* the remote end says nothing.
HandlerStep(s) ==
    \/ HandlerTop(s)   \/ HandlerReadTimeout(s) \/ HandlerTouch(s)
    \/ HandlerReply(s) \/ HandlerRemove(s)      \/ HandlerClose(s)

Handler(s) == HandlerStep(s) \/ HandlerReadData(s) \/ HandlerReadError(s)

-----------------------------------------------------------------------------
(* The cleaner goroutine and the clock.                                    *)

\* The ticker fires and `now` is taken, before the lock is asked for.
CleanerTick ==
    /\ InactivityTimeout > 0
    /\ cpc = "wait"
    /\ cpc' = "sweep"
    /\ lag' = 0
    /\ UNCHANGED <<sessionVars, hpc, readerVars>>

\* Altered Expired: sess.lastActive.Sub(now).
Expired_Swapped(s) == lag - idle[s] >= InactivityTimeout

\* now.Sub(sess.lastActive) >= inactivityDur
Expired(s) == idle[s] - lag >= InactivityTimeout

\* Altered CleanerSweep: expired sessions are deleted, closeChan forgotten.
CleanerSweep_NoClose ==
    /\ cpc = "sweep"
    /\ sessions' = [c \in Clients |->
                      IF sessions[c] # None /\ Expired(sessions[c])
                      THEN None ELSE sessions[c]]
    /\ cpc' = "wait"
    /\ lag' = 0
    /\ UNCHANGED <<src, idle, closed, open, hpc, readerVars>>

CleanerSweep ==
    /\ cpc = "sweep"
    /\ LET gone == {c \in Clients : sessions[c] # None /\ Expired(sessions[c])}
       IN /\ closed' = closed \union {sessions[c] : c \in gone}
          /\ sessions' = [c \in Clients |->
                            IF c \in gone THEN None ELSE sessions[c]]
    /\ cpc' = "wait"
    /\ lag' = 0
    /\ UNCHANGED <<src, idle, open, hpc, readerVars>>

Cleaner == CleanerTick \/ CleanerSweep

\* One tick of the clock.
Tick ==
    /\ cpc = "sweep" => lag < MaxLag
    /\ idle' = [s \in Sess |-> IF s \in open /\ idle[s] < IdleCap
                               THEN idle[s] + 1 ELSE idle[s]]
    /\ lag' = IF cpc = "sweep" THEN lag + 1 ELSE lag
    /\ UNCHANGED <<sessions, src, closed, open, hpc, readerVars, cpc>>

-----------------------------------------------------------------------------
Next ==
    \/ \E c \in Clients : ClientSend(c)
    \/ ReaderStep
    \/ ReaderDial
    \/ \E s \in Sess : Handler(s)
    \/ Cleaner
    \/ Tick

Spec == Init /\ [][Next]_vars

\* The goroutines are scheduled, time goes on, and every Read meets its
\* deadline.  Nothing is assumed of the clients, of the remote end, or of
\* Dial, which may stall for ever.
FairSpec ==
    /\ Spec
    /\ WF_vars(ReaderStep)
    /\ \A s \in Sess : WF_vars(HandlerStep(s))
    /\ WF_vars(Cleaner)
    /\ WF_vars(Tick)

-----------------------------------------------------------------------------
(* Safety.                                                                 *)

\* What the map holds is usable: its remote socket is open, its close
\* channel is not closed, it belongs to the address it is found under, and a
\* handler is copying its replies or is about to be started by the reader.
\* Broken if a handler closed its socket before removing itself, or if a
\* session were closed by the cleaner and left in the map.
MappedSessionServed ==
    \A c \in Clients : LET s == sessions[c] IN s # None =>
        /\ s \in open
        /\ s \notin closed
        /\ src[s] = c
        /\ \/ hpc[s] \in {"top", "read", "touch", "reply", "remove"}
           \/ hpc[s] = "none" /\ rpc = "spawn" /\ rs = s

\* Nothing leaks: an open remote socket is in the map, or its handler will
\* find closeChan closed, or its handler is past the point of no return, or
\* the reader has just dialled it.
OpenSocketOwned ==
    \A s \in open :
        \/ \E c \in Clients : sessions[c] = s
        \/ s \in closed
        \/ hpc[s] = "close"
        \/ rpc = "insert" /\ rs = s

\* A remote socket is open exactly while a handler runs for it, except
\* between the dial and the `go` statement, when the reader alone holds it; a
\* session that is about to enter the map is fresh: open, not closed, of the
\* source in hand and not in the map already.  No second handler is started
\* for a session, and no handler works on a closed socket.
HandlerOwnsSocket ==
    /\ \A s \in Sess : hpc[s] # "none" => s \in open
    /\ \A s \in open : hpc[s] = "none" => rpc \in {"insert", "spawn"} /\ rs = s
    /\ rpc \in {"insert", "spawn"} =>
         rs \in open /\ hpc[rs] = "none" /\ src[rs] = cur
    /\ rpc = "insert" => rs \notin closed /\ \A c \in Clients : sessions[c] # rs

\* Why the session of client c may leave the map in a step.
EndsForCause(c) ==
    LET s == sessions[c] IN
    s # None /\ sessions'[c] # s =>
        /\ sessions'[c] = None
        /\ \/ hpc[s] = "remove"
           \/ InactivityTimeout > 0 /\ idle[s] >= InactivityTimeout

\* A session leaves the map for one of two reasons only: its own handler
\* ends, or the inactivity timeout is enabled and it was idle that long.  In
\* particular the handler of an older session of the same client, ending
\* late, never takes the new session with it.
SessionEndsForCause == [][\A c \in Clients : EndsForCause(c)]_vars

-----------------------------------------------------------------------------
(* Refinement: the sessions implement UDPSessionTable.                     *)

Dialled == IF rpc = "insert" THEN {rs} ELSE {}

Retired == (open \ {sessions[c] : c \in Clients}) \ Dialled

Table == INSTANCE UDPSessionTable WITH table <- sessions, retired <- Retired

\* The session map with its goroutines behaves as the abstract table: one
\* session per client, no session shared or brought back, sockets closed
\* only after the session has left the map.
ImplementsTable == Table!TableSpec

-----------------------------------------------------------------------------
(* Liveness.                                                               *)

\* The abstract table with its promise: the socket of every session that has
\* left the map is closed in the end, a swept session's by its handler, which
\* looks at closeChan at least once per read deadline.
ImplementsFairTable == Table!FairTableSpec

\* With a positive InactivityTimeout no session stays in the map idle for
\* ever, even while the reader is stuck in a dial.
IdleSessionsExpire ==
    \A c \in Clients :
        []<>(sessions[c] = None \/ idle[sessions[c]] < InactivityTimeout)

\* The reader always comes back to its socket: the comment on
\* getOrCreateSession says that "a stalled dial cannot block the reader loop
\* or the cleaner".  The cleaner part is IdleSessionsExpire, which holds.
ReaderKeepsReading == []<>(rpc = "recv")
=============================================================================
