--------------------------- MODULE UDPProxyProofs ---------------------------
(***************************************************************************)
(* Proofs about UDPProxy, for any sets of clients and session objects, any *)
(* timeout and any bounds.                                                 *)
(***************************************************************************)
EXTENDS UDPProxy, TLAPS

\* The inductive invariant.  MappedSessionServed needs HandlerOwnsSocket, to
\* know that the session being inserted is fresh and that a handler that
\* closes a socket closes its own; HandlerOwnsSocket needs MappedSessionServed,
\* to know that a new session object is not in the map.
Inv ==
    /\ TypeOK
    /\ MappedSessionServed
    /\ OpenSocketOwned
    /\ HandlerOwnsSocket

\* Every step keeps every variable in its range.
LEMMA TypeInvariance == TypeOK /\ [Next]_vars => TypeOK'
<1> SUFFICES ASSUME TypeOK, [Next]_vars PROVE TypeOK'
  OBVIOUS
<1> USE ConstantsAssumption DEF TypeOK, HandlerPcs, ReaderPcs, sessionVars,
        readerVars, cleanerVars
<1>0. IdleCap \in Nat
  BY DEF IdleCap
<1>1. ASSUME NEW c \in Clients, ClientSend(c) PROVE TypeOK'
  BY <1>1 DEF ClientSend
<1>2. CASE ReaderRecv
  BY <1>2 DEF ReaderRecv
<1>3. CASE ReaderLookup
  <2>1. CASE sessions[cur] # None
    BY <1>0, <1>3, <2>1 DEF ReaderLookup, Touch
  <2>2. CASE sessions[cur] = None
    BY <1>3, <2>2 DEF ReaderLookup
  <2> QED
    BY <2>1, <2>2
<1>4. CASE ReaderDialOk
  BY <1>0, <1>4 DEF ReaderDialOk, Touch
<1>5. CASE ReaderDialError
  BY <1>5 DEF ReaderDialError
<1>6. CASE ReaderInsert
  <2>1. CASE sessions[cur] # None
    BY <1>0, <1>6, <2>1 DEF ReaderInsert, Touch
  <2>2. CASE sessions[cur] = None
    BY <1>6, <2>2 DEF ReaderInsert
  <2> QED
    BY <2>1, <2>2
<1>7. CASE ReaderSpawn
  BY <1>7 DEF ReaderSpawn
<1>8. CASE ReaderTouch
  BY <1>0, <1>8 DEF ReaderTouch, Touch
<1>9. CASE ReaderWrite
  BY <1>9 DEF ReaderWrite
<1>10. ASSUME NEW s \in Sess, Handler(s) PROVE TypeOK'
  <2>1. CASE HandlerTop(s) \/ HandlerReadTimeout(s) \/ HandlerReadData(s)
             \/ HandlerReadError(s) \/ HandlerReply(s)
    BY <2>1 DEF HandlerTop, HandlerReadTimeout, HandlerReadData,
                HandlerReadError, HandlerReply, HandlerGo
  <2>2. CASE HandlerTouch(s)
    BY <1>0, <2>2 DEF HandlerTouch, HandlerGo, Touch
  <2>3. CASE HandlerRemove(s)
    BY <2>3 DEF HandlerRemove, HandlerGo, removeSession
  <2>4. CASE HandlerClose(s)
    BY <2>4 DEF HandlerClose, HandlerGo
  <2> QED
    BY <1>10, <2>1, <2>2, <2>3, <2>4 DEF Handler, HandlerStep
<1>11. CASE CleanerTick
  BY <1>11 DEF CleanerTick
<1>12. CASE CleanerSweep
  BY <1>12 DEF CleanerSweep
<1>13. CASE Tick
  BY <1>0, <1>13 DEF Tick
<1>14. CASE UNCHANGED vars
  BY <1>14 DEF vars
<1> QED
  BY <1>1, <1>2, <1>3, <1>4, <1>5, <1>6, <1>7, <1>8, <1>9, <1>10, <1>11,
     <1>12, <1>13, <1>14
     DEF Next, ReaderStep, ReaderDial, Cleaner

\* The inductive invariant holds when the tunnel starts.
LEMMA InitInv == Init => Inv
<1> SUFFICES ASSUME Init PROVE Inv
  OBVIOUS
<1> USE ConstantsAssumption DEF Init
<1>1. TypeOK
  BY DEF TypeOK, HandlerPcs, ReaderPcs, IdleCap
<1>2. MappedSessionServed /\ OpenSocketOwned /\ HandlerOwnsSocket
  BY DEF MappedSessionServed, OpenSocketOwned, HandlerOwnsSocket
<1> QED
  BY <1>1, <1>2 DEF Inv

\* Every step of every goroutine keeps the inductive invariant.
LEMMA NextInv == Inv /\ [Next]_vars => Inv'
<1> SUFFICES ASSUME Inv, [Next]_vars PROVE Inv'
  OBVIOUS
<1>0. TypeOK'
  BY TypeInvariance DEF Inv
<1> SUFFICES /\ MappedSessionServed'
             /\ OpenSocketOwned'
             /\ HandlerOwnsSocket'
  BY <1>0 DEF Inv
<1> USE <1>0, ConstantsAssumption
    DEF Inv, TypeOK, MappedSessionServed, OpenSocketOwned, HandlerOwnsSocket,
        HandlerPcs, ReaderPcs, sessionVars, readerVars, cleanerVars
<1>1. ASSUME NEW c \in Clients, ClientSend(c)
      PROVE  MappedSessionServed' /\ OpenSocketOwned' /\ HandlerOwnsSocket'
  BY <1>1 DEF ClientSend
<1>2. CASE ReaderRecv \/ ReaderDialError \/ ReaderTouch \/ ReaderWrite
  BY <1>2 DEF ReaderRecv, ReaderDialError, ReaderTouch, ReaderWrite
<1>3. CASE ReaderLookup
  BY <1>3 DEF ReaderLookup
<1>4. CASE ReaderDialOk
  <2>1. PICK s \in Sess \ open :
          /\ rs' = s
          /\ open' = open \union {s}
          /\ closed' = closed \ {s}
          /\ src' = [src EXCEPT ![s] = cur]
    BY <1>4 DEF ReaderDialOk
  <2>2. /\ hpc[s] = "none"
        /\ \A c \in Clients : sessions[c] # s
    OBVIOUS
  <2>3. UNCHANGED <<sessions, hpc, cur>> /\ rpc = "dial" /\ rpc' = "insert"
    BY <1>4 DEF ReaderDialOk
  <2>4. MappedSessionServed'
    BY <2>1, <2>2, <2>3
  <2>5. OpenSocketOwned'
    BY <2>1, <2>2, <2>3
  <2>6. HandlerOwnsSocket'
    BY <2>1, <2>2, <2>3
  <2> QED
    BY <2>4, <2>5, <2>6
<1>5. CASE ReaderInsert
  <2>1. CASE sessions[cur] # None
    BY <1>5, <2>1 DEF ReaderInsert
  <2>2. CASE sessions[cur] = None
    BY <1>5, <2>2 DEF ReaderInsert
  <2> QED
    BY <2>1, <2>2
<1>6. CASE ReaderSpawn
  BY <1>6 DEF ReaderSpawn
<1>7. ASSUME NEW s \in Sess, Handler(s)
      PROVE  MappedSessionServed' /\ OpenSocketOwned' /\ HandlerOwnsSocket'
  <2>1. CASE HandlerTop(s) \/ HandlerReadTimeout(s) \/ HandlerReadData(s)
             \/ HandlerReadError(s) \/ HandlerTouch(s) \/ HandlerReply(s)
    <3>1. PICK to \in {"top", "read", "touch", "reply", "remove"} :
            hpc' = [hpc EXCEPT ![s] = to]
      BY <2>1 DEF HandlerTop, HandlerReadTimeout, HandlerReadData,
                  HandlerReadError, HandlerTouch, HandlerReply, HandlerGo
    <3>2. hpc[s] \in {"top", "read", "touch", "reply"}
      BY <2>1 DEF HandlerTop, HandlerReadTimeout, HandlerReadData,
                  HandlerReadError, HandlerTouch, HandlerReply, HandlerGo
    <3>3. UNCHANGED <<sessions, src, closed, open, rpc, cur, rs>>
      BY <2>1 DEF HandlerTop, HandlerReadTimeout, HandlerReadData,
                  HandlerReadError, HandlerTouch, HandlerReply
    <3> QED
      BY <3>1, <3>2, <3>3
  <2>2. CASE HandlerRemove(s)
    <3>1. /\ hpc[s] = "remove" /\ hpc' = [hpc EXCEPT ![s] = "close"]
          /\ UNCHANGED <<src, open, rpc, cur, rs>>
      BY <2>2 DEF HandlerRemove, HandlerGo
    <3>2. CASE sessions[src[s]] = s
      <4>1. /\ sessions' = [sessions EXCEPT ![src[s]] = None]
            /\ closed' = closed \union {s}
        BY <2>2, <3>2 DEF HandlerRemove, removeSession
      <4> QED
        BY <3>1, <3>2, <4>1
    <3>3. CASE sessions[src[s]] # s
      <4>1. UNCHANGED <<sessions, closed>>
        BY <2>2, <3>3 DEF HandlerRemove, removeSession
      <4> QED
        BY <3>1, <3>3, <4>1
    <3> QED
      BY <3>2, <3>3
  <2>3. CASE HandlerClose(s)
    BY <2>3 DEF HandlerClose, HandlerGo
  <2> QED
    BY <1>7, <2>1, <2>2, <2>3 DEF Handler, HandlerStep
<1>8. CASE CleanerTick \/ Tick
  BY <1>8 DEF CleanerTick, Tick
<1>9. CASE CleanerSweep
  BY <1>9 DEF CleanerSweep
<1>10. CASE UNCHANGED vars
  BY <1>10 DEF vars
<1> QED
  BY <1>1, <1>2, <1>3, <1>4, <1>5, <1>6, <1>7, <1>8, <1>9, <1>10
     DEF Next, ReaderStep, ReaderDial, Cleaner

\* The inductive invariant holds in every reachable state.
THEOREM Invariance == Spec => []Inv
  BY InitInv, NextInv, PTL DEF Spec

\* Every reachable state is well typed; in particular the reader never works
\* on a session it did not find (a nil *udpSession).
THEOREM TypeCorrect == Spec => []TypeOK
<1>1. Inv => TypeOK
  BY DEF Inv
<1> QED
  BY Invariance, <1>1, PTL

\* Whatever the interleaving of reader, handlers and cleaner, a session found
\* in the map has an open socket, an open close channel and a handler.
THEOREM MapIsServed == Spec => []MappedSessionServed
<1>1. Inv => MappedSessionServed
  BY DEF Inv
<1> QED
  BY Invariance, <1>1, PTL

\* No open remote socket is forgotten.
THEOREM NoSocketLost == Spec => []OpenSocketOwned
<1>1. Inv => OpenSocketOwned
  BY DEF Inv
<1> QED
  BY Invariance, <1>1, PTL

\* Sockets and handler goroutines live and die together.
THEOREM SocketsAndHandlers == Spec => []HandlerOwnsSocket
<1>1. Inv => HandlerOwnsSocket
  BY DEF Inv
<1> QED
  BY Invariance, <1>1, PTL

-----------------------------------------------------------------------------
\* The sweep only runs with a positive timeout: it is the cleaner that starts
\* it, and there is no cleaner otherwise.
SweepEnabled == cpc = "sweep" => InactivityTimeout > 0

\* SweepEnabled is inductive by itself.
LEMMA SweepEnabledInvariance == Spec => []SweepEnabled
<1>1. Init => SweepEnabled
  BY DEF Init, SweepEnabled
<1>2. SweepEnabled /\ [Next]_vars => SweepEnabled'
  BY DEF SweepEnabled, Next, vars, ClientSend, ReaderStep, ReaderDial, Handler,
         HandlerStep, Cleaner, Tick, CleanerTick, CleanerSweep, ReaderRecv,
         ReaderLookup, ReaderDialOk, ReaderDialError, ReaderInsert,
         ReaderSpawn, ReaderTouch, ReaderWrite, HandlerTop,
         HandlerReadTimeout, HandlerReadData, HandlerReadError, HandlerTouch,
         HandlerReply, HandlerRemove, HandlerClose, cleanerVars
<1> QED
  BY <1>1, <1>2, PTL DEF Spec

\* Which steps change the map, and how: the insertion binds one client that
\* had no session, a handler unbinds its own client, the sweep unbinds the
\* expired ones.
LEMMA MapSteps ==
  ASSUME Inv, [Next]_vars
  PROVE  \/ UNCHANGED sessions
         \/ ReaderInsert /\ sessions[cur] = None
                         /\ sessions' = [sessions EXCEPT ![cur] = rs]
         \/ \E s \in Sess : /\ HandlerRemove(s)
                            /\ sessions[src[s]] = s
                            /\ sessions' = [sessions EXCEPT ![src[s]] = None]
         \/ CleanerSweep
<1>1. ASSUME NEW c \in Clients, ClientSend(c) PROVE UNCHANGED sessions
  BY <1>1 DEF ClientSend, sessionVars
<1>2. CASE ReaderRecv \/ ReaderLookup \/ ReaderDialOk \/ ReaderDialError
           \/ ReaderSpawn \/ ReaderTouch \/ ReaderWrite
  BY <1>2 DEF ReaderRecv, ReaderLookup, ReaderDialOk, ReaderDialError,
              ReaderSpawn, ReaderTouch, ReaderWrite, sessionVars
<1>3. CASE ReaderInsert
  BY <1>3 DEF ReaderInsert
<1>4. ASSUME NEW s \in Sess, Handler(s)
      PROVE  \/ UNCHANGED sessions
             \/ /\ HandlerRemove(s)
                /\ sessions[src[s]] = s
                /\ sessions' = [sessions EXCEPT ![src[s]] = None]
  BY <1>4 DEF Handler, HandlerStep, HandlerTop, HandlerReadTimeout,
              HandlerReadData, HandlerReadError, HandlerTouch, HandlerReply,
              HandlerRemove, HandlerClose, removeSession, sessionVars
<1>5. CASE CleanerTick \/ Tick \/ UNCHANGED vars
  BY <1>5 DEF CleanerTick, Tick, vars, sessionVars
<1> QED
  BY <1>1, <1>2, <1>3, <1>4, <1>5 DEF Next, ReaderStep, ReaderDial, Cleaner

\* A session leaves the map because its own handler ends or because it was
\* idle for the timeout, never because an older session's handler ends.
THEOREM SessionsEndForCause == Spec => SessionEndsForCause
<1>1. ASSUME Inv, SweepEnabled, [Next]_vars, NEW c \in Clients
      PROVE  EndsForCause(c)
  <2>1. CASE UNCHANGED sessions
    BY <2>1 DEF EndsForCause
  <2>2. CASE ReaderInsert /\ sessions[cur] = None
                          /\ sessions' = [sessions EXCEPT ![cur] = rs]
    BY <1>1, <2>2 DEF EndsForCause, Inv, TypeOK
  <2>3. ASSUME NEW s \in Sess, HandlerRemove(s), sessions[src[s]] = s,
               sessions' = [sessions EXCEPT ![src[s]] = None]
        PROVE  EndsForCause(c)
    BY <1>1, <2>3 DEF EndsForCause, Inv, TypeOK, HandlerRemove, HandlerGo
  <2>4. CASE CleanerSweep
    <3>1. lag \in Nat /\ InactivityTimeout > 0
      BY <1>1, <2>4 DEF SweepEnabled, CleanerSweep, Inv, TypeOK
    <3>2. ASSUME sessions[c] # None, Expired(sessions[c])
          PROVE  idle[sessions[c]] >= InactivityTimeout
      <4>1. idle[sessions[c]] \in Int
        BY <1>1, <3>2, ConstantsAssumption DEF Inv, TypeOK, IdleCap
      <4> QED
        BY <3>1, <3>2, <4>1, ConstantsAssumption DEF Expired
    <3>3. sessions'[c] = IF sessions[c] # None /\ Expired(sessions[c])
                         THEN None ELSE sessions[c]
      BY <2>4 DEF CleanerSweep
    <3> QED
      BY <3>1, <3>2, <3>3 DEF EndsForCause
  <2> QED
    BY <1>1, <2>1, <2>2, <2>3, <2>4, MapSteps
<1>2. Inv /\ SweepEnabled /\ [Next]_vars
        => [\A c \in Clients : EndsForCause(c)]_vars
  BY <1>1
<1> QED
  BY <1>2, Invariance, SweepEnabledInvariance, PTL
     DEF Spec, SessionEndsForCause
-----------------------------------------------------------------------------
\* A session is retired when its socket is open, no client is bound to it and
\* the reader has not just dialled it.
LEMMA RetiredIff ==
  ASSUME NEW s
  PROVE  s \in Retired <=> /\ s \in open
                           /\ \A c \in Clients : sessions[c] # s
                           /\ ~(rpc = "insert" /\ rs = s)
  BY DEF Retired, Dialled

\* The same in the next state.
LEMMA RetiredIffPrime ==
  ASSUME NEW s
  PROVE  s \in Retired' <=> /\ s \in open'
                            /\ \A c \in Clients : sessions'[c] # s
                            /\ ~(rpc' = "insert" /\ rs' = s)
  BY DEF Retired, Dialled

\* How a step changes the two variables of the abstract table.
LEMMA TableStep ==
  ASSUME Inv, [Next]_vars
  PROVE  [Table!TableNext]_(Table!tableVars)
<1> USE ConstantsAssumption DEF Inv, TypeOK, MappedSessionServed,
        HandlerOwnsSocket, Table!tableVars
<1>1. CASE UNCHANGED <<sessions, open, rpc, rs>>
  BY <1>1 DEF Retired, Dialled
<1>2. ASSUME NEW c \in Clients, ClientSend(c)
      PROVE  UNCHANGED <<sessions, open, rpc, rs>>
  BY <1>2 DEF ClientSend, sessionVars
<1>3. CASE ReaderRecv \/ ReaderLookup \/ ReaderDialError \/ ReaderSpawn
           \/ ReaderTouch \/ ReaderWrite
  <2>1. UNCHANGED <<sessions, open>> /\ rpc # "insert" /\ rpc' # "insert"
    BY <1>3 DEF ReaderRecv, ReaderLookup, ReaderDialError, ReaderSpawn,
                ReaderTouch, ReaderWrite, sessionVars
  <2> QED
    BY <2>1 DEF Retired, Dialled
<1>4. CASE ReaderDialOk
  <2>1. PICK s \in Sess \ open : rs' = s /\ open' = open \union {s}
    BY <1>4 DEF ReaderDialOk
  <2>2. UNCHANGED sessions /\ rpc # "insert" /\ rpc' = "insert"
    BY <1>4 DEF ReaderDialOk
  <2> QED
    BY <2>1, <2>2 DEF Retired, Dialled
<1>5. CASE ReaderInsert
  <2>1. CASE sessions[cur] # None
    BY <1>5, <2>1 DEF ReaderInsert, Retired, Dialled
  <2>2. CASE sessions[cur] = None
    <3>1. /\ sessions' = [sessions EXCEPT ![cur] = rs]
          /\ UNCHANGED <<open, rs>> /\ rpc = "insert" /\ rpc' = "spawn"
      BY <1>5, <2>2 DEF ReaderInsert
    <3>2. Retired' = Retired
      BY <2>2, <3>1 DEF Retired, Dialled
    <3>3. rs \in Sess \ (Table!Bound \union Retired)
      BY <3>1, RetiredIff DEF Table!Bound
    <3>4. Table!Bind(cur)
      BY <2>2, <3>1, <3>2, <3>3 DEF Table!Bind
    <3> QED
      BY <3>4 DEF Table!TableNext
  <2> QED
    BY <2>1, <2>2
<1>6. ASSUME NEW s \in Sess, Handler(s)
      PROVE  [Table!TableNext]_(Table!tableVars)
  <2>1. CASE HandlerTop(s) \/ HandlerReadTimeout(s) \/ HandlerReadData(s)
             \/ HandlerReadError(s) \/ HandlerTouch(s) \/ HandlerReply(s)
    BY <1>1, <2>1 DEF HandlerTop, HandlerReadTimeout, HandlerReadData,
          HandlerReadError, HandlerTouch, HandlerReply, sessionVars, readerVars
  <2>2. CASE HandlerRemove(s)
    <3>1. hpc[s] = "remove" /\ UNCHANGED <<open, rpc, rs>>
      BY <2>2 DEF HandlerRemove, HandlerGo, readerVars
    <3>2. CASE sessions[src[s]] # s
      BY <1>1, <2>2, <3>1, <3>2 DEF HandlerRemove, removeSession
    <3>3. CASE sessions[src[s]] = s
      <4> DEFINE c == src[s]
      <4>1. sessions' = [d \in Clients |-> IF d \in {c} THEN None ELSE sessions[d]]
        BY <2>2, <3>3 DEF HandlerRemove, removeSession
      <4>2. Retired' = Retired \union {sessions[d] : d \in {c}}
        <5>1. s \in open /\ src[s] \in Clients /\ ~(rpc = "insert" /\ rs = s)
          BY <3>1
        <5>2. ASSUME NEW x PROVE x \in Retired' <=> x \in Retired \/ x = s
          BY <3>1, <3>3, <4>1, <5>1, RetiredIff, RetiredIffPrime
        <5> QED
          BY <3>3, <5>2
      <4>3. Table!Retire({c})
        BY <3>3, <4>1, <4>2 DEF Table!Retire
      <4> QED
        BY <4>3 DEF Table!TableNext
    <3> QED
      BY <3>2, <3>3
  <2>3. CASE HandlerClose(s)
    <3>1. hpc[s] = "close" /\ open' = open \ {s} /\ UNCHANGED <<sessions, rpc, rs>>
      BY <2>3 DEF HandlerClose, HandlerGo, readerVars
    <3>2. s \in Retired
      <4>1. s \in open /\ ~(rpc = "insert" /\ rs = s)
        BY <3>1
      <4>2. ASSUME NEW c \in Clients, sessions[c] = s PROVE FALSE
        BY <3>1, <4>2
      <4> QED
        BY <4>1, <4>2, RetiredIff
    <3>3. Retired' = Retired \ {s}
      <4>1. ASSUME NEW x PROVE x \in Retired' <=> x \in Retired /\ x # s
        BY <3>1, RetiredIff, RetiredIffPrime
      <4> QED
        BY <4>1
    <3> QED
      BY <3>1, <3>2, <3>3 DEF Table!TableNext, Table!Release
  <2> QED
    BY <1>6, <2>1, <2>2, <2>3 DEF Handler, HandlerStep
<1>7. CASE CleanerSweep
  <2> DEFINE gone == {c \in Clients : sessions[c] # None /\ Expired(sessions[c])}
  <2>1. /\ sessions' = [c \in Clients |-> IF c \in gone THEN None ELSE sessions[c]]
        /\ UNCHANGED <<open, rpc, rs>>
    BY <1>7 DEF CleanerSweep, readerVars
  <2> HIDE DEF gone
  <2>2. gone \subseteq Clients /\ \A c \in gone : sessions[c] # None
    BY DEF gone
  <2>3. Retired' = Retired \union {sessions[c] : c \in gone}
    <3>1. ASSUME NEW x
          PROVE  x \in Retired' <=> \/ x \in Retired
                                   \/ \E c \in gone : sessions[c] = x
      <4>1. ASSUME NEW c \in gone, sessions[c] = x
            PROVE  /\ x \in open
                   /\ \A d \in Clients : sessions'[d] # x
                   /\ ~(rpc = "insert" /\ rs = x)
        BY <2>1, <2>2, <4>1
      <4>2. CASE \E c \in gone : sessions[c] = x
        BY <2>1, <4>1, <4>2, RetiredIffPrime
      <4>3. CASE \A c \in gone : sessions[c] # x
        <5>1. CASE x \in open
          <6>1. x # None
            BY <5>1
          <6>2. (\A d \in Clients : sessions'[d] # x)
                  <=> (\A d \in Clients : sessions[d] # x)
            BY <2>1, <2>2, <4>3, <6>1
          <6> QED
            BY <2>1, <4>3, <6>2, RetiredIff, RetiredIffPrime
        <5>2. CASE x \notin open
          BY <2>1, <4>3, <5>2, RetiredIff, RetiredIffPrime
        <5> QED
          BY <5>1, <5>2
      <4> QED
        BY <4>2, <4>3
    <3> QED
      BY <3>1
  <2>4. Table!Retire(gone)
    BY <2>1, <2>2, <2>3 DEF Table!Retire
  <2> QED
    BY <2>2, <2>4 DEF Table!TableNext
<1>8. CASE CleanerTick \/ Tick \/ UNCHANGED vars
  BY <1>1, <1>8 DEF CleanerTick, Tick, vars, sessionVars, readerVars
<1> QED
  BY <1>1, <1>2, <1>3, <1>4, <1>5, <1>6, <1>7, <1>8
     DEF Next, ReaderStep, ReaderDial, Cleaner

\* The session map and its goroutines implement the abstract table: every
\* step of the reader, a handler, the cleaner or the clock is a step of the
\* table or leaves it alone.
THEOREM Refinement == Spec => ImplementsTable
<1>1. Init => Table!TableInit
  BY DEF Init, Table!TableInit, Retired
<1>2. Inv /\ [Next]_vars => [Table!TableNext]_(Table!tableVars)
  BY TableStep
<1> QED
  BY <1>1, <1>2, Invariance, PTL DEF Spec, ImplementsTable, Table!TableSpec
=============================================================================
