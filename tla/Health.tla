------------------------------- MODULE Health -------------------------------
(***************************************************************************)
(* CheckAlive probes (StartPingIPs and pingIPs in routine.go) and the      *)
(* /readyz endpoint that judges them (health.go).  Per connection a pinger *)
(* goroutine starts one probe goroutine per CheckAlive address and sleeps; *)
(* a probe that gets its pong writes the Unix time, in whole seconds, into *)
(* PingRecord; a /readyz request copies the records of one connection      *)
(* after the other and then compares them, one by one, with the clock.     *)
(*                                                                         *)
(* The clock has TPS ticks per second and only differences are kept:       *)
(* phase is the tick within the current second, and age[t] is time.Now()   *)
(* minus time.Unix(PingRecord[t], 0), so that storing time.Now().Unix()    *)
(* makes the age phase, not zero.                                          *)
(***************************************************************************)
EXTENDS Integers, FiniteSets

CONSTANTS
    Conns,      \* started WireGuard connections
    Targets,    \* their CheckAlive addresses, one element per connection and address
    ConnOf,     \* Targets -> Conns
    Interval,   \* Conns -> CheckAliveInterval, in seconds
    TPS,        \* ticks per second
    Slots,      \* Targets -> bound: names for its probes in flight together
    Prompt,     \* TRUE: goroutines run at once, time passes only while they wait
    Lossy,      \* TRUE: a ping may fail or stay unanswered
    MaxRtt,     \* ticks within which a pong comes in if Prompt and not Lossy
    MaxLag      \* bound: ticks a probe takes from reading its pong to time.Now()

ASSUME ConstantsAssumption ==
    /\ ConnOf \in [Targets -> Conns]
    /\ Interval \in [Conns -> Nat]
    /\ TPS \in Nat /\ TPS >= 2
    /\ Prompt \in BOOLEAN
    /\ Lossy \in BOOLEAN
    /\ MaxRtt \in Nat
    /\ MaxLag \in Nat

VARIABLES
    phase,    \* ticks since the last whole second
    age,      \* target -> age of its PingRecord, in ticks
    pong,     \* history: target -> ticks since its last pong was read (or its seed)
    heard,    \* history: targets of which a pong has been read
    pinger,   \* connection -> "off" | "ping" | "sleep"
    nap,      \* connection -> ticks the pinger has still to sleep
    probe,    \* target, slot -> "none" | "new" | "wait" | "record"
    waited,   \* target, slot -> ticks since the probe set its read deadline, or
              \* since it read its pong
    rpc,      \* the /readyz request: "idle" | "snapshot" | "judge"
    todo,     \* request: connections whose records are not yet copied
    unjudged, \* request: targets whose copied record is not yet judged
    snap,     \* request: target -> age of the record copied
    status,   \* request: "200" | "503", the status so far
    overdue,  \* history: targets silent for too long when the last request came
              \* in, and not heard of since
    answer    \* status of the last request: "none" | "200" | "503"

clockVars == <<phase, age, pong, heard>>
probeVars == <<pinger, nap, probe, waited>>
httpVars  == <<rpc, todo, unjudged, snap, status, answer>>
vars == <<clockVars, probeVars, httpVars, overdue>>

Probes == UNION {{t} \X Slots[t] : t \in Targets}

\* What /readyz tolerates: interval + 2 seconds.
Limit(c) == (Interval[c] + 2) * TPS

\* The read deadline of a probe, and the sleep with its floor of one second.
Deadline(c) == Interval[c] * TPS
Sleep(c) == (IF Interval[c] < 1 THEN 1 ELSE Interval[c]) * TPS

\* An age beyond every limit need not be told apart from a greater one; a pong
\* may be older than the record it made by MaxLag.
Cap(t) == Limit(ConnOf[t]) + 1
PongCap(t) == Cap(t) + MaxLag

TypeOK ==
    /\ phase \in 0..(TPS - 1)
    /\ age \in [Targets -> Nat] /\ \A t \in Targets : age[t] <= Cap(t)
    /\ pong \in [Targets -> Nat] /\ \A t \in Targets : pong[t] <= PongCap(t)
    /\ heard \subseteq Targets
    /\ pinger \in [Conns -> {"off", "ping", "sleep"}]
    /\ nap \in [Conns -> Nat]
    /\ probe \in [Probes -> {"none", "new", "wait", "record"}]
    /\ waited \in [Probes -> Nat]
    /\ rpc \in {"idle", "snapshot", "judge"}
    /\ todo \subseteq Conns
    /\ unjudged \subseteq Targets
    /\ snap \in [Targets -> Nat]
    /\ status \in {"200", "503"}
    /\ overdue \subseteq Targets
    /\ answer \in {"none", "200", "503"}

Init ==
    /\ phase \in 0..(TPS - 1)
    /\ age = [t \in Targets |-> 0]
    /\ pong = [t \in Targets |-> 0]
    /\ heard = {}
    /\ pinger = [c \in Conns |-> "off"]
    /\ nap = [c \in Conns |-> 0]
    /\ probe = [p \in Probes |-> "none"]
    /\ waited = [p \in Probes |-> 0]
    /\ rpc = "idle"
    /\ todo = {}
    /\ unjudged = {}
    /\ snap = [t \in Targets |-> 0]
    /\ status = "200"
    /\ overdue = {}
    /\ answer = "none"

-----------------------------------------------------------------------------
(* The pinger of connection c.                                             *)

\* Altered StartPingIPs: the records are seeded with zero.
StartPingIPs_ZeroSeed(c) ==
    /\ pinger[c] = "off"
    /\ age' = [t \in Targets |-> IF ConnOf[t] = c THEN Cap(t) ELSE age[t]]
    /\ pinger' = [pinger EXCEPT ![c] = "ping"]
    /\ UNCHANGED <<phase, pong, heard, nap, probe, waited, httpVars, overdue>>

\* Every record is seeded with the present second before the first probe.
StartPingIPs(c) ==
    /\ pinger[c] = "off"
    /\ age' = [t \in Targets |-> IF ConnOf[t] = c THEN phase ELSE age[t]]
    /\ pong' = [t \in Targets |-> IF ConnOf[t] = c THEN 0 ELSE pong[t]]
    /\ pinger' = [pinger EXCEPT ![c] = "ping"]
    /\ UNCHANGED <<phase, heard, nap, probe, waited, httpVars, overdue>>

\* One round: a probe goroutine per address, except where Dial fails; then the
\* sleep begins.
PingIPs(c) ==
    /\ pinger[c] = "ping"
    /\ \E sent \in SUBSET {p \in Probes : ConnOf[p[1]] = c /\ probe[p] = "none"} :
         /\ \A p, q \in sent : p[1] = q[1] => p = q
         /\ ~Lossy => \A t \in Targets : ConnOf[t] = c =>
                             \E p \in sent : p[1] = t
         /\ probe' = [p \in Probes |-> IF p \in sent THEN "new" ELSE probe[p]]
    /\ pinger' = [pinger EXCEPT ![c] = "sleep"]
    /\ nap' = [nap EXCEPT ![c] = Sleep(c)]
    /\ UNCHANGED <<clockVars, waited, httpVars, overdue>>

Wake(c) ==
    /\ pinger[c] = "sleep"
    /\ nap[c] = 0
    /\ pinger' = [pinger EXCEPT ![c] = "ping"]
    /\ UNCHANGED <<clockVars, nap, probe, waited, httpVars, overdue>>

-----------------------------------------------------------------------------
(* The probe goroutine p = <<target, slot>>.                               *)

\* The goroutine gets to run: it sets the read deadline and writes the echo
\* request, and ends if it cannot.
ProbeSend(p) ==
    /\ probe[p] = "new"
    /\ \E to \in (IF Lossy THEN {"wait", "none"} ELSE {"wait"}) :
         probe' = [probe EXCEPT ![p] = to]
    /\ waited' = [waited EXCEPT ![p] = 0]
    /\ UNCHANGED <<clockVars, pinger, nap, httpVars, overdue>>

\* A pong that matches the request is read before the deadline.
PongRead(p) ==
    /\ probe[p] = "wait"
    /\ waited[p] <= Deadline(ConnOf[p[1]])
    /\ probe' = [probe EXCEPT ![p] = "record"]
    /\ waited' = [waited EXCEPT ![p] = 0]
    /\ pong' = [pong EXCEPT ![p[1]] = 0]
    /\ heard' = heard \union {p[1]}
    /\ overdue' = overdue \ {p[1]}
    /\ UNCHANGED <<phase, age, pinger, nap, httpVars>>

\* The read ends without a pong: its deadline passed, or what came was not
\* the answer to this request.
ProbeFails(p) ==
    /\ probe[p] = "wait"
    /\ ~Lossy => waited[p] >= Deadline(ConnOf[p[1]])
    /\ probe' = [probe EXCEPT ![p] = "none"]
    /\ waited' = [waited EXCEPT ![p] = 0]
    /\ UNCHANGED <<clockVars, pinger, nap, httpVars, overdue>>

\* Altered ProbeRecord: the time is rounded up to the next second.
ProbeRecord_RoundUp(p) ==
    /\ probe[p] = "record"
    /\ age' = [age EXCEPT ![p[1]] = phase - TPS]
    /\ probe' = [probe EXCEPT ![p] = "none"]
    /\ waited' = [waited EXCEPT ![p] = 0]
    /\ UNCHANGED <<phase, pong, heard, pinger, nap, httpVars, overdue>>

\* Altered ProbeRecord: time.Now() is taken when the pong is read, before the
\* lock is.
ProbeRecord_ReadTime(p) ==
    /\ probe[p] = "record"
    /\ age' = [age EXCEPT ![p[1]] = waited[p] + ((phase - waited[p]) % TPS)]
    /\ probe' = [probe EXCEPT ![p] = "none"]
    /\ waited' = [waited EXCEPT ![p] = 0]
    /\ UNCHANGED <<phase, pong, heard, pinger, nap, httpVars, overdue>>

\* Under PingRecordLock: PingRecord[addr] = time.Now().Unix()
ProbeRecord(p) ==
    /\ probe[p] = "record"
    /\ age' = [age EXCEPT ![p[1]] = phase]
    /\ probe' = [probe EXCEPT ![p] = "none"]
    /\ waited' = [waited EXCEPT ![p] = 0]
    /\ UNCHANGED <<phase, pong, heard, pinger, nap, httpVars, overdue>>

-----------------------------------------------------------------------------
(* The endpoint.                                                           *)

\* A request comes in; main serves them only when every connection is up.
\* The registered connections are copied.
Request ==
    /\ rpc = "idle"
    /\ \A c \in Conns : pinger[c] # "off"
    /\ rpc' = "snapshot"
    /\ todo' = Conns
    /\ unjudged' = Targets
    /\ status' = "200"
    /\ overdue' = {t \in Targets : pong[t] = PongCap(t)}
    /\ answer' = "none"
    /\ UNCHANGED <<clockVars, probeVars, snap>>

\* snapshot: the records of c are copied under its PingRecordLock.
Snapshot(c) ==
    /\ rpc = "snapshot"
    /\ c \in todo
    /\ todo' = todo \ {c}
    /\ snap' = [t \in Targets |-> IF ConnOf[t] = c THEN age[t] ELSE snap[t]]
    /\ rpc' = IF todo' = {} THEN "judge" ELSE "snapshot"
    /\ UNCHANGED <<clockVars, probeVars, unjudged, status, answer, overdue>>

\* The copied record of t is older than interval + 2 s by now.
stale(t) == snap[t] > Limit(ConnOf[t])

\* Altered Judge: the last record judged decides.
Judge_LastWins(t) ==
    /\ rpc = "judge"
    /\ t \in unjudged
    /\ status' = IF stale(t) THEN "503" ELSE "200"
    /\ unjudged' = unjudged \ {t}
    /\ snap' = [u \in Targets |-> IF u \in unjudged' THEN snap[u] ELSE 0]
    /\ UNCHANGED <<clockVars, probeVars, rpc, todo, answer, overdue>>

\* pingSnapshot.stale: the copied records of a connection are compared with the
\* clock in turn, up to the first that is too old.  The copies no longer needed
\* are forgotten.
Judge(t) ==
    /\ rpc = "judge"
    /\ t \in unjudged
    /\ IF stale(t)
         THEN /\ status' = "503"
              /\ unjudged' = {u \in unjudged : ConnOf[u] # ConnOf[t]}
         ELSE /\ status' = status
              /\ unjudged' = unjudged \ {t}
    /\ snap' = [u \in Targets |-> IF u \in unjudged' THEN snap[u] ELSE 0]
    /\ UNCHANGED <<clockVars, probeVars, rpc, todo, answer, overdue>>

Respond ==
    /\ rpc = "judge"
    /\ unjudged = {}
    /\ answer' = status
    /\ status' = "200"
    /\ rpc' = "idle"
    /\ UNCHANGED <<clockVars, probeVars, todo, unjudged, snap, overdue>>

-----------------------------------------------------------------------------
(* Time.                                                                   *)

\* Some goroutine has something to do at this very instant.
Urgent ==
    \/ rpc # "idle"
    \/ \E c \in Conns : pinger[c] = "ping" \/ (pinger[c] = "sleep" /\ nap[c] = 0)
    \/ \E p \in Probes :
         \/ probe[p] \in {"new", "record"}
         \/ /\ probe[p] = "wait"
            /\ \/ waited[p] >= Deadline(ConnOf[p[1]])
               \/ ~Lossy /\ waited[p] >= MaxRtt

\* A probe has kept its pong for MaxLag without recording it.
Lagging == \E p \in Probes : probe[p] = "record" /\ waited[p] >= MaxLag

Older(a, cap) == IF a < cap THEN a + 1 ELSE a

Copied(t) == rpc # "idle" /\ ConnOf[t] \notin todo /\ t \in unjudged

Tick ==
    /\ ~(Prompt /\ Urgent)
    /\ ~Lagging
    /\ phase' = IF phase = TPS - 1 THEN 0 ELSE phase + 1
    /\ age' = [t \in Targets |-> Older(age[t], Cap(t))]
    /\ pong' = [t \in Targets |-> Older(pong[t], PongCap(t))]
    /\ snap' = [t \in Targets |-> IF Copied(t) THEN Older(snap[t], Cap(t)) ELSE snap[t]]
    /\ nap' = [c \in Conns |-> IF nap[c] > 0 THEN nap[c] - 1 ELSE 0]
    /\ waited' = [p \in Probes |->
                    CASE probe[p] = "record" -> waited[p] + 1
                      [] probe[p] = "wait"   -> Older(waited[p], Deadline(ConnOf[p[1]]) + 1)
                      [] OTHER               -> waited[p]]
    /\ UNCHANGED <<heard, pinger, probe, rpc, todo, unjudged, status, overdue, answer>>

-----------------------------------------------------------------------------
Next ==
    \/ \E c \in Conns : StartPingIPs(c) \/ PingIPs(c) \/ Wake(c) \/ Snapshot(c)
    \/ \E p \in Probes : ProbeSend(p) \/ PongRead(p) \/ ProbeFails(p) \/ ProbeRecord(p)
    \/ Request
    \/ \E t \in Targets : Judge(t)
    \/ Respond
    \/ Tick

Spec == Init /\ [][Next]_vars

-----------------------------------------------------------------------------
\* A PingRecord never moves back in time, although probes of one address
\* overlap and reach the lock in any order: ages grow with the clock only.
RecordsMoveForward ==
    [][\A t \in Targets : pinger[ConnOf[t]] # "off" =>
         age'[t] <= age[t] + (IF phase' = phase THEN 0 ELSE 1)]_vars

\* /readyz does not answer 200 to a request while some CheckAlive address has
\* been silent all along: its last pong (or its seed) was read more than
\* interval + 2 seconds, and the time a probe takes to record it, before the
\* request came in, and none was read before the answer.  The records are
\* copied connection by connection and judged one by one, later, while probes
\* go on writing.
ReadyMeansFresh == answer = "200" => overdue = {}

\* A tunnel whose peers answer every ping within a second is never reported
\* unready: the two seconds of leeway absorb the round trip and the truncation
\* of the records to whole seconds.
AliveIsReady == answer # "503"

\* README: "If a pong has not been received from one of the addresses within
\* the last CheckAliveInterval seconds (+2 seconds ...), then it would respond
\* with a 503, otherwise a 200."  So with a pong that recent received from
\* every address, 200; a pong read at the very instant of the answer may be too
\* late for it.
FreshMeansReady ==
    [][answer # answer' /\ answer' = "503" =>
         \E t \in Targets : t \notin heard \/ pong[t] \notin 1..Limit(ConnOf[t])]_vars
=============================================================================
