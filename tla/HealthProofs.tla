---------------------------- MODULE HealthProofs ----------------------------
(***************************************************************************)
(* Proofs about Health, for any connections, addresses, intervals and      *)
(* clock resolution.                                                       *)
(***************************************************************************)
EXTENDS Health, TLAPS

\* The limit of /readyz is at least two seconds.
LEMMA LimitType ==
  ASSUME NEW c \in Conns
  PROVE  Limit(c) \in Nat /\ Limit(c) >= 2 * TPS
<1> DEFINE i == Interval[c]
<1>1. i \in Nat /\ TPS \in Nat
  BY ConstantsAssumption
<1>2. i * TPS \in Nat
  BY <1>1
<1>3. (i + 2) * TPS = i * TPS + 2 * TPS
  BY <1>1
<1> QED
  BY <1>1, <1>2, <1>3 DEF Limit

\* Caps are beyond the limits.
LEMMA CapType ==
  ASSUME NEW t \in Targets
  PROVE  Cap(t) \in Nat /\ Cap(t) = Limit(ConnOf[t]) + 1 /\ Cap(t) > 2 * TPS
<1>1. ConnOf[t] \in Conns
  BY ConstantsAssumption
<1> QED
  BY <1>1, LimitType, ConstantsAssumption DEF Cap

\* The bound on the time since a pong is beyond the limit by what a probe may lag.
LEMMA PongCapType ==
  ASSUME NEW t \in Targets
  PROVE  PongCap(t) \in Nat /\ PongCap(t) = Limit(ConnOf[t]) + 1 + MaxLag
  BY CapType, ConstantsAssumption DEF PongCap

\* Deadlines and sleeps are natural numbers of ticks.
LEMMA DeadlineType ==
  ASSUME NEW c \in Conns
  PROVE  Deadline(c) \in Nat /\ Sleep(c) \in Nat
  BY ConstantsAssumption DEF Deadline, Sleep

\* A probe is one of an address of a connection.
LEMMA ProbeType ==
  ASSUME NEW p \in Probes
  PROVE  p[1] \in Targets /\ ConnOf[p[1]] \in Conns
<1>1. PICK t \in Targets : p \in {t} \X Slots[t]
  BY DEF Probes
<1> QED
  BY <1>1, ConstantsAssumption

\* Every step keeps every variable in its range.
LEMMA TypeInvariance == TypeOK /\ [Next]_vars => TypeOK'
<1> SUFFICES ASSUME TypeOK, [Next]_vars PROVE TypeOK'
  OBVIOUS
<1> USE ConstantsAssumption DEF TypeOK, clockVars, probeVars, httpVars
<1>0. \A t \in Targets : Cap(t) \in Nat /\ Cap(t) > 2 * TPS /\ PongCap(t) \in Nat
  BY CapType, PongCapType
<1>a. \A p \in Probes : p[1] \in Targets /\ ConnOf[p[1]] \in Conns
  BY ProbeType
<1>1. ASSUME NEW c \in Conns, StartPingIPs(c) PROVE TypeOK'
  BY <1>0, <1>1 DEF StartPingIPs
<1>2. ASSUME NEW c \in Conns, PingIPs(c) PROVE TypeOK'
  BY <1>2, DeadlineType DEF PingIPs
<1>3. ASSUME NEW c \in Conns, Wake(c) PROVE TypeOK'
  BY <1>3 DEF Wake
<1>4. ASSUME NEW c \in Conns, Snapshot(c) PROVE TypeOK'
  BY <1>4 DEF Snapshot
<1>5. ASSUME NEW p \in Probes, ProbeSend(p) \/ ProbeFails(p) PROVE TypeOK'
  BY <1>5 DEF ProbeSend, ProbeFails
<1>6. ASSUME NEW p \in Probes, PongRead(p) PROVE TypeOK'
  BY <1>0, <1>6, <1>a DEF PongRead
<1>7. ASSUME NEW p \in Probes, ProbeRecord(p) PROVE TypeOK'
  BY <1>0, <1>7, <1>a DEF ProbeRecord
<1>8. CASE Request \/ Respond
  BY <1>8 DEF Request, Respond
<1>9. ASSUME NEW t \in Targets, Judge(t) PROVE TypeOK'
  BY <1>9 DEF Judge
<1>10. CASE Tick
  <2>1. phase' \in 0..(TPS - 1)
    BY <1>10 DEF Tick
  <2>2. /\ age' \in [Targets -> Nat] /\ \A t \in Targets : age'[t] <= Cap(t)
        /\ pong' \in [Targets -> Nat] /\ \A t \in Targets : pong'[t] <= PongCap(t)
    BY <1>0, <1>10 DEF Tick, Older
  <2>3. snap' \in [Targets -> Nat] /\ nap' \in [Conns -> Nat]
    BY <1>0, <1>10 DEF Tick, Older
  <2>4. waited' \in [Probes -> Nat]
    <3>1. \A p \in Probes : Deadline(ConnOf[p[1]]) \in Nat
      BY <1>a, DeadlineType
    <3> QED
      BY <1>10, <3>1 DEF Tick, Older
  <2> QED
    BY <1>10, <2>1, <2>2, <2>3, <2>4 DEF Tick
<1>11. CASE UNCHANGED vars
  BY <1>11 DEF vars
<1> QED
  BY <1>1, <1>2, <1>3, <1>4, <1>5, <1>6, <1>7, <1>8, <1>9, <1>10, <1>11 DEF Next

\* Every reachable state is well typed; in particular no PingRecord is ever
\* in the future.
THEOREM TypeCorrect == Spec => []TypeOK
<1>1. Init => TypeOK
  <2> SUFFICES ASSUME Init PROVE TypeOK
    OBVIOUS
  <2>1. \A t \in Targets : Cap(t) \in Nat /\ PongCap(t) \in Nat
    BY CapType, PongCapType
  <2> QED
    BY <2>1, ConstantsAssumption DEF Init, TypeOK
<1> QED
  BY <1>1, TypeInvariance, PTL DEF Spec

-----------------------------------------------------------------------------
\* A record, and a copy of it still to be judged, is newer than the last pong by
\* at most what a probe lags behind its pong.
RecordsLag ==
    /\ \A p \in Probes : probe[p] = "record" =>
         pong[p[1]] <= waited[p] /\ waited[p] <= MaxLag
    /\ \A t \in Targets : pong[t] <= age[t] + MaxLag
    /\ \A t \in Targets : Copied(t) => pong[t] <= snap[t] + MaxLag

\* What a request has found out: an address that is overdue has not been heard
\* of, and unless the status is 503 its record is still to be judged.
RequestSound ==
    /\ rpc # "idle" \/ overdue # {} => \A c \in Conns : pinger[c] # "off"
    /\ rpc = "judge" => todo = {}
    /\ \A t \in overdue : pong[t] = PongCap(t)
    /\ rpc # "idle" /\ status = "200" => overdue \subseteq unjudged

\* Records lag no further behind at every step.
LEMMA RecordsLagStep ==
  ASSUME TypeOK, RecordsLag, [Next]_vars
  PROVE  RecordsLag'
<1> USE ConstantsAssumption DEF TypeOK, RecordsLag, Copied, clockVars, probeVars, httpVars
<1>a. \A p \in Probes : p[1] \in Targets /\ ConnOf[p[1]] \in Conns
  BY ProbeType
<1>1. ASSUME NEW c \in Conns, StartPingIPs(c) PROVE RecordsLag'
  BY <1>1, <1>a DEF StartPingIPs
<1>2. ASSUME NEW c \in Conns, PingIPs(c) PROVE RecordsLag'
  <2>1. \A p \in Probes : probe'[p] = "record" => probe[p] = "record"
    BY <1>2 DEF PingIPs
  <2> QED
    BY <1>2, <2>1 DEF PingIPs
<1>3. ASSUME NEW c \in Conns, Wake(c) PROVE RecordsLag'
  BY <1>3 DEF Wake
<1>4. ASSUME NEW c \in Conns, Snapshot(c) PROVE RecordsLag'
  BY <1>4 DEF Snapshot
<1>5. ASSUME NEW p \in Probes, ProbeSend(p) \/ ProbeFails(p) PROVE RecordsLag'
  BY <1>5 DEF ProbeSend, ProbeFails
<1>6. ASSUME NEW p \in Probes, PongRead(p) PROVE RecordsLag'
  BY <1>6, <1>a DEF PongRead
<1>7. ASSUME NEW p \in Probes, ProbeRecord(p) PROVE RecordsLag'
  BY <1>7, <1>a DEF ProbeRecord
<1>8. CASE Request \/ Respond \/ UNCHANGED vars
  BY <1>8 DEF Request, Respond, vars
<1>9. ASSUME NEW t \in Targets, Judge(t) PROVE RecordsLag'
  BY <1>9 DEF Judge
<1>10. CASE Tick
  <2>1. \A t \in Targets : /\ Cap(t) \in Nat /\ PongCap(t) = Cap(t) + MaxLag
                           /\ pong'[t] = Older(pong[t], PongCap(t))
                           /\ age'[t] = Older(age[t], Cap(t))
                           /\ Copied(t) => snap'[t] = Older(snap[t], Cap(t))
    BY <1>10, CapType DEF Tick, PongCap
  <2>2. ASSUME NEW p \in Probes, probe'[p] = "record"
        PROVE  pong'[p[1]] <= waited'[p] /\ waited'[p] <= MaxLag
    <3>1. probe[p] = "record" /\ waited[p] < MaxLag /\ waited'[p] = waited[p] + 1
      BY <1>10, <2>2 DEF Tick, Lagging
    <3> QED
      BY <1>a, <2>1, <3>1 DEF Older
  <2>3. ASSUME NEW t \in Targets PROVE pong'[t] <= age'[t] + MaxLag
    BY <2>1 DEF Older
  <2>4. ASSUME NEW t \in Targets, Copied(t)' PROVE pong'[t] <= snap'[t] + MaxLag
    <3>1. Copied(t)
      BY <1>10, <2>4 DEF Tick
    <3> QED
      BY <2>1, <3>1 DEF Older
  <2> QED
    BY <2>2, <2>3, <2>4
<1> QED
  BY <1>1, <1>2, <1>3, <1>4, <1>5, <1>6, <1>7, <1>8, <1>9, <1>10 DEF Next

\* A request stays sound at every step: an overdue address has a record, and a
\* copy, that is too old whenever it is judged.
LEMMA RequestSoundStep ==
  ASSUME TypeOK, RecordsLag, RequestSound, [Next]_vars
  PROVE  RequestSound'
<1> USE ConstantsAssumption DEF TypeOK, RequestSound, clockVars, probeVars, httpVars
<1>a. \A p \in Probes : p[1] \in Targets /\ ConnOf[p[1]] \in Conns
  BY ProbeType
<1>1. ASSUME NEW c \in Conns, StartPingIPs(c) PROVE RequestSound'
  BY <1>1 DEF StartPingIPs
<1>2. ASSUME NEW c \in Conns, PingIPs(c) \/ Wake(c) PROVE RequestSound'
  BY <1>2 DEF PingIPs, Wake
<1>3. ASSUME NEW c \in Conns, Snapshot(c) PROVE RequestSound'
  BY <1>3 DEF Snapshot
<1>4. ASSUME NEW p \in Probes, ProbeSend(p) \/ ProbeFails(p) \/ ProbeRecord(p)
      PROVE  RequestSound'
  BY <1>4 DEF ProbeSend, ProbeFails, ProbeRecord
<1>5. ASSUME NEW p \in Probes, PongRead(p) PROVE RequestSound'
  BY <1>5, <1>a DEF PongRead
<1>6. CASE Request
  BY <1>6 DEF Request
<1>7. CASE Respond \/ UNCHANGED vars
  BY <1>7 DEF Respond, vars
<1>8. ASSUME NEW t \in Targets, Judge(t) PROVE RequestSound'
  <2>1. ASSUME t \in overdue PROVE stale(t)
    <3>1. Copied(t) /\ pong[t] = PongCap(t)
      BY <1>8, <2>1 DEF Judge, Copied
    <3>2. pong[t] <= snap[t] + MaxLag
      BY <3>1 DEF RecordsLag
    <3>3. PongCap(t) = Limit(ConnOf[t]) + 1 + MaxLag /\ Limit(ConnOf[t]) \in Nat
      BY PongCapType, LimitType
    <3> QED
      BY <3>1, <3>2, <3>3 DEF stale
  <2> QED
    BY <1>8, <2>1 DEF Judge
<1>9. CASE Tick
  <2>1. \A t \in overdue : pong'[t] = pong[t]
    BY <1>9 DEF Tick, Older
  <2> QED
    BY <1>9, <2>1 DEF Tick
<1> QED
  BY <1>1, <1>2, <1>3, <1>4, <1>5, <1>6, <1>7, <1>8, <1>9 DEF Next

\* Both hold always.
LEMMA RequestInvariance == Spec => [](RecordsLag /\ RequestSound)
<1>1. Init => RecordsLag /\ RequestSound
  BY ConstantsAssumption, ProbeType DEF Init, RecordsLag, RequestSound, Copied
<1>2. TypeOK /\ RecordsLag /\ RequestSound /\ [Next]_vars
        => RecordsLag' /\ RequestSound'
  BY RecordsLagStep, RequestSoundStep
<1> QED
  BY <1>1, <1>2, TypeCorrect, PTL DEF Spec

\* No request is answered 200 while an address is silent for too long from its
\* beginning to its end, for any number of connections and addresses, however
\* the copying and the judging interleave with the probes and the clock.
THEOREM ReadyIsFresh == Spec => []ReadyMeansFresh
<1>1. Init => ReadyMeansFresh
  BY DEF Init, ReadyMeansFresh
<1>2. TypeOK /\ RequestSound /\ ReadyMeansFresh /\ [Next]_vars => ReadyMeansFresh'
  <2> SUFFICES ASSUME TypeOK, RequestSound, ReadyMeansFresh, [Next]_vars
               PROVE  ReadyMeansFresh'
    OBVIOUS
  <2> USE DEF ReadyMeansFresh
  <2>1. CASE Respond
    BY <2>1 DEF Respond, RequestSound
  <2>2. CASE Request
    BY <2>2 DEF Request
  <2>3. ASSUME NEW p \in Probes, PongRead(p) PROVE ReadyMeansFresh'
    BY <2>3 DEF PongRead, httpVars
  <2>4. CASE UNCHANGED <<answer, overdue>>
    BY <2>4
  <2>5. \/ Respond \/ Request \/ (\E p \in Probes : PongRead(p))
        \/ UNCHANGED <<answer, overdue>>
    BY DEF Next, StartPingIPs, PingIPs, Wake, Snapshot, ProbeSend, ProbeFails,
           ProbeRecord, Judge, Tick, vars, httpVars
  <2> QED
    BY <2>1, <2>2, <2>3, <2>4, <2>5
<1> QED
  BY <1>1, <1>2, TypeCorrect, RequestInvariance, PTL DEF Spec

-----------------------------------------------------------------------------
\* A seeded record is at least as old as the present second is long.
SeededBehindPhase ==
    \A t \in Targets : pinger[ConnOf[t]] # "off" => phase <= age[t]

\* Probes belong to connections whose records were seeded.
ProbesSeeded ==
    \A p \in Probes : probe[p] # "none" => pinger[ConnOf[p[1]]] # "off"

\* Both hold always.
LEMMA SeededInvariance == Spec => [](SeededBehindPhase /\ ProbesSeeded)
<1>1. Init => SeededBehindPhase /\ ProbesSeeded
  BY ConstantsAssumption, ProbeType DEF Init, SeededBehindPhase, ProbesSeeded
<1>2. TypeOK /\ SeededBehindPhase /\ ProbesSeeded /\ [Next]_vars
        => SeededBehindPhase' /\ ProbesSeeded'
  <2> SUFFICES ASSUME TypeOK, SeededBehindPhase, ProbesSeeded, [Next]_vars
               PROVE  SeededBehindPhase' /\ ProbesSeeded'
    OBVIOUS
  <2> USE ConstantsAssumption DEF TypeOK, SeededBehindPhase, ProbesSeeded,
          clockVars, probeVars, httpVars
  <2>a. \A p \in Probes : p[1] \in Targets /\ ConnOf[p[1]] \in Conns
    BY ProbeType
  <2>1. ASSUME NEW c \in Conns, StartPingIPs(c)
        PROVE  SeededBehindPhase' /\ ProbesSeeded'
    BY <2>1, <2>a DEF StartPingIPs
  <2>2. ASSUME NEW c \in Conns, PingIPs(c)
        PROVE  SeededBehindPhase' /\ ProbesSeeded'
    <3>1. \A p \in Probes :
            probe'[p] # "none" => ConnOf[p[1]] = c \/ probe[p] # "none"
      BY <2>2 DEF PingIPs
    <3>2. pinger' = [pinger EXCEPT ![c] = "sleep"] /\ UNCHANGED clockVars
          /\ pinger[c] = "ping"
      BY <2>2 DEF PingIPs
    <3>3. SeededBehindPhase'
      BY <3>2
    <3>4. ASSUME NEW p \in Probes, probe'[p] # "none"
          PROVE  pinger'[ConnOf[p[1]]] # "off"
      BY <2>a, <3>1, <3>2, <3>4
    <3> QED
      BY <3>3, <3>4
  <2>3. ASSUME NEW c \in Conns, Wake(c) \/ Snapshot(c)
        PROVE  SeededBehindPhase' /\ ProbesSeeded'
    BY <2>3, <2>a DEF Wake, Snapshot
  <2>4. ASSUME NEW p \in Probes, ProbeSend(p) \/ PongRead(p) \/ ProbeFails(p) \/ ProbeRecord(p)
        PROVE  SeededBehindPhase' /\ ProbesSeeded'
    BY <2>4, <2>a DEF ProbeSend, PongRead, ProbeFails, ProbeRecord
  <2>5. CASE Request \/ (\E t \in Targets : Judge(t)) \/ Respond \/ UNCHANGED vars
    BY <2>5 DEF Request, Judge, Respond, vars
  <2>6. CASE Tick
    <3>1. \A t \in Targets : Cap(t) \in Nat /\ Cap(t) > 2 * TPS
      BY CapType
    <3>2. SeededBehindPhase'
      BY <2>6, <3>1 DEF Tick, Older
    <3>3. ProbesSeeded'
      BY <2>6 DEF Tick
    <3> QED
      BY <3>2, <3>3
  <2> QED
    BY <2>1, <2>2, <2>3, <2>4, <2>5, <2>6 DEF Next
<1> QED
  BY <1>1, <1>2, TypeCorrect, PTL DEF Spec

\* No PingRecord is ever overwritten with an earlier time, however the probes
\* of an address overlap.
THEOREM RecordsAdvance == Spec => RecordsMoveForward
<1>1. ASSUME TypeOK, SeededBehindPhase, ProbesSeeded, [Next]_vars,
             NEW t \in Targets, pinger[ConnOf[t]] # "off"
      PROVE  age'[t] <= age[t] + (IF phase' = phase THEN 0 ELSE 1)
  <2> USE <1>1, ConstantsAssumption DEF TypeOK
  <2>1. ASSUME NEW c \in Conns, StartPingIPs(c)
        PROVE  age'[t] = age[t]
    BY <2>1 DEF StartPingIPs
  <2>2. ASSUME NEW p \in Probes, ProbeRecord(p)
        PROVE  age'[t] <= age[t] /\ phase' = phase
    BY <2>2, ProbeType DEF ProbeRecord, SeededBehindPhase
  <2>3. CASE Tick
    <3>1. phase' # phase
      BY <2>3 DEF Tick
    <3>2. age'[t] <= age[t] + 1
      BY <2>3, CapType DEF Tick, Older
    <3> QED
      BY <3>1, <3>2
  <2>4. CASE UNCHANGED age
    BY <2>4
  <2>5. \/ UNCHANGED age
        \/ \E c \in Conns : StartPingIPs(c)
        \/ \E p \in Probes : ProbeRecord(p)
        \/ Tick
    BY DEF Next, PingIPs, Wake, Snapshot, ProbeSend, PongRead, ProbeFails, Request,
           Judge, Respond, vars, clockVars
  <2> QED
    BY <2>1, <2>2, <2>3, <2>4, <2>5
<1>2. TypeOK /\ SeededBehindPhase /\ ProbesSeeded /\ [Next]_vars =>
        [\A t \in Targets : pinger[ConnOf[t]] # "off" =>
           age'[t] <= age[t] + (IF phase' = phase THEN 0 ELSE 1)]_vars
  BY <1>1
<1> QED
  BY <1>2, TypeCorrect, SeededInvariance, PTL DEF Spec, RecordsMoveForward
-----------------------------------------------------------------------------
\* Goroutines run at once and every ping is answered within a second and
\* before the read deadline of its probe.
AnswersInTime ==
    /\ Prompt
    /\ ~Lossy
    /\ MaxRtt <= TPS
    /\ \A c \in Conns : MaxRtt < Deadline(c)

\* Ticks since the pinger of c started its last round.
Elapsed(c) == Sleep(c) - nap[c]

\* The probe p was started by the present round and its pong is still due.
Due(p) ==
    LET c == ConnOf[p[1]] IN
    /\ pinger[c] = "sleep"
    /\ probe[p] = "new" => Elapsed(c) = 0
    /\ probe[p] = "wait" => waited[p] = Elapsed(c)
    /\ Elapsed(c) <= MaxRtt

\* A round starts at most one probe per address, and it has ended when the next
\* one starts.
OneRound ==
    /\ \A p \in Probes : probe[p] # "none" => Due(p)
    /\ \A p, q \in Probes : probe[p] # "none" /\ probe[q] # "none" /\ p[1] = q[1] => p = q

\* How old a record can be: since its pong came in one round has passed, and the
\* time up to the next pong; the truncation to seconds adds less than a second.
AgeBound(t) ==
    LET c == ConnOf[t] IN
    CASE pinger[c] = "ping" -> Sleep(c)
      [] OTHER -> Elapsed(c) + (IF \E p \in Probes : p[1] = t /\ probe[p] # "none"
                                THEN Sleep(c) ELSE 0)

\* Records are renewed in every round, and so are the copies of a request, which
\* takes no time.
Renewed ==
    /\ \A c \in Conns : nap[c] <= Sleep(c)
    /\ \A t \in Targets : pinger[ConnOf[t]] # "off" => age[t] < AgeBound(t) + TPS
    /\ rpc # "idle" => \A c \in Conns : pinger[c] # "off"
    /\ \A t \in Targets : Copied(t) => snap[t] < Sleep(ConnOf[t]) + MaxRtt + TPS
    /\ status = "200"

\* The measures of a connection whose answers come in time.
LEMMA InTimeMeasures ==
  ASSUME AnswersInTime, NEW c \in Conns
  PROVE  /\ Sleep(c) \in Nat /\ Deadline(c) = Sleep(c)
         /\ Limit(c) = Sleep(c) + 2 * TPS
         /\ MaxRtt < Sleep(c)
<1> DEFINE i == Interval[c]
<1>1. i \in Nat /\ TPS \in Nat /\ MaxRtt \in Nat /\ MaxRtt < i * TPS
  BY ConstantsAssumption DEF AnswersInTime, Deadline
<1>2. i >= 1
  BY <1>1
<1>3. (i + 2) * TPS = i * TPS + 2 * TPS /\ i * TPS \in Nat
  BY <1>1
<1> QED
  BY <1>1, <1>2, <1>3 DEF Sleep, Deadline, Limit

\* The probes in flight keep to one round at every step.
LEMMA OneRoundStep ==
  ASSUME AnswersInTime, TypeOK, OneRound, Renewed, [Next]_vars
  PROVE  OneRound'
<1> USE ConstantsAssumption DEF TypeOK, OneRound, Due, Elapsed, clockVars, probeVars, httpVars
<1>0. \A c \in Conns : Sleep(c) \in Nat /\ Deadline(c) = Sleep(c) /\ MaxRtt < Sleep(c)
  BY InTimeMeasures
<1>a. \A p \in Probes : p[1] \in Targets /\ ConnOf[p[1]] \in Conns
  BY ProbeType
<1>1. ASSUME NEW c \in Conns, StartPingIPs(c) PROVE OneRound'
  BY <1>1, <1>a DEF StartPingIPs
<1>2. ASSUME NEW c \in Conns, PingIPs(c) PROVE OneRound'
  <2>1. PICK sent \in SUBSET {p \in Probes : ConnOf[p[1]] = c /\ probe[p] = "none"} :
          /\ \A p, q \in sent : p[1] = q[1] => p = q
          /\ probe' = [p \in Probes |-> IF p \in sent THEN "new" ELSE probe[p]]
    BY ONLY <1>2, Zenon DEF PingIPs
  <2>2. /\ pinger[c] = "ping" /\ pinger' = [pinger EXCEPT ![c] = "sleep"]
        /\ nap' = [nap EXCEPT ![c] = Sleep(c)] /\ waited' = waited
    BY <1>2 DEF PingIPs
  <2>3. \A p \in Probes : ConnOf[p[1]] = c => probe[p] = "none"
    BY <2>2
  <2>4. ASSUME NEW p \in Probes, probe'[p] # "none" PROVE Due(p)'
    BY <1>0, <1>a, <2>1, <2>2, <2>3, <2>4
  <2>5. ASSUME NEW p \in Probes, NEW q \in Probes,
               probe'[p] # "none", probe'[q] # "none", p[1] = q[1]
        PROVE  p = q
    BY <2>1, <2>3, <2>5
  <2> QED
    BY <2>4, <2>5
<1>3. ASSUME NEW c \in Conns, Wake(c) PROVE OneRound'
  <2>1. \A p \in Probes : ConnOf[p[1]] = c => probe[p] = "none"
    BY <1>0, <1>3 DEF Wake
  <2> QED
    BY <1>3, <1>a, <2>1 DEF Wake
<1>4. ASSUME NEW c \in Conns, Snapshot(c) PROVE OneRound'
  BY <1>4 DEF Snapshot
<1>5. ASSUME NEW p \in Probes, ProbeSend(p) \/ PongRead(p) PROVE OneRound'
  <2>1. /\ probe[p] \in {"new", "wait"} /\ probe[p] # "none"
        /\ \E to \in {"wait", "record"} : probe' = [probe EXCEPT ![p] = to]
        /\ waited' = [waited EXCEPT ![p] = 0]
        /\ probe'[p] = "wait" => probe[p] = "new"
        /\ UNCHANGED <<pinger, nap>>
    BY <1>5 DEF ProbeSend, PongRead, AnswersInTime
  <2>2. ASSUME NEW q \in Probes, probe'[q] # "none" PROVE Due(q)' /\ probe[q] # "none"
    BY <1>0, <1>a, <2>1, <2>2
  <2> QED
    BY <2>2
<1>6. ASSUME NEW p \in Probes, ProbeFails(p) \/ ProbeRecord(p) PROVE OneRound'
  BY <1>6 DEF ProbeFails, ProbeRecord
<1>7. CASE Request \/ (\E t \in Targets : Judge(t)) \/ Respond \/ UNCHANGED vars
  BY <1>7 DEF Request, Judge, Respond, vars
<1>8. CASE Tick
  <2>1. /\ ~Urgent /\ UNCHANGED <<pinger, probe>>
        /\ nap' = [c \in Conns |-> IF nap[c] > 0 THEN nap[c] - 1 ELSE 0]
        /\ \A p \in Probes : probe[p] = "wait" =>
             waited'[p] = Older(waited[p], Deadline(ConnOf[p[1]]) + 1)
    BY <1>8 DEF Tick, AnswersInTime
  <2>2. ASSUME NEW p \in Probes, probe[p] # "none" PROVE Due(p)'
    <3>1. probe[p] = "wait" /\ waited[p] < MaxRtt /\ nap[ConnOf[p[1]]] > 0
          /\ pinger[ConnOf[p[1]]] = "sleep" /\ waited[p] = Elapsed(ConnOf[p[1]])
      BY <1>a, <2>1, <2>2 DEF Urgent, AnswersInTime
    <3>2. waited'[p] = waited[p] + 1
      BY <1>0, <1>a, <2>1, <3>1 DEF Older
    <3>3. nap'[ConnOf[p[1]]] = nap[ConnOf[p[1]]] - 1
      BY <1>a, <2>1, <3>1
    <3> QED
      BY <1>0, <1>a, <2>1, <3>1, <3>2, <3>3
  <2> QED
    BY <2>1, <2>2
<1> QED
  BY <1>1, <1>2, <1>3, <1>4, <1>5, <1>6, <1>7, <1>8 DEF Next

\* Records and copies stay within their bounds at every step.
LEMMA RenewedStep ==
  ASSUME AnswersInTime, TypeOK, RequestSound, OneRound, Renewed, [Next]_vars
  PROVE  Renewed'
<1> DEFINE Pending(t) == \E p \in Probes : p[1] = t /\ probe[p] # "none"
<1> USE ConstantsAssumption DEF TypeOK, Renewed, Copied, AgeBound, Elapsed,
        clockVars, probeVars, httpVars
<1>0. \A c \in Conns : Sleep(c) \in Nat /\ Deadline(c) = Sleep(c) /\ MaxRtt < Sleep(c)
  BY InTimeMeasures
<1>a. \A p \in Probes : p[1] \in Targets /\ ConnOf[p[1]] \in Conns
  BY ProbeType
<1>b. \A t \in Targets : ConnOf[t] \in Conns
  OBVIOUS
<1>1. ASSUME NEW c \in Conns, StartPingIPs(c) PROVE Renewed'
  BY <1>0, <1>1, <1>b DEF StartPingIPs
<1>2. ASSUME NEW c \in Conns, PingIPs(c) PROVE Renewed'
  <2>1. /\ pinger[c] = "ping" /\ pinger' = [pinger EXCEPT ![c] = "sleep"]
        /\ nap' = [nap EXCEPT ![c] = Sleep(c)]
        /\ UNCHANGED <<age, httpVars>>
    BY <1>2 DEF PingIPs
  <2>2. PICK sent \in SUBSET {p \in Probes : ConnOf[p[1]] = c /\ probe[p] = "none"} :
          /\ ~Lossy => \A t \in Targets : ConnOf[t] = c => \E p \in sent : p[1] = t
          /\ probe' = [p \in Probes |-> IF p \in sent THEN "new" ELSE probe[p]]
    BY ONLY <1>2, Zenon DEF PingIPs
  <2>3. ASSUME NEW t \in Targets PROVE Pending(t)' <=> ConnOf[t] = c \/ Pending(t)
    BY <2>2 DEF AnswersInTime
  <2>4. ASSUME NEW t \in Targets, pinger'[ConnOf[t]] # "off"
        PROVE  age'[t] < AgeBound(t)' + TPS
    <3>1. CASE ConnOf[t] = c
      BY <1>0, <2>1, <2>3, <3>1
    <3>2. CASE ConnOf[t] # c
      BY <1>b, <2>1, <2>3, <2>4, <3>2
    <3> QED
      BY <3>1, <3>2
  <2> QED
    BY <1>0, <2>1, <2>4
<1>3. ASSUME NEW c \in Conns, Wake(c) PROVE Renewed'
  <2>1. \A p \in Probes : ConnOf[p[1]] = c => probe[p] = "none"
    BY <1>0, <1>3 DEF Wake, OneRound, Due
  <2> QED
    BY <1>0, <1>3, <1>b, <2>1 DEF Wake
<1>4. ASSUME NEW c \in Conns, Snapshot(c) PROVE Renewed'
  <2>1. ASSUME NEW t \in Targets PROVE age[t] < Sleep(ConnOf[t]) + MaxRtt + TPS
    <3>1. age[t] < AgeBound(t) + TPS
      BY <1>4, <1>b DEF Snapshot
    <3>2. AgeBound(t) <= Sleep(ConnOf[t]) + MaxRtt
      <4>1. CASE pinger[ConnOf[t]] = "ping"
        BY <1>0, <1>b, <4>1
      <4>2. CASE pinger[ConnOf[t]] # "ping" /\ Pending(t)
        BY <1>0, <1>b, <4>2 DEF OneRound, Due
      <4>3. CASE pinger[ConnOf[t]] # "ping" /\ ~Pending(t)
        BY <1>0, <1>b, <4>3
      <4> QED
        BY <4>1, <4>2, <4>3
    <3> QED
      BY <1>0, <1>b, <3>1, <3>2
  <2> QED
    BY <1>4, <2>1 DEF Snapshot
<1>5. ASSUME NEW p \in Probes, ProbeSend(p) \/ PongRead(p) PROVE Renewed'
  <2>1. \A t \in Targets : Pending(t)' <=> Pending(t)
    BY <1>5, <1>a DEF ProbeSend, PongRead, AnswersInTime
  <2> QED
    BY <1>5, <2>1 DEF ProbeSend, PongRead
<1>6. ASSUME NEW p \in Probes, ProbeFails(p) PROVE Renewed'
  BY <1>0, <1>6, <1>a DEF ProbeFails, OneRound, Due, AnswersInTime
<1>7. ASSUME NEW p \in Probes, ProbeRecord(p) PROVE Renewed'
  <2>1. /\ age' = [age EXCEPT ![p[1]] = phase] /\ probe[p] = "record"
        /\ probe' = [probe EXCEPT ![p] = "none"]
        /\ UNCHANGED <<pinger, nap, httpVars>>
    BY <1>7 DEF ProbeRecord
  <2>2. pinger[ConnOf[p[1]]] = "sleep"
    BY <2>1 DEF OneRound, Due
  <2>3. ASSUME NEW t \in Targets, pinger'[ConnOf[t]] # "off"
        PROVE  age'[t] < AgeBound(t)' + TPS
    <3>1. CASE t = p[1]
      BY <1>0, <1>a, <2>1, <2>2, <3>1
    <3>2. CASE t # p[1]
      <4>1. Pending(t)' <=> Pending(t)
        BY <2>1, <3>2
      <4> QED
        BY <2>1, <2>3, <3>2, <4>1
    <3> QED
      BY <3>1, <3>2
  <2> QED
    BY <2>1, <2>3
<1>8. CASE Request
  BY <1>8 DEF Request
<1>9. CASE Respond \/ UNCHANGED vars
  BY <1>9 DEF Respond, vars
<1>10. ASSUME NEW t \in Targets, Judge(t) PROVE Renewed'
  <2>1. ~stale(t)
    <3>1. snap[t] < Sleep(ConnOf[t]) + MaxRtt + TPS
      BY <1>10 DEF Judge, RequestSound
    <3>2. /\ Sleep(ConnOf[t]) \in Nat /\ Limit(ConnOf[t]) = Sleep(ConnOf[t]) + 2 * TPS
          /\ MaxRtt <= TPS
      BY <1>b, InTimeMeasures DEF AnswersInTime
    <3> QED
      BY <3>1, <3>2 DEF stale
  <2> QED
    BY <1>10, <2>1 DEF Judge
<1>11. CASE Tick
  <2>1. /\ ~Urgent /\ UNCHANGED <<pinger, probe, rpc, todo, status>>
        /\ age' = [t \in Targets |-> Older(age[t], Cap(t))]
        /\ nap' = [c \in Conns |-> IF nap[c] > 0 THEN nap[c] - 1 ELSE 0]
    BY <1>11 DEF Tick, AnswersInTime
  <2>2. rpc = "idle" /\ \A c \in Conns : pinger[c] # "ping"
    BY <2>1 DEF Urgent
  <2>3. ASSUME NEW t \in Targets, pinger[ConnOf[t]] # "off"
        PROVE  age'[t] < AgeBound(t)' + TPS
    <3>1. age'[t] <= age[t] + 1
      BY <2>1, CapType DEF Older
    <3>2. pinger[ConnOf[t]] = "sleep" /\ nap[ConnOf[t]] > 0
      BY <1>b, <2>1, <2>2, <2>3 DEF Urgent
    <3>3. AgeBound(t)' = AgeBound(t) + 1
      <4>1. nap'[ConnOf[t]] = nap[ConnOf[t]] - 1 /\ pinger'[ConnOf[t]] = "sleep"
        BY <1>b, <2>1, <3>2
      <4>2. Pending(t)' <=> Pending(t)
        BY <2>1
      <4> QED
        BY <1>0, <1>b, <3>2, <4>1, <4>2
    <3>4. AgeBound(t) \in Int
      BY <1>0, <1>b
    <3>5. age'[t] \in Nat /\ age[t] \in Nat
      BY <2>1, CapType DEF Older
    <3> QED
      BY <2>3, <3>1, <3>3, <3>4, <3>5
  <2>4. \A c \in Conns : nap'[c] <= Sleep(c)
    BY <1>0, <2>1
  <2> QED
    BY <2>1, <2>2, <2>3, <2>4
<1> QED
  BY <1>1, <1>2, <1>3, <1>4, <1>5, <1>6, <1>7, <1>8, <1>9, <1>10, <1>11 DEF Next

\* A connection whose peers answer every ping within a second, and before the
\* read deadline, is never reported unready, whatever the intervals, the number
\* of addresses and the moments at which /readyz is asked: the two seconds of
\* leeway cover the round trip and the truncation to whole seconds.
THEOREM AliveReady == AnswersInTime => (Spec => []AliveIsReady)
<1> SUFFICES ASSUME AnswersInTime PROVE Spec => []AliveIsReady
  OBVIOUS
<1>1. Init => OneRound /\ Renewed /\ AliveIsReady
  <2>1. \A c \in Conns : Sleep(c) \in Nat
    BY InTimeMeasures
  <2> QED
    BY <2>1, ConstantsAssumption DEF Init, OneRound, Renewed, Copied, AliveIsReady
<1>2. TypeOK /\ RequestSound /\ OneRound /\ Renewed /\ AliveIsReady /\ [Next]_vars
        => OneRound' /\ Renewed' /\ AliveIsReady'
  <2> SUFFICES ASSUME TypeOK, RequestSound, OneRound, Renewed, AliveIsReady, [Next]_vars
               PROVE  AliveIsReady'
    BY OneRoundStep, RenewedStep
  <2>1. CASE Respond
    BY <2>1 DEF Respond, Renewed, AliveIsReady
  <2>2. CASE ~Respond
    BY <2>2 DEF Next, vars, httpVars, AliveIsReady, StartPingIPs, PingIPs, Wake, Snapshot,
                ProbeSend, PongRead, ProbeFails, ProbeRecord, Request, Judge, Tick
  <2> QED
    BY <2>1, <2>2
<1> QED
  BY <1>1, <1>2, TypeCorrect, RequestInvariance, PTL DEF Spec
=============================================================================
