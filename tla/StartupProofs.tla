--------------------------- MODULE StartupProofs ---------------------------
(***************************************************************************)
(* Startup is safe for any number of connections.  What main sees of the   *)
(* start goroutines are two counters; the invariant ties them to where the *)
(* goroutines are.                                                         *)
(***************************************************************************)
EXTENDS Startup, FiniteSetTheorems, TLAPS

Running == {c \in Conns : cpc[c] \notin {"none", "gone"}}
Counted == {c \in Conns : c \in routines /\ cpc[c] \in {"leave", "gone"}}

\* What a start goroutine has done by the time it is at a place.
Untouched(c) == c \notin registry /\ c \notin seeded /\ c \notin routines
Complete(c) ==
    /\ dev[c] = "open" /\ c \in registry /\ c \in routines
    /\ c \in seeded <=> c \in CheckAlive

Placed(c) ==
    /\ cpc[c] \in {"none", "tun", "dir", "node"} => Untouched(c) /\ dev[c] = "none"
    /\ cpc[c] \in {"ipc", "up", "local", "gate", "add"} => Untouched(c) /\ dev[c] = "open"
    /\ cpc[c] = "ping" =>
          dev[c] = "open" /\ c \in registry /\ c \notin seeded /\ c \notin routines
    /\ cpc[c] = "spawn" =>
          dev[c] = "open" /\ c \in registry /\ c \notin routines /\ (c \in seeded <=> c \in CheckAlive)
    /\ cpc[c] = "count" => Complete(c)
    /\ cpc[c] \in {"leave", "gone"} => Complete(c) \/ (Untouched(c) /\ dev[c] # "open")

\* How far the goroutines are when main is at a place.
InStep ==
    /\ mpc \in {"load", "lock", "fork", "prepare", "health"} => \A c \in Conns : cpc[c] = "none"
    /\ mpc = "wait" => \A c \in Conns : cpc[c] # "none"
    /\ mpc \in {"decide", "serve"} => \A c \in Conns : cpc[c] = "gone"
    /\ healthUp => mpc = "serve"
    /\ exit = "nothing started" => mpc = "decide" /\ started = 0

Counters ==
    /\ wg = Cardinality(Running)
    /\ started = Cardinality(Counted)

IInv == TypeOK /\ InStep /\ Counters /\ \A c \in Conns : Placed(c)

-----------------------------------------------------------------------------
\* Sets of connections are finite and no larger than the configuration.
LEMMA Bounded ==
    ASSUME NEW S \in SUBSET Conns
    PROVE  IsFiniteSet(S) /\ Cardinality(S) \in 0..Cardinality(Conns)
<1>1. IsFiniteSet(Conns)
  BY ConstantsAssumption DEF Conns
<1>2. IsFiniteSet(S) /\ Cardinality(S) <= Cardinality(Conns)
  BY <1>1, FS_Subset
<1>3. Cardinality(S) \in Nat /\ Cardinality(Conns) \in Nat
  BY <1>1, <1>2, FS_CardinalityType
<1> QED
  BY <1>2, <1>3

\* A counter that equals the size of a set of connections has its range.
LEMMA InRange ==
    ASSUME Counters PROVE started \in 0..Cardinality(Conns) /\ wg \in 0..Cardinality(Conns)
<1>1. Running \in SUBSET Conns /\ Counted \in SUBSET Conns
  BY DEF Running, Counted
<1> QED
  BY <1>1, Bounded DEF Counters

\* The rest of TypeOK.
Shape ==
    /\ flags \in [daemon : BOOLEAN, info : BOOLEAN]
    /\ child \in BOOLEAN
    /\ mpc \in MainPcs
    /\ exit \in {"no", "early", "fork failed", "nothing started", "signal"}
    /\ signalled \in BOOLEAN /\ cancelled \in BOOLEAN /\ healthUp \in BOOLEAN
    /\ cpc \in [Conns -> ConnPcs]
    /\ dev \in [Conns -> {"none", "open", "closed"}]
    /\ registry \subseteq Conns /\ seeded \subseteq Conns /\ routines \subseteq Conns

\* The parts of the invariant that make up TypeOK.
LEMMA Typed == Shape /\ Counters => TypeOK
  BY InRange DEF Shape, TypeOK

\* Both counters are zero when the process begins.
LEMMA InitHolds == Init => IInv
<1> SUFFICES ASSUME Init PROVE IInv
  OBVIOUS
<1>1. Shape
  <2>1. mpc \in MainPcs /\ cpc \in [Conns -> ConnPcs] /\ dev \in [Conns -> {"none", "open", "closed"}]
    BY DEF Init, MainPcs, ConnPcs
  <2>2. flags \in [daemon : BOOLEAN, info : BOOLEAN] /\ exit = "no"
    BY DEF Init
  <2>3. child \in BOOLEAN /\ signalled \in BOOLEAN /\ cancelled \in BOOLEAN /\ healthUp \in BOOLEAN
    BY DEF Init
  <2>4. registry \subseteq Conns /\ seeded \subseteq Conns /\ routines \subseteq Conns
    BY DEF Init
  <2> QED
    BY <2>1, <2>2, <2>3, <2>4, Zenon DEF Shape
<1>2. Running = {} /\ Counted = {}
  BY DEF Init, Running, Counted
<1>3. Counters
  BY <1>2, FS_EmptySet DEF Init, Counters
<1>4. InStep
  BY DEF Init, InStep
<1>5. ASSUME NEW c \in Conns PROVE Placed(c)
  BY DEF Init, Placed, Untouched
<1> QED
  BY <1>1, <1>3, <1>4, <1>5, Typed DEF IInv

\* A step of main or of the signal handler leaves the goroutines alone.
LEMMA MainStep ==
    ASSUME IInv, UNCHANGED connVars, Shape', InStep'
    PROVE  IInv'
<1>1. Counters'
  BY DEF IInv, Counters, Running, Counted, connVars
<1>2. \A c \in Conns : Placed(c)'
  BY DEF IInv, Placed, Untouched, Complete, connVars
<1>3. TypeOK'
  BY <1>1, Typed, InRange, PTL
<1> QED
  BY <1>1, <1>2, <1>3 DEF IInv

\* What a step of c's goroutine leaves alone.
Only(c) ==
    /\ UNCHANGED mainVars
    /\ cpc' \in [Conns -> ConnPcs] /\ dev' \in [Conns -> {"none", "open", "closed"}]
    /\ registry' \subseteq Conns /\ seeded' \subseteq Conns /\ routines' \subseteq Conns
    /\ \A d \in Conns \ {c} :
          /\ cpc'[d] = cpc[d] /\ dev'[d] = dev[d]
          /\ d \in registry' <=> d \in registry
          /\ d \in seeded' <=> d \in seeded
          /\ d \in routines' <=> d \in routines

\* Start goroutines run only while main launches them or waits for them.
LEMMA ConnStep ==
    ASSUME IInv, NEW c \in Conns, cpc[c] \notin {"none", "gone"}, Only(c), cpc'[c] # "none",
           Placed(c)', Counters'
    PROVE  IInv'
<1>1. mpc \in {"go", "wait"}
  BY DEF IInv, TypeOK, MainPcs, InStep
<1>2. InStep'
  BY <1>1 DEF IInv, InStep, Only, mainVars
<1>3. ASSUME NEW d \in Conns PROVE Placed(d)'
  <2>1. CASE d = c
    BY <2>1
  <2>2. CASE d # c
    BY <2>2 DEF IInv, Only, Placed, Untouched, Complete
  <2> QED
    BY <2>1, <2>2
<1>4. Shape'
  BY DEF IInv, TypeOK, Shape, Only, mainVars
<1>5. TypeOK'
  BY <1>4, Typed, InRange, PTL
<1> QED
  BY <1>2, <1>3, <1>5 DEF IInv

\* Neither counter's set changes when a goroutine that has not left moves on
\* and does not come to leave with its routines spawned.
LEMMA SameCounts ==
    ASSUME NEW c \in Conns, Only(c), Counters, UNCHANGED <<started, wg>>,
           cpc[c] \notin {"none", "leave", "gone"}, cpc'[c] \notin {"none", "gone"},
           cpc'[c] = "leave" => c \notin routines'
    PROVE  Counters'
<1>1. Running' = Running
  BY DEF Running, Only
<1>2. Counted' = Counted
  BY DEF Counted, Only
<1> QED
  BY <1>1, <1>2 DEF Counters

\* A step inside StartWireguard or startTsnet.
LEMMA GoroutineStep ==
    ASSUME IInv, NEW c \in Conns, NEW from, NEW to, NEW d,
           from \in {"tun", "ipc", "up", "dir", "node", "local", "gate"},
           Goroutine(c, from, to, d),
           \/ to \in {"ipc", "up", "local", "gate", "add"} /\ d = "open"
           \/ to = "node" /\ d = "none"
           \/ to = "leave" /\ d \in {"none", "closed"}
    PROVE  IInv'
<1>1. Only(c) /\ cpc'[c] = to /\ dev'[c] = d /\ cpc[c] = from
  BY DEF Goroutine, Only, IInv, TypeOK, ConnPcs, mainVars
<1>2. Untouched(c) /\ UNCHANGED <<registry, seeded, routines, started, wg>>
  BY <1>1 DEF IInv, Placed, Goroutine
<1>3. Placed(c)'
  BY <1>1, <1>2 DEF Placed, Untouched
<1>4. Counters'
  BY <1>1, <1>2, SameCounts DEF IInv, Untouched
<1> QED
  BY <1>1, <1>3, <1>4, ConnStep

\* StartConnection: every return of it is one of the cases above.
LEMMA StartStep ==
    ASSUME IInv, NEW c \in Conns, StartConnection(c)
    PROVE  IInv'
<1>1. CASE CreateNetTUN(c)
  BY <1>1, GoroutineStep DEF CreateNetTUN
<1>2. CASE IpcSet(c)
  BY <1>2, GoroutineStep DEF IpcSet
<1>3. CASE Up(c)
  BY <1>3, GoroutineStep DEF Up
<1>4. CASE StateDir(c)
  BY <1>4, GoroutineStep DEF StateDir
<1>5. CASE NodeStart(c)
  BY <1>5, GoroutineStep DEF NodeStart
<1>6. CASE LocalClient(c)
  BY <1>6, GoroutineStep DEF LocalClient
<1>7. CASE Gate(c)
  BY <1>7, GoroutineStep DEF Gate
<1> QED
  BY <1>1, <1>2, <1>3, <1>4, <1>5, <1>6, <1>7 DEF StartConnection

\* Registration, probes and routines, in this order.
LEMMA FollowStep ==
    ASSUME IInv, NEW c \in Conns, Register(c) \/ StartPing(c) \/ SpawnRoutines(c)
    PROVE  IInv'
<1>1. Only(c) /\ dev' = dev /\ UNCHANGED <<started, wg>>
  BY ConstantsAssumption
  DEF IInv, TypeOK, ConnPcs, Only, mainVars, Register, StartPing, SpawnRoutines, Conns
<1>2. cpc[c] \in {"add", "ping", "spawn"} /\ cpc'[c] \in {"ping", "spawn", "count"}
  BY DEF IInv, TypeOK, Register, StartPing, SpawnRoutines
<1>3. Placed(c)'
  BY DEF IInv, TypeOK, Placed, Untouched, Complete, Register, StartPing, SpawnRoutines
<1>4. Counters'
  BY <1>1, <1>2, SameCounts DEF IInv
<1> QED
  BY <1>1, <1>2, <1>3, <1>4, ConnStep

\* A connection is counted once, when everything of it runs.
LEMMA CountStep ==
    ASSUME IInv, NEW c \in Conns, CountStarted(c)
    PROVE  IInv'
<1>1. Only(c) /\ UNCHANGED <<dev, registry, seeded, routines, wg>> /\ started' = started + 1
  BY DEF IInv, TypeOK, ConnPcs, Only, mainVars, CountStarted
<1>2. cpc[c] = "count" /\ cpc'[c] = "leave"
  BY DEF IInv, TypeOK, CountStarted
<1>3. Complete(c)
  BY <1>2 DEF IInv, Placed
<1>4. Placed(c)'
  BY <1>1, <1>2, <1>3 DEF Placed, Complete
<1>5. Running' = Running
  BY <1>1, <1>2 DEF Running, Only
<1>6. Counted' = Counted \union {c} /\ c \notin Counted
  BY <1>1, <1>2, <1>3 DEF Counted, Only, Complete
<1>7. IsFiniteSet(Counted)
  BY Bounded DEF Counted
<1>8. Cardinality(Counted') = Cardinality(Counted) + 1
  BY <1>6, <1>7, FS_AddElement
<1>9. Counters'
  BY <1>1, <1>5, <1>8 DEF IInv, Counters
<1> QED
  BY <1>1, <1>2, <1>4, <1>9, ConnStep

\* wg.Done takes the goroutine out of the WaitGroup.
LEMMA DoneStep ==
    ASSUME IInv, NEW c \in Conns, Done(c)
    PROVE  IInv'
<1>1. Only(c) /\ UNCHANGED <<dev, registry, seeded, routines, started>> /\ wg' = wg - 1
  BY DEF IInv, TypeOK, ConnPcs, Only, mainVars, Done
<1>2. cpc[c] = "leave" /\ cpc'[c] = "gone"
  BY DEF IInv, TypeOK, Done
<1>3. Placed(c)'
  BY <1>1, <1>2 DEF IInv, Placed, Complete, Untouched
<1>4. Counted' = Counted
  BY <1>1, <1>2 DEF Counted, Only
<1>5. Running' = Running \ {c} /\ c \in Running
  BY <1>1, <1>2 DEF Running, Only
<1>6. IsFiniteSet(Running)
  BY Bounded DEF Running
<1>7. Cardinality(Running') = Cardinality(Running) - 1
  BY <1>5, <1>6, FS_RemoveElement
<1>8. Counters'
  BY <1>1, <1>4, <1>7 DEF IInv, Counters
<1> QED
  BY <1>1, <1>2, <1>3, <1>8, ConnStep

\* wg.Add comes before the go statement of the goroutine it counts.
LEMMA LaunchStep ==
    ASSUME IInv, Launch
    PROVE  IInv'
<1>1. CASE \A c \in Conns : cpc[c] # "none"
  <2>1. UNCHANGED connVars
    BY <1>1 DEF Launch, connVars
  <2>2. Shape'
    BY <1>1 DEF Launch, IInv, TypeOK, Shape, MainPcs
  <2>3. InStep'
    BY <1>1 DEF Launch, IInv, InStep, Alive
  <2> QED
    BY <2>1, <2>2, <2>3, MainStep
<1>2. CASE ~\A c \in Conns : cpc[c] # "none"
  <2>1. PICK c \in Conns :
           /\ cpc[c] = "none"
           /\ cpc' = [cpc EXCEPT ![c] = IF c \in WG THEN "tun" ELSE "dir"]
    BY <1>2 DEF Launch
  <2>2. /\ wg' = wg + 1 /\ mpc = "go" /\ exit = "no"
        /\ UNCHANGED <<mainVars, dev, registry, seeded, routines, started>>
    BY <1>2 DEF Launch, mainVars, Alive
  <2>3. Shape'
    BY <2>1, <2>2 DEF IInv, TypeOK, Shape, ConnPcs, mainVars
  <2>4. InStep'
    BY <2>2 DEF IInv, InStep, mainVars
  <2>5. ASSUME NEW d \in Conns PROVE Placed(d)'
    BY <2>1, <2>2 DEF IInv, TypeOK, Placed, Untouched, Complete
  <2>6. Running' = Running \union {c} /\ c \notin Running
    BY <2>1 DEF IInv, TypeOK, Running
  <2>7. Counted' = Counted
    BY <2>1, <2>2 DEF IInv, TypeOK, Counted
  <2>8. IsFiniteSet(Running)
    BY Bounded DEF Running
  <2>9. Cardinality(Running') = Cardinality(Running) + 1
    BY <2>6, <2>8, FS_AddElement
  <2>10. Counters'
    BY <2>2, <2>7, <2>9 DEF IInv, Counters
  <2>11. TypeOK'
    BY <2>3, <2>10, Typed, InRange, PTL
  <2> QED
    BY <2>4, <2>5, <2>10, <2>11 DEF IInv
<1> QED
  BY <1>1, <1>2

\* A stage that goes on or ends the process.
LEMMA StageStep ==
    ASSUME IInv, NEW from, NEW to, Stage(from, to),
           <<from, to>> \in {<<"load", "lock">>, <<"lock", "fork">>,
                             <<"prepare", "health">>, <<"health", "go">>}
    PROVE  IInv'
<1>1. UNCHANGED connVars
  BY DEF Stage
<1>2. Shape'
  BY DEF Stage, IInv, TypeOK, Shape, MainPcs, connVars
<1>3. InStep'
  BY DEF Stage, IInv, InStep, Alive, connVars
<1> QED
  BY <1>1, <1>2, <1>3, MainStep

\* The background process is started by the one in the foreground only.
LEMMA BackgroundStep ==
    ASSUME IInv, Background
    PROVE  IInv'
<1>1. UNCHANGED connVars
  BY DEF Background
<1>2. Shape'
  <2>1. mpc' \in MainPcs /\ exit' \in {"no", "early", "fork failed", "nothing started", "signal"}
    BY DEF Background, IInv, TypeOK, MainPcs
  <2>2. child' \in BOOLEAN /\ signalled' \in BOOLEAN /\ cancelled' \in BOOLEAN
    BY DEF Background, IInv, TypeOK
  <2> QED
    BY <2>1, <2>2 DEF Background, IInv, TypeOK, Shape, connVars
<1>3. InStep'
  BY DEF Background, IInv, InStep, Alive, connVars
<1> QED
  BY <1>1, <1>2, <1>3, MainStep

\* The WaitGroup is empty after the last launch only when all have gone.
LEMMA WaitStep ==
    ASSUME IInv, WaitAll
    PROVE  IInv'
<1>1. UNCHANGED connVars
  BY DEF WaitAll
<1>2. Shape'
  BY DEF WaitAll, IInv, TypeOK, Shape, MainPcs, connVars
<1>3. IsFiniteSet(Running)
  BY Bounded DEF Running
<1>4. Running = {}
  BY <1>3, FS_EmptySet DEF WaitAll, IInv, Counters
<1>5. \A c \in Conns : cpc[c] = "gone"
  BY <1>4 DEF WaitAll, IInv, InStep, Running
<1>6. InStep'
  BY <1>1, <1>5 DEF WaitAll, IInv, InStep, Alive, connVars
<1> QED
  BY <1>1, <1>2, <1>6, MainStep

\* The remaining steps of main and the signal handler.
LEMMA TailStep ==
    ASSUME IInv, \/ ~flags.info /\ BindHealth
                 \/ Decide \/ Shutdown \/ Signal \/ Cancel
    PROVE  IInv'
<1>1. CASE ~flags.info /\ BindHealth
  <2>1. UNCHANGED connVars /\ Shape'
    BY <1>1 DEF BindHealth, IInv, TypeOK, Shape, MainPcs, connVars
  <2>a. /\ mpc = "health" /\ mpc' = "go" /\ exit = "no"
        /\ UNCHANGED <<child, exit, healthUp, cpc, started>>
    BY <1>1 DEF BindHealth, Alive, connVars
  <2>2. InStep'
    BY <2>a DEF IInv, InStep
  <2> QED
    BY <2>1, <2>2, MainStep
<1>2. CASE Decide
  <2>1. UNCHANGED connVars /\ Shape'
    BY <1>2 DEF Decide, IInv, TypeOK, Shape, MainPcs, connVars
  <2>2. InStep'
    BY <1>2 DEF Decide, IInv, InStep, Alive, connVars
  <2> QED
    BY <2>1, <2>2, MainStep
<1>3. CASE Shutdown \/ Signal \/ Cancel
  <2>1. UNCHANGED connVars /\ Shape'
    BY <1>3 DEF Shutdown, Signal, Cancel, IInv, TypeOK, Shape, connVars
  <2>a. exit' \in {"no", "signal"} /\ UNCHANGED <<child, mpc, healthUp, cpc, started>>
    BY <1>3 DEF Shutdown, Signal, Cancel, Alive, connVars
  <2>2. InStep'
    BY <2>a DEF IInv, InStep
  <2> QED
    BY <2>1, <2>2, MainStep
<1> QED
  BY <1>1, <1>2, <1>3

\* Every step of the process keeps the invariant.
LEMMA NextHolds == IInv /\ [Next]_vars => IInv'
<1> SUFFICES ASSUME IInv, [Next]_vars PROVE IInv'
  OBVIOUS
<1>1. CASE LoadConfig \/ LockNetwork \/ MakeStateDirs
  BY <1>1, StageStep DEF LoadConfig, LockNetwork, MakeStateDirs
<1>2. CASE Background
  BY <1>2, BackgroundStep
<1>3. CASE BindHealth
  <2>1. CASE flags.info /\ Stage("health", "go")
    BY <2>1, StageStep
  <2> QED
    BY <1>3, <2>1, TailStep DEF BindHealth
<1>4. CASE Launch
  BY <1>4, LaunchStep
<1>5. CASE WaitAll
  BY <1>5, WaitStep
<1>6. CASE Decide \/ Shutdown \/ Signal \/ Cancel
  BY <1>6, TailStep
<1>7. ASSUME NEW c \in Conns, Conn(c) PROVE IInv'
  BY <1>7, StartStep, FollowStep, CountStep, DoneStep DEF Conn
<1>8. CASE UNCHANGED vars
  <2>1. UNCHANGED connVars /\ Shape'
    BY <1>8 DEF vars, mainVars, connVars, IInv, TypeOK, Shape
  <2>2. InStep'
    BY <1>8 DEF vars, mainVars, connVars, IInv, InStep
  <2> QED
    BY <2>1, <2>2, MainStep
<1> QED
  BY <1>1, <1>2, <1>3, <1>4, <1>5, <1>6, <1>7, <1>8 DEF Next, Main

\* The invariant holds throughout, for any configuration.
THEOREM Invariance == Spec => []IInv
  BY InitHolds, NextHolds, PTL DEF Spec

-----------------------------------------------------------------------------
\* main's variables, the WaitGroup's counter and the count of started
\* connections keep their ranges: wg.Done is never called once too often.
THEOREM TypeCorrect == Spec => []TypeOK
<1>1. IInv => TypeOK
  BY DEF IInv
<1> QED
  BY <1>1, Invariance, PTL

\* "no connections could be started" is said only when nothing runs.
THEOREM GivesUpIdle == Spec => []GivesUpOnlyIfIdle
<1>1. IInv => GivesUpOnlyIfIdle
  <2> SUFFICES ASSUME IInv, exit = "nothing started"
               PROVE  /\ registry = {} /\ routines = {} /\ seeded = {}
                      /\ \A c \in Conns : dev[c] # "open"
    BY DEF GivesUpOnlyIfIdle
  <2>1. started = 0 /\ \A c \in Conns : cpc[c] = "gone"
    BY DEF IInv, InStep
  <2>2. IsFiniteSet(Counted)
    BY Bounded DEF Counted
  <2>3. Counted = {}
    BY <2>1, <2>2, FS_EmptySet DEF IInv, Counters
  <2>4. ASSUME NEW c \in Conns PROVE Untouched(c) /\ dev[c] # "open"
    BY <2>1, <2>3 DEF IInv, Placed, Complete, Counted
  <2> QED
    BY <2>4 DEF Untouched, IInv, TypeOK
<1> QED
  BY <1>1, Invariance, PTL

\* When the health endpoint is served it sees every running connection, with
\* records seeded and routines spawned.
THEOREM HealthComplete == Spec => []HealthSeesAll
<1>1. IInv => HealthSeesAll
  <2> SUFFICES ASSUME IInv, healthUp
               PROVE  /\ registry = {c \in Conns : dev[c] = "open"}
                      /\ seeded = registry \intersect CheckAlive
                      /\ routines = registry
    BY DEF HealthSeesAll
  <2>1. ASSUME NEW c \in Conns PROVE Complete(c) \/ (Untouched(c) /\ dev[c] # "open")
    BY DEF IInv, InStep, Placed
  <2> QED
    BY <2>1 DEF Complete, Untouched, IInv, TypeOK
<1> QED
  BY <1>1, Invariance, PTL

\* A connection that failed to start holds nothing.
THEOREM FailureClean == Spec => []FailureLeavesNothing
<1>1. IInv => FailureLeavesNothing
  BY DEF IInv, Placed, Complete, Untouched, FailureLeavesNothing
<1> QED
  BY <1>1, Invariance, PTL
=============================================================================
