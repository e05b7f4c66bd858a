------------------------------ MODULE Startup ------------------------------
(***************************************************************************)
(* From main() to a serving process: the checks that may abort, the        *)
(* optional fork into the background, one goroutine per connection that    *)
(* starts its backend (StartWireguard or startTsnet) and what depends on   *)
(* it, the wait for all of them, the health endpoint, and the signal that  *)
(* ends the process.                                                       *)
(***************************************************************************)
EXTENDS Integers, FiniteSets

CONSTANTS
    WG,           \* WireGuard connections of the configuration
    TS,           \* Tailscale connections of the configuration
    CheckAlive    \* the WireGuard connections with CheckAlive addresses

ASSUME ConstantsAssumption ==
    /\ WG \intersect TS = {}
    /\ CheckAlive \subseteq WG
    /\ IsFiniteSet(WG \union TS)

Conns == WG \union TS

VARIABLES
    flags,      \* [daemon, info : BOOLEAN]: -d and -i given
    child,      \* isDaemonProcess: os.Args[1] is the mark of the background process
    mpc,        \* where main is
    exit,       \* "no", or why the process is gone
    signalled,  \* a termination signal has been delivered
    cancelled,  \* ctx is cancelled
    cpc,        \* connection -> where its start goroutine is
    dev,        \* connection -> "none" | "open" | "closed": device or tsnet node
    registry,   \* connections added to the HealthRegistry
    seeded,     \* connections whose PingRecord is seeded and whose pinger runs
    routines,   \* connections whose routines have been spawned
    started,    \* the atomic counter
    wg,         \* the WaitGroup's counter
    healthUp    \* the health endpoint is being served

mainVars == <<flags, child, mpc, exit, signalled, cancelled, healthUp>>
connVars == <<cpc, dev, registry, seeded, routines, started, wg>>
vars == <<mainVars, connVars>>

MainPcs == {"load", "lock", "fork", "prepare", "health", "go", "wait", "decide", "serve"}
ConnPcs == {"none", "tun", "ipc", "up", "dir", "node", "local", "gate",
            "add", "ping", "spawn", "count", "leave", "gone"}

TypeOK ==
    /\ flags \in [daemon : BOOLEAN, info : BOOLEAN]
    /\ child \in BOOLEAN
    /\ mpc \in MainPcs
    /\ exit \in {"no", "early", "fork failed", "nothing started", "signal"}
    /\ signalled \in BOOLEAN /\ cancelled \in BOOLEAN /\ healthUp \in BOOLEAN
    /\ cpc \in [Conns -> ConnPcs]
    /\ dev \in [Conns -> {"none", "open", "closed"}]
    /\ registry \subseteq Conns /\ seeded \subseteq Conns /\ routines \subseteq Conns
    /\ started \in 0..Cardinality(Conns)
    /\ wg \in 0..Cardinality(Conns)

Init ==
    /\ flags \in [daemon : BOOLEAN, info : BOOLEAN]
    /\ child = FALSE
    /\ mpc = "load"
    /\ exit = "no"
    /\ signalled = FALSE /\ cancelled = FALSE /\ healthUp = FALSE
    /\ cpc = [c \in Conns |-> "none"]
    /\ dev = [c \in Conns |-> "none"]
    /\ registry = {} /\ seeded = {} /\ routines = {}
    /\ started = 0
    /\ wg = 0

Alive == exit = "no"

-----------------------------------------------------------------------------
(* main                                                                    *)

\* One stage of main that goes on to the next or ends the process:
\* LoadConfigSources (and the return of --configtest), lockNetwork, the state
\* directories with the file lockdown, the bind of the health endpoint.
Stage(from, to) ==
    /\ Alive /\ mpc = from
    /\ \/ mpc' = to /\ exit' = exit
       \/ mpc' = from /\ exit' = "early"
    /\ UNCHANGED <<flags, child, signalled, cancelled, healthUp, connVars>>

LoadConfig   == Stage("load", "lock")
LockNetwork  == Stage("lock", "fork")
MakeStateDirs == Stage("prepare", "health")

\* With -d the process starts itself again, with the mark before the arguments
\* it was given, and returns; cmd.Start may fail.  The new process takes the mark
\* out, does all up to here again, and then forgets -d.
Background ==
    /\ Alive /\ mpc = "fork"
    /\ IF flags.daemon /\ ~child
       THEN \/ /\ child' = TRUE
               /\ mpc' = "load"
               /\ signalled' = FALSE /\ cancelled' = FALSE
               /\ UNCHANGED exit
            \/ /\ exit' = "fork failed"
               /\ UNCHANGED <<child, mpc, signalled, cancelled>>
       ELSE /\ mpc' = "prepare"
            /\ UNCHANGED <<child, exit, signalled, cancelled>>
    /\ UNCHANGED <<flags, healthUp, connVars>>

BindHealth ==
    \/ flags.info /\ Stage("health", "go")
    \/ /\ ~flags.info
       /\ Alive /\ mpc = "health"
       /\ mpc' = "go"
       /\ UNCHANGED <<flags, child, exit, signalled, cancelled, healthUp, connVars>>

\* wg.Add(1) and go, for one connection after the other.
Launch ==
    /\ Alive /\ mpc = "go"
    /\ IF \A c \in Conns : cpc[c] # "none"
       THEN mpc' = "wait" /\ UNCHANGED <<cpc, wg>>
       ELSE /\ \E c \in Conns :
                 /\ cpc[c] = "none"
                 /\ cpc' = [cpc EXCEPT ![c] = IF c \in WG THEN "tun" ELSE "dir"]
            /\ wg' = wg + 1
            /\ UNCHANGED mpc
    /\ UNCHANGED <<flags, child, exit, signalled, cancelled, healthUp,
                   dev, registry, seeded, routines, started>>

\* Altered WaitAll: without wg.Wait().
WaitAll_NoWait ==
    /\ Alive /\ mpc = "wait"
    /\ mpc' = "decide"
    /\ UNCHANGED <<flags, child, exit, signalled, cancelled, healthUp, connVars>>

\* Altered WaitAll: going on once any connection has started.
WaitAll_FirstStarted ==
    /\ Alive /\ mpc = "wait"
    /\ wg = 0 \/ started > 0
    /\ mpc' = "decide"
    /\ UNCHANGED <<flags, child, exit, signalled, cancelled, healthUp, connVars>>

\* wg.Wait()
WaitAll ==
    /\ Alive /\ mpc = "wait"
    /\ wg = 0
    /\ mpc' = "decide"
    /\ UNCHANGED <<flags, child, exit, signalled, cancelled, healthUp, connVars>>

\* log.Fatal if no connection started, else serve the health endpoint.
Decide ==
    /\ Alive /\ mpc = "decide"
    /\ IF started = 0
       THEN exit' = "nothing started" /\ UNCHANGED <<mpc, healthUp>>
       ELSE mpc' = "serve" /\ healthUp' = flags.info /\ UNCHANGED exit
    /\ UNCHANGED <<flags, child, signalled, cancelled, connVars>>

\* <-ctx.Done(), which main looks at only here.
Shutdown ==
    /\ Alive /\ mpc = "serve"
    /\ cancelled
    /\ exit' = "signal"
    /\ UNCHANGED <<flags, child, mpc, signalled, cancelled, healthUp, connVars>>

Main ==
    \/ LoadConfig \/ LockNetwork \/ Background \/ MakeStateDirs \/ BindHealth
    \/ Launch \/ WaitAll \/ Decide \/ Shutdown

-----------------------------------------------------------------------------
(* Signals: a buffered channel and the goroutine that cancels ctx.         *)

Signal ==
    /\ Alive /\ ~signalled
    /\ signalled' = TRUE
    /\ UNCHANGED <<flags, child, mpc, exit, cancelled, healthUp, connVars>>

Cancel ==
    /\ Alive /\ signalled /\ ~cancelled
    /\ cancelled' = TRUE
    /\ UNCHANGED <<flags, child, mpc, exit, signalled, healthUp, connVars>>

-----------------------------------------------------------------------------
(* The start goroutine of connection c.                                    *)

\* A step of it, to the place `to`, leaving its backend in state d.
Goroutine(c, from, to, d) ==
    /\ Alive /\ cpc[c] = from
    /\ cpc' = [cpc EXCEPT ![c] = to]
    /\ dev' = [dev EXCEPT ![c] = d]
    /\ UNCHANGED <<mainVars, registry, seeded, routines, started, wg>>

\* StartWireguard: NewDevice makes the device, and the deferred function
\* closes it on every error return after that.
CreateNetTUN(c) == \/ Goroutine(c, "tun", "ipc", "open")
                   \/ Goroutine(c, "tun", "leave", "none")
IpcSet(c) == \/ Goroutine(c, "ipc", "up", "open")
             \/ Goroutine(c, "ipc", "leave", "closed")

\* Altered Up: without the deferred dev.Close().
Up_NoClose(c) == \/ Goroutine(c, "up", "add", "open")
                 \/ Goroutine(c, "up", "leave", "open")

Up(c) == \/ Goroutine(c, "up", "add", "open")
         \/ Goroutine(c, "up", "leave", "closed")

\* startTsnet: the node is closed if Start or LocalClient fails; whatever the
\* wait for its state brings within 15 s, it counts as started.  Without the
\* tsnet build tag the start fails at once, as if the directory failed.
StateDir(c) == \/ Goroutine(c, "dir", "node", "none")
               \/ Goroutine(c, "dir", "leave", "none")
NodeStart(c) == \/ Goroutine(c, "node", "local", "open")
                \/ Goroutine(c, "node", "leave", "closed")
LocalClient(c) == \/ Goroutine(c, "local", "gate", "open")
                  \/ Goroutine(c, "local", "leave", "closed")
Gate(c) == Goroutine(c, "gate", "add", "open")

StartConnection(c) ==
    \/ CreateNetTUN(c) \/ IpcSet(c) \/ Up(c)
    \/ StateDir(c) \/ NodeStart(c) \/ LocalClient(c) \/ Gate(c)

\* What follows a successful start: registry.Add, StartPingIPs, the routines,
\* the counter; and for all, wg.Done.
Register(c) ==
    /\ Alive /\ cpc[c] = "add"
    /\ registry' = registry \union {c}
    /\ cpc' = [cpc EXCEPT ![c] = "ping"]
    /\ UNCHANGED <<mainVars, dev, seeded, routines, started, wg>>

\* Altered StartPing: the ping loop runs in the start goroutine.
StartPing_Inline(c) ==
    /\ Alive /\ cpc[c] = "ping"
    /\ seeded' = seeded \union ({c} \intersect CheckAlive)
    /\ cpc' = [cpc EXCEPT ![c] = IF c \in CheckAlive THEN "ping" ELSE "spawn"]
    /\ UNCHANGED <<mainVars, dev, registry, routines, started, wg>>

StartPing(c) ==
    /\ Alive /\ cpc[c] = "ping"
    /\ seeded' = seeded \union ({c} \intersect CheckAlive)
    /\ cpc' = [cpc EXCEPT ![c] = "spawn"]
    /\ UNCHANGED <<mainVars, dev, registry, routines, started, wg>>

SpawnRoutines(c) ==
    /\ Alive /\ cpc[c] = "spawn"
    /\ routines' = routines \union {c}
    /\ cpc' = [cpc EXCEPT ![c] = "count"]
    /\ UNCHANGED <<mainVars, dev, registry, seeded, started, wg>>

CountStarted(c) ==
    /\ Alive /\ cpc[c] = "count"
    /\ started' = started + 1
    /\ cpc' = [cpc EXCEPT ![c] = "leave"]
    /\ UNCHANGED <<mainVars, dev, registry, seeded, routines, wg>>

\* Altered Done: wg.Done() is also called explicitly when the start failed.
Done_Twice(c) ==
    /\ Alive /\ cpc[c] = "leave"
    /\ wg' = wg - (IF c \in registry THEN 1 ELSE 2)
    /\ cpc' = [cpc EXCEPT ![c] = "gone"]
    /\ UNCHANGED <<mainVars, dev, registry, seeded, routines, started>>

\* Altered Done: not deferred: an error return skips it.
Done_NotDeferred(c) ==
    /\ Alive /\ cpc[c] = "leave"
    /\ wg' = wg - (IF c \in registry THEN 1 ELSE 0)
    /\ cpc' = [cpc EXCEPT ![c] = "gone"]
    /\ UNCHANGED <<mainVars, dev, registry, seeded, routines, started>>

Done(c) ==
    /\ Alive /\ cpc[c] = "leave"
    /\ wg' = wg - 1
    /\ cpc' = [cpc EXCEPT ![c] = "gone"]
    /\ UNCHANGED <<mainVars, dev, registry, seeded, routines, started>>

Conn(c) ==
    \/ StartConnection(c) \/ Register(c) \/ StartPing(c)
    \/ SpawnRoutines(c) \/ CountStarted(c) \/ Done(c)

-----------------------------------------------------------------------------
Next == Main \/ Signal \/ Cancel \/ \E c \in Conns : Conn(c)

Spec == Init /\ [][Next]_vars

\* main and the goroutines are scheduled, and what they call returns, with
\* one exception: nothing in the code bounds the Start of a node.
Returning(c) == cpc[c] # "node" /\ Conn(c)

FairSpec ==
    /\ Spec
    /\ WF_vars(Main)
    /\ WF_vars(Cancel)
    /\ \A c \in Conns : WF_vars(Returning(c))

-----------------------------------------------------------------------------
\* The process gives up with "no connections could be started" only when
\* nothing runs: no device, no pinger, no listener is cut off by it.
GivesUpOnlyIfIdle ==
    exit = "nothing started" =>
        /\ registry = {} /\ routines = {} /\ seeded = {}
        /\ \A c \in Conns : dev[c] # "open"

\* What the health endpoint sees when it is served: exactly the connections
\* with a running backend, each with its ping records seeded and its routines
\* spawned, so that no start order makes /readyz or /metrics miss one.
HealthSeesAll ==
    healthUp =>
        /\ registry = {c \in Conns : dev[c] = "open"}
        /\ seeded = registry \intersect CheckAlive
        /\ routines = registry

\* A connection that failed to start holds no device and no node, and has
\* left nothing in the registry.
FailureLeavesNothing ==
    \A c \in Conns : cpc[c] \in {"leave", "gone"} =>
        \/ c \in registry \intersect routines /\ dev[c] = "open"
        \/ c \notin registry \union routines \union seeded /\ dev[c] # "open"

\* A connection that could be started ends up with its routines running,
\* whatever the others do: one that fails does not take it down, and one
\* whose node never comes up does not hold it back.
StartedIsServed ==
    \A c \in Conns : (cpc[c] = "add") ~> (c \in routines)

NodeStuck == \E c \in TS : cpc[c] = "node"

\* A signal ends the process, also one that comes while it is starting,
\* unless a node's Start never returns: main waits for it before it looks at
\* ctx.
SignalStops == <>[]NodeStuck \/ ((signalled /\ Alive) ~> (~signalled \/ ~Alive))
=============================================================================
