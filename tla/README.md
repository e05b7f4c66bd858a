# wireproxy in TLA+

A verification project for wireproxy: TLA+ modules translated from its Go
source, TLC runs that check them on small instances, and TLAPS proofs of the
safety properties for every instance. `PROJECT.json` holds the line-level
map from definitions to source, the runs, the hazards and the findings.

## The system

wireproxy reads one or more configuration files, starts a userspace WireGuard
device or an embedded Tailscale node per connection, and runs proxies and
tunnels over them. Its parts, and where they are modelled:

| part | source | module |
|---|---|---|
| UDP proxy tunnel: reader, handlers, cleaner | `udp_proxy.go` | `UDPProxy`, abstractly `UDPSessionTable` |
| CheckAlive probes, `/readyz` | `routine.go`, `health.go` | `Health` |
| TCP client/server/STDIO tunnels, SNI and HTTP proxies: one connection | `routine.go`, `sni.go`, `http.go` | `Relay` |
| configuration files: groups, imports, overrides, routines | `config.go`, `tailscale_config.go`, `connections.go` | `Config` |
| split routing, name resolution, SOCKS5's choice of resolver | `router.go`, `routine.go`, `wireguard.go`, `tailscale.go` | `Routing` |
| main, starting the backends, signals, `-d` | `cmd/wireproxy/main.go`, `wireguard.go`, `tailscale.go` | `Startup` |
| cross-connection validation, sandbox | `connections.go`, `cmd/wireproxy/main.go` | `Admission` |
| `/metrics`, IPC request, logging, interfaces | `health.go`, `wireguard.go`, `util.go`, `network.go` | no: formatting and declarations |

The modules meet in four places. `Admission` extends `Routing`, which extends
`Config`: what is parsed is validated, sandboxed, started and dialled. `Startup`
shows that the health endpoint is served only when every connection is
registered and seeded, which is the guard of `Health!Request`. `Admission` is the
detail behind the first stages of `Startup`. `Relay` and `UDPProxy` are what the
routines spawned by `Startup` do.

## The modules

**UDPProxy.** Each critical section of `sessionMu` is one action; dial, read,
write, close and `go` are actions of their own. Time is relative: `idle[s]` is
the age of `lastActive`, `lag` the age of the cleaner's `now`. A session object
is reused once its socket is closed, so that behaviours are infinite and the
state space is finite. `UDPSessionTable` says the same with two variables:
sessions are bound, retired, released.

**Health.** The clock has `TPS` ticks a second; a record's age starts at
`phase`, not 0, which is what storing `time.Now().Unix()` does. Reading a pong
and recording it are two steps, up to `MaxLag` ticks apart. A request copies the
records of one connection after the other and judges the copies one by one, and
the clock and the probes go on meanwhile. `overdue` is a history variable: the
addresses silent for too long when the request came in, and since. `Prompt`
makes time pass only while every goroutine waits; `Lossy` lets pings fail.

**Relay.** One connection, from the listener's backlog on; an Accept error ends
the loop. An HTTP request is its method and what its authorization header holds.
The kinds differ in what precedes the copying. Bytes
are numbered, so that loss, repetition and reordering show. An HTTP request or a
ClientHello is byte 1. What `bufio.Reader` took beyond the request is counted
in `skipped`, because the copies do not read it. A write to an end that is
there may fail once that end has stopped sending, and may wait for ever.

**Startup.** main, one goroutine per connection, the signal goroutine. Every
call that can fail does so nondeterministically, and a Tailscale node's `Start`
may never return. With `-d` the parent ends and the child, marked by its first
argument, goes through the same stages again without forking.

**Config.** Parsing as functions from files to connections. A file is root keys
and a sequence of sections; a key is a value and the form of its text: plain,
malformed, `$VAR` with the variable set or unset. `parseString` interpolates,
`Verbatim` keys do not, and that difference is kept key by key. For each parser
there is a predicate (it succeeds) and a function (what it gives). `SeqOps` has
the two operators on sequences that grouping and collecting are made of,
`Filter` and `Concat`. Go's conversions between ports and texts are constants
(`Atoi`, `Itoa`, `Services`), of which `PortTexts` assumes what the libraries
say: a number written out reads back as itself, and a service name is no number.

**Routing.** A dial of a routine gives the resolver asked, the network taken and
the address family chosen. A host carries its spelling (case, trailing dot), a
pattern is the host it matches; regular expressions themselves are Go's. A name
handed to a dialer is looked up by the netstack of a WireGuard connection, and by
a Tailscale node for its peers only: other names go to the system's resolver
(`NetDial`), as they do when `LookupContextHost` is asked.

**Admission.** Loads the files, then `ValidateConnections`, `lockNetwork` and
`lock("ready")`, followed by the listeners and backends taking their ports,
files and directories in any order, and by dials. What a socket bound to a host
takes (the constant `AddrsOf`) and which port texts can be bound (`Bindable`)
belong to the operating system and to Go's `net`. A port taken by
another program is not modelled.

Operators whose comment begins with "Altered" are faulty variants. Each of them
makes one property fail, which shows that the property depends on that code.

## The runs

| run | shows | bounds |
|---|---|---|
| `udp_safety` | mapped sessions usable, no leaked socket, sessions end for cause, refinement | 2 clients, 2 sessions, timeout 2, lag 1, queue 1 |
| `udp_liveness` | idle sessions expire, retired sockets are closed | 1 client, 2 sessions |
| `udp_reader_stall` | *violated*: the reader survives a stalled dial | same |
| `health_async` | no 200 over an address silent for too long; records never go back | 2 connections with an address each, of which one has 2 probes in flight and the other cannot be dialled, interval 1 s, 2 ticks/s, lag 1 tick |
| `health_prompt` | a live tunnel is never reported unready | 2 connections, intervals 2 and 3 s, round trip up to 1 s |
| `health_truncation` | *violated*: a pong within the limit gives 200 | 1 address, pings lost |
| `relay` | streams intact, no socket forgotten, only admitted requests dialled, teardown | all kinds, 3 bytes each way |
| `startup` | giving up, registry, cleanup, signals | 2 WireGuard, 1 Tailscale |
| `admission` | each connection runs the routines its own sections ask for, layout irrelevant, imports keep identity, no clash after validation, sandbox sufficient, routing, resolver and family as configured | 1 connection with 2 routines, 2 with at most 1; every key left out, malformed, `$VAR` set and unset |
| `admission_udp_ports` | *violated*: no clash after validation | WireGuard port of one connection = UDP tunnel port of another |
| `admission_configtest` | *violated*: `--configtest` settles it | server tunnels |
| `config_readme` | *violated*: the README's import examples load | the two examples |

Why the bounds are enough: a late handler needs one client and two sessions to
meet a newer one, and a second client to show independence; overlapping probes
need two slots, which are interchangeable (the symmetry of `health_async`), and
a verdict on two connections needs one whose record only ages; the third byte of the relay is one in flight behind one written
behind the request; three starts allow one failure between two successes;
conflicts are between two listeners. `admission` uses numeric hosts and keeps WireGuard ports and UDP tunnel
ports apart; the second is what `admission_udp_ports` drops. `localhost` beside
`127.0.0.1` is a further case that validation compares as text and misses,
except for client tunnels, whose address is resolved when parsed. Patterns are in
lower case and strategies unpadded; see below for both.

Deadlock is checked for `UDPProxy` and `Health`, whose goroutines run for ever;
a relayed connection, the process and a rejected configuration may stop.

## Fairness

Only on steps the Go scheduler, a deadline or the clock guarantees. `UDPProxy`:
reader steps outside the dial, handler steps including the read timeout (a
deadline of 5 s is set before each read), the ticker, time; nothing of clients,
the remote end or the dial. `Relay`: the serving goroutine and the copies while
they are not in a write, a dial, which returns by TCP's own timeout, and the SNI
deadline. Nothing of the two ends, and nothing makes a write to an end that is
there return, since the code sets no write deadline: `HangupClosesBoth` therefore
excepts the behaviours in which some write waits for ever.
`Startup`: main, the signal goroutine, and the start goroutines except in
tsnet's `Start`, which has no timeout in the code: `SignalStops` therefore allows
for a node stuck there for ever, and `StartedIsServed` holds of the others.
`IdleSessionsExpire` says that an idle session goes, not how soon: how late the
cleaner may run is bounded in the model to keep it finite, not by the code.
No safety property depends on fairness.

## The proofs

Every invariant and every action property of the passing runs is proved by
TLAPS, for any clients, sessions, timeouts, connections, addresses, intervals,
clock resolution, stream lengths and files. `UDPProxyProofs`, `HealthProofs`,
`StartupProofs` and `RelayProofs` rest on the `ConstantsAssumption` of their
module; `AdmissionProofs` rests on `PortTexts`, `SourceShape` (the arguments are
sequences of files and directories) and `HostTexts`, and on `SeqOpsProofs` and
`ConfigProofs`, which have no state.

*UDPProxy.* `MappedSessionServed`, `OpenSocketOwned` and `HandlerOwnsSocket` are
inductive only together with `TypeOK`: that a mapped session is served depends
on the reader inserting only fresh sessions with no handler, which is the third;
that a socket is owned when a handler ends depends on the map holding it under
its own client, which is the first. `Invariance` proves the conjunction.
`SessionEndsForCause` and the refinement `ImplementsTable` follow from it step
by step; the mapping takes the open sockets outside the map, save one just
dialled, for the retired sessions.

*Health.* A record is younger than the pong behind it by at most the lag of the
probe that wrote it, and a pong not yet recorded is at most that old
(`RecordsLag`). So an address in `overdue` has a stale record, and if that was
copied a stale copy, until it is judged; once it is judged the status is 503
(`RequestSound`). This is `ReadyMeansFresh` when all are judged.
`RecordsMoveForward` needs that a seeded record is at least `phase` old and that
probes exist only for seeded connections (`SeededInvariance`). `AliveIsReady` is
proved under `AnswersInTime`, what `health_prompt` assumes of peers and
scheduler: no ping is lost, the scheduler is prompt, the round trip is at most a
second and ends before the read deadline. Its invariant says that a round of
probes is over when the next one starts (`OneRound`), and bounds the age of a
record by the time since the present round began, plus the interval while the
address has not answered in it, plus the second that truncation may add
(`Renewed`).

*Startup.* main sees two counters. The invariant says that they are the sizes of
two sets of connections (those whose goroutine runs, those counted as started),
what each goroutine has done at each place (`Placed`), and where the goroutines
are when main is at a place (`InStep`). That the health endpoint sees all
connections follows because main serves it only after every goroutine is gone.

*Relay.* The invariant ties the place of the serving goroutine to the sockets it
holds (`Held`) and to the request having passed (`Admitted`), and each copy's
position to the bytes it has written: one is in hand between read and write
(`Progress`). `Numbered` is then `StreamsIntact`.

*Sequences.* A filter and a concatenation are recursive functions, so facts about
them need induction. `SetInduction` and `SeqInduction` state it with the set of
the numbers or sequences that have the property, in place of an operator, and
every other lemma of `SeqOpsProofs` follows from them: what a filter holds, that
filtering twice is filtering once, what exchanging two neighbours does to a
filter, and that counting the occurrences in a concatenation adds up.

*Config.* `AllCounted` counts pairs of a connection's name and a routine: a
section has one group name and one type, each group's routines are the
concatenation over the fixed table of parsers, whose types differ, and each
group is one connection under the name `ConnName` gives it, so a section is
counted once, with its own connection. The counting is for any set of pairs,
which makes it an equality of bags. `FileDecided`: whether a
group parses and what it becomes depends only on its sections type by type
(`SameParts`), and exchanging neighbours that differ in group or type leaves
those alone. `ImportedDevice` goes through the fields of the override.

*Admission.* Past loading, the connections are those of files all accepted
(`Accepted`); until the process is ready nothing is taken (`Quiet`); from then on
the rules and files in force are those computed from the same connections the
routines come from (`NetworkLocked`, `FilesLocked`), what is up has a usable
address (`Placed`), and a dial is one of `Dials` (`Dialled`). The conjunction
`IInv` is inductive. The properties of parsing follow from `Accepted` and the
lemmas on `Config`. `NamesStay` follows dial by dial: `NetDial` and `LookupAddr`
give a tunnelled name to the system in two cases only, a WireGuard connection
without `DNS` whose routine resolves first, and a Tailscale name outside the
peer list, and these are the exceptions the property names. Three theorems have a hypothesis on the configuration,
because the code does not give the property without it:

- `NoClash` assumes `Apart`: `ValidateConnections` compares the texts of hosts
  and of ports that are no numbers, and never a UDP bind with a `ListenPort`, so
  service names, host aliases and the finding below are left out;
- `Routed` assumes `LowerCase`: `shouldTunnel` lowers the host and
  trims its dot, `parseRegexList` takes the pattern as written;
- `Family` assumes `Plain`: `parseResolveConfig` trims the strategy to check it
  and stores it untrimmed; it also says that addresses are of two families. The
  family is promised of WireGuard connections only, since a Tailscale node
  ignores `[Resolve]`.

Each hypothesis holds in every state of the run `admission`, so there the
properties are checked as they stand.

Left to TLC: liveness under fairness and ENABLED, which the prover does not
handle: `IdleSessionsExpire`, `ImplementsFairTable`, `HangupClosesBoth`,
`SilentSniClientDropped`, `StartedIsServed` and `SignalStops`.

## What disagrees

Five places where a comment or the README says more than the code does, each
with a run: a stalled dial does block the UDP reader; `/readyz` may answer 503
up to a second early; a WireGuard `ListenPort` is not compared with the UDP
tunnel binds of other connections; a target port out of range passes `--configtest`; a root `WGConfig` with
overrides in `[Interface]` is rejected for its missing `PrivateKey`.

Met while translating, kept in the definitions, without a run of their own:

- `ResolveStrategy = auto` is rejected (`config.go:487-496`), though the error
  message and the README (`README.md:275`) list it; leaving the key out has that
  meaning.
- A padded strategy, possible through an environment variable, is trimmed to be
  checked and stored untrimmed, so that `ipv6` becomes the IPv4 default.
- `WGConfig`, `Endpoint`, `PreSharedKey`, numbers and `TunnelDomains` do not
  interpolate `$VAR`; the README says values do.
- An unprefixed `[Resolve]` beside named groups makes a default connection
  without `[Interface]`, which is rejected; `README.md:341` calls it global.
- An override of `CheckAliveInterval` is not checked against its minimum.
- A pattern with upper-case letters matches no host (`router.go:32` lowers the
  host only); `README.md:160` says "Matching is case-insensitive".
- SOCKS5's legacy path is "resolved via tunnel DNS" by the comment at
  `routine.go:228`; not so without `DNS`, nor for Tailscale names outside the
  peer list, which the system resolves.
- `LogDomains` moves SOCKS5 to the pass-through resolver, so that without `DNS`
  names no longer resolve; `[Resolve]` of a Tailscale connection has no effect
  (`tailscale.go:172`).

## Not modelled

The ini text itself, `AdvertiseTags`, and key inheritance from `[x]` to `[x.y]`;
HTTP and TLS wire formats; the SOCKS5, WireGuard and Tailscale protocols, which
are libraries; `CreateIPCRequest`, `/metrics` and logging, which format;
`network.go` and `util.go`, which declare and log; wall-clock jumps; pledge and
unveil; the fixed Landlock rules for files no configuration names (resolv.conf,
time zones, entries of `/dev` and `/proc`).

## Plan

`Startup` composed with `Health`: `/readyz` from the first request on.
