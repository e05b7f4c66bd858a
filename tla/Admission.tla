----------------------------- MODULE Admission -----------------------------
(***************************************************************************)
(* What a configuration has to pass before it runs, and whether what it    *)
(* then needs is there: LoadConfigSources parses the files and             *)
(* ValidateConnections looks for conflicts between the connections,        *)
(* lockNetwork and lock("ready") restrict the process to what the          *)
(* configuration names, and the backends and routines then take their      *)
(* ports, files and directories, in any order, and dial out.               *)
(***************************************************************************)
EXTENDS Routing

CONSTANTS
    Sources,  \* the -c arguments considered: sequences of paths
    Infos,    \* the -i arguments considered: [host, port], NoInfo if absent
    Hosts,    \* what the clients of a proxy ask for
    AddrsOf   \* host of a bind address -> the local addresses a listener on it takes

NoInfo == [host |-> "", port |-> "absent"]
NoHost == [name |-> "", upper |-> FALSE, dot |-> FALSE]
NoDial == [by |-> <<0, 0>>, host |-> NoHost, answers |-> {},
           lookup |-> "none", via |-> "none", addr |-> "none"]

ASSUME SourceShape == \A ps \in Sources : IsSeq(ps) /\ \A i \in DOMAIN ps : IsPath(ps[i])
ASSUME HostTexts == \A h \in Hosts : h = [name |-> h.name, upper |-> h.upper, dot |-> h.dot]

VARIABLES
    paths,   \* the -c arguments
    info,    \* the health endpoint's address
    specs,   \* the connections loaded
    stage,   \* how far startup has come
    open,    \* no network restriction is in force
    rules,   \* the Landlock network rules: <<"bind" or "connect", port>>
    files,   \* what lock("ready") leaves accessible
    held,    \* the listeners and backends that have what they need
    lost,    \* <<listener, why>> for those that do not
    dialled  \* the connection the last step made, if it made one

vars == <<paths, info, specs, stage, open, rules, files, held, lost, dialled>>

\* The health endpoint, among the parts of the process.
Health == <<0, 0>>

Init ==
    /\ paths \in Sources
    /\ info \in Infos
    /\ specs = <<>>
    /\ stage = "load"
    /\ open = FALSE
    /\ rules = {}
    /\ files = {}
    /\ held = {}
    /\ lost = {}
    /\ dialled = NoDial

-----------------------------------------------------------------------------
(* Addresses                                                               *)

normalizePort(p) == IF Numeric(p) THEN Itoa[Atoi[p]] ELSE p

\* Altered extractPort: without the range check.
extractPort_NoRange(p) == Numeric(p)

\* extractPort succeeds.
extractPort(p) == Numeric(p) /\ Atoi[p] \in 0..MaxPort

\* Altered isWildcardHost: without "::".
isWildcardHost_NoV6(h) == h \in {"", "0.0.0.0"}

isWildcardHost(h) == h \in {"", "0.0.0.0", "::"}

ToLower(h) == IF h = "Node" THEN "node" ELSE h

EffectiveStateDir(c) == IF c.stateDir # "" THEN <<c.stateDir, "">> ELSE <<"cache", c.name>>

-----------------------------------------------------------------------------
(* ValidateConnections, on the connections cs                              *)

HostKinds == {"tcpclienttunnel", "socks5", "http", "sni", "udpproxytunnel"}
TargetKinds == {"tcpclienttunnel", "tcpservertunnel", "stdiotunnel"}
ProxyKinds == {"socks5", "http", "sni"}

RoutinesOf(cs, kinds) ==
    {l \in UNION {{i} \X DOMAIN cs[i].routines : i \in DOMAIN cs} :
        cs[l[1]].routines[l[2]].kind \in kinds}

\* binds, as a function from the listener to what addBind keeps of it.
BindsOf(cs) ==
    [l \in RoutinesOf(cs, HostKinds) \union (IF info = NoInfo THEN {} ELSE {Health}) |->
        IF l = Health THEN [kind |-> "tcp", host |-> info.host, port |-> info.port]
        ELSE LET r == cs[l[1]].routines[l[2]]
             IN  [kind |-> IF r.kind = "udpproxytunnel" THEN "udp" ELSE "tcp",
                  host |-> r.host, port |-> r.port]]

ListenPort(c) == IF c.kind = "wg" THEN c.device[1].listenPort ELSE {}

SharePort(a, b) ==
    /\ a.kind = b.kind
    /\ normalizePort(a.port) = normalizePort(b.port)
    /\ a.host = b.host \/ isWildcardHost(a.host) \/ isWildcardHost(b.host)

\* Two connections that may not run side by side.
Exclusive(c, d) ==
    \/ c.name = d.name
    \/ c.kind = "ts" /\ d.kind = "ts" /\ ToLower(c.hostname) = ToLower(d.hostname)
    \/ c.kind = "ts" /\ d.kind = "ts" /\ EffectiveStateDir(c) = EffectiveStateDir(d)
    \/ ListenPort(c) \intersect ListenPort(d) # {}

ValidateConnections(cs) ==
    LET binds == BindsOf(cs)
        servers == RoutinesOf(cs, {"tcpservertunnel"})
        routine(l) == cs[l[1]].routines[l[2]]
    IN  /\ \A l \in DOMAIN binds : binds[l].port # Missing
        /\ \A i \in DOMAIN cs : cs[i].name # ""
        /\ \A i, j \in DOMAIN cs : i # j => ~Exclusive(cs[i], cs[j])
        /\ \A l \in RoutinesOf(cs, {"udpproxytunnel"}) : cs[l[1]].kind # "ts"
        /\ \A l \in servers : routine(l).target.port # Missing
        /\ \A l, m \in servers :
              l[1] = m[1] /\ l # m => routine(l).listenPort # routine(m).listenPort
        /\ \A l, m \in DOMAIN binds : l # m => ~SharePort(binds[l], binds[m])

-----------------------------------------------------------------------------
(* Startup                                                                 *)

\* LoadConfigSources; --configtest stops here and reports "Config OK".
Load ==
    /\ stage = "load"
    /\ \/ /\ LoadConfigSources(paths) /\ ValidateConnections(LoadedSpecs(paths))
          /\ stage' = "valid" /\ specs' = LoadedSpecs(paths)
       \/ /\ ~(LoadConfigSources(paths) /\ ValidateConnections(LoadedSpecs(paths)))
          /\ stage' = "rejected" /\ UNCHANGED specs
    /\ UNCHANGED <<paths, info, open, rules, files, held, lost, dialled>>

Routines(kinds) == RoutinesOf(specs, kinds)
RoutineAt(l) == specs[l[1]].routines[l[2]]
Binds == BindsOf(specs)

\* Altered NeedsOpenEgress: without the SNI proxy.
NeedsOpenEgress_NoSNI ==
    \/ \E i \in DOMAIN specs : specs[i].kind = "ts"
    \/ \E l \in Routines({"socks5", "http"}) : RoutineAt(l).patterns # {}

NeedsOpenEgress ==
    \/ \E i \in DOMAIN specs : specs[i].kind = "ts"
    \/ \E l \in Routines({"socks5", "http", "sni"}) : RoutineAt(l).patterns # {}

LockNetwork ==
    /\ stage = "valid"
    /\ LET binds == {l \in DOMAIN Binds : Binds[l].kind = "tcp"}
           servers == Routines({"tcpservertunnel"})
       IN  \/ /\ NeedsOpenEgress
              /\ stage' = "locked" /\ open' = TRUE
              /\ UNCHANGED rules
           \/ /\ ~NeedsOpenEgress
              /\ \A l \in binds : extractPort(Binds[l].port)
              /\ \A l \in servers : extractPort(RoutineAt(l).target.port)
              /\ rules' = {<<"bind", Atoi[Binds[l].port]>> : l \in binds}
                          \union {<<"connect", Atoi[RoutineAt(l).target.port]>> : l \in servers}
              /\ stage' = "locked"
              /\ UNCHANGED open
           \/ /\ ~NeedsOpenEgress
              /\ \/ \E l \in binds : ~extractPort(Binds[l].port)
                 \/ \E l \in servers : ~extractPort(RoutineAt(l).target.port)
              /\ stage' = "refused"
              /\ UNCHANGED <<open, rules>>
    /\ UNCHANGED <<paths, info, specs, files, held, lost, dialled>>

\* tlsFilePaths: the certificate and key of every HTTP proxy that has them.
tlsFilePaths ==
    LET pairs == {{RoutineAt(l).cert, RoutineAt(l).key} : l \in Routines({"http"})}
    IN  {<<"file", p>> : p \in (UNION pairs) \ {""}}

TailscaleStateDirs ==
    {<<"dir", EffectiveStateDir(specs[i])>> : i \in {j \in DOMAIN specs : specs[j].kind = "ts"}}

LockReady ==
    /\ stage = "locked"
    /\ stage' = "ready"
    /\ files' = tlsFilePaths \union TailscaleStateDirs
    /\ UNCHANGED <<paths, info, specs, open, rules, held, lost, dialled>>

-----------------------------------------------------------------------------
(* What the running process takes.  <<i, 0>> is the backend of connection  *)
(* i, <<i, j>> its j-th routine.                                           *)

\* The exclusive resources behind a port (any free one, if it is 0).
Ports(space, proto, port, addrs) ==
    IF port = 0 THEN {} ELSE {<<space, proto, port, a>> : a \in addrs}

Takes(l) ==
    CASE l \in DOMAIN Binds ->
           Ports(0, Binds[l].kind, PortOf(Binds[l].port), AddrsOf[Binds[l].host])
      [] l \in Routines({"tcpservertunnel"}) ->
           Ports(l[1], "tcp", RoutineAt(l).listenPort, {"tunnel"})
      [] l[2] = 0 /\ l # Health /\ specs[l[1]].kind = "wg" ->
           UNION {Ports(0, "udp", n, AddrsOf[""]) : n \in ListenPort(specs[l[1]])}
      [] l[2] = 0 /\ l # Health /\ specs[l[1]].kind = "ts" ->
           {<<"dir", EffectiveStateDir(specs[l[1]])>>}
      [] OTHER -> {}

\* The files a listener or backend opens.
Opens(l) ==
    CASE l \in Routines({"http"}) /\ RoutineAt(l).cert # "" /\ RoutineAt(l).key # "" ->
           {<<"file", RoutineAt(l).cert>>, <<"file", RoutineAt(l).key>>}
      [] l # Health /\ l[2] = 0 /\ specs[l[1]].kind = "ts" ->
           {<<"dir", EffectiveStateDir(specs[l[1]])>>}
      [] OTHER -> {}

Failed(l) == \E x \in lost : x[1] = l

\* The health endpoint is bound first, and main exits if it cannot be; a
\* connection's routines are spawned once its backend is up.
Turn(l) ==
    /\ l \notin held /\ ~Failed(l)
    /\ l # Health /\ info # NoInfo => Health \in held
    /\ l[2] # 0 => <<l[1], 0>> \in held

Denied(l) ==
    /\ ~open
    /\ l \in DOMAIN Binds
    /\ Binds[l].kind = "tcp"
    /\ <<"bind", PortOf(Binds[l].port)>> \notin rules

\* An address that cannot be used: a host that is not local, a port that
\* cannot be bound, a target that parseAddressPort refuses, a ListenPort that
\* IpcSet refuses.
BadAddress(l) ==
    \/ l \in DOMAIN Binds /\ (Binds[l].host \notin DOMAIN AddrsOf \/ ~Bindable(Binds[l].port))
    \/ l \in Routines(TargetKinds) /\ ~extractPort(RoutineAt(l).target.port)
    \/ l # Health /\ l[2] = 0 /\ ~(ListenPort(specs[l[1]]) \subseteq 0..MaxPort)

\* What keeps a listener or backend from coming up.
Obstacles(l) ==
    IF BadAddress(l) THEN {"address"}
    ELSE {why \in {"denied", "unreadable", "clash"} :
            \/ why = "denied" /\ Denied(l)
            \/ why = "unreadable" /\ ~(Opens(l) \subseteq files)
            \/ why = "clash" /\ \E m \in held : Takes(l) \intersect Takes(m) # {}}

Acquire(l) ==
    /\ stage = "ready" /\ Turn(l)
    /\ \/ Obstacles(l) = {} /\ held' = held \union {l} /\ UNCHANGED lost
       \/ Obstacles(l) # {} /\ lost' = lost \union ({l} \X Obstacles(l)) /\ UNCHANGED held
    /\ dialled' = NoDial
    /\ UNCHANGED <<paths, info, specs, stage, open, rules, files>>

\* The port a direct dial goes to is one the sandbox lets the process
\* connect to.  A proxy's destination can have any port.
MayConnect(l) ==
    \/ open
    \/ /\ l \in Routines({"tcpservertunnel"})
       /\ <<"connect", PortOf(RoutineAt(l).target.port)>> \in rules

\* A routine that serves dials its target or what a client asks for.
Dial(l, h, answers) ==
    /\ stage = "ready" /\ l \in held
    /\ \/ l \in Routines(ProxyKinds)
       \/ l \in Routines(TargetKinds) /\ h = RoutineAt(l).target.host
    /\ IsLiteral(h) => Cardinality(answers) = 1
    /\ \E d \in Dials(specs[l[1]], RoutineAt(l), h, answers) :
          /\ dialled' = [by |-> l, host |-> h, answers |-> answers,
                         lookup |-> d.lookup, via |-> d.via, addr |-> d.addr]
          /\ lost' = IF d.via = "direct" /\ ~MayConnect(l)
                     THEN lost \union {<<l, "denied">>} ELSE lost
    /\ UNCHANGED <<paths, info, specs, stage, open, rules, files, held>>

Parts ==
    (IF info = NoInfo THEN {} ELSE {Health})
    \union {<<i, 0>> : i \in DOMAIN specs}
    \union Routines(HostKinds \union TargetKinds)

TypeOK ==
    /\ info \in Infos
    /\ stage \in {"load", "valid", "rejected", "refused", "locked", "ready"}
    /\ stage \in {"load", "rejected"} => specs = <<>>
    /\ open \in BOOLEAN
    /\ rules \subseteq {"bind", "connect"} \X (0..MaxPort)
    /\ held \subseteq Parts
    /\ lost \subseteq Parts \X {"address", "clash", "denied", "unreadable"}
    /\ dialled # NoDial => dialled.by \in held

Next ==
    \/ Load \/ LockNetwork \/ LockReady
    \/ \E l \in Parts : Acquire(l)
    \/ \E l \in held, h \in Hosts, answers \in SUBSET {"v4", "v6"} : Dial(l, h, answers)

Spec == Init /\ [][Next]_vars

-----------------------------------------------------------------------------
\* "Startup validation is strict: ... conflicting bind ports across
\* connections ... abort before anything starts" (README.md): of a
\* configuration that ValidateConnections accepted, no listener, backend or
\* node finds its port or state directory taken by another of them, in
\* whatever order they come up.
NoClashAfterValidation == \A x \in lost : x[2] # "clash"

\* The sandbox leaves the process what its configuration needs: no listener
\* is refused its port or its certificate, no node its state directory, and
\* no server tunnel or split-routing proxy is refused a connection.
SandboxFitsConfig == \A x \in lost : x[2] \notin {"denied", "unreadable"}

\* "a typo like [Sokcs5] must never silently drop a proxy from the
\* configuration" (config.go): of files that are loaded, each connection has
\* the routines that the sections of its group ask for, each as often as they
\* do, and no others, however the sections are spread over files and groups.
NothingDropped ==
    stage \notin {"load", "rejected"} =>
        LET fs == ConfigFiles(paths)
            written == Concat([i \in DOMAIN fs |-> Written(fs[i])])
            loaded == Concat([i \in DOMAIN specs |-> Loaded(specs[i])])
        IN  \A x \in Range(written) \union Range(loaded) :
                Len(Filter(written, {x})) = Len(Filter(loaded, {x}))

Swapped(f, i) ==
    [f EXCEPT !.sections[i] = f.sections[i+1], !.sections[i+1] = f.sections[i]]

\* Sections are told apart by group and type, so their layout in the file
\* does not matter: exchanging neighbours of different groups or types makes
\* no difference to whether the file is accepted and to the connections that
\* come of it (splitIntoGroups and the order of routineParsers).
LayoutIrrelevant ==
    stage = "load" =>
        \A f \in Range(ConfigFiles(paths)) : \A i \in 1..Len(f.sections)-1 :
            LET s == f.sections[i]
                t == f.sections[i+1]
            IN  <<GroupName(s), s.type>> # <<GroupName(t), t.type>> =>
                   /\ parseConfigSource(f) = parseConfigSource(Swapped(f, i))
                   /\ parseConfigSource(f) =>
                         Range(ConnectionSpecs(f)) = Range(ConnectionSpecs(Swapped(f, i)))

\* "Override fields: ... Identity fields ... cannot be overridden" (README.md):
\* a connection that imports its device has the imported keys, addresses and
\* peers, whatever sections surround the import, and of the rest what the
\* wrapper gives and otherwise what the imported file does.
ImportKeepsIdentity ==
    stage \notin {"load", "rejected"} =>
        \A f \in Range(ConfigFiles(paths)) : \A g \in Range(splitIntoGroups(f)) :
            Importing(f, g) =>
                \A d \in Range(ConnectionSpec(f, g).device) : KeepsImport(f, g, d)

\* "only connections whose destination host matches one of the patterns are
\* routed through wireguard; every other connection is dialed directly ...
\* case-insensitive and a trailing dot is ignored" (README.md): a proxy sends
\* through the tunnel what its whitelist names, however the client spells it,
\* and everything when it has none; client and stdio tunnels never leave the
\* tunnel, server tunnels never enter it.
RoutedAsConfigured ==
    dialled # NoDial /\ dialled.via # "none" =>
        LET r == RoutineAt(dialled.by)
            listed == \E p \in r.patterns : p.name = dialled.host.name
        IN  dialled.via = "direct" <=>
               \/ r.kind = "tcpservertunnel"
               \/ r.kind \in ProxyKinds /\ r.patterns # {} /\ ~listed

\* "Resolution then happens on the chosen network - the tunnel netstack for
\* tunnelled hosts, the system resolver for direct hosts" (routine.go): a name
\* that is dialled in the tunnel is given to the system's resolver in two cases
\* only.  One is a WireGuard connection without DNS, by a tunnel or by a SOCKS5
\* proxy that neither routes nor logs by name; the other is a Tailscale
\* connection, for a name outside its peer list.  A name that a proxy dials
\* directly is given to no resolver of the tunnel.
NamesStayInTunnel ==
    dialled # NoDial =>
        LET c == specs[dialled.by[1]]
            r == RoutineAt(dialled.by)
            byName == r.kind \in {"http", "sni"} \/ (r.kind = "socks5" /\ (r.patterns # {} \/ r.log))
        IN  /\ dialled.via = "tunnel" /\ dialled.lookup = "system" =>
                  \/ c.kind = "wg" /\ c.device[1].dns = <<>> /\ ~byName
                  \/ c.kind = "ts" /\ dialled.host.name \notin TailnetPeers
            /\ dialled.via = "direct" /\ r.kind \in ProxyKinds => dialled.lookup # "tunnel"

\* "`ipv4`: Prioritize A records ... `auto`: If the WireGuard interface has
\* IPv4 address only, it's equivalent to `ipv4`, otherwise ... `ipv6`"
\* (README.md): a tunnel of a WireGuard connection dials an address of the
\* family the connection asks for when the name has one, and of the other
\* family rather than none.  (A Tailscale connection does not look at its
\* [Resolve] section: startTsnet.)
FamilyAsConfigured ==
    dialled # NoDial /\ RoutineAt(dialled.by).kind \in TargetKinds =>
        LET c == specs[dialled.by[1]]
            only4 == c.resolve = "auto" /\ Range(c.device[1].addrs) = {"v4"}
            wanted == IF only4 \/ c.resolve = "ipv4" THEN "v4" ELSE "v6"
        IN  /\ dialled.via = "none" <=> dialled.answers = {}
            /\ c.kind = "wg" /\ wanted \in dialled.answers => dialled.addr = wanted

\* "reject malformed targets here so --configtest catches what would
\* otherwise only fail (or panic) later" (connections.go): what --configtest
\* accepts is not refused by lockNetwork.
ConfigTestSettles == stage # "refused"

\* The configurations that README.md shows are accepted, where the variables
\* they name are set.
ExamplesLoad == stage # "rejected"
=============================================================================
