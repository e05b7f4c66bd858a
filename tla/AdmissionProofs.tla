-------------------------- MODULE AdmissionProofs --------------------------
(***************************************************************************)
(* The promises of Admission for every configuration: whatever files there *)
(* are, however many sections, connections and routines they have, and     *)
(* whatever the clients of the proxies ask for.                            *)
(***************************************************************************)
EXTENDS Admission, ConfigProofs

TCPBinds == {l \in DOMAIN Binds : Binds[l].kind = "tcp"}
Servers == Routines({"tcpservertunnel"})

\* Past loading, the connections are those of files that were all accepted.
Accepted ==
    /\ paths \in Sources
    /\ stage \notin {"load", "rejected"} =>
          /\ LoadConfigSources(paths) /\ specs = LoadedSpecs(paths)
          /\ ValidateConnections(specs)

\* Nothing is taken or dialled before the process is ready.
Quiet == stage # "ready" => held = {} /\ lost = {} /\ dialled = NoDial

\* The network rules in force are those of lockNetwork.
NetworkLocked ==
    stage \in {"locked", "ready"} /\ ~open =>
        /\ ~NeedsOpenEgress
        /\ \A l \in TCPBinds : extractPort(Binds[l].port) /\ <<"bind", Atoi[Binds[l].port]>> \in rules
        /\ \A l \in Servers : /\ extractPort(RoutineAt(l).target.port)
                              /\ <<"connect", Atoi[RoutineAt(l).target.port]>> \in rules

\* The files in reach are those of lock("ready").
FilesLocked == stage = "ready" => files = tlsFilePaths \union TailscaleStateDirs

\* What came up has an address that it can use.
Placed == \A l \in held : ~BadAddress(l)

\* The last connection is one that the dialer of a routine that is up makes.
Dialled ==
    dialled # NoDial =>
        /\ dialled.by \in held /\ dialled.by \in Routines(ProxyKinds \union TargetKinds)
        /\ dialled.host \in Hosts /\ dialled.answers \subseteq {"v4", "v6"}
        /\ [lookup |-> dialled.lookup, via |-> dialled.via, addr |-> dialled.addr] \in
              Dials(specs[dialled.by[1]], RoutineAt(dialled.by), dialled.host, dialled.answers)

\* The configurations that ValidateConnections can judge: no bind address has
\* a service name for its port, none stands for an address of another by a
\* different name, and no UDP tunnel is on a WireGuard ListenPort.
Apart ==
    /\ \A l \in DOMAIN Binds : Binds[l].port \notin DOMAIN Services
    /\ \A l, m \in {k \in DOMAIN Binds : Binds[k].host \in DOMAIN AddrsOf} :
          \/ Binds[l].host = Binds[m].host
          \/ isWildcardHost(Binds[l].host) \/ isWildcardHost(Binds[m].host)
          \/ AddrsOf[Binds[l].host] \intersect AddrsOf[Binds[m].host] = {}
    /\ \A l \in DOMAIN Binds, i \in DOMAIN specs :
          Binds[l].kind = "udp" => PortOf(Binds[l].port) \notin ListenPort(specs[i])

ClashFree == Apart => NoClashAfterValidation

IInv == /\ TypeOK /\ Accepted /\ Quiet /\ NetworkLocked /\ FilesLocked /\ Placed /\ Dialled
        /\ SandboxFitsConfig /\ ClashFree

-----------------------------------------------------------------------------
\* A port that extractPort takes is bound and dialled under its number.
LEMMA NumericPort ==
    ASSUME NEW p, extractPort(p)
    PROVE  PortOf(p) = Atoi[p] /\ Atoi[p] \in 0..MaxPort
BY PortTexts DEF extractPort, Numeric, PortOf

\* A routine is given by its connection and its place in it.
LEMMA RoutineIndex ==
    ASSUME NEW kinds
    PROVE  \A l : l \in Routines(kinds) <=>
             \E i \in DOMAIN specs : \E j \in DOMAIN specs[i].routines :
                l = <<i, j>> /\ specs[i].routines[j].kind \in kinds
BY DEF Routines, RoutinesOf

\* The same, of a routine that is given as a pair.
LEMMA RoutineKind ==
    ASSUME NEW kinds, NEW l \in Routines(kinds)
    PROVE  l[1] \in DOMAIN specs /\ l[2] \in DOMAIN specs[l[1]].routines /\ RoutineAt(l).kind \in kinds
BY RoutineIndex DEF RoutineAt

\* Connections and routines are numbered from 1.
LEMMA Numbered ==
    ASSUME TypeOK, Accepted
    PROVE  /\ \A i \in DOMAIN specs : i \in Nat \ {0}
           /\ \A i \in DOMAIN specs : \A j \in DOMAIN specs[i].routines : j \in Nat \ {0}
           /\ stage \notin {"load", "rejected"} =>
                 Parsed(ConfigFiles(paths)) /\ specs = SpecsOf(ConfigFiles(paths))
<1>1. CASE stage \in {"load", "rejected"}
  <2>1. DOMAIN specs = {}
    BY <1>1, EmptySeq DEF TypeOK
  <2> QED
    BY <1>1, <2>1
<1>2. CASE stage \notin {"load", "rejected"}
  <2> DEFINE fs == ConfigFiles(paths)
  <2>1. IsSeq(paths) /\ \A i \in DOMAIN paths : IsPath(paths[i])
    BY SourceShape DEF Accepted
  <2>2. fs \in Seq(FilesIn(paths)) /\ \A f \in FilesIn(paths) : IsFile(f)
    BY <2>1, FilesAre
  <2>3. \A i \in DOMAIN fs : parseConfigSource(fs[i])
    BY <1>2 DEF Accepted, LoadConfigSources
  <2>4. specs = SpecsOf(fs)
    BY <1>2 DEF Accepted, LoadedSpecs, SpecsOf
  <2> HIDE DEF fs
  <2>5. IsSeq(fs) /\ Range(fs) \subseteq FilesIn(paths)
    BY <2>2, RangeInSet DEF IsSeq
  <2>6. Parsed(fs)
    BY <2>2, <2>3, <2>5 DEF Parsed, Range
  <2>7. /\ \A i \in DOMAIN specs : i \in Nat \ {0}
        /\ \A i \in DOMAIN specs : \A j \in DOMAIN specs[i].routines : j \in Nat \ {0}
    BY <2>4, <2>6, SpecsNumbered
  <2> QED
    BY <2>4, <2>6, <2>7 DEF fs
<1> QED
  BY <1>1, <1>2

\* Only server tunnels and proxies with a whitelist leave the tunnel.
LEMMA DirectDial ==
    ASSUME NEW c, NEW r, NEW h, NEW answers, NEW d \in Dials(c, r, h, answers), d.via = "direct"
    PROVE  r.kind = "tcpservertunnel" \/ (r.kind \in ProxyKinds /\ r.patterns # {})
<1>1. CASE passthrough(r)
  <2>1. r.kind \in ProxyKinds
    BY <1>1 DEF passthrough, ProxyKinds
  <2>2. ~shouldTunnel(r.patterns, h)
    BY <1>1 DEF Dials, RoutedDial
  <2> QED
    BY <2>1, <2>2 DEF shouldTunnel
<1>2. CASE ~passthrough(r)
  BY <1>2 DEF Dials, ResolvedDial
<1> QED
  BY <1>1, <1>2

\* A name dialled in the tunnel is given to the system by whom NetDial or
\* LookupAddr says.
LEMMA SystemLookup ==
    ASSUME NEW c, NEW r, NEW h, NEW answers, NEW d \in Dials(c, r, h, answers),
           d.via = "tunnel", d.lookup = "system"
    PROVE  IF passthrough(r) THEN NetDial(c, h) = "system" ELSE LookupAddr(c, h) = "system"
<1>1. CASE passthrough(r)
  BY <1>1 DEF Dials, RoutedDial
<1>2. CASE ~passthrough(r)
  BY <1>2 DEF Dials, ResolvedDial
<1> QED
  BY <1>1, <1>2

\* A name that a proxy dials directly is given to no resolver of the tunnel.
LEMMA DirectLookup ==
    ASSUME NEW c, NEW r, NEW h, NEW answers, NEW d \in Dials(c, r, h, answers),
           d.via = "direct", r.kind \in ProxyKinds
    PROVE  d.lookup # "tunnel"
<1>1. CASE passthrough(r)
  BY <1>1 DEF Dials, RoutedDial
<1>2. CASE ~passthrough(r)
  BY <1>2 DEF Dials, ResolvedDial, ProxyKinds
<1> QED
  BY <1>1, <1>2

-----------------------------------------------------------------------------
\* The process as it starts.
LEMMA InitHolds == Init => IInv
<1> SUFFICES ASSUME Init PROVE IInv
  OBVIOUS
<1>1. TypeOK
  BY Zenon DEF Init, TypeOK
<1>2. Accepted /\ Quiet /\ NetworkLocked /\ FilesLocked /\ Placed /\ Dialled
  BY DEF Init, Accepted, Quiet, NetworkLocked, FilesLocked, Placed, Dialled
<1>3. SandboxFitsConfig /\ ClashFree
  BY DEF Init, SandboxFitsConfig, ClashFree, NoClashAfterValidation
<1> QED
  BY <1>1, <1>2, <1>3 DEF IInv

\* What is computed from the connections and the health endpoint's address
\* stays while they do.
LEMMA Derived ==
    ASSUME UNCHANGED <<specs, info>>
    PROVE  /\ NeedsOpenEgress' = NeedsOpenEgress /\ TCPBinds' = TCPBinds /\ Servers' = Servers
           /\ Binds' = Binds /\ \A l : RoutineAt(l)' = RoutineAt(l)
           /\ \A kinds : Routines(kinds)' = Routines(kinds)
           /\ Parts' = Parts /\ tlsFilePaths' = tlsFilePaths
           /\ TailscaleStateDirs' = TailscaleStateDirs /\ Apart' = Apart
           /\ \A l : BadAddress(l)' = BadAddress(l)
<1>1. /\ Binds' = Binds /\ \A l : RoutineAt(l)' = RoutineAt(l)
      /\ \A kinds : Routines(kinds)' = Routines(kinds)
  BY DEF Binds, BindsOf, Routines, RoutinesOf, RoutineAt
<1>2. NeedsOpenEgress' = NeedsOpenEgress /\ TCPBinds' = TCPBinds /\ Servers' = Servers
  BY DEF NeedsOpenEgress, TCPBinds, Servers, Binds, BindsOf, Routines, RoutinesOf, RoutineAt
<1>3. Parts' = Parts
  BY DEF Parts, Routines, RoutinesOf
<1>4. tlsFilePaths' = tlsFilePaths
  BY DEF tlsFilePaths, Routines, RoutinesOf, RoutineAt
<1>5. TailscaleStateDirs' = TailscaleStateDirs
  BY DEF TailscaleStateDirs
<1>6. Apart' = Apart
  BY <1>1 DEF Apart
<1>7. \A l : BadAddress(l)' = BadAddress(l)
  BY DEF BadAddress, Binds, BindsOf, Routines, RoutinesOf, RoutineAt
<1> QED
  BY <1>1, <1>2, <1>3, <1>4, <1>5, <1>6, <1>7

\* So do the network rules.
LEMMA RulesKept ==
    ASSUME NetworkLocked, UNCHANGED <<specs, info, open, rules>>,
           stage' \in {"locked", "ready"} => stage \in {"locked", "ready"}
    PROVE  NetworkLocked'
<1> SUFFICES ASSUME stage' \in {"locked", "ready"}, ~open PROVE NetworkLocked'
  BY DEF NetworkLocked
<1>1. /\ ~NeedsOpenEgress
      /\ \A l \in TCPBinds : extractPort(Binds[l].port) /\ <<"bind", Atoi[Binds[l].port]>> \in rules
      /\ \A l \in Servers : /\ extractPort(RoutineAt(l).target.port)
                            /\ <<"connect", Atoi[RoutineAt(l).target.port]>> \in rules
  BY DEF NetworkLocked
<1> QED
  BY <1>1, Derived DEF NetworkLocked

\* And that the connections were accepted.
LEMMA AcceptedKept ==
    ASSUME Accepted, UNCHANGED <<paths, info, specs>>,
           stage' \notin {"load", "rejected"} => stage \notin {"load", "rejected"}
    PROVE  Accepted'
<1>1. BindsOf(specs)' = BindsOf(specs)
  BY DEF BindsOf, RoutinesOf
<1>2. \A K : RoutinesOf(specs, K)' = RoutinesOf(specs, K)
  BY DEF RoutinesOf
<1>3. ValidateConnections(specs)' = ValidateConnections(specs)
  BY <1>1, <1>2, SMTT(30) DEF ValidateConnections
<1> QED
  BY <1>3, SMTT(30) DEF Accepted

-----------------------------------------------------------------------------
\* Loading and the two locks take nothing.
LEMMA StillQuiet ==
    ASSUME IInv, Load \/ LockNetwork \/ LockReady
    PROVE  /\ held' = {} /\ lost' = {} /\ dialled' = NoDial
           /\ Quiet' /\ Placed' /\ Dialled' /\ SandboxFitsConfig' /\ ClashFree'
<1>1. held' = {} /\ lost' = {} /\ dialled' = NoDial
  BY DEF IInv, Quiet, Load, LockNetwork, LockReady
<1> QED
  BY <1>1 DEF Quiet, Placed, Dialled, SandboxFitsConfig, ClashFree, NoClashAfterValidation

\* LoadConfigSources.
LEMMA LoadStep ==
    ASSUME IInv, Load
    PROVE  IInv'
<1>1. stage' \in {"valid", "rejected"} /\ UNCHANGED <<paths, info, open, rules>>
  BY DEF Load
<1>2. TypeOK'
  <2>1. stage' = "rejected" => specs' = <<>>
    BY DEF Load, IInv, TypeOK
  <2> QED
    BY <1>1, <2>1, StillQuiet DEF IInv, TypeOK
<1>3. Accepted'
  <2>1. CASE stage' = "valid"
    <3>1. /\ LoadConfigSources(paths) /\ specs' = LoadedSpecs(paths)
          /\ ValidateConnections(LoadedSpecs(paths))
      BY <2>1 DEF Load
    <3>2. ValidateConnections(specs)' = ValidateConnections(LoadedSpecs(paths))
      <4>1. BindsOf(specs)' = BindsOf(LoadedSpecs(paths))
        BY <1>1, <3>1 DEF BindsOf
      <4>2. specs' = LoadedSpecs(paths)
        BY <3>1
      <4> QED
        BY ONLY <4>1, <4>2, Zenon DEF ValidateConnections
    <3> QED
      BY <1>1, <3>1, <3>2 DEF IInv, Accepted
  <2>2. CASE stage' = "rejected"
    BY <1>1, <2>2 DEF IInv, Accepted
  <2> QED
    BY <1>1, <2>1, <2>2
<1>4. NetworkLocked' /\ FilesLocked'
  BY <1>1 DEF NetworkLocked, FilesLocked
<1> QED
  BY <1>2, <1>3, <1>4, StillQuiet DEF IInv

\* lockNetwork.
LEMMA LockNetworkStep ==
    ASSUME IInv, LockNetwork
    PROVE  IInv'
<1>1. /\ UNCHANGED <<paths, info, specs>> /\ stage = "valid" /\ stage' \in {"locked", "refused"}
  BY DEF LockNetwork
<1>2. \/ stage' = "locked" /\ open' = TRUE /\ rules' = rules
      \/ /\ stage' = "locked" /\ open' = open /\ ~NeedsOpenEgress
         /\ \A l \in TCPBinds : extractPort(Binds[l].port)
         /\ \A l \in Servers : extractPort(RoutineAt(l).target.port)
         /\ rules' = {<<"bind", Atoi[Binds[l].port]>> : l \in TCPBinds}
                     \union {<<"connect", Atoi[RoutineAt(l).target.port]>> : l \in Servers}
      \/ stage' = "refused" /\ open' = open /\ rules' = rules
  BY DEF LockNetwork, TCPBinds, Servers
<1>3. TypeOK'
  <2>1. open' \in BOOLEAN
    BY <1>2, Zenon DEF IInv, TypeOK
  <2>2. rules' \subseteq {"bind", "connect"} \X (0..MaxPort)
    <3>1. CASE rules' = rules
      BY <3>1 DEF IInv, TypeOK
    <3>2. CASE /\ \A l \in TCPBinds : extractPort(Binds[l].port)
               /\ \A l \in Servers : extractPort(RoutineAt(l).target.port)
               /\ rules' = {<<"bind", Atoi[Binds[l].port]>> : l \in TCPBinds}
                           \union {<<"connect", Atoi[RoutineAt(l).target.port]>> : l \in Servers}
      BY <3>2 DEF extractPort
    <3> QED
      BY <1>2, <3>1, <3>2
  <2> QED
    BY <1>1, <2>1, <2>2, StillQuiet DEF IInv, TypeOK
<1>4. NetworkLocked'
  <2> SUFFICES ASSUME stage' \in {"locked", "ready"}, ~open' PROVE NetworkLocked'
    BY DEF NetworkLocked
  <2>1. /\ ~NeedsOpenEgress
        /\ \A l \in TCPBinds : extractPort(Binds[l].port)
        /\ \A l \in Servers : extractPort(RoutineAt(l).target.port)
        /\ rules' = {<<"bind", Atoi[Binds[l].port]>> : l \in TCPBinds}
                    \union {<<"connect", Atoi[RoutineAt(l).target.port]>> : l \in Servers}
    BY <1>2
  <2>2. /\ NeedsOpenEgress' = NeedsOpenEgress /\ TCPBinds' = TCPBinds /\ Servers' = Servers
        /\ Binds' = Binds /\ \A l : RoutineAt(l)' = RoutineAt(l)
    BY <1>1, Derived
  <2> QED
    BY <2>1, <2>2 DEF NetworkLocked
<1>5. FilesLocked'
  BY <1>1 DEF FilesLocked
<1>6. Accepted'
  BY <1>1, AcceptedKept DEF IInv
<1> QED
  BY <1>3, <1>4, <1>5, <1>6, StillQuiet DEF IInv

\* lock("ready").
LEMMA LockReadyStep ==
    ASSUME IInv, LockReady
    PROVE  IInv'
<1>1. UNCHANGED <<paths, info, specs, open, rules>> /\ stage = "locked" /\ stage' = "ready"
  BY DEF LockReady
<1>2. TypeOK'
  BY <1>1, StillQuiet DEF IInv, TypeOK
<1>3. Accepted' /\ NetworkLocked'
  BY <1>1, AcceptedKept, RulesKept DEF IInv
<1>4. FilesLocked'
  BY <1>1, Derived DEF LockReady, FilesLocked
<1> QED
  BY <1>2, <1>3, <1>4, StillQuiet DEF IInv

\* Once it is ready, what was locked stays as it is.
LEMMA ReadyStep ==
    ASSUME IInv, stage = "ready", UNCHANGED <<paths, info, specs, stage, open, rules, files>>
    PROVE  Accepted' /\ Quiet' /\ NetworkLocked' /\ FilesLocked'
<1>1. Accepted' /\ NetworkLocked'
  BY AcceptedKept, RulesKept DEF IInv
<1>2. FilesLocked'
  BY Derived DEF IInv, FilesLocked
<1> QED
  BY <1>1, <1>2 DEF Quiet

\* Every file that a part opens is in reach.
LEMMA OpensInReach ==
    ASSUME IInv, stage = "ready", NEW l \in Parts
    PROVE  Opens(l) \subseteq files
<1>1. CASE l \in Routines({"http"}) /\ RoutineAt(l).cert # "" /\ RoutineAt(l).key # ""
  <2>1. Opens(l) = {<<"file", RoutineAt(l).cert>>, <<"file", RoutineAt(l).key>>}
    <3>1. l[2] # 0
      <4>1. l \in Routines({"http"})
        BY <1>1, Zenon
      <4>2. l[1] \in DOMAIN specs /\ l[2] \in DOMAIN specs[l[1]].routines
        BY ONLY <4>1, RoutineKind
      <4>3. l[2] \in Nat \ {0}
        BY <4>2, Numbered DEF IInv
      <4> QED
        BY <4>3
    <3> QED
      BY <1>1, <3>1, Zenon DEF Opens
  <2>2. Opens(l) \subseteq tlsFilePaths
    <3> DEFINE pairs == {{RoutineAt(m).cert, RoutineAt(m).key} : m \in Routines({"http"})}
               named == (UNION pairs) \ {""}
    <3>1. {RoutineAt(l).cert, RoutineAt(l).key} \in pairs
      BY <1>1, Zenon
    <3>2. tlsFilePaths = {<<"file", p>> : p \in named}
      BY DEF tlsFilePaths
    <3> HIDE DEF pairs
    <3>3. RoutineAt(l).cert \in named /\ RoutineAt(l).key \in named
      <4>1. \A a, b : {a, b} \in pairs => a \in UNION pairs /\ b \in UNION pairs
        OBVIOUS
      <4>2. RoutineAt(l).cert \in UNION pairs /\ RoutineAt(l).key \in UNION pairs
        BY <3>1, <4>1
      <4> QED
        BY <1>1, <4>2, Zenon
    <3> HIDE DEF named
    <3> QED
      BY <2>1, <3>2, <3>3
  <2> QED
    BY <2>2 DEF IInv, FilesLocked
<1>2. CASE /\ ~(l \in Routines({"http"}) /\ RoutineAt(l).cert # "" /\ RoutineAt(l).key # "")
           /\ l # Health /\ l[2] = 0 /\ specs[l[1]].kind = "ts"
  <2>1. Opens(l) = {<<"dir", EffectiveStateDir(specs[l[1]])>>}
    BY <1>2, Zenon DEF Opens
  <2>2. l[1] \in DOMAIN specs
    <3>1. CASE l \in {<<i, 0>> : i \in DOMAIN specs}
      BY <3>1
    <3>2. CASE l \in Routines(HostKinds \union TargetKinds)
      BY <3>2, RoutineKind
    <3> QED
      BY <1>2, <3>1, <3>2, Zenon DEF Parts
  <2>3. Opens(l) \subseteq TailscaleStateDirs
    BY <1>2, <2>1, <2>2, Zenon DEF TailscaleStateDirs
  <2> QED
    BY <2>3 DEF IInv, FilesLocked
<1>3. CASE /\ ~(l \in Routines({"http"}) /\ RoutineAt(l).cert # "" /\ RoutineAt(l).key # "")
           /\ ~(l # Health /\ l[2] = 0 /\ specs[l[1]].kind = "ts")
  BY <1>3, Zenon DEF Opens
<1> QED
  BY <1>1, <1>2, <1>3, Zenon

-----------------------------------------------------------------------------
\* What a part takes: a listener, a server tunnel, a WireGuard device and a
\* Tailscale node.
Listens(l, x) ==
    /\ l \in DOMAIN Binds /\ PortOf(Binds[l].port) # 0
    /\ \E a \in AddrsOf[Binds[l].host] : x = <<0, Binds[l].kind, PortOf(Binds[l].port), a>>
Serves(l, x) == l \in Servers /\ x = <<l[1], "tcp", RoutineAt(l).listenPort, "tunnel">>
Backs(l, kind) == \E i \in DOMAIN specs : l = <<i, 0>> /\ specs[i].kind = kind
Receives(l, x) ==
    /\ Backs(l, "wg")
    /\ \E n \in ListenPort(specs[l[1]]) : \E a \in AddrsOf[""] : x = <<0, "udp", n, a>>
Stores(l, x) == Backs(l, "ts") /\ x = <<"dir", EffectiveStateDir(specs[l[1]])>>

\* These are the things there are to take.
LEMMA Taken ==
    ASSUME TypeOK, Accepted, NEW l \in Parts, NEW x \in Takes(l)
    PROVE  Listens(l, x) \/ Serves(l, x) \/ Receives(l, x) \/ Stores(l, x)
<1>1. ASSUME NEW s, NEW q, NEW n, NEW as, NEW y \in Ports(s, q, n, as)
      PROVE  n # 0 /\ \E a \in as : y = <<s, q, n, a>>
  BY <1>1, Zenon DEF Ports
<1>2. CASE l \in DOMAIN Binds
  <2>1. l \notin Routines({"tcpservertunnel"}) /\ ~(l[2] = 0 /\ l # Health)
    <3>1. l \in Routines(HostKinds) \/ l = Health
      BY <1>2 DEF Binds, BindsOf, Routines
    <3>2. CASE l \in Routines(HostKinds)
      <4>1. l[1] \in DOMAIN specs /\ l[2] \in DOMAIN specs[l[1]].routines /\ RoutineAt(l).kind \in HostKinds
        BY <3>2, RoutineKind
      <4>2. l[2] # 0
        BY <4>1, Numbered
      <4>3. l \in Routines({"tcpservertunnel"}) => RoutineAt(l).kind = "tcpservertunnel"
        BY RoutineKind
      <4> QED
        BY <4>1, <4>2, <4>3 DEF HostKinds
    <3>3. CASE l = Health
      <4>1. l \in Routines({"tcpservertunnel"}) => l[1] \in DOMAIN specs
        BY RoutineKind
      <4>2. 0 \notin DOMAIN specs
        BY Numbered
      <4> QED
        BY <3>3, <4>1, <4>2 DEF Health
    <3> QED
      BY <3>1, <3>2, <3>3
  <2>2. Takes(l) = Ports(0, Binds[l].kind, PortOf(Binds[l].port), AddrsOf[Binds[l].host])
    BY <1>2, <2>1, Zenon DEF Takes
  <2> QED
    BY <1>1, <1>2, <2>2 DEF Listens
<1>3. CASE l \in Servers /\ l \notin DOMAIN Binds
  <2>1. l[2] # 0
    <3>1. l[1] \in DOMAIN specs /\ l[2] \in DOMAIN specs[l[1]].routines
      BY <1>3, RoutineKind DEF Servers
    <3> QED
      BY <3>1, Numbered
  <2>2. Takes(l) = Ports(l[1], "tcp", RoutineAt(l).listenPort, {"tunnel"})
    BY <1>3, <2>1 DEF Takes, Servers
  <2> QED
    BY <1>1, <1>3, <2>2 DEF Serves
<1>4. CASE l \notin Servers /\ l \notin DOMAIN Binds
  <2>1. CASE l \in {<<i, 0>> : i \in DOMAIN specs}
    <3>1. PICK i \in DOMAIN specs : l = <<i, 0>>
      BY <2>1
    <3>2. l # Health /\ l[2] = 0 /\ l[1] = i
      BY <3>1, Numbered DEF Health
    <3>3. CASE specs[i].kind = "wg"
      <4>1. Takes(l) = UNION {Ports(0, "udp", n, AddrsOf[""]) : n \in ListenPort(specs[l[1]])}
        BY <1>4, <3>2, <3>3, Zenon DEF Takes, Servers
      <4>2. PICK n \in ListenPort(specs[l[1]]) : x \in Ports(0, "udp", n, AddrsOf[""])
        BY <4>1, Zenon
      <4>3. \E a \in AddrsOf[""] : x = <<0, "udp", n, a>>
        <5> DEFINE everywhere == AddrsOf[""]
        <5>1. x \in Ports(0, "udp", n, everywhere)
          BY <4>2, Zenon
        <5> HIDE DEF everywhere
        <5>2. \E a \in everywhere : x = <<0, "udp", n, a>>
          BY ONLY <1>1, <5>1
        <5> QED
          BY <5>2, Zenon DEF everywhere
      <4>4. Backs(l, "wg")
        BY <3>1, <3>3 DEF Backs
      <4> QED
        BY ONLY <4>2, <4>3, <4>4, Zenon DEF Receives
    <3>4. CASE specs[i].kind = "ts"
      <4>1. Takes(l) = {<<"dir", EffectiveStateDir(specs[l[1]])>>}
        BY <1>4, <3>2, <3>4, Zenon DEF Takes, Servers
      <4>2. Backs(l, "ts")
        BY <3>1, <3>4 DEF Backs
      <4> QED
        BY <4>1, <4>2 DEF Stores
    <3>5. CASE specs[i].kind # "wg" /\ specs[i].kind # "ts"
      <4>1. Takes(l) = {}
        BY <1>4, <3>2, <3>5, Zenon DEF Takes, Servers
      <4> QED
        BY <4>1
    <3> QED
      BY <3>3, <3>4, <3>5
  <2>2. CASE l \notin {<<i, 0>> : i \in DOMAIN specs}
    <3>1. l \in Routines(HostKinds \union TargetKinds)
      <4>1. info # NoInfo => Health \in DOMAIN Binds
        BY DEF Binds, BindsOf
      <4> QED
        BY <1>4, <2>2, <4>1 DEF Parts
    <3>2. l[2] # 0
      <4>1. l[1] \in DOMAIN specs /\ l[2] \in DOMAIN specs[l[1]].routines
        BY <3>1, RoutineKind
      <4> QED
        BY <4>1, Numbered
    <3>3. Takes(l) = {}
      BY <1>4, <3>2, Zenon DEF Takes, Servers
    <3> QED
      BY <3>3
  <2> QED
    BY <2>1, <2>2
<1> QED
  BY <1>2, <1>3, <1>4

\* Two listeners that ValidateConnections accepted.
LEMMA ListenersApart ==
    ASSUME ValidateConnections(specs), Apart, NEW l, NEW m, l # m, NEW x,
           ~BadAddress(l), ~BadAddress(m), Listens(l, x), Listens(m, x)
    PROVE  FALSE
<1> DEFINE b == Binds[l]
           c == Binds[m]
<1>1. l \in DOMAIN Binds /\ m \in DOMAIN Binds
  BY DEF Listens
<1>2. /\ b.host \in DOMAIN AddrsOf /\ c.host \in DOMAIN AddrsOf
      /\ Bindable(b.port) /\ Bindable(c.port)
  BY <1>1 DEF BadAddress
<1>3. b.port \notin DOMAIN Services /\ c.port \notin DOMAIN Services
  BY <1>1 DEF Apart
<1>4. Numeric(b.port) /\ Numeric(c.port) /\ PortOf(b.port) = Atoi[b.port] /\ PortOf(c.port) = Atoi[c.port]
  BY <1>2, <1>3 DEF Bindable, PortOf
<1>5. PICK a \in AddrsOf[b.host] : x = <<0, b.kind, PortOf(b.port), a>>
  BY DEF Listens
<1>6. PICK z \in AddrsOf[c.host] : x = <<0, c.kind, PortOf(c.port), z>>
  BY DEF Listens
<1>7. a = z /\ b.kind = c.kind /\ PortOf(b.port) = PortOf(c.port)
  BY ONLY <1>5, <1>6
<1>8. normalizePort(b.port) = normalizePort(c.port)
  BY <1>4, <1>7 DEF normalizePort
<1>9. ~SharePort(b, c)
  <2>1. \A u, v \in DOMAIN Binds : u # v => ~SharePort(Binds[u], Binds[v])
    BY Zenon DEF ValidateConnections, Binds
  <2> QED
    BY <1>1, <2>1
<1>10. b.host # c.host /\ ~isWildcardHost(b.host) /\ ~isWildcardHost(c.host)
  BY <1>7, <1>8, <1>9 DEF SharePort
<1>11. AddrsOf[b.host] \intersect AddrsOf[c.host] = {}
  <2>1. \A u, v \in {k \in DOMAIN Binds : Binds[k].host \in DOMAIN AddrsOf} :
          \/ Binds[u].host = Binds[v].host
          \/ isWildcardHost(Binds[u].host) \/ isWildcardHost(Binds[v].host)
          \/ AddrsOf[Binds[u].host] \intersect AddrsOf[Binds[v].host] = {}
    BY DEF Apart
  <2> QED
    BY <1>1, <1>2, <1>10, <2>1, SMTT(20)
<1> QED
  BY <1>5, <1>6, <1>7, <1>11

\* Two connections that ValidateConnections accepted.
LEMMA BackendsApart ==
    ASSUME ValidateConnections(specs), NEW i \in DOMAIN specs, NEW j \in DOMAIN specs, i # j
    PROVE  /\ ListenPort(specs[i]) \intersect ListenPort(specs[j]) = {}
           /\ specs[i].kind = "ts" /\ specs[j].kind = "ts" =>
                EffectiveStateDir(specs[i]) # EffectiveStateDir(specs[j])
<1>1. ~Exclusive(specs[i], specs[j])
  BY Zenon DEF ValidateConnections
<1> QED
  BY <1>1 DEF Exclusive

\* No two parts of an accepted configuration take the same.
LEMMA TakesApart ==
    ASSUME TypeOK, Accepted, ValidateConnections(specs), Apart,
           NEW l \in Parts, NEW m \in Parts, l # m, ~BadAddress(l), ~BadAddress(m)
    PROVE  Takes(l) \intersect Takes(m) = {}
<1> SUFFICES ASSUME NEW x, x \in Takes(l), x \in Takes(m) PROVE FALSE
  OBVIOUS
<1>1. Listens(l, x) \/ Serves(l, x) \/ Receives(l, x) \/ Stores(l, x)
  BY Taken
<1>2. Listens(m, x) \/ Serves(m, x) \/ Receives(m, x) \/ Stores(m, x)
  BY Taken
<1>3. \A k : Listens(k, x) => x[1] = 0 /\ Len(x) = 4
  BY DEF Listens
<1>4. \A k : Receives(k, x) => /\ Backs(k, "wg")
                                /\ \E n \in ListenPort(specs[k[1]]) : \E a : x = <<0, "udp", n, a>>
  BY Zenon DEF Receives
<1>5. \A k : Receives(k, x) => x[1] = 0 /\ x[2] = "udp" /\ Len(x) = 4
  BY <1>4
<1>6. \A k : Serves(k, x) => x[1] \in Nat \ {0} /\ Len(x) = 4
  <2> SUFFICES ASSUME NEW k, k \in Servers, x = <<k[1], "tcp", RoutineAt(k).listenPort, "tunnel">>
               PROVE  x[1] \in Nat \ {0} /\ Len(x) = 4
    BY DEF Serves
  <2>1. k[1] \in DOMAIN specs
    BY RoutineKind DEF Servers
  <2> QED
    BY <2>1, Numbered
<1>7. \A k : Stores(k, x) => Len(x) = 2
  BY DEF Stores
<1>8. CASE Listens(l, x) /\ Listens(m, x)
  BY <1>8, ListenersApart
<1>9. CASE Serves(l, x) /\ Serves(m, x)
  <2>1. /\ l \in Servers /\ m \in Servers /\ l[1] = m[1]
        /\ RoutineAt(l).listenPort = RoutineAt(m).listenPort
    <3>1. \A k : Serves(k, x) => k \in Servers /\ x[1] = k[1] /\ x[3] = RoutineAt(k).listenPort
      BY DEF Serves
    <3> QED
      BY <1>9, <3>1
  <2>2. \A u, v \in Servers : u[1] = v[1] /\ u # v => RoutineAt(u).listenPort # RoutineAt(v).listenPort
    BY Zenon DEF ValidateConnections, Servers, Routines, RoutineAt
  <2> QED
    BY <2>1, <2>2
<1>10. ASSUME NEW u, NEW v, u \in Parts, v \in Parts, Listens(u, x), Receives(v, x) PROVE FALSE
  <2>1. u \in DOMAIN Binds /\ x[2] = Binds[u].kind /\ x[3] = PortOf(Binds[u].port)
    BY <1>10 DEF Listens
  <2>2. PICK i \in DOMAIN specs : v = <<i, 0>>
    BY <1>10, Zenon DEF Receives, Backs
  <2>3. x[3] \in ListenPort(specs[v[1]]) /\ x[2] = "udp"
    BY <1>10, <1>4
  <2>4. v[1] = i
    BY <2>2
  <2> QED
    BY <2>1, <2>2, <2>3, <2>4, Zenon DEF Apart
<1>11. CASE Receives(l, x) /\ Receives(m, x)
  <2>1. \A k : Receives(k, x) => /\ k[1] \in DOMAIN specs /\ k = <<k[1], 0>>
                                 /\ x[3] \in ListenPort(specs[k[1]])
    BY <1>4 DEF Backs
  <2> QED
    BY <1>11, <2>1, BackendsApart
<1>12. CASE Stores(l, x) /\ Stores(m, x)
  <2>1. \A k : Stores(k, x) => /\ k[1] \in DOMAIN specs /\ k = <<k[1], 0>> /\ specs[k[1]].kind = "ts"
                               /\ x[2] = EffectiveStateDir(specs[k[1]])
    BY DEF Stores, Backs
  <2> QED
    BY <1>12, <2>1, BackendsApart
<1> QED
  BY <1>1, <1>2, <1>3, <1>5, <1>6, <1>7, <1>8, <1>9, <1>10, <1>11, <1>12, SMTT(20)

-----------------------------------------------------------------------------
\* A listener or backend that takes what it needs is refused nothing by the
\* sandbox, and finds nothing taken.
LEMMA AcquireStep ==
    ASSUME IInv, NEW l \in Parts, Acquire(l)
    PROVE  IInv'
<1>1. /\ stage = "ready" /\ dialled' = NoDial /\ l \notin held
      /\ UNCHANGED <<paths, info, specs, stage, open, rules, files>>
      /\ \/ Obstacles(l) = {} /\ held' = held \union {l} /\ lost' = lost
         \/ held' = held /\ lost' = lost \union ({l} \X Obstacles(l))
  BY DEF Acquire, Turn
<1>2. Parts' = Parts /\ Apart' = Apart /\ \A k : BadAddress(k)' = BadAddress(k)
  BY <1>1, Derived
<1>3. Obstacles(l) \subseteq {"address", "denied", "unreadable", "clash"}
  BY DEF Obstacles
<1>4. TypeOK'
  <2>1. held' \subseteq Parts
    BY <1>1 DEF IInv, TypeOK
  <2>2. lost' \subseteq Parts \X {"address", "clash", "denied", "unreadable"}
    <3>1. {l} \X Obstacles(l) \subseteq Parts \X {"address", "clash", "denied", "unreadable"}
      BY <1>3
    <3> QED
      BY <1>1, <3>1 DEF IInv, TypeOK
  <2> QED
    BY <1>1, <1>2, <2>1, <2>2 DEF IInv, TypeOK
<1>5. Placed'
  <2>1. Obstacles(l) = {} => ~BadAddress(l)
    BY DEF Obstacles
  <2> QED
    BY <1>1, <1>2, <2>1 DEF IInv, Placed
<1>6. SandboxFitsConfig'
  <2>1. ~BadAddress(l) => ~Denied(l)
    <3> SUFFICES ASSUME Denied(l) PROVE FALSE
      OBVIOUS
    <3>1. ~open /\ l \in TCPBinds /\ <<"bind", PortOf(Binds[l].port)>> \notin rules
      BY DEF Denied, TCPBinds
    <3>2. extractPort(Binds[l].port) /\ <<"bind", Atoi[Binds[l].port]>> \in rules
      BY <1>1, <3>1 DEF IInv, NetworkLocked
    <3> QED
      BY <3>1, <3>2, NumericPort
  <2>2. Opens(l) \subseteq files
    BY <1>1, OpensInReach
  <2>3. "denied" \notin Obstacles(l) /\ "unreadable" \notin Obstacles(l)
    BY <2>1, <2>2 DEF Obstacles
  <2> QED
    BY <1>1, <2>3 DEF IInv, SandboxFitsConfig
<1>7. ClashFree'
  <2> SUFFICES ASSUME Apart PROVE NoClashAfterValidation'
    BY <1>2 DEF ClashFree
  <2>1. ValidateConnections(specs)
    BY <1>1 DEF IInv, Accepted
  <2>2. ASSUME NEW m \in held, ~BadAddress(l) PROVE Takes(l) \intersect Takes(m) = {}
    <3>1. m \in Parts /\ m # l /\ ~BadAddress(m)
      BY <1>1 DEF IInv, TypeOK, Placed
    <3> QED
      BY <2>1, <2>2, <3>1, TakesApart DEF IInv
  <2>3. "clash" \notin Obstacles(l)
    BY <2>2 DEF Obstacles
  <2> QED
    BY <1>1, <2>3 DEF IInv, ClashFree, NoClashAfterValidation
<1>8. Dialled'
  BY <1>1 DEF Dialled
<1> QED
  BY <1>1, <1>4, <1>5, <1>6, <1>7, <1>8, ReadyStep DEF IInv

\* A connection that a routine makes is one that the sandbox allows.
LEMMA DialStep ==
    ASSUME IInv, NEW l \in held, NEW h \in Hosts, NEW answers \in SUBSET {"v4", "v6"}, Dial(l, h, answers)
    PROVE  IInv'
<1>1. PICK d \in Dials(specs[l[1]], RoutineAt(l), h, answers) :
          /\ dialled' = [by |-> l, host |-> h, answers |-> answers,
                         lookup |-> d.lookup, via |-> d.via, addr |-> d.addr]
          /\ lost' = IF d.via = "direct" /\ ~MayConnect(l)
                     THEN lost \union {<<l, "denied">>} ELSE lost
  BY SMTT(20) DEF Dial
<1>2. /\ stage = "ready" /\ UNCHANGED <<paths, info, specs, stage, open, rules, files, held>>
      /\ l \in Routines(ProxyKinds) \/ l \in Routines(TargetKinds)
  BY SMTT(20) DEF Dial
<1>3. /\ \A k : RoutineAt(k)' = RoutineAt(k)
      /\ \A kinds : Routines(kinds)' = Routines(kinds)
      /\ Parts' = Parts /\ Apart' = Apart /\ \A k : BadAddress(k)' = BadAddress(k)
  BY <1>2, Derived, Zenon
<1>4. /\ l[1] \in DOMAIN specs /\ l[2] \in DOMAIN specs[l[1]].routines
      /\ l = <<l[1], l[2]>> /\ RoutineAt(l).kind \in ProxyKinds \union TargetKinds
  <2>1. ASSUME NEW kinds, l \in Routines(kinds)
        PROVE  /\ l[1] \in DOMAIN specs /\ l[2] \in DOMAIN specs[l[1]].routines
               /\ l = <<l[1], l[2]>> /\ RoutineAt(l).kind \in kinds
    BY <2>1, RoutineIndex DEF RoutineAt
  <2> QED
    BY <1>2, <2>1
<1>5. \A kinds : RoutineAt(l).kind \in kinds => l \in Routines(kinds)
  BY <1>4, RoutineIndex DEF RoutineAt
<1>6. Dialled'
  <2>1. d = [lookup |-> d.lookup, via |-> d.via, addr |-> d.addr]
    BY DEF Dials, RoutedDial, ResolvedDial
  <2>2. l \in Routines(ProxyKinds \union TargetKinds)
    BY <1>4, <1>5
  <2>3. [lookup |-> d.lookup, via |-> d.via, addr |-> d.addr] \in Dials(specs[l[1]], RoutineAt(l), h, answers)
    BY <2>1
  <2>4. /\ dialled'.by = l /\ dialled'.host = h /\ dialled'.answers = answers
        /\ dialled'.lookup = d.lookup /\ dialled'.via = d.via /\ dialled'.addr = d.addr
    BY <1>1, SMTT(20)
  <2> QED
    BY <1>2, <1>3, <2>2, <2>3, <2>4 DEF Dialled
<1>7. d.via = "direct" => MayConnect(l)
  <2> SUFFICES ASSUME d.via = "direct", ~open PROVE MayConnect(l)
    BY DEF MayConnect
  <2>1. CASE RoutineAt(l).kind = "tcpservertunnel"
    <3>1. l \in Servers
      BY <1>5, <2>1 DEF Servers
    <3>2. extractPort(RoutineAt(l).target.port) /\ <<"connect", Atoi[RoutineAt(l).target.port]>> \in rules
      BY <1>2, <3>1, SMTT(20) DEF IInv, NetworkLocked
    <3> QED
      BY <3>1, <3>2, NumericPort DEF MayConnect, Servers
  <2>2. CASE RoutineAt(l).kind \in ProxyKinds /\ RoutineAt(l).patterns # {}
    <3>1. NeedsOpenEgress
      BY <1>5, <2>2, SMTT(20) DEF NeedsOpenEgress, ProxyKinds
    <3> QED
      BY <1>2, <3>1 DEF IInv, NetworkLocked
  <2> QED
    BY <2>1, <2>2, DirectDial
<1>8. lost' = lost
  BY <1>1, <1>7, SMTT(20)
<1>9. TypeOK'
  BY <1>1, <1>2, <1>3, <1>8, SMTT(20) DEF IInv, TypeOK
<1>10. Placed' /\ SandboxFitsConfig' /\ ClashFree'
  BY <1>2, <1>3, <1>8 DEF IInv, Placed, SandboxFitsConfig, ClashFree, NoClashAfterValidation
<1> QED
  BY <1>2, <1>6, <1>9, <1>10, ReadyStep, SMTT(20) DEF IInv

\* A step of something else changes nothing.
LEMMA StutterStep ==
    ASSUME IInv, UNCHANGED vars
    PROVE  IInv'
<1>1. UNCHANGED <<paths, info, specs, stage, open, rules, files, held, lost, dialled>>
  BY DEF vars
<1>2. /\ \A k : RoutineAt(k)' = RoutineAt(k)
      /\ \A kinds : Routines(kinds)' = Routines(kinds)
      /\ Parts' = Parts /\ Apart' = Apart /\ \A k : BadAddress(k)' = BadAddress(k)
      /\ tlsFilePaths' = tlsFilePaths /\ TailscaleStateDirs' = TailscaleStateDirs
  BY <1>1, Derived
<1>3. TypeOK' /\ Quiet' /\ FilesLocked' /\ Placed' /\ SandboxFitsConfig' /\ ClashFree'
  BY <1>1, <1>2, SMTT(20)
  DEF IInv, TypeOK, Quiet, FilesLocked, Placed, SandboxFitsConfig, ClashFree, NoClashAfterValidation
<1>4. Dialled'
  BY <1>1, <1>2 DEF IInv, Dialled
<1>5. Accepted' /\ NetworkLocked'
  BY <1>1, AcceptedKept, RulesKept DEF IInv
<1> QED
  BY <1>3, <1>4, <1>5 DEF IInv

\* Every step keeps the invariant.
LEMMA NextHolds == IInv /\ [Next]_vars => IInv'
<1> SUFFICES ASSUME IInv, [Next]_vars PROVE IInv'
  OBVIOUS
<1>1. CASE Load
  BY <1>1, LoadStep
<1>2. CASE LockNetwork
  BY <1>2, LockNetworkStep
<1>3. CASE LockReady
  BY <1>3, LockReadyStep
<1>4. ASSUME NEW l \in Parts, Acquire(l) PROVE IInv'
  BY <1>4, AcquireStep
<1>5. ASSUME NEW l \in held, NEW h \in Hosts, NEW answers \in SUBSET {"v4", "v6"}, Dial(l, h, answers)
      PROVE  IInv'
  BY <1>5, DialStep
<1>6. CASE UNCHANGED vars
  BY <1>6, StutterStep
<1> QED
  BY <1>1, <1>2, <1>3, <1>4, <1>5, <1>6 DEF Next

\* The invariant holds of every configuration.
THEOREM Invariance == Spec => []IInv
BY InitHolds, NextHolds, PTL DEF Spec

\* The variables have their types: what is held and lost are parts of the
\* configuration, and only what is up dials.
THEOREM TypeCorrect == Spec => []TypeOK
<1>1. IInv => TypeOK
  BY DEF IInv
<1> QED
  BY <1>1, Invariance, PTL

\* What lockNetwork and lock("ready") allow is enough for any configuration:
\* no listener, node, server tunnel or split-routing proxy is refused.
THEOREM SandboxFits == Spec => []SandboxFitsConfig
<1>1. IInv => SandboxFitsConfig
  BY DEF IInv
<1> QED
  BY <1>1, Invariance, PTL

\* What ValidateConnections compares is enough for the configurations it can
\* judge: whatever the order, no part finds its port or directory taken.
THEOREM NoClash == Spec => [](Apart => NoClashAfterValidation)
<1>1. IInv => (Apart => NoClashAfterValidation)
  BY DEF IInv, ClashFree
<1> QED
  BY <1>1, Invariance, PTL

-----------------------------------------------------------------------------
\* Of accepted files, each connection has the routines that the sections of its
\* group ask for, each as often as they do, and no others.
THEOREM NoneLost == Spec => []NothingDropped
<1>1. IInv => NothingDropped
  <2> SUFFICES ASSUME IInv, stage \notin {"load", "rejected"} PROVE NothingDropped
    BY DEF NothingDropped
  <2> DEFINE fs == ConfigFiles(paths)
  <2>1. Parsed(fs) /\ specs = SpecsOf(fs)
    BY Numbered DEF IInv
  <2>2. \A A : Len(Filter(AllLoaded(specs), A)) = Len(Filter(AllWritten(fs), A))
    <3> HIDE DEF fs
    <3> QED
      BY <2>1, AllCounted
  <2>3. /\ Concat([i \in DOMAIN fs |-> Written(fs[i])]) = AllWritten(fs)
        /\ Concat([i \in DOMAIN specs |-> Loaded(specs[i])]) = AllLoaded(specs)
    BY Zenon DEF AllWritten, AllLoaded
  <2> QED
    BY ONLY <2>2, <2>3, ZenonT(30) DEF NothingDropped
<1> QED
  BY <1>1, Invariance, PTL

\* Exchanging two sections of different groups or types, in any file, makes no
\* difference to whether it is accepted and to its connections.
THEOREM Layout == Spec => []LayoutIrrelevant
<1>1. IInv => LayoutIrrelevant
  <2> SUFFICES ASSUME IInv, NEW f \in Range(ConfigFiles(paths)), NEW i \in 1..Len(f.sections) - 1,
                      <<GroupName(f.sections[i]), f.sections[i].type>> #
                        <<GroupName(f.sections[i+1]), f.sections[i+1].type>>
               PROVE  /\ parseConfigSource(f) = parseConfigSource(Swapped(f, i))
                      /\ Range(ConnectionSpecs(f)) = Range(ConnectionSpecs(Swapped(f, i)))
    BY DEF LayoutIrrelevant
  <2>1. IsFile(f)
    <3>1. IsSeq(paths) /\ \A k \in DOMAIN paths : IsPath(paths[k])
      BY SourceShape DEF IInv, Accepted
    <3>2. ConfigFiles(paths) \in Seq(FilesIn(paths)) /\ \A u \in FilesIn(paths) : IsFile(u)
      BY <3>1, FilesAre
    <3>3. Range(ConfigFiles(paths)) \subseteq FilesIn(paths)
      BY <3>2, RangeInSet
    <3> QED
      BY <3>2, <3>3, SMTT(20)
  <2> DEFINE h == Swapped(f, i)
  <2>2. DOMAIN f = {"readable", "dir", "stem", "root", "sections"}
    BY <2>1 DEF IsFile
  <2>3. /\ h.readable = f.readable /\ h.dir = f.dir /\ h.stem = f.stem /\ h.root = f.root
        /\ h.sections = [f.sections EXCEPT ![i] = f.sections[i + 1], ![i + 1] = f.sections[i]]
    BY <2>2 DEF Swapped
  <2> HIDE DEF h
  <2>4. SameParts(f, h)
    BY <2>1, <2>3, ExchangedParts DEF IsFile
  <2>5. (parseConfigSource(h) <=> parseConfigSource(f)) /\ Range(ConnectionSpecs(h)) = Range(ConnectionSpecs(f))
    BY <2>4, FileDecided, SMTT(20)
  <2>6. parseConfigSource(f) = parseConfigSource(h)
    BY <2>5, Zenon DEF parseConfigSource
  <2> QED
    BY <2>5, <2>6 DEF h
<1> QED
  BY <1>1, Invariance, PTL

\* A connection that imports its device keeps the imported identity, whatever
\* the wrapper has; the rest is as the wrapper or else the import gives it.
THEOREM ImportKept == Spec => []ImportKeepsIdentity
<1>1. ASSUME NEW f, NEW g, Importing(f, g), NEW d \in Range(ConnectionSpec(f, g).device)
      PROVE  KeepsImport(f, g, d)
  <2>1. ConnectionSpec(f, g).device \in {<<Device(f, g)>>, <<>>}
    BY Zenon DEF ConnectionSpec
  <2>2. \A x, y : x \in Range(<<y>>) => x = y
    BY DEF Range
  <2>3. \A x : x \notin Range(<<>>)
    BY DEF Range
  <2>4. d = Device(f, g)
    BY <1>1, <2>1, <2>2, <2>3, Zenon
  <2> QED
    BY <1>1, <2>4, ImportedDevice, Zenon
<1>2. ImportKeepsIdentity
  BY <1>1, Zenon DEF ImportKeepsIdentity
<1> QED
  BY <1>2, PTL

-----------------------------------------------------------------------------
\* The whitelists that can match: shouldTunnel compares with the host in lower
\* case and without its trailing dot, and a pattern is taken as it is written.
LowerCase ==
    \A l \in Routines(ProxyKinds) : \A p \in RoutineAt(l).patterns :
        p = [name |-> p.name, upper |-> FALSE, dot |-> FALSE]

\* The spelling of a host, set.
LEMMA Respelt ==
    ASSUME NEW h, h = [name |-> h.name, upper |-> h.upper, dot |-> h.dot], NEW b
    PROVE  [h EXCEPT !.upper = b, !.dot = b] = [name |-> h.name, upper |-> b, dot |-> b]
<1> DEFINE k == [h EXCEPT !.upper = b, !.dot = b]
<1>1. DOMAIN h = {"name", "upper", "dot"}
  OBVIOUS
<1>2. DOMAIN k = {"name", "upper", "dot"} /\ k.name = h.name /\ k.upper = b /\ k.dot = b
  BY <1>1
<1>3. k = [x \in DOMAIN k |-> k[x]]
  BY ZenonT(30)
<1> HIDE DEF k
<1>4. k = [name |-> h.name, upper |-> b, dot |-> b]
  BY ONLY <1>2, <1>3
<1> QED
  BY <1>4 DEF k

\* With such whitelists, exactly the hosts that they do not name are dialled
\* directly, however a client spells them.
THEOREM Routed == Spec => [](LowerCase => RoutedAsConfigured)
<1>1. IInv => (LowerCase => RoutedAsConfigured)
  <2> SUFFICES ASSUME IInv, LowerCase, dialled # NoDial, dialled.via # "none" PROVE RoutedAsConfigured
    BY DEF RoutedAsConfigured
  <2> DEFINE c == specs[dialled.by[1]]
             r == RoutineAt(dialled.by)
             h == dialled.host
             d == [lookup |-> dialled.lookup, via |-> dialled.via, addr |-> dialled.addr]
             listed == \E p \in r.patterns : p.name = h.name
  <2>1. /\ dialled.by \in Routines(ProxyKinds \union TargetKinds) /\ h \in Hosts
        /\ d \in Dials(c, r, h, dialled.answers) /\ d.via = dialled.via
    BY Zenon DEF IInv, Dialled
  <2>2. r.kind \in ProxyKinds \union TargetKinds
    BY <2>1, RoutineKind, SMTT(20)
  <2>3. r.kind \in ProxyKinds => \A p \in r.patterns : p = [name |-> p.name, upper |-> FALSE, dot |-> FALSE]
    <3> SUFFICES ASSUME r.kind \in ProxyKinds PROVE dialled.by \in Routines(ProxyKinds)
      BY DEF LowerCase
    <3> QED
      BY <2>1, RoutineIndex DEF RoutineAt
  <2>4. h = [name |-> h.name, upper |-> h.upper, dot |-> h.dot]
    BY <2>1, HostTexts
  <2>5. [h EXCEPT !.upper = FALSE, !.dot = FALSE] = [name |-> h.name, upper |-> FALSE, dot |-> FALSE]
    <3> HIDE DEF h
    <3> QED
      BY ONLY <2>4, Respelt, Zenon
  <2>6. r.kind \in ProxyKinds => (shouldTunnel(r.patterns, h) <=> r.patterns = {} \/ listed)
    BY <2>3, <2>5, Zenon DEF shouldTunnel, MatchString
  <2>7. CASE passthrough(r)
    <3>1. r.kind \in ProxyKinds
      BY <2>7 DEF passthrough, ProxyKinds
    <3>2. dialled.via = IF shouldTunnel(r.patterns, h) THEN "tunnel" ELSE "direct"
      <4> HIDE DEF d, c, r, h
      <4> QED
        BY <2>1, <2>7 DEF Dials, RoutedDial
    <3> QED
      BY <2>6, <3>1, <3>2 DEF RoutedAsConfigured, ProxyKinds
  <2>8. CASE ~passthrough(r)
    <3>1. r.kind \in ProxyKinds => r.patterns = {}
      BY <2>8, SMTT(20) DEF passthrough, ProxyKinds
    <3>2. dialled.via = IF r.kind = "tcpservertunnel" THEN "direct" ELSE "tunnel"
      <4> HIDE DEF d, c, r, h
      <4> QED
        BY <2>1, <2>8, SMTT(20) DEF Dials, ResolvedDial
    <3> QED
      BY <3>1, <3>2 DEF RoutedAsConfigured
  <2> QED
    BY <2>7, <2>8
<1> QED
  BY <1>1, Invariance, PTL

\* A connection is a WireGuard device or a Tailscale node.
LEMMA TwoKinds ==
    ASSUME IInv, stage = "ready", NEW i \in DOMAIN specs
    PROVE  specs[i].kind \in {"wg", "ts"}
<1>1. /\ Parsed(ConfigFiles(paths)) /\ specs = SpecsOf(ConfigFiles(paths))
  BY Numbered, SMTT(20) DEF IInv
<1>2. PICK f \in Range(ConfigFiles(paths)) : \E g \in Names(f) : specs[i] = ConnectionSpec(f, g)
  BY <1>1, SpecsNumbered
<1>3. \A g : ConnectionSpec(f, g).kind = IF OfType(connGroup(f, g), "tailscale") = <<>> THEN "wg" ELSE "ts"
  BY Zenon DEF ConnectionSpec
<1> QED
  BY <1>2, <1>3

\* A name dialled in the tunnel is given to the system's resolver only by a
\* WireGuard connection without DNS, from a routine that resolves names before
\* it dials, and by a Tailscale connection for names outside its peer list; a
\* name that a proxy dials directly is given to no resolver of the tunnel.
THEOREM NamesStay == Spec => []NamesStayInTunnel
<1>1. IInv => NamesStayInTunnel
  <2> SUFFICES ASSUME IInv, dialled # NoDial PROVE NamesStayInTunnel
    BY DEF NamesStayInTunnel
  <2> DEFINE c == specs[dialled.by[1]]
             r == RoutineAt(dialled.by)
             h == dialled.host
             byName == r.kind \in {"http", "sni"} \/ (r.kind = "socks5" /\ (r.patterns # {} \/ r.log))
             d == [lookup |-> dialled.lookup, via |-> dialled.via, addr |-> dialled.addr]
  <2>1. /\ stage = "ready" /\ dialled.by \in Routines(ProxyKinds \union TargetKinds)
        /\ d \in Dials(c, r, h, dialled.answers)
        /\ d.via = dialled.via /\ d.lookup = dialled.lookup
    BY DEF IInv, Dialled, Quiet
  <2>2. c.kind \in {"wg", "ts"}
    BY <2>1, RoutineKind, TwoKinds
  <2>3. passthrough(r) <=> byName
    BY DEF passthrough
  <2> HIDE DEF c, r, h, d, byName
  <2>4. ASSUME dialled.via = "tunnel", dialled.lookup = "system"
        PROVE  \/ c.kind = "wg" /\ c.device[1].dns = <<>> /\ ~byName
               \/ c.kind = "ts" /\ h.name \notin TailnetPeers
    <3>1. IF passthrough(r) THEN NetDial(c, h) = "system" ELSE LookupAddr(c, h) = "system"
      BY <2>1, <2>4, SystemLookup
    <3> QED
      BY <2>2, <2>3, <3>1 DEF NetDial, LookupAddr, SystemDNS
  <2>5. dialled.via = "direct" /\ r.kind \in ProxyKinds => dialled.lookup # "tunnel"
    BY <2>1, DirectLookup
  <2> QED
    BY <2>4, <2>5, SMTT(20) DEF NamesStayInTunnel, c, r, h, byName
<1> QED
  BY <1>1, Invariance, PTL

\* The connections whose strategy is written without spaces around it, which
\* parseResolveConfig takes off to check it and not to keep it, and whose
\* addresses are of the two families there are.
Plain ==
    \A i \in DOMAIN specs :
        /\ TrimSpace(specs[i].resolve) = specs[i].resolve
        /\ specs[i].kind = "wg" => Range(specs[i].device[1].addrs) \subseteq {"v4", "v6"}

\* parseResolveConfig leaves three strategies.
LEMMA Strategies ==
    ASSUME IInv, stage = "ready", Plain, NEW i \in DOMAIN specs
    PROVE  specs[i].resolve \in {"auto", "ipv4", "ipv6"}
<1>1. /\ Parsed(ConfigFiles(paths)) /\ specs = SpecsOf(ConfigFiles(paths))
  BY Numbered, SMTT(20) DEF IInv
<1>2. PICK f \in Range(ConfigFiles(paths)) : \E g \in Names(f) : specs[i] = ConnectionSpec(f, g)
  BY <1>1, SpecsNumbered
<1>3. PICK g \in Names(f) : specs[i] = ConnectionSpec(f, g)
  BY <1>2
<1>4. parse(f, g)
  BY <1>1, Zenon DEF Parsed, parseConfigSource, Names, Range
<1> DEFINE resolve == OfType(connGroup(f, g), "resolve")
<1>5. specs[i].resolve = IF resolve = <<>> THEN "auto" ELSE ResolveStrategy(resolve[1])
  <2>1. ConnectionSpec(f, g).resolve = IF resolve = <<>> THEN "auto" ELSE ResolveStrategy(resolve[1])
    BY Zenon DEF ConnectionSpec
  <2> HIDE DEF resolve
  <2> QED
    BY <1>3, <2>1
<1>6. resolve # <<>> => TrimSpace(StrategyText(resolve[1])) \in {"ipv4", "ipv6", ""}
  BY <1>4, Zenon DEF parse, parseResolveConfig
<1>7. TrimSpace(specs[i].resolve) = specs[i].resolve
  BY DEF Plain
<1> HIDE DEF resolve
<1>8. CASE resolve = <<>>
  BY <1>5, <1>8
<1>9. CASE resolve # <<>> /\ StrategyText(resolve[1]) = ""
  BY <1>5, <1>9, Zenon DEF ResolveStrategy
<1>10. CASE resolve # <<>> /\ StrategyText(resolve[1]) # ""
  <2>1. specs[i].resolve = StrategyText(resolve[1])
    BY <1>5, <1>10, Zenon DEF ResolveStrategy
  <2>2. StrategyText(resolve[1]) \in {"ipv4", "ipv6", ""}
    BY ONLY <1>6, <1>7, <1>10, <2>1, Zenon
  <2>3. StrategyText(resolve[1]) \in {"ipv4", "ipv6"}
    BY ONLY <1>10, <2>2, ZenonT(30)
  <2> QED
    BY <1>5, <2>1, <2>3
<1> QED
  BY <1>8, <1>9, <1>10, Zenon

\* With such strategies, a tunnel of a WireGuard connection dials an address of
\* the family that the connection asks for when the name has one, and any tunnel
\* dials an address of the other family rather than none.
THEOREM Family == Spec => [](Plain => FamilyAsConfigured)
<1>1. IInv => (Plain => FamilyAsConfigured)
  <2> SUFFICES ASSUME IInv, Plain, dialled # NoDial, RoutineAt(dialled.by).kind \in TargetKinds
               PROVE  FamilyAsConfigured
    BY DEF FamilyAsConfigured
  <2> DEFINE c == specs[dialled.by[1]]
             r == RoutineAt(dialled.by)
             d == [lookup |-> dialled.lookup, via |-> dialled.via, addr |-> dialled.addr]
             only4 == c.resolve = "auto" /\ Range(c.device[1].addrs) = {"v4"}
             wanted == IF only4 \/ c.resolve = "ipv4" THEN "v4" ELSE "v6"
             addrs == ResolveAddr(EffectiveStrategy(c), dialled.answers)
  <2>1. /\ stage = "ready" /\ dialled.by \in Routines(ProxyKinds \union TargetKinds)
        /\ dialled.answers \subseteq {"v4", "v6"}
        /\ d \in Dials(c, r, dialled.host, dialled.answers)
    BY DEF IInv, Dialled, Quiet
  <2>2. dialled.by[1] \in DOMAIN specs
    BY <2>1, RoutineKind
  <2>3. c.resolve \in {"auto", "ipv4", "ipv6"}
    BY <2>1, <2>2, Strategies
  <2>4. c.kind = "wg" => Range(c.device[1].addrs) \subseteq {"v4", "v6"}
    BY <2>2 DEF Plain
  <2>5. ~passthrough(r)
    BY DEF passthrough, TargetKinds
  <2>6. c.kind = "wg" => (EffectiveStrategy(c) = "ipv6" <=> wanted = "v6")
    <3> HIDE DEF c
    <3>1. CASE c.kind = "wg" /\ c.resolve = "auto"
      <4> DEFINE R == Range(c.device[1].addrs)
      <4>1. R \subseteq {"v4", "v6"}
        BY <2>4, <3>1
      <4> HIDE DEF R
      <4>2. R = {"v4"} <=> "v4" \in R /\ "v6" \notin R
        BY <4>1, ZenonT(30)
      <4> QED
        BY <3>1, <4>2 DEF EffectiveStrategy, R
    <3>2. CASE c.kind = "wg" /\ c.resolve # "auto"
      BY <2>3, <3>2 DEF EffectiveStrategy
    <3> QED
      BY <3>1, <3>2
  <2>7. /\ dialled.via = "none" <=> addrs = {}
        /\ addrs # {} => dialled.addr \in addrs
    <3>1. d.via = dialled.via /\ d.addr = dialled.addr
      OBVIOUS
    <3> HIDE DEF c, r, d, addrs
    <3>2. /\ d.via = "none" <=> addrs = {}
          /\ addrs # {} => d.addr \in addrs
      BY <2>1, <2>5, SMTT(20) DEF Dials, ResolvedDial, addrs
    <3> QED
      BY <3>1, <3>2
  <2>8. /\ addrs = {} <=> dialled.answers = {}
        /\ c.kind = "wg" /\ wanted \in dialled.answers => addrs = {wanted}
    <3>1. wanted \in {"v4", "v6"}
      OBVIOUS
    <3> HIDE DEF c, wanted
    <3> QED
      BY <2>1, <2>6, <3>1, SMTT(20) DEF ResolveAddr
  <2>9. /\ dialled.via = "none" <=> dialled.answers = {}
        /\ c.kind = "wg" /\ wanted \in dialled.answers => dialled.addr = wanted
    <3> HIDE DEF c, wanted, addrs
    <3> QED
      BY <2>7, <2>8
  <2> QED
    BY <2>9, Zenon DEF FamilyAsConfigured
<1> QED
  BY <1>1, Invariance, PTL
=============================================================================
