------------------------------- MODULE Config -------------------------------
(***************************************************************************)
(* From configuration files to connections: the sections of a file are     *)
(* split into groups, each group becomes one connection with a device or a *)
(* Tailscale node and its routines, and all files are loaded or none.      *)
(*                                                                         *)
(* A file is [readable, dir, stem, root, sections]; `root` has the keys    *)
(* before the first section, a section is [prefix, type, keys], its type   *)
(* in lower case.  Keys are a record with the keys that are present; a key *)
(* is [form, v], where the form of its text is                             *)
(*   "plain"  well-formed           "bad"    malformed                     *)
(*   "env"    $VAR, with VAR set    "unset"  $VAR, with VAR unset          *)
(* and v what it stands for.  Addresses are [host, port], with the text of *)
(* the port.                                                               *)
(***************************************************************************)
EXTENDS FiniteSets, SeqOps

CONSTANTS
    Imports,  \* the WireGuard files there are: <<dir, name>> -> sections
    Atoi,     \* strconv.Atoi, on the texts it takes: text -> integer
    Itoa,     \* strconv.Itoa: integer -> text
    Services  \* the service names the host knows: name -> port

Missing == "missing"   \* the port of an address that has none
MaxPort == 65535
NoAddr == [host |-> "", port |-> Missing]

ASSUME PortTexts ==
    /\ \A p \in DOMAIN Atoi : Atoi[p] \in Int /\ Atoi[p] \in DOMAIN Itoa
    /\ \A p \in DOMAIN Services : /\ p \notin DOMAIN Atoi /\ Services[p] \in 1..MaxPort
                                 /\ Services[p] \in DOMAIN Itoa
    /\ \A n \in DOMAIN Itoa : Itoa[n] \in DOMAIN Atoi /\ Atoi[Itoa[n]] = n
    /\ Missing \notin DOMAIN Atoi \union DOMAIN Services

-----------------------------------------------------------------------------
(* Port texts                                                              *)

Numeric(p) == p \in DOMAIN Atoi

\* The port a text stands for when it is bound: a service name is looked up.
Bindable(p) == p \in DOMAIN Services \/ (Numeric(p) /\ Atoi[p] \in 0..MaxPort)
PortOf(p) == IF p \in DOMAIN Services THEN Services[p] ELSE Atoi[p]

-----------------------------------------------------------------------------
(* Keys.  An absent key reads as empty where parseString is used.          *)

Has(s, k) == k \in DOMAIN s.keys
Value(s, k, default) == IF Has(s, k) THEN s.keys[k].v ELSE default

\* parseString gives a text; the text is also one of the key's type; the text
\* is read without parseString, so that $VAR is no number.
parseString(s, k) == Has(s, k) => s.keys[k].form # "unset"
Typed(s, k) == Has(s, k) => s.keys[k].form \in {"plain", "env"}
Verbatim(s, k) == Has(s, k) => s.keys[k].form = "plain"

\* A text that is no address has no port that SplitHostPort would find.
Address(s, k) ==
    IF Has(s, k) /\ s.keys[k].form # "bad" THEN s.keys[k].v ELSE NoAddr

\* parseRegexList takes the text as it is: "$VAR" is a pattern, of no host.
parseRegexList(s, k) == Has(s, k) => s.keys[k].form # "bad"
Patterns(s, k) ==
    CASE ~Has(s, k) -> {}
      [] Has(s, k) /\ s.keys[k].form = "plain" -> s.keys[k].v
      [] OTHER -> {[name |-> "$VAR", upper |-> FALSE, dot |-> FALSE]}

sanitizeConnectionName(n) ==
    CASE n = "b!" -> "b" [] n = "--" -> "" [] OTHER -> n

-----------------------------------------------------------------------------
(* Sections                                                                *)

OptInt(s, k) == IF Has(s, k) THEN {s.keys[k].v} ELSE {}

parseInterfaceSection(s) ==
    /\ \A k \in {"Address", "PrivateKey", "DNS", "CheckAlive"} : Typed(s, k)
    /\ Has(s, "PrivateKey")
    /\ \A k \in {"MTU", "ListenPort", "CheckAliveInterval"} : Verbatim(s, k)
    /\ Has(s, "CheckAliveInterval") =>
          /\ Value(s, "CheckAlive", <<>>) # <<>>
          /\ s.keys.CheckAliveInterval.v \in 1..86400

Interface(s) ==
    [key |-> s.keys.PrivateKey.v, addrs |-> Value(s, "Address", <<>>),
     dns |-> Value(s, "DNS", <<>>), mtu |-> Value(s, "MTU", 1420),
     listenPort |-> OptInt(s, "ListenPort"),
     checkAlive |-> Value(s, "CheckAlive", <<>>),
     interval |-> Value(s, "CheckAliveInterval", 5), peers |-> <<>>]

\* Endpoint is resolved here, once; "bad" if it cannot be.
parsePeerSections(ss) ==
    /\ ss # <<>>
    /\ \A i \in DOMAIN ss :
          /\ Has(ss[i], "PublicKey") /\ Typed(ss[i], "PublicKey")
          /\ Typed(ss[i], "AllowedIPs")
          /\ \A k \in {"PreSharedKey", "Endpoint", "PersistentKeepalive"} : Verbatim(ss[i], k)

Peers(ss) ==
    [i \in DOMAIN ss |->
        [key |-> ss[i].keys.PublicKey.v, psk |-> Value(ss[i], "PreSharedKey", "zero"),
         endpoint |-> Value(ss[i], "Endpoint", ""),
         keepalive |-> Value(ss[i], "PersistentKeepalive", 0),
         allowed |-> Value(ss[i], "AllowedIPs", <<>>)]]

\* Altered Override: CheckAlive is read whether or not it is there.
Override_Unguarded(s, d) ==
    [d EXCEPT !.mtu = Value(s, "MTU", @), !.dns = Value(s, "DNS", @),
              !.listenPort = IF Has(s, "ListenPort") THEN OptInt(s, "ListenPort") ELSE @,
              !.checkAlive = Value(s, "CheckAlive", <<>>),
              !.interval = Value(s, "CheckAliveInterval", @)]

\* applyInterfaceOverrides: what it takes, and what it makes of device d.
applyInterfaceOverrides(s) ==
    /\ \A k \in {"MTU", "ListenPort", "CheckAliveInterval"} : Verbatim(s, k)
    /\ \A k \in {"DNS", "CheckAlive"} : Typed(s, k)

Override(s, d) ==
    [d EXCEPT !.mtu = Value(s, "MTU", @), !.dns = Value(s, "DNS", @),
              !.listenPort = IF Has(s, "ListenPort") THEN OptInt(s, "ListenPort") ELSE @,
              !.checkAlive = Value(s, "CheckAlive", @),
              !.interval = Value(s, "CheckAliveInterval", @)]

\* The error of parseString is dropped: an unset variable counts as "".  The
\* text is trimmed to be checked, and kept as it is.
TrimSpace(t) == IF t = "ipv6 " THEN "ipv6" ELSE t
StrategyText(s) ==
    IF parseString(s, "ResolveStrategy") THEN Value(s, "ResolveStrategy", "") ELSE ""
parseResolveConfig(s) == TrimSpace(StrategyText(s)) \in {"ipv4", "ipv6", ""}
ResolveStrategy(s) == IF StrategyText(s) = "" THEN "auto" ELSE StrategyText(s)

parseTailscaleConfig(s) ==
    /\ \A k \in {"Hostname", "AuthKey", "ControlURL", "StateDir"} : parseString(s, k)
    /\ Value(s, "Hostname", "") # ""
    /\ Verbatim(s, "Ephemeral")

-----------------------------------------------------------------------------
(* Routines                                                                *)

\* routineParsers, in the order in which routines are spawned.
routineParsers == <<"tcpclienttunnel", "stdiotunnel", "tcpservertunnel",
                    "socks5", "http", "sni", "udpproxytunnel">>

\* net.ResolveTCPAddr: whether it succeeds, and the address it gives.  An
\* empty text stands for any free port.
ResolvesTCPAddr(s) == Has(s, "BindAddress") => Bindable(Address(s, "BindAddress").port)
ResolveTCPAddr(s) ==
    IF Has(s, "BindAddress")
    THEN LET a == s.keys.BindAddress.v
         IN  [host |-> IF a.host = "localhost" THEN "127.0.0.1" ELSE a.host,
              port |-> Itoa[PortOf(a.port)]]
    ELSE [host |-> "", port |-> "0"]

parsePort(s, k) == Has(s, k) /\ Verbatim(s, k) /\ s.keys[k].v \in 0..MaxPort

\* The keys each parser reads with parseString.
StringKeys(t) ==
    CASE t \in {"tcpclienttunnel", "udpproxytunnel"} -> {"BindAddress", "Target"}
      [] t \in {"stdiotunnel", "tcpservertunnel"} -> {"Target"}
      [] t = "socks5" -> {"BindAddress", "Username", "Password"}
      [] t = "http" -> {"BindAddress", "Username", "Password", "CertFile", "KeyFile"}
      [] t = "sni" -> {"BindAddress"}

\* parseTCPClientTunnelConfig and the other six.
parseRoutine(s) ==
    /\ \A k \in StringKeys(s.type) : parseString(s, k)
    /\ s.type = "tcpclienttunnel" => ResolvesTCPAddr(s)
    /\ s.type = "tcpservertunnel" => parsePort(s, "ListenPort")
    /\ s.type \in {"socks5", "http", "sni"} =>
          parseRegexList(s, "TunnelDomains") /\ Verbatim(s, "LogDomains")
    /\ s.type = "udpproxytunnel" => Verbatim(s, "InactivityTimeout")

Routine(s) ==
    LET bind == IF s.type = "tcpclienttunnel" THEN ResolveTCPAddr(s)
                ELSE Address(s, "BindAddress")
    IN  [kind |-> s.type, host |-> bind.host, port |-> bind.port,
         listenPort |-> Value(s, "ListenPort", 0), target |-> Address(s, "Target"),
         patterns |-> Patterns(s, "TunnelDomains"), log |-> Value(s, "LogDomains", FALSE),
         cert |-> Value(s, "CertFile", ""), key |-> Value(s, "KeyFile", "")]

-----------------------------------------------------------------------------
(* Groups                                                                  *)

GroupName(s) == IF s.prefix = "" THEN "" ELSE sanitizeConnectionName(s.prefix)

OfType(ss, t) == Filter(ss, {s \in Range(ss) : s.type = t})
BackendTypes == {"interface", "peer", "tailscale", "resolve"}
RoutineSections(ss) == Filter(ss, {s \in Range(ss) : s.type \notin BackendTypes})

\* Altered connGroup: a group ends where another section intervenes.
connGroup_Contiguous(f, g) ==
    LET in(i) == GroupName(f.sections[i]) = g
        run == Filter([i \in DOMAIN f.sections |-> i],
                      {i \in DOMAIN f.sections :
                          in(i) /\ \A j, k \in 1..i : j < k /\ in(j) => in(k)})
    IN  [i \in DOMAIN run |-> f.sections[run[i]]]

\* splitIntoGroups: the sections of group g, and the groups in the order of
\* their first sections.
connGroup(f, g) == Filter(f.sections, {s \in Range(f.sections) : GroupName(s) = g})
splitIntoGroups(f) ==
    LET firsts == Filter([i \in DOMAIN f.sections |-> i],
                    {i \in DOMAIN f.sections : \A j \in 1..i-1 :
                        GroupName(f.sections[j]) # GroupName(f.sections[i])})
    IN  [i \in DOMAIN firsts |-> GroupName(f.sections[firsts[i]])]

resolveWGConfigPath(p, f) == IF p[1] = "." THEN <<f.dir, p[2]>> ELSE p

\* Where the device comes from: a WGConfig in the group's [Interface], or, in
\* the default group without [Interface], the one at the root of the file.
Importing(f, g) ==
    LET ifaces == OfType(connGroup(f, g), "interface")
    IN  IF ifaces = <<>> THEN g = "" /\ "WGConfig" \in DOMAIN f.root
        ELSE Has(ifaces[1], "WGConfig")
\* The text is taken as it is: "$VAR" is the name of no file.
externalPath(f, g) ==
    LET ifaces == OfType(connGroup(f, g), "interface")
        key == IF ifaces = <<>> THEN f.root.WGConfig ELSE ifaces[1].keys.WGConfig
    IN  resolveWGConfigPath(IF key.form = "plain" THEN key.v ELSE <<".", "$VAR">>, f)

\* ParseInterface and ParsePeers on the imported file.
Importable(p) ==
    /\ p \in DOMAIN Imports
    /\ LET ifaces == OfType(Imports[p], "interface")
       IN  Len(ifaces) = 1 /\ parseInterfaceSection(ifaces[1])
    /\ parsePeerSections(OfType(Imports[p], "peer"))

Imported(p) ==
    [Interface(OfType(Imports[p], "interface")[1])
        EXCEPT !.peers = Peers(OfType(Imports[p], "peer"))]

\* Altered appendRoutines: a section of unknown type is passed over.
appendRoutines_Lenient(ss) ==
    \A i \in DOMAIN ss : ss[i].type \in Range(routineParsers) => parseRoutine(ss[i])

\* appendRoutines: the routine sections of a group are all known and parse;
\* they are taken type by type.
appendRoutines(ss) ==
    \A i \in DOMAIN ss : ss[i].type \in Range(routineParsers) /\ parseRoutine(ss[i])
ConfRoutines(ss) ==
    Concat([t \in DOMAIN routineParsers |->
              LET sections == OfType(ss, routineParsers[t])
              IN  [i \in DOMAIN sections |-> Routine(sections[i])]])

parseBackend(f, g) ==
    LET ss == connGroup(f, g)
        ifaces == OfType(ss, "interface")
    IN  IF OfType(ss, "tailscale") # <<>>
        THEN /\ ifaces = <<>> /\ OfType(ss, "peer") = <<>>
             /\ Len(OfType(ss, "tailscale")) = 1
             /\ parseTailscaleConfig(OfType(ss, "tailscale")[1])
        ELSE /\ Len(ifaces) <= 1
             /\ ifaces = <<>> => Importing(f, g)
             /\ IF Importing(f, g)
                THEN /\ Importable(externalPath(f, g))
                     /\ ifaces # <<>> =>
                           /\ ~Has(ifaces[1], "PrivateKey") /\ ~Has(ifaces[1], "Address")
                           /\ applyInterfaceOverrides(ifaces[1])
                ELSE /\ parseInterfaceSection(ifaces[1])
                     /\ parsePeerSections(OfType(ss, "peer"))

\* connGroup.parse.
parse(f, g) ==
    LET ss == connGroup(f, g)
        resolve == OfType(ss, "resolve")
    IN  /\ resolve # <<>> => parseResolveConfig(resolve[1])
        /\ parseBackend(f, g)
        /\ appendRoutines(RoutineSections(ss))

Device(f, g) ==
    LET ifaces == OfType(connGroup(f, g), "interface")
    IN  IF ~Importing(f, g)
        THEN [Interface(ifaces[1]) EXCEPT !.peers = Peers(OfType(connGroup(f, g), "peer"))]
        ELSE IF ifaces = <<>> THEN Imported(externalPath(f, g))
             ELSE Override(ifaces[1], Imported(externalPath(f, g)))

\* The wrapper, the connection's own [Interface], has key k with value v.
WrapperGives(f, g, k, v) ==
    LET wrapper == OfType(connGroup(f, g), "interface")
    IN  wrapper # <<>> /\ Has(wrapper[1], k) /\ wrapper[1].keys[k].v = v

\* The device d has the identity of the imported one, and differs from it only
\* where the wrapper says so.
KeepsImport(f, g, d) ==
    LET old == Imported(externalPath(f, g))
    IN  /\ d.key = old.key /\ d.addrs = old.addrs /\ d.peers = old.peers
        /\ d.checkAlive # old.checkAlive => WrapperGives(f, g, "CheckAlive", d.checkAlive)
        /\ d.interval # old.interval => WrapperGives(f, g, "CheckAliveInterval", d.interval)
        /\ d.dns # old.dns => WrapperGives(f, g, "DNS", d.dns)
        /\ d.mtu # old.mtu => WrapperGives(f, g, "MTU", d.mtu)
        /\ \A n \in d.listenPort \ old.listenPort : WrapperGives(f, g, "ListenPort", n)

\* The stem of a file name, sanitized, is what defaultNameFromFile gives.
ConnName(f, g) ==
    CASE g # "" -> g
      [] g = "" /\ "Name" \in DOMAIN f.root -> sanitizeConnectionName(f.root.Name.v)
      [] OTHER -> sanitizeConnectionName(f.stem)

ConnectionSpec(f, g) ==
    LET ss == connGroup(f, g)
        resolve == OfType(ss, "resolve")
        ts == OfType(ss, "tailscale")
    IN  [name |-> ConnName(f, g),
         resolve |-> IF resolve = <<>> THEN "auto" ELSE ResolveStrategy(resolve[1]),
         kind |-> IF ts = <<>> THEN "wg" ELSE "ts",
         device |-> IF ts = <<>> THEN <<Device(f, g)>> ELSE <<>>,
         hostname |-> IF ts = <<>> THEN "" ELSE ts[1].keys.Hostname.v,
         stateDir |-> IF ts = <<>> THEN "" ELSE Value(ts[1], "StateDir", ""),
         routines |-> ConfRoutines(RoutineSections(ss))]

\* The routines file f asks for, and those connection c has, each with the name
\* of the connection it belongs to.
Written(f) ==
    LET ss == RoutineSections(f.sections)
    IN  [j \in DOMAIN ss |-> <<ConnName(f, GroupName(ss[j])), Routine(ss[j])>>]
Loaded(c) == [j \in DOMAIN c.routines |-> <<c.name, c.routines[j]>>]

-----------------------------------------------------------------------------
(* Files.  A path is [exists, isDir, entries]; an entry of a directory is  *)
(* [conf, regular, file], and a path to a file has that file alone.        *)

IsFile(f) ==
    /\ f = [readable |-> f.readable, dir |-> f.dir, stem |-> f.stem, root |-> f.root,
            sections |-> f.sections]
    /\ IsSeq(f.sections)
IsPath(p) == IsSeq(p.entries) /\ \A i \in DOMAIN p.entries : IsFile(p.entries[i].file)

\* parseConfigSource: whether it succeeds, and the connections it gives.
parseConfigSource(f) ==
    /\ f.readable
    /\ \A i \in DOMAIN f.sections : f.sections[i].prefix # "" => GroupName(f.sections[i]) # ""
    /\ "Name" \in DOMAIN f.root => sanitizeConnectionName(f.root.Name.v) # ""
    /\ f.sections # <<>>
    /\ \A i \in DOMAIN f.sections : parse(f, GroupName(f.sections[i]))
ConnectionSpecs(f) ==
    [i \in DOMAIN splitIntoGroups(f) |-> ConnectionSpec(f, splitIntoGroups(f)[i])]

ConfigFiles(paths) ==
    Concat([i \in DOMAIN paths |->
        LET es == Filter(paths[i].entries, {e \in Range(paths[i].entries) :
                                              paths[i].isDir => e.conf /\ e.regular})
        IN  [j \in DOMAIN es |-> es[j].file]])

\* LoadConfigSources up to ValidateConnections.
LoadConfigSources(paths) ==
    /\ \A i \in DOMAIN paths : paths[i].exists
    /\ ConfigFiles(paths) # <<>>
    /\ \A i \in DOMAIN ConfigFiles(paths) : parseConfigSource(ConfigFiles(paths)[i])
LoadedSpecs(paths) ==
    LET fs == ConfigFiles(paths)
    IN  Concat([i \in DOMAIN fs |-> ConnectionSpecs(fs[i])])
=============================================================================
