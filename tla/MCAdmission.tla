---------------------------- MODULE MCAdmission ----------------------------
(* Files of one connection with two routines, and of two with at most one  *)
(* each, in one file or two; files with one key left out or malformed; and *)
(* two examples of README.md.                                              *)
EXTENDS Admission, TLC

K(v) == [form |-> "plain", v |-> v]
Env(v) == [form |-> "env", v |-> v]
Unset == [form |-> "unset", v |-> ""]
Sec(p, t, ks) == [prefix |-> p, type |-> t, keys |-> ks]
NoKeys == <<>>

File(stem, root, ss) ==
    [readable |-> TRUE, dir |-> "etc", stem |-> stem, root |-> root, sections |-> ss]
Path(f) == [exists |-> TRUE, isDir |-> FALSE, entries |-> <<[conf |-> TRUE, regular |-> TRUE, file |-> f]>>]

Host(n) == [name |-> n, upper |-> FALSE, dot |-> FALSE]
At(h, p) == [host |-> h, port |-> p]

MCHosts == {Host("corp"), [name |-> "corp", upper |-> TRUE, dot |-> TRUE], Host("other"), Host(Literal)}
MCTailnetPeers == {"corp"}

\* Decimal numbers, one of them beyond the ports and one with a leading zero.
MCAtoi == "0" :> 0 @@ "53" :> 53 @@ "80" :> 80 @@ "080" :> 80 @@ "99999" :> 99999
MCItoa == 0 :> "0" @@ 53 :> "53" @@ 80 :> "80" @@ 99999 :> "99999"
MCServices == "http" :> 80

MCAddrsOf ==
    [h \in {"", "::"} |-> {"lo", "lo2", "lo6"}] @@ ("0.0.0.0" :> {"lo", "lo2"})
    @@ [h \in {"127.0.0.1", "localhost"} |-> {"lo"}] @@ ("127.0.0.2" :> {"lo2"}) @@ ("::1" :> {"lo6"})

-----------------------------------------------------------------------------
(* Sections                                                                *)

Iface == [PrivateKey |-> K("k"), Address |-> K(<<"v4">>), DNS |-> K(<<"d">>)]
IfaceFull == Iface @@ [MTU |-> K(1240), ListenPort |-> K(53), CheckAlive |-> K(<<"x">>), CheckAliveInterval |-> K(10)]
PeerKeys == [PublicKey |-> K("p")]
PeerFull == [PublicKey |-> K("p"), PreSharedKey |-> K("s"), Endpoint |-> K("e"),
             PersistentKeepalive |-> K(25), AllowedIPs |-> K(<<"a">>)]
Node == [Hostname |-> K("node")]
NodeFull == [Hostname |-> K("node"), AuthKey |-> Env("key"), ControlURL |-> K(""),
             StateDir |-> K("/ts"), Ephemeral |-> K(TRUE)]
Bound(h, p) == [BindAddress |-> K(At(h, p))]
Forward(h, p, t) == Bound(h, p) @@ [Target |-> K(At(Host("other"), t))]

MCImports == (<<"etc", "wg.conf">> :> <<Sec("", "interface", IfaceFull), Sec("", "peer", PeerFull)>>)
          @@ (<<"etc", "two.conf">> :> <<Sec("", "interface", Iface), Sec("", "interface", Iface), Sec("", "peer", PeerKeys)>>)
          @@ (<<"abs", "bare.conf">> :> <<Sec("", "interface", Iface)>>)
          @@ (<<"abs", "v6.conf">> :> <<Sec("", "interface", [PrivateKey |-> K("k"), Address |-> K(<<"v4", "v6">>)]), Sec("", "peer", PeerKeys)>>)

S(t, ks) == Sec("", t, ks)

MCBinds ==
    {S("socks5", Bound("", "80")), S("http", Bound("127.0.0.1", "080")),
     S("tcpclienttunnel", Forward("127.0.0.2", "80", "53")), S("sni", Bound("::", "80")),
     S("socks5", Bound("0.0.0.0", "99999")), S("http", NoKeys),
     S("tcpclienttunnel", [Target |-> K(At(Host("corp"), "080"))]),
     S("udpproxytunnel", Forward("127.0.0.1", "53", "53")), S("udpproxytunnel", Forward("", "53", "53"))}

MCServers ==
    {S("tcpservertunnel", [ListenPort |-> K(80), Target |-> K(At(Host("other"), p))]) :
        p \in {"53", "99999", Missing}}

MCOptions ==
    {S("sni", Bound("127.0.0.1", "53") @@ [TunnelDomains |-> K({Host("corp")})]),
     S("socks5", Bound("127.0.0.1", "0") @@ [TunnelDomains |-> K({Host("corp")})]),
     S("socks5", Bound("::1", "53") @@ [LogDomains |-> K(TRUE)]),
     S("http", Bound("127.0.0.1", "53") @@ [CertFile |-> K("c"), KeyFile |-> K("k")]),
     S("stdiotunnel", [Target |-> K(At(Host("corp"), "53"))])}

MCRoutines == MCBinds \union MCServers \union MCOptions

WG(ks) == <<S("interface", Iface @@ ks), S("peer", PeerKeys)>>
TS(h, ks) == <<S("tailscale", [Hostname |-> K(h)] @@ ks)>>
Conn(n, ss) == [name |-> n, backend |-> ss, routines |-> <<>>]

\* The WireGuard port is none of the UDP tunnels' ports.
MCBackends ==
    {Conn("a", WG(NoKeys)), Conn("b", WG([ListenPort |-> K(80)])), Conn("--", WG(NoKeys)),
     Conn("b!", TS("node", NoKeys)), Conn("c", TS("Node", [StateDir |-> K("/ts")])),
     Conn("a", TS("n2", [StateDir |-> K("/ts")]))}

With(cs, rss) == {[c EXCEPT !.routines = rs] : c \in cs, rs \in rss}
MCUpTo(rs, n) == UNION {[1..k -> rs] : k \in 0..n}

-----------------------------------------------------------------------------
(* Files                                                                   *)

Prefixed(n, ss) == [i \in DOMAIN ss |-> [ss[i] EXCEPT !.prefix = n]]
Alone(c) == Path(File(c.name, NoKeys, c.routines \o c.backend))
\* Two groups in one file, the second's backend between the first's sections.
Together(c, d) ==
    Path(File("f", NoKeys, Prefixed(c.name, c.backend) \o Prefixed(d.name, d.backend)
                           \o Prefixed(c.name, c.routines) \o Prefixed(d.name, d.routines)))

\* The routines of two connections: those that listen on one port or need
\* something of the sandbox.
MCPairRoutines ==
    {S("socks5", Bound("", "80")), S("http", Bound("127.0.0.1", "080")),
     S("tcpclienttunnel", Forward("127.0.0.2", "80", "53")),
     S("udpproxytunnel", Forward("127.0.0.1", "53", "53")), S("udpproxytunnel", Forward("", "53", "53")),
     S("tcpservertunnel", [ListenPort |-> K(80), Target |-> K(At(Host("other"), "53"))]),
     S("sni", Bound("127.0.0.1", "53") @@ [TunnelDomains |-> K({Host("corp")})]),
     S("http", Bound("127.0.0.1", "53") @@ [CertFile |-> K("c"), KeyFile |-> K("k")])}

MCPairs ==
    LET small == With(MCBackends, MCUpTo(MCPairRoutines, 1))
    IN  {IF p[1].name = p[2].name THEN <<Alone(p[1]), Alone(p[2])>> ELSE <<Together(p[1], p[2])>> :
            p \in small \X small}
MCSingles ==
    {<<Alone(c)>> : c \in With({Conn("a", WG(NoKeys)), Conn("b", TS("node", NoKeys))}, MCUpTo(MCRoutines, 2))}

\* One key left out, malformed or taken from the environment.
Varied(ks) ==
    {ks} \union {Restrict(ks, DOMAIN ks \ {k}) : k \in DOMAIN ks}
         \union {[ks EXCEPT ![k].form = x] : k \in DOMAIN ks, x \in {"bad", "env", "unset"}}

Socks == S("socks5", Bound("127.0.0.1", "80"))
Tunnel == S("tcpclienttunnel", Forward("localhost", "http", "53"))

MCWrappers ==
    {[WGConfig |-> K(<<".", "wg.conf">>)] @@ ks :
        ks \in Varied([MTU |-> K(1300), DNS |-> K(<<"e">>), ListenPort |-> K(80),
                       CheckAlive |-> K(<<"y">>), CheckAliveInterval |-> K(20)])}
    \union {[WGConfig |-> Env(<<".", "wg.conf">>)]}
    \union {[WGConfig |-> K(p)] @@ ks : p \in {<<"abs", "v6.conf">>, <<"abs", "bare.conf">>,
               <<".", "two.conf">>, <<".", "none.conf">>}, ks \in {NoKeys, [Address |-> K(<<"v4">>)]}}

MCSections ==
    {<<S("interface", ks), S("peer", PeerKeys), Tunnel>> :
        ks \in Varied(IfaceFull) \union {[IfaceFull EXCEPT !.CheckAliveInterval.v = 0],
                                         [IfaceFull EXCEPT !.ListenPort.v = 99999]}}
    \union {<<S("peer", PeerKeys), S("interface", Iface), Tunnel, S("peer", ks)>> : ks \in Varied(PeerFull)}
    \union {<<S("tailscale", ks), Tunnel>> : ks \in Varied(NodeFull)}
    \union {<<S("interface", ks), Tunnel>> : ks \in MCWrappers}
    \union {WG(NoKeys) \o <<Socks, S(t, NoKeys)>> : t \in {"sokcs5", "tailscale", "interface"} \union Range(routineParsers)}
    \union {WG(NoKeys) \o <<Tunnel, S("resolve", ks)>> \o rest :
               ks \in {NoKeys, [ResolveStrategy |-> Unset]}
                     \union {[ResolveStrategy |-> K(v)] : v \in {"ipv4", "ipv6", "fast"}},
               rest \in {<<>>, <<S("resolve", [ResolveStrategy |-> K("fast")])>>}}
    \union {WG(NoKeys) \o <<S("http", ks)>> :
               ks \in Varied(Bound("127.0.0.1", "80") @@ [Username |-> K("u"), Password |-> K("p"),
                      CertFile |-> K("c"), KeyFile |-> K("k"), TunnelDomains |-> K({Host("corp")}),
                      LogDomains |-> K(TRUE)])}
    \union {WG(NoKeys) \o <<S("udpproxytunnel", ks)>> :
               ks \in Varied(Forward("127.0.0.1", "80", "80") @@ [InactivityTimeout |-> K(30)])}
    \union {<<S("interface", Restrict(Iface, {"PrivateKey", "Address"})), S("peer", PeerKeys), r>> : r \in MCOptions}
    \union {TS("node", NoKeys) \o TS("n2", NoKeys), <<Socks>>, <<>>}

\* Root keys, several files, and directories.
MCRoots ==
    {File("f", r, <<Socks>>) : r \in {NoKeys, [WGConfig |-> K(<<".", "wg.conf">>)],
        [WGConfig |-> K(<<"abs", "v6.conf">>), Name |-> K("b!")],
        [WGConfig |-> K(<<".", "wg.conf">>), Name |-> K("--")]}}
Good == File("f", [WGConfig |-> K(<<"abs", "v6.conf">>)], <<Tunnel>>)
Dir(es) == [exists |-> TRUE, isDir |-> TRUE, entries |-> es]
Entry(c, r, f) == [conf |-> c, regular |-> r, file |-> f]
Unreadable == [Good EXCEPT !.readable = FALSE]

MCParsed ==
    {<<Path(File("f", NoKeys, ss))>> : ss \in MCSections}
    \union {<<Path(f)>> : f \in MCRoots \union {Unreadable}}
    \union {<<Dir(<<Entry(c, TRUE, Unreadable), Entry(TRUE, r, Unreadable), Entry(TRUE, TRUE, Good)>>)>> :
               c, r \in BOOLEAN}
    \union {<<Dir(<<>>)>>, <<Path(Good), [exists |-> FALSE, isDir |-> FALSE, entries |-> <<>>]>>}

MCSources == MCPairs \union MCSingles \union MCParsed

MCInfos == {NoInfo, At("127.0.0.1", "80")}
MCNoInfos == {NoInfo}

\* A WireGuard ListenPort and a UDP tunnel of another connection on one port.
MCUdpSources ==
    {<<Together(c, d)>> :
        c \in {Conn("a", WG([ListenPort |-> K(n)])) : n \in {53, 80}},
        d \in With({Conn("b", WG(NoKeys))}, MCUpTo({S("udpproxytunnel", Forward("", "53", "53"))}, 1))}

\* Server tunnels only.
MCTargetSources == {<<Alone(c)>> : c \in With({Conn("a", WG(NoKeys))}, MCUpTo(MCServers, 1))}

\* README.md: an import alone (199-211) and one with overrides (213-226).
MCReadme ==
    {<<Path(File("f", [WGConfig |-> K(<<".", "wg.conf">>)], ss))>> :
        ss \in {<<Socks>>,
                <<S("interface", [MTU |-> K(1240), DNS |-> K(<<"e">>), CheckAlive |-> K(<<"y">>),
                                  CheckAliveInterval |-> K(10)]), Socks>>}}
=============================================================================
