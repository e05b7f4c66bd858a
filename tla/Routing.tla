------------------------------ MODULE Routing ------------------------------
(***************************************************************************)
(* Where a proxied connection goes and who resolves its name: the          *)
(* whitelist decides between the tunnel and the host's network, the        *)
(* strategy between the addresses a name has.                              *)
(*                                                                         *)
(* A host is [name, upper, dot]: its name, whether it is written in upper  *)
(* case and with a trailing dot.  A pattern is the host it matches.  An    *)
(* address is its family, "v4" or "v6".                                    *)
(***************************************************************************)
EXTENDS Config

CONSTANT TailnetPeers  \* names in a node's peer list

Literal == "literal"   \* the name of a host given by its address
IsLiteral(h) == h.name = Literal

-----------------------------------------------------------------------------
(* router.go                                                               *)

MatchString(p, h) == p = h

\* Altered shouldTunnel: the host is matched as the client wrote it.
shouldTunnel_AsWritten(patterns, h) ==
    patterns = {} \/ \E p \in patterns : MatchString(p, h)

shouldTunnel(patterns, h) ==
    \/ patterns = {}
    \/ \E p \in patterns : MatchString(p, [h EXCEPT !.upper = FALSE, !.dot = FALSE])

-----------------------------------------------------------------------------
(* Name resolution                                                         *)

\* StartWireguard and startTsnet settle the strategy of a connection.
EffectiveStrategy(c) ==
    CASE c.kind = "ts" -> "ipv4"
      [] c.kind = "wg" /\ c.resolve = "auto" ->
           IF "v4" \in Range(c.device[1].addrs) /\ "v6" \notin Range(c.device[1].addrs)
           THEN "ipv4" ELSE "ipv6"
      [] OTHER -> c.resolve

SystemDNS(c) == c.kind = "wg" /\ c.device[1].dns = <<>>

\* Altered ResolveAddr: no address of the other family is tried.
ResolveAddr_Strict(strategy, answers) ==
    answers \intersect (IF strategy = "ipv6" THEN {"v6"} ELSE {"v4"})

\* ResolveAddrWithContext: the addresses it may return, none if it fails.
ResolveAddr(strategy, answers) ==
    LET preferred == answers \intersect (IF strategy = "ipv6" THEN {"v6"} ELSE {"v4"})
    IN  IF preferred # {} THEN preferred ELSE answers

\* The resolver that LookupAddr asks for the name of h.
LookupAddr(c, h) ==
    CASE SystemDNS(c) -> "system"
      [] ~SystemDNS(c) /\ c.kind = "wg" -> "tunnel"
      [] OTHER -> IF h.name \in TailnetPeers THEN "tunnel" ELSE "system"

\* Altered passthrough: only a whitelist keeps names from being resolved early.
passthrough_Whitelist(r) == r.patterns # {}

\* The proxy hands the name to the dialer: HTTP and SNI proxies do, a SOCKS5
\* proxy unless it is on its legacy path.
passthrough(r) ==
    \/ r.kind \in {"http", "sni"}
    \/ r.kind = "socks5" /\ (r.patterns # {} \/ r.log)

-----------------------------------------------------------------------------
(* A dial of routine r of connection c to host h, of which a resolver has  *)
(* the addresses in `answers`: which resolver is asked, which network the  *)
(* connection takes ("none": it fails), and the address that was chosen.   *)

\* Who looks up a name that is dialled in the tunnel: the netstack, even when
\* it has no server to ask; a node for its peers, the system for other names.
NetDial(c, h) == IF c.kind = "ts" /\ h.name \notin TailnetPeers THEN "system" ELSE "tunnel"

\* A name dialled on the host's network is looked up by the system.
RoutedDial(c, r, h, answers) ==
    LET via == IF shouldTunnel(r.patterns, h) THEN "tunnel" ELSE "direct"
        lookup == CASE IsLiteral(h) -> "none" [] via = "direct" -> "system" [] OTHER -> NetDial(c, h)
        found == /\ answers # {}
                 /\ lookup = "tunnel" => ~SystemDNS(c)
    IN  {[lookup |-> lookup, via |-> IF found THEN via ELSE "none", addr |-> a] :
            a \in IF found THEN answers ELSE {"none"}}

\* tcpClientForward, STDIOTcpForward, tcpServerForward and the legacy SOCKS5
\* path resolve the name first.
ResolvedDial(c, r, h, answers) ==
    LET addrs == ResolveAddr(EffectiveStrategy(c), answers)
        via == IF r.kind = "tcpservertunnel" THEN "direct" ELSE "tunnel"
    IN  {[lookup |-> IF IsLiteral(h) THEN "none" ELSE LookupAddr(c, h),
          via |-> IF addrs = {} THEN "none" ELSE via, addr |-> a] :
            a \in IF addrs = {} THEN {"none"} ELSE addrs}

Dials(c, r, h, answers) ==
    IF passthrough(r) THEN RoutedDial(c, r, h, answers) ELSE ResolvedDial(c, r, h, answers)
=============================================================================
