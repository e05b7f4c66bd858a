------------------------------- MODULE Relay -------------------------------
(***************************************************************************)
(* The life of one proxied TCP connection, from the client that waits to   *)
(* be accepted to the sockets `conn` and `peer` and the two goroutines     *)
(* that copy between them.  Connections share nothing, so one is enough.   *)
(* The kinds differ in what precedes the copying:                          *)
(*   "tcp"    tcpClientForward and tcpServerForward: resolve, dial         *)
(*   "stdio"  STDIOTcpForward: the same with stdin/stdout, never closed    *)
(*   "sni"    sniProxyForward: read the ClientHello under a deadline, dial *)
(*   "http"   HTTPServer.serve: read a request, authenticate, dial, answer *)
(* Bytes are numbered; byte 1 of an "sni" or "http" client stands for its  *)
(* ClientHello or its request.                                             *)
(***************************************************************************)
EXTENDS Integers, Sequences

CONSTANTS
    Kinds,      \* which of the kinds above are explored
    MaxBytes    \* bound: bytes each end sends

ASSUME ConstantsAssumption ==
    /\ Kinds \subseteq {"tcp", "stdio", "sni", "http"}
    /\ MaxBytes \in Nat

VARIABLES
    kind,      \* the kind of this connection
    req,       \* "http": [method, auth]; auth: what the Proxy-Authorization header
               \* holds, "off" if the proxy asks for none
    spc,       \* "accept": in the listener's backlog; then the serving goroutine:
               \* "start" | "auth" | "dial" | "answer" | "done"; "abandoned": in
               \* the backlog of a listener that nobody accepts from
    conn,      \* proxy's end of the client socket: "queued" | "open" | "closed"
    peer,      \* proxy's end of the remote socket: "none" | "open" | "closed"
    sent,      \* bytes sent by the client; by the remote end (both as counts)
    end,       \* how the client and the remote end stopped: "no" | "eof" | "reset"
    pos,       \* bytes taken from the client; from the remote end
    peeked,    \* "sni": bytes kept by the TeeReader, read again by the copy
    skipped,   \* "http": bytes after the request left in the bufio.Reader
    pc,        \* copy goroutines "up" and "down": "none" | "read" | "write" |
               \* "close1" | "close2" | "done"
    got,       \* "up"/"down": bytes written to the remote end / to the client
    drained    \* history: the directions whose copy ended at end of stream

Dirs == {"up", "down"}
vars == <<kind, req, spc, conn, peer, sent, end, pos, peeked, skipped, pc, got, drained>>

Methods == {"CONNECT", "GET", "other"}
Headers == {"off", "absent", "malformed", "wrong", "right"}

TypeOK ==
    /\ kind \in Kinds
    /\ req \in [method : Methods, auth : Headers]
    /\ spc \in {"accept", "abandoned", "start", "auth", "dial", "answer", "done"}
    /\ conn \in {"queued", "open", "closed"}
    /\ peer \in {"none", "open", "closed"}
    /\ sent \in [Dirs -> 0..MaxBytes]
    /\ end \in [Dirs -> {"no", "eof", "reset"}]
    /\ pos \in [Dirs -> 0..MaxBytes]
    /\ peeked \in 0..MaxBytes
    /\ skipped \in 0..MaxBytes
    /\ pc \in [Dirs -> {"none", "read", "write", "close1", "close2", "done"}]
    /\ got \in [Dirs -> Seq(1..MaxBytes)]
    /\ drained \subseteq Dirs

Init ==
    /\ kind \in Kinds
    /\ req \in [method : Methods, auth : Headers]
    /\ kind # "http" => req = [method |-> "other", auth |-> "off"]
    /\ spc = IF kind = "stdio" THEN "start" ELSE "accept"
    /\ conn = IF kind = "stdio" THEN "open" ELSE "queued"
    /\ peer = "none"
    /\ sent = [d \in Dirs |-> 0]
    /\ end = [d \in Dirs |-> "no"]
    /\ pos = [d \in Dirs |-> 0]
    /\ peeked = 0
    /\ skipped = 0
    /\ pc = [d \in Dirs |-> "none"]
    /\ got = [d \in Dirs |-> <<>>]
    /\ drained = {}

-----------------------------------------------------------------------------
(* The two ends.                                                           *)

Send(d) ==
    /\ d = "down" => peer # "none"
    /\ end[d] = "no"
    /\ sent[d] < MaxBytes
    /\ sent' = [sent EXCEPT ![d] = @ + 1]
    /\ UNCHANGED <<kind, req, spc, conn, peer, end, pos, peeked, skipped, pc, got, drained>>

Stop(d) ==
    /\ d = "down" => peer # "none"
    /\ end[d] = "no"
    /\ \E how \in {"eof", "reset"} : end' = [end EXCEPT ![d] = how]
    /\ UNCHANGED <<kind, req, spc, conn, peer, sent, pos, peeked, skipped, pc, got, drained>>

-----------------------------------------------------------------------------
(* The accept loop of the routine, up to this client.                      *)

Accept ==
    /\ spc = "accept"
    /\ spc' = "start"
    /\ conn' = "open"
    /\ UNCHANGED <<kind, req, peer, sent, end, pos, peeked, skipped, pc, got, drained>>

\* An error of Accept ends the loop for good.  HTTPServer.ListenAndServe
\* closes the listener, and the kernel resets what is in its backlog; the
\* tunnels and the SNI proxy leave theirs open.
AcceptError ==
    /\ spc = "accept"
    /\ IF kind = "http"
       THEN spc' = "done" /\ conn' = "closed"
       ELSE spc' = "abandoned" /\ UNCHANGED conn
    /\ UNCHANGED <<kind, req, peer, sent, end, pos, peeked, skipped, pc, got, drained>>

-----------------------------------------------------------------------------
(* The serving goroutine.                                                  *)

\* conn.Close(); the STDIO tunnel has a nopFile there, whose Close does
\* nothing, and STDIOTcpForward itself never closes.
CloseConn == conn' = IF kind = "stdio" THEN conn ELSE "closed"

\* An error before the copying: the client is closed, the goroutine returns.
Fail ==
    /\ CloseConn
    /\ spc' = "done"
    /\ UNCHANGED <<kind, req, peer, sent, end, pos, peeked, skipped, pc, got, drained>>

\* resolveToAddrPort for "tcp" and "stdio".
Resolve ==
    /\ spc = "start"
    /\ kind \in {"tcp", "stdio"}
    /\ \/ /\ spc' = "dial"
          /\ UNCHANGED <<kind, req, conn, peer, sent, end, pos, peeked, skipped, pc, got, drained>>
       \/ Fail

\* http.ReadRequest through a bufio.Reader, which may take more than the
\* request; the copies read from conn itself, so that the rest is lost.  It
\* has no deadline.
ReadRequest ==
    /\ spc = "start"
    /\ kind = "http"
    /\ \/ /\ \E n \in 1..sent.up : pos' = [pos EXCEPT !.up = n] /\ skipped' = n - 1
          /\ spc' = "auth"
          /\ UNCHANGED <<kind, req, conn, peer, sent, end, peeked, pc, got, drained>>
       \/ (sent.up > 0 \/ end.up # "no") /\ Fail

\* Altered Authenticate: the method is looked at, the credentials are not.
Authenticate_MethodOnly ==
    /\ spc = "auth"
    /\ IF req.method # "other"
       THEN /\ spc' = "dial"
            /\ UNCHANGED <<kind, req, conn, peer, sent, end, pos, peeked, skipped, pc, got, drained>>
       ELSE Fail

\* authenticate, with its errors left apart: 407, 406 or 411, 401.
authenticate == req.auth \notin {"absent", "malformed", "wrong"}

\* authenticate, then the switch on the method; a refusal is answered first.
Authenticate ==
    /\ spc = "auth"
    /\ IF authenticate /\ req.method # "other"
       THEN /\ spc' = "dial"
            /\ UNCHANGED <<kind, req, conn, peer, sent, end, pos, peeked, skipped, pc, got, drained>>
       ELSE Fail

\* Altered PeekClientHello: what the handshake has read is not kept.
PeekClientHello_NoTee ==
    /\ spc = "start"
    /\ kind = "sni"
    /\ \/ /\ \E n \in 1..sent.up : pos' = [pos EXCEPT !.up = n]
          /\ spc' = "dial"
          /\ UNCHANGED <<kind, req, conn, peer, sent, end, peeked, skipped, pc, got, drained>>
       \/ Fail

\* Altered PeekClientHello: no read deadline.
PeekClientHello_NoDeadline ==
    /\ spc = "start"
    /\ kind = "sni"
    /\ \/ /\ \E n \in 1..sent.up : peeked' = n
          /\ spc' = "dial"
          /\ UNCHANGED <<kind, req, conn, peer, sent, end, pos, skipped, pc, got, drained>>
       \/ (sent.up > 0 \/ end.up # "no") /\ Fail

\* peekClientHello under a read deadline of 5 s, cleared afterwards.  It
\* fails on the deadline, on a broken or missing ClientHello, and on one
\* without a server name.
PeekClientHello ==
    /\ spc = "start"
    /\ kind = "sni"
    /\ \/ /\ \E n \in 1..sent.up : peeked' = n
          /\ spc' = "dial"
          /\ UNCHANGED <<kind, req, conn, peer, sent, end, pos, skipped, pc, got, drained>>
       \/ Fail

\* The dial.  For "http" the answer comes next, else the copies start; an
\* "sni" copy starts with the peeked bytes (MultiReader).
Dial ==
    /\ spc = "dial"
    /\ \/ /\ peer' = "open"
          /\ IF kind = "http"
             THEN spc' = "answer" /\ UNCHANGED pc
             ELSE spc' = "done" /\ pc' = [d \in Dirs |-> "read"]
          /\ UNCHANGED <<kind, req, conn, sent, end, pos, peeked, skipped, got, drained>>
       \/ Fail

\* Altered Answer: the peer is not closed when the answer cannot be written.
Answer_PeerLeak ==
    /\ spc = "answer"
    /\ spc' = "done"
    /\ \/ /\ got' = IF req.method = "GET" THEN [got EXCEPT !.up = <<1>>] ELSE got
          /\ pc' = [d \in Dirs |-> "read"]
          /\ UNCHANGED <<conn, peer>>
       \/ /\ conn' = "closed"
          /\ UNCHANGED <<peer, pc, got>>
    /\ UNCHANGED <<kind, req, sent, end, pos, peeked, skipped, drained>>

\* handleConn writes the 200 to the client, handle writes the request to the
\* peer; if that fails the peer is closed, and serve closes the client.
Answer ==
    /\ spc = "answer"
    /\ spc' = "done"
    /\ \/ /\ got' = IF req.method = "GET" THEN [got EXCEPT !.up = <<1>>] ELSE got
          /\ pc' = [d \in Dirs |-> "read"]
          /\ UNCHANGED <<conn, peer>>
       \/ /\ peer' = "closed"
          /\ conn' = "closed"
          /\ UNCHANGED <<pc, got>>
    /\ UNCHANGED <<kind, req, sent, end, pos, peeked, skipped, drained>>

Serve ==
    \/ Resolve \/ ReadRequest \/ Authenticate
    \/ PeekClientHello \/ Dial \/ Answer

-----------------------------------------------------------------------------
(* The copy goroutines: connForward, and the two closures of serve.        *)

From(d) == IF d = "up" THEN conn ELSE peer
To(d)   == IF d = "up" THEN peer ELSE conn
Other(d) == IF d = "up" THEN "down" ELSE "up"

\* Altered Readable: one byte too many.
Readable_OffByOne(d) ==
    /\ pos[d] <= sent[d]
    /\ From(d) = "open" /\ end[d] # "reset"

\* A read succeeds while there is something to read.
Readable(d) ==
    /\ pos[d] < sent[d]
    /\ \/ From(d) = "open" /\ end[d] # "reset"
       \/ d = "up" /\ pos.up < peeked

CopyRead(d) ==
    /\ pc[d] = "read"
    /\ Readable(d)
    /\ pos' = [pos EXCEPT ![d] = @ + 1]
    /\ pc' = [pc EXCEPT ![d] = "write"]
    /\ UNCHANGED <<kind, req, spc, conn, peer, sent, end, peeked, skipped, got, drained>>

\* The stream has ended, or the read fails: because this end was closed by
\* the other goroutine, or by a reset.
CopyReadEnds(d) ==
    /\ pc[d] = "read"
    /\ ~Readable(d)
    /\ end[d] # "no" \/ From(d) = "closed"
    /\ pc' = [pc EXCEPT ![d] = "close1"]
    /\ drained' = IF end[d] = "eof" /\ From(d) = "open"
                  THEN drained \union {d} ELSE drained
    /\ UNCHANGED <<kind, req, spc, conn, peer, sent, end, pos, peeked, skipped, got>>

\* The write of copy d goes to an end that is there.  It has no deadline: if that
\* end takes no data, io.Copy waits in it for as long as the socket is open.
WriteMayWait(d) == pc[d] = "write" /\ To(d) = "open" /\ end[Other(d)] # "reset"

\* The byte last read is written, unless the other end is gone.
CopyWrite(d) ==
    /\ pc[d] = "write"
    /\ \/ /\ WriteMayWait(d)
          /\ got' = [got EXCEPT ![d] = Append(@, pos[d])]
          /\ pc' = [pc EXCEPT ![d] = "read"]
       \/ /\ To(d) = "closed" \/ end[Other(d)] # "no"
          /\ pc' = [pc EXCEPT ![d] = "close1"]
          /\ UNCHANGED got
    /\ UNCHANGED <<kind, req, spc, conn, peer, sent, end, pos, peeked, skipped, drained>>

\* Altered CopyClose: the deferred Close of the destination is missing.
CopyClose_FromOnly(d, n) ==
    /\ pc[d] = (IF n = 1 THEN "close1" ELSE "close2")
    /\ pc' = [pc EXCEPT ![d] = IF n = 1 THEN "close2" ELSE "done"]
    /\ CASE n = 1 -> UNCHANGED <<conn, peer>>
         [] n = 2 /\ d = "up" -> CloseConn /\ UNCHANGED peer
         [] n = 2 /\ d = "down" -> peer' = "closed" /\ UNCHANGED conn
    /\ UNCHANGED <<kind, req, spc, sent, end, pos, peeked, skipped, got, drained>>

\* The deferred Close calls, last one first: connForward closes `to` and then
\* `from`, the closures of serve the peer and then the client.
CopyClose(d, n) ==
    /\ pc[d] = (IF n = 1 THEN "close1" ELSE "close2")
    /\ pc' = [pc EXCEPT ![d] = IF n = 1 THEN "close2" ELSE "done"]
    /\ IF (d = "up" \/ kind = "http") <=> n = 1
       THEN peer' = "closed" /\ UNCHANGED conn
       ELSE CloseConn /\ UNCHANGED peer
    /\ UNCHANGED <<kind, req, spc, sent, end, pos, peeked, skipped, got, drained>>

Copy(d) ==
    \/ CopyRead(d) \/ CopyReadEnds(d) \/ CopyWrite(d)
    \/ CopyClose(d, 1) \/ CopyClose(d, 2)

-----------------------------------------------------------------------------
Next ==
    \/ \E d \in Dirs : Send(d) \/ Stop(d)
    \/ Accept \/ AcceptError
    \/ Serve
    \/ \E d \in Dirs : Copy(d)

Spec == Init /\ [][Next]_vars

\* Goroutines are scheduled; Dial returns, if only with the error of TCP's own
\* timeout; the SNI deadline fires.  Nothing makes a write to an end that is
\* there return, neither that of a copy nor that of an answer or a forwarded
\* request.  The two ends are free.
FairSpec ==
    /\ Spec
    /\ WF_vars(Serve /\ spc # "answer")
    /\ \A d \in Dirs : WF_vars(Copy(d) /\ ~WriteMayWait(d))

-----------------------------------------------------------------------------
\* How many bytes of the client are for the proxy alone: a CONNECT request.
Consumed == IF kind = "http" /\ req.method = "CONNECT" THEN 1 ELSE 0

\* Nothing is repeated, reordered or made up in either direction, and nothing
\* is lost, save what an HTTP client sent before the answer to its request:
\* what was written is an initial part of what was sent, the ClientHello that
\* the SNI proxy has read for itself included, and once; and a direction that
\* came to the end of its stream has delivered all of it.
StreamsIntact ==
    /\ \A i \in 1..Len(got.up) :
          \/ got.up[i] = i + Consumed
          \/ skipped > 0 /\ got.up[i] = i + Consumed + skipped
    /\ \A i \in 1..Len(got.down) : got.down[i] = i
    /\ "up" \in drained => Len(got.up) + Consumed + skipped = sent.up
    /\ "down" \in drained => Len(got.down) = sent.down

\* When the serving goroutine is through, either both copies have been
\* started or both sockets are shut: no error path forgets one.
NoSocketForgotten ==
    spc = "done" /\ pc.up = "none" =>
        /\ conn = "closed" \/ kind = "stdio"
        /\ peer # "open"
        /\ pc.down = "none"

\* The HTTP proxy opens no connection for a client that did not authenticate
\* or for a method it does not support.
DialOnlyAllowed ==
    kind = "http" /\ peer # "none" => req.auth \in {"off", "right"} /\ req.method # "other"

\* Some goroutine is in a write that may wait for ever.
WriteWaits == spc = "answer" \/ \E d \in Dirs : WriteMayWait(d)

\* If either end of an accepted connection goes away, both sockets are closed in
\* the end, unless a write waits for ever: with a copy in it, nothing may ever
\* take notice of the end that is gone.
HangupClosesBoth ==
    \/ <>[]WriteWaits
    \/ (spc \notin {"accept", "abandoned"} /\ (end.up # "no" \/ end.down # "no")) ~>
           ((conn = "closed" \/ kind = "stdio") /\ peer # "open")

\* The SNI proxy does not wait for ever for a silent client.
SilentSniClientDropped == (kind = "sni" /\ spc = "start") ~> (spc # "start")
=============================================================================
