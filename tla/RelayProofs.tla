---------------------------- MODULE RelayProofs ----------------------------
(***************************************************************************)
(* The safety of a proxied connection for streams of any length.  The      *)
(* invariant says, for each place of the serving goroutine, which sockets  *)
(* it holds, and for each copy how far what was written is behind what was *)
(* read.                                                                   *)
(***************************************************************************)
EXTENDS Relay, TLAPS

Copying == pc["up"] # "none"

\* The serving goroutine and the sockets it holds.
Held ==
    /\ pc["up"] = "none" <=> pc["down"] = "none"
    /\ spc # "done" => pc["up"] = "none"
    /\ spc \in {"accept", "abandoned", "start", "auth", "dial"} => peer = "none"
    /\ spc = "answer" => kind = "http"
    /\ spc = "auth" => kind = "http"
    /\ spc = "done" /\ pc["up"] = "none" => (conn = "closed" \/ kind = "stdio") /\ peer # "open"

\* A request is dialled for after it has passed.
Admitted ==
    kind = "http" /\ (spc \in {"dial", "answer"} \/ peer # "none" \/ Copying) =>
        req.auth \in {"off", "right"} /\ req.method # "other"

\* What has been taken from the client before the copies start.
Skip == Consumed + skipped

Before ==
    ~Copying =>
        /\ got["up"] = <<>> /\ got["down"] = <<>> /\ drained = {}
        /\ pos["down"] = 0
        /\ kind = "http" /\ spc \in {"auth", "dial", "answer"} => pos["up"] = skipped + 1
        /\ kind = "http" /\ spc \in {"accept", "start"} => skipped = 0
        /\ kind # "http" => pos["up"] = 0

\* How far a copy is: one byte is in hand between read and write.
Offset(d) == IF d = "up" THEN Skip ELSE 0
Progress(d) ==
    /\ pc[d] = "read" => pos[d] = Len(got[d]) + Offset(d)
    /\ pc[d] = "write" => pos[d] = Len(got[d]) + Offset(d) + 1
    /\ d \in drained => /\ end[d] = "eof" /\ pc[d] \notin {"none", "read", "write"}
                        /\ Len(got[d]) + Offset(d) = sent[d]

\* The numbers of the bytes written.
Numbered ==
    /\ \A i \in 1..Len(got["up"]) :
          \/ got["up"][i] = i + Consumed
          \/ skipped > 0 /\ got["up"][i] = i + Consumed + skipped
    /\ \A i \in 1..Len(got["down"]) : got["down"][i] = i

Sane ==
    /\ kind # "http" => skipped = 0
    /\ \A d \in Dirs : pos[d] <= sent[d]

IInv ==
    /\ TypeOK /\ Held /\ Admitted /\ Before /\ Numbered /\ Sane
    /\ \A d \in Dirs : Progress(d)

-----------------------------------------------------------------------------
\* The connection as the accept loop finds it.
LEMMA InitHolds == Init => IInv
<1> SUFFICES ASSUME Init PROVE IInv
  OBVIOUS
<1> USE ConstantsAssumption DEF Dirs
<1>1. TypeOK
  BY DEF Init, TypeOK, Methods, Headers
<1>2. Held /\ Admitted /\ Before
  BY DEF Init, Held, Admitted, Before, Copying
<1>3. Numbered /\ Sane
  BY DEF Init, Numbered, Sane
<1>4. \A d \in Dirs : Progress(d)
  BY DEF Init, Progress
<1> QED
  BY <1>1, <1>2, <1>3, <1>4 DEF IInv

\* Bytes and copies are left alone.
Quiet == UNCHANGED <<kind, req, sent, end, pos, skipped, pc, got, drained>>

\* Such a step keeps the numbering and the progress of the copies.
LEMMA QuietStep ==
    ASSUME IInv, Quiet, TypeOK', Held', Admitted', Before'
    PROVE  IInv'
<1>1. Consumed' = Consumed
  BY DEF Quiet, Consumed
<1>2. Numbered' /\ Sane'
  BY <1>1 DEF Quiet, IInv, Numbered, Sane
<1>3. ASSUME NEW d \in Dirs PROVE Progress(d)'
  BY <1>1 DEF Quiet, IInv, Progress, Offset, Skip
<1> QED
  BY <1>2, <1>3 DEF IInv

\* An error return before the copies: the client is closed.
LEMMA FailStep ==
    ASSUME IInv, Fail, spc \in {"start", "auth", "dial"}
    PROVE  IInv'
<1>1. Quiet /\ UNCHANGED <<peer, peeked>> /\ spc' = "done"
  BY DEF Fail, Quiet
<1>2. TypeOK'
  BY <1>1 DEF Fail, CloseConn, Quiet, IInv, TypeOK
<1>3. Held'
  BY <1>1 DEF Fail, CloseConn, Quiet, IInv, Held
<1>4. Admitted'
  BY <1>1 DEF Quiet, IInv, Admitted, Held, Copying
<1>5. Before'
  BY <1>1 DEF Quiet, IInv, Before, Copying
<1> QED
  BY <1>1, <1>2, <1>3, <1>4, <1>5, QuietStep

\* The accept loop.
LEMMA AcceptStep ==
    ASSUME IInv, Accept \/ AcceptError
    PROVE  IInv'
<1>1. Quiet /\ UNCHANGED <<peer, peeked>> /\ spc = "accept"
  BY DEF Accept, AcceptError, Quiet
<1>2. \/ spc' = "start" /\ conn' = "open"
      \/ spc' = "done" /\ conn' = "closed"
      \/ spc' = "abandoned" /\ conn' = conn
  BY DEF Accept, AcceptError
<1>3. TypeOK'
  BY <1>1, <1>2 DEF Quiet, IInv, TypeOK
<1>4. Held'
  BY <1>1, <1>2 DEF Quiet, IInv, Held
<1>5. Admitted'
  BY <1>1, <1>2 DEF Quiet, IInv, Admitted, Held, Copying
<1>6. Before'
  BY <1>1, <1>2 DEF Quiet, IInv, Before, Copying
<1> QED
  BY <1>1, <1>3, <1>4, <1>5, <1>6, QuietStep

\* A name is resolved, a request passes, a ClientHello is read.
LEMMA PrepareStep ==
    ASSUME IInv, Resolve \/ Authenticate \/ PeekClientHello
    PROVE  IInv'
<1>1. CASE Fail
  BY <1>1, FailStep DEF Resolve, Authenticate, PeekClientHello
<1>2. CASE ~Fail
  <2>1. /\ Quiet /\ UNCHANGED <<conn, peer>> /\ spc' = "dial"
        /\ \/ spc = "start" /\ kind # "http"
           \/ spc = "auth" /\ req.auth \in {"off", "right"} /\ req.method # "other"
    <3>1. req.auth \in Headers
      BY DEF IInv, TypeOK
    <3> QED
      BY <1>2, <3>1 DEF Resolve, Authenticate, authenticate, Headers, PeekClientHello, Quiet
  <2>2. peeked' \in 0..MaxBytes
    BY <1>2, ConstantsAssumption DEF Resolve, Authenticate, PeekClientHello, IInv, TypeOK, Dirs
  <2>3. TypeOK'
    BY <2>1, <2>2 DEF Quiet, IInv, TypeOK
  <2>4. Held'
    BY <2>1 DEF Quiet, IInv, Held
  <2>5. Admitted'
    BY <2>1 DEF Quiet, IInv, Admitted, Copying
  <2>6. Before'
    BY <2>1 DEF Quiet, IInv, Before, Copying, Held
  <2> QED
    BY <2>1, <2>3, <2>4, <2>5, <2>6, QuietStep
<1> QED
  BY <1>1, <1>2

\* The two ends send or stop; nothing of the proxy's moves.
LEMMA EndStep ==
    ASSUME IInv, NEW e \in Dirs, Send(e) \/ Stop(e)
    PROVE  IInv'
<1> USE ConstantsAssumption DEF Dirs
<1>1. UNCHANGED <<kind, req, spc, conn, peer, pos, peeked, skipped, pc, got, drained>>
  BY DEF Send, Stop
<1>2. /\ sent' \in [Dirs -> 0..MaxBytes] /\ end' \in [Dirs -> {"no", "eof", "reset"}]
      /\ \A d \in Dirs : sent[d] <= sent'[d]
      /\ \A d \in Dirs : end[d] # "no" => end'[d] = end[d] /\ sent'[d] = sent[d]
  BY DEF Send, Stop, IInv, TypeOK
<1>3. Consumed' = Consumed
  BY <1>1 DEF Consumed
<1>4. TypeOK'
  BY <1>1, <1>2 DEF IInv, TypeOK
<1>5. Held' /\ Admitted' /\ Before'
  BY <1>1 DEF IInv, Held, Admitted, Before, Copying
<1>6. Numbered' /\ Sane'
  BY <1>1, <1>2, <1>3 DEF IInv, Numbered, Sane, TypeOK
<1>7. ASSUME NEW d \in Dirs PROVE Progress(d)'
  BY <1>1, <1>2, <1>3 DEF IInv, Progress, Offset, Skip
<1> QED
  BY <1>4, <1>5, <1>6, <1>7 DEF IInv

\* ReadRequest takes the request and perhaps more.
LEMMA RequestStep ==
    ASSUME IInv, ReadRequest
    PROVE  IInv'
<1> USE ConstantsAssumption DEF Dirs
<1>1. CASE Fail
  BY <1>1, FailStep DEF ReadRequest
<1>2. CASE ~Fail
  <2>1. PICK n \in 1..sent.up : pos' = [pos EXCEPT !.up = n] /\ skipped' = n - 1
    BY <1>2 DEF ReadRequest
  <2>2. /\ spc = "start" /\ kind = "http" /\ spc' = "auth"
        /\ UNCHANGED <<kind, req, conn, peer, sent, end, peeked, pc, got, drained>>
    BY <1>2 DEF ReadRequest
  <2>3. n \in 1..MaxBytes /\ n <= sent["up"]
    BY <2>1 DEF IInv, TypeOK
  <2>4. pos'["up"] = n /\ pos'["down"] = pos["down"] /\ pos' \in [Dirs -> 0..MaxBytes]
    <3>1. pos \in [Dirs -> 0..MaxBytes]
      BY DEF IInv, TypeOK
    <3> QED
      BY <2>1, <2>3, <3>1
  <2>5. TypeOK'
    BY <2>1, <2>2, <2>3, <2>4 DEF IInv, TypeOK
  <2>6. Held' /\ Admitted'
    BY <2>2 DEF IInv, Held, Admitted, Copying
  <2>7. Before'
    BY <2>1, <2>2, <2>3, <2>4 DEF IInv, Before, Copying, Held
  <2>8. Numbered' /\ Sane'
    BY <2>1, <2>2, <2>3, <2>4 DEF IInv, Numbered, Sane, Before, Copying, Held
  <2>9. ASSUME NEW d \in Dirs PROVE Progress(d)'
    BY <2>2 DEF IInv, Progress, Before, Copying, Held
  <2> QED
    BY <2>5, <2>6, <2>7, <2>8, <2>9 DEF IInv
<1> QED
  BY <1>1, <1>2

\* The dial starts the copies, or the answer of the HTTP proxy.
LEMMA DialStep ==
    ASSUME IInv, Dial
    PROVE  IInv'
<1> USE ConstantsAssumption DEF Dirs
<1>1. CASE Fail
  BY <1>1, FailStep DEF Dial
<1>2. CASE ~Fail
  <2>1. /\ spc = "dial" /\ peer' = "open"
        /\ UNCHANGED <<kind, req, conn, sent, end, pos, peeked, skipped, got, drained>>
        /\ \/ kind = "http" /\ spc' = "answer" /\ pc' = pc
           \/ kind # "http" /\ spc' = "done" /\ pc' = [d \in Dirs |-> "read"]
    BY <1>2 DEF Dial
  <2>2. Consumed' = Consumed
    BY <2>1 DEF Consumed
  <2>3. TypeOK'
    BY <2>1 DEF IInv, TypeOK
  <2>4. Held' /\ Admitted'
    BY <2>1 DEF IInv, Held, Admitted, TypeOK, Copying
  <2>5. Before'
    BY <2>1 DEF IInv, Before, Copying, Held
  <2>6. Numbered' /\ Sane'
    BY <2>1, <2>2 DEF IInv, Numbered, Sane
  <2>7. ASSUME NEW d \in Dirs PROVE Progress(d)'
    <3>1. drained' = {} /\ got'[d] = <<>> /\ Len(got'[d]) = 0
      BY <2>1 DEF IInv, Held, Before, Copying
    <3>2. CASE kind = "http"
      BY <2>1, <3>1, <3>2 DEF IInv, Progress, Held
    <3>3. CASE kind # "http"
      <4>1. pos'[d] = 0 /\ pc'[d] = "read"
        BY <2>1, <3>3 DEF IInv, Held, Before, Copying
      <4>2. Offset(d)' = 0
        BY <2>1, <3>3 DEF IInv, Offset, Skip, Consumed, Sane
      <4> QED
        BY <3>1, <4>1, <4>2 DEF Progress
    <3> QED
      BY <3>2, <3>3
  <2> QED
    BY <2>3, <2>4, <2>5, <2>6, <2>7 DEF IInv
<1> QED
  BY <1>1, <1>2

\* The answer or the forwarded request is written, or both sockets are closed.
LEMMA AnswerStep ==
    ASSUME IInv, Answer
    PROVE  IInv'
<1> USE ConstantsAssumption DEF Dirs
<1>1. /\ spc = "answer" /\ spc' = "done" /\ kind = "http"
      /\ UNCHANGED <<kind, req, sent, end, pos, peeked, skipped, drained>>
      /\ pc["up"] = "none" /\ pc["down"] = "none"
  BY DEF Answer, IInv, Held
<1>2. /\ got["up"] = <<>> /\ got["down"] = <<>> /\ drained = {}
      /\ pos["up"] = skipped + 1 /\ pos["down"] = 0
  BY <1>1 DEF IInv, Before, Copying
<1>3. req.method \in {"CONNECT", "GET"}
  BY <1>1 DEF IInv, Admitted, TypeOK, Methods, Copying
<1>4. Consumed' = Consumed /\ Consumed = IF req.method = "CONNECT" THEN 1 ELSE 0
  BY <1>1 DEF Consumed
<1>5. CASE /\ got' = IF req.method = "GET" THEN [got EXCEPT !.up = <<1>>] ELSE got
           /\ pc' = [d \in Dirs |-> "read"]
           /\ UNCHANGED <<conn, peer>>
  <2>1. /\ got' \in [Dirs -> Seq(1..MaxBytes)]
        /\ got'["up"] = IF req.method = "GET" THEN <<1>> ELSE <<>>
        /\ got'["down"] = <<>>
    <3>1. got \in [Dirs -> Seq(1..MaxBytes)] /\ skipped \in Nat /\ pos["up"] <= MaxBytes
      BY DEF IInv, TypeOK
    <3>2. 1 \in 1..MaxBytes
      BY <1>2, <3>1
    <3>3. <<1>> \in Seq(1..MaxBytes)
      BY <3>2
    <3> QED
      BY <1>2, <1>5, <3>1, <3>3
  <2>2. TypeOK'
    BY <1>1, <1>5, <2>1 DEF IInv, TypeOK
  <2>3. Held' /\ Admitted' /\ Before'
    BY <1>1, <1>5 DEF IInv, Held, Admitted, Before, Copying
  <2>4. Numbered' /\ Sane'
    BY <1>1, <1>3, <1>4, <2>1 DEF IInv, Numbered, Sane
  <2>5. ASSUME NEW d \in Dirs PROVE Progress(d)'
    <3>1. pc'[d] = "read" /\ drained' = {} /\ skipped \in Nat
      BY <1>1, <1>2, <1>5 DEF IInv, TypeOK
    <3>2. pos'[d] = IF d = "up" THEN skipped + 1 ELSE 0
      BY <1>1, <1>2
    <3>3. Len(got'[d]) = IF d = "up" /\ req.method = "GET" THEN 1 ELSE 0
      <4>1. got'[d] = IF d = "up" /\ req.method = "GET" THEN <<1>> ELSE <<>>
        BY <2>1
      <4>2. Len(<<1>>) = 1 /\ Len(<<>>) = 0
        OBVIOUS
      <4> QED
        BY <4>1, <4>2
    <3>4. Offset(d)' = IF d = "up" THEN skipped + (IF req.method = "CONNECT" THEN 1 ELSE 0) ELSE 0
      BY <1>1, <1>4, <3>1 DEF Offset, Skip
    <3> QED
      BY <1>3, <3>1, <3>2, <3>3, <3>4 DEF Progress
  <2> QED
    BY <2>2, <2>3, <2>4, <2>5 DEF IInv
<1>6. CASE peer' = "closed" /\ conn' = "closed" /\ UNCHANGED <<pc, got>>
  <2>1. Quiet
    BY <1>1, <1>6 DEF Quiet
  <2>2. TypeOK' /\ Held' /\ Admitted'
    BY <1>1, <1>6 DEF IInv, TypeOK, Held, Admitted, Copying
  <2>3. Before'
    BY <1>1, <1>2, <1>6 DEF Before, Copying
  <2> QED
    BY <2>1, <2>2, <2>3, QuietStep
<1> QED
  BY <1>5, <1>6 DEF Answer

-----------------------------------------------------------------------------
\* What a step of copy d leaves alone, and the copies it does not touch.
CopyFrame(d) ==
    /\ UNCHANGED <<kind, req, spc, sent, end, peeked, skipped>>
    /\ pc[d] # "none" /\ pc'[d] # "none"
    /\ \A e \in Dirs \ {d} :
          /\ UNCHANGED <<pc[e], pos[e], got[e]>>
          /\ e \in drained' <=> e \in drained

\* A step of one copy has to keep the progress and the numbering of that copy.
LEMMA CopyStep ==
    ASSUME IInv, NEW d \in Dirs, CopyFrame(d), TypeOK', pos'[d] <= sent[d],
           Numbered', Progress(d)'
    PROVE  IInv'
<1> USE DEF Dirs
<1>1. Consumed' = Consumed
  BY DEF CopyFrame, Consumed
<1>2. pc["up"] # "none" /\ pc["down"] # "none" /\ pc'["up"] # "none" /\ pc'["down"] # "none"
  BY DEF CopyFrame, IInv, Held
<1>3. spc = "done" /\ spc' = "done"
  BY <1>2 DEF CopyFrame, IInv, Held
<1>4. Held' /\ Before'
  BY <1>2, <1>3 DEF Held, Before, Copying
<1>5. Admitted'
  BY <1>2, <1>3 DEF CopyFrame, IInv, Admitted, Copying
<1>6. Sane'
  BY DEF CopyFrame, IInv, Sane
<1>7. ASSUME NEW e \in Dirs, e # d PROVE Progress(e)'
  <2>1. Offset(e)' = Offset(e)
    BY <1>1 DEF CopyFrame, Offset, Skip
  <2> QED
    BY <2>1, <1>7 DEF CopyFrame, IInv, Progress
<1> QED
  BY <1>4, <1>5, <1>6, <1>7 DEF IInv

\* One byte is read.
LEMMA ReadStep ==
    ASSUME IInv, NEW d \in Dirs, CopyRead(d)
    PROVE  IInv'
<1> USE ConstantsAssumption
<1>1. /\ pos \in [Dirs -> 0..MaxBytes] /\ sent \in [Dirs -> 0..MaxBytes]
      /\ pos[d] < sent[d] /\ pc \in [Dirs -> {"none", "read", "write", "close1", "close2", "done"}]
  BY DEF IInv, TypeOK, CopyRead, Readable
<1>2. /\ pos' = [pos EXCEPT ![d] = @ + 1] /\ pc' = [pc EXCEPT ![d] = "write"] /\ pc[d] = "read"
      /\ UNCHANGED <<kind, req, spc, conn, peer, sent, end, peeked, skipped, got, drained>>
  BY DEF CopyRead
<1>3. pos' \in [Dirs -> 0..MaxBytes] /\ pos'[d] = pos[d] + 1 /\ pos'[d] <= sent[d]
  BY <1>1, <1>2
<1>4. CopyFrame(d)
  BY <1>1, <1>2 DEF CopyFrame
<1>5. TypeOK'
  BY <1>1, <1>2, <1>3 DEF IInv, TypeOK
<1>6. Consumed' = Consumed
  BY <1>2 DEF Consumed
<1>7. Numbered'
  BY <1>2, <1>6 DEF IInv, Numbered
<1>8. Progress(d)'
  <2>1. Offset(d)' = Offset(d)
    BY <1>2, <1>6 DEF Offset, Skip
  <2>2. pos[d] = Len(got[d]) + Offset(d) /\ d \notin drained
    BY <1>2 DEF IInv, Progress
  <2> QED
    BY <1>1, <1>2, <1>3, <2>1, <2>2 DEF Progress
<1> QED
  BY <1>3, <1>4, <1>5, <1>7, <1>8, CopyStep

\* The copy comes to the end of what it can read: at the end of the stream
\* nothing is left of what was sent.
LEMMA ReadEndsStep ==
    ASSUME IInv, NEW d \in Dirs, CopyReadEnds(d)
    PROVE  IInv'
<1> USE ConstantsAssumption
<1>1. /\ pos \in [Dirs -> 0..MaxBytes] /\ sent \in [Dirs -> 0..MaxBytes] /\ drained \subseteq Dirs
      /\ pc \in [Dirs -> {"none", "read", "write", "close1", "close2", "done"}]
      /\ pos[d] <= sent[d]
  BY DEF IInv, TypeOK, Sane
<1>2. /\ pc' = [pc EXCEPT ![d] = "close1"] /\ pc[d] = "read"
      /\ drained' = IF end[d] = "eof" /\ From(d) = "open" THEN drained \union {d} ELSE drained
      /\ UNCHANGED <<kind, req, spc, conn, peer, sent, end, pos, peeked, skipped, got>>
  BY DEF CopyReadEnds
<1>3. CopyFrame(d)
  BY <1>1, <1>2 DEF CopyFrame
<1>4. TypeOK'
  BY <1>1, <1>2 DEF IInv, TypeOK
<1>5. Consumed' = Consumed
  BY <1>2 DEF Consumed
<1>6. Numbered'
  BY <1>2, <1>5 DEF IInv, Numbered
<1>7. Progress(d)'
  <2>1. Offset(d)' = Offset(d) /\ pc'[d] = "close1"
    BY <1>1, <1>2, <1>5 DEF Offset, Skip
  <2>2. pos[d] = Len(got[d]) + Offset(d) /\ d \notin drained
    BY <1>2 DEF IInv, Progress
  <2>3. d \in drained' => end[d] = "eof" /\ From(d) = "open"
    BY <1>2, <2>2
  <2>4. d \in drained' => pos[d] = sent[d]
    BY <1>1, <2>3 DEF CopyReadEnds, Readable
  <2> QED
    BY <1>2, <2>1, <2>2, <2>3, <2>4 DEF Progress
<1>8. pos'[d] <= sent[d]
  BY <1>1, <1>2
<1> QED
  BY <1>3, <1>4, <1>6, <1>7, <1>8, CopyStep

\* The byte in hand is written, or the destination is gone.
LEMMA WriteStep ==
    ASSUME IInv, NEW d \in Dirs, CopyWrite(d)
    PROVE  IInv'
<1> USE ConstantsAssumption
<1>1. /\ pos \in [Dirs -> 0..MaxBytes] /\ sent \in [Dirs -> 0..MaxBytes] /\ skipped \in Nat
      /\ pc \in [Dirs -> {"none", "read", "write", "close1", "close2", "done"}]
      /\ got \in [Dirs -> Seq(1..MaxBytes)] /\ pos[d] <= sent[d]
  BY DEF IInv, TypeOK, Sane
<1>2. /\ pc[d] = "write"
      /\ UNCHANGED <<kind, req, spc, conn, peer, sent, end, pos, peeked, skipped, drained>>
      /\ \/ /\ got' = [got EXCEPT ![d] = Append(@, pos[d])]
            /\ pc' = [pc EXCEPT ![d] = "read"]
         \/ got' = got /\ pc' = [pc EXCEPT ![d] = "close1"]
  BY DEF CopyWrite
<1>3. Consumed' = Consumed /\ Offset(d)' = Offset(d) /\ Offset(d) \in Nat
  BY <1>1, <1>2 DEF Consumed, Offset, Skip
<1>4. pos[d] = Len(got[d]) + Offset(d) + 1 /\ d \notin drained
  BY <1>2 DEF IInv, Progress
<1>5. pos'[d] <= sent[d]
  BY <1>1, <1>2
<1>6. CASE got' = got /\ pc' = [pc EXCEPT ![d] = "close1"]
  <2>1. CopyFrame(d)
    BY <1>1, <1>2, <1>6 DEF CopyFrame
  <2>2. TypeOK'
    BY <1>1, <1>2, <1>6 DEF IInv, TypeOK
  <2>3. Numbered'
    BY <1>2, <1>3, <1>6 DEF IInv, Numbered
  <2>4. Progress(d)'
    BY <1>1, <1>2, <1>4, <1>6 DEF Progress
  <2> QED
    BY <1>5, <2>1, <2>2, <2>3, <2>4, CopyStep
<1>7. CASE got' = [got EXCEPT ![d] = Append(@, pos[d])] /\ pc' = [pc EXCEPT ![d] = "read"]
  <2>1. /\ got[d] \in Seq(1..MaxBytes) /\ Len(got[d]) \in Nat
        /\ pos[d] \in 1..MaxBytes
    BY <1>1, <1>3, <1>4
  <2>2. /\ got'[d] = Append(got[d], pos[d])
        /\ Append(got[d], pos[d]) \in Seq(1..MaxBytes)
        /\ Len(got'[d]) = Len(got[d]) + 1
        /\ got'[d][Len(got[d]) + 1] = pos[d]
        /\ \A i \in 1..Len(got[d]) : got'[d][i] = got[d][i]
    BY <1>1, <1>7, <2>1
  <2>3. CopyFrame(d)
    BY <1>1, <1>2, <1>7 DEF CopyFrame
  <2>4. got' \in [Dirs -> Seq(1..MaxBytes)] /\ pc' \in [Dirs -> {"none", "read", "write", "close1", "close2", "done"}]
    BY <1>1, <1>7, <2>2
  <2>5. TypeOK'
    BY <1>2, <2>4 DEF IInv, TypeOK
  <2>6. \A i \in 1..Len(got'[d]) : i \in 1..Len(got[d]) \/ i = Len(got[d]) + 1
    BY <2>1, <2>2
  <2>7. ASSUME d = "up" PROVE Numbered'
    <3>1. got'["down"] = got["down"]
      BY <1>1, <1>7, <2>7 DEF Dirs
    <3>2. pos["up"] = (Len(got["up"]) + 1) + Consumed + skipped
      BY <1>1, <1>4, <2>1, <2>7 DEF Offset, Skip, Consumed
    <3>3. \A i \in 1..Len(got'["up"]) :
             \/ got'["up"][i] = i + Consumed
             \/ skipped > 0 /\ got'["up"][i] = i + Consumed + skipped
      <4> SUFFICES ASSUME NEW i \in 1..Len(got'["up"])
                   PROVE  \/ got'["up"][i] = i + Consumed
                          \/ skipped > 0 /\ got'["up"][i] = i + Consumed + skipped
        OBVIOUS
      <4>1. CASE i \in 1..Len(got["up"])
        BY <2>2, <2>7, <4>1 DEF IInv, Numbered
      <4>2. CASE i = Len(got["up"]) + 1
        <5>1. got'["up"][i] = i + Consumed + skipped /\ Consumed \in Nat /\ i \in Nat
          <6>1. Consumed \in Nat
            BY DEF Consumed
          <6>2. got'["up"][i] = pos["up"]
            BY <2>2, <2>7, <4>2
          <6> QED
            BY <2>1, <2>7, <3>2, <4>2, <6>1, <6>2
        <5> QED
          BY <1>1, <5>1
      <4> QED
        BY <2>6, <2>7, <4>1, <4>2
    <3> QED
      BY <1>2, <1>3, <3>1, <3>3 DEF IInv, Numbered
  <2>8. ASSUME d = "down" PROVE Numbered'
    <3>1. got'["up"] = got["up"]
      BY <1>1, <1>7, <2>8 DEF Dirs
    <3>2. pos["down"] = Len(got["down"]) + 1
      BY <1>4, <2>1, <2>8 DEF Offset
    <3>3. \A i \in 1..Len(got'["down"]) : got'["down"][i] = i
      BY <2>1, <2>2, <2>6, <2>8, <3>2 DEF IInv, Numbered
    <3> QED
      BY <1>2, <1>3, <3>1, <3>3 DEF IInv, Numbered
  <2>9. Progress(d)'
    BY <1>1, <1>2, <1>3, <1>4, <1>7, <2>1, <2>2 DEF Progress
  <2>10. Numbered'
    BY <2>7, <2>8 DEF Dirs
  <2> QED
    BY <1>5, <2>3, <2>5, <2>9, <2>10, CopyStep
<1> QED
  BY <1>2, <1>6, <1>7

\* The deferred Close calls.
LEMMA CloseStep ==
    ASSUME IInv, NEW d \in Dirs, NEW n \in {1, 2}, CopyClose(d, n)
    PROVE  IInv'
<1>1. /\ pos \in [Dirs -> 0..MaxBytes] /\ pos[d] <= sent[d]
      /\ pc \in [Dirs -> {"none", "read", "write", "close1", "close2", "done"}]
  BY DEF IInv, TypeOK, Sane
<1>2. /\ pc[d] \in {"close1", "close2"}
      /\ \E s \in {"close2", "done"} : pc' = [pc EXCEPT ![d] = s]
      /\ UNCHANGED <<kind, req, spc, sent, end, pos, peeked, skipped, got, drained>>
      /\ conn' \in {conn, "closed"} /\ peer' \in {peer, "closed"}
  BY DEF CopyClose, CloseConn
<1>3. CopyFrame(d)
  BY <1>1, <1>2 DEF CopyFrame
<1>4. TypeOK'
  BY <1>1, <1>2 DEF IInv, TypeOK
<1>5. Consumed' = Consumed
  BY <1>2 DEF Consumed
<1>6. Numbered'
  BY <1>2, <1>5 DEF IInv, Numbered
<1>7. Progress(d)'
  <2>1. Offset(d)' = Offset(d) /\ pc'[d] \in {"close2", "done"}
    BY <1>1, <1>2, <1>5 DEF Offset, Skip
  <2> QED
    BY <1>2, <2>1 DEF IInv, Progress
<1>8. pos'[d] <= sent[d]
  BY <1>1, <1>2
<1> QED
  BY <1>3, <1>4, <1>6, <1>7, <1>8, CopyStep

-----------------------------------------------------------------------------
\* Every step of the connection keeps the invariant.
LEMMA NextHolds == IInv /\ [Next]_vars => IInv'
<1> SUFFICES ASSUME IInv, [Next]_vars PROVE IInv'
  OBVIOUS
<1>1. CASE UNCHANGED vars
  <2>1. TypeOK' /\ Held' /\ Admitted' /\ Before' /\ Quiet
    BY <1>1 DEF vars, IInv, TypeOK, Held, Admitted, Before, Copying, Quiet
  <2> QED
    BY <2>1, QuietStep
<1>2. ASSUME NEW e \in Dirs, Send(e) \/ Stop(e) PROVE IInv'
  BY <1>2, EndStep
<1>3. CASE Accept \/ AcceptError
  BY <1>3, AcceptStep
<1>4. CASE Resolve \/ Authenticate \/ PeekClientHello
  BY <1>4, PrepareStep
<1>5. CASE ReadRequest
  BY <1>5, RequestStep
<1>6. CASE Dial
  BY <1>6, DialStep
<1>7. CASE Answer
  BY <1>7, AnswerStep
<1>8. ASSUME NEW d \in Dirs, Copy(d) PROVE IInv'
  BY <1>8, ReadStep, ReadEndsStep, WriteStep, CloseStep DEF Copy
<1> QED
  BY <1>1, <1>2, <1>3, <1>4, <1>5, <1>6, <1>7, <1>8 DEF Next, Serve

\* The invariant holds of every connection.
THEOREM Invariance == Spec => []IInv
BY InitHolds, NextHolds, PTL DEF Spec

\* The variables of a connection keep their types, for any bound on the bytes.
THEOREM TypeCorrect == Spec => []TypeOK
<1>1. IInv => TypeOK
  BY DEF IInv
<1> QED
  BY <1>1, Invariance, PTL

\* The copies of connForward and of HTTPServer.serve deliver what was sent,
\* in order and once, and all of it at the end of the stream, however many
\* bytes there are.
THEOREM Intact == Spec => []StreamsIntact
<1>1. IInv => StreamsIntact
  BY DEF IInv, StreamsIntact, Numbered, Progress, Offset, Skip, Consumed, Dirs, TypeOK
<1> QED
  BY <1>1, Invariance, PTL

\* No error path of a forwarder or of HTTPServer.serve forgets a socket.
THEOREM NoneForgotten == Spec => []NoSocketForgotten
<1>1. IInv => NoSocketForgotten
  BY DEF IInv, NoSocketForgotten, Held
<1> QED
  BY <1>1, Invariance, PTL

\* HTTPServer.serve dials for authenticated clients and known methods alone.
THEOREM OnlyAllowed == Spec => []DialOnlyAllowed
<1>1. IInv => DialOnlyAllowed
  BY DEF IInv, DialOnlyAllowed, Admitted
<1> QED
  BY <1>1, Invariance, PTL
=============================================================================
