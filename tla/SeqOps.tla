------------------------------- MODULE SeqOps -------------------------------
(* Sequences put together and picked from, without operators as arguments. *)
EXTENDS Integers, Sequences, Functions

\* The sequences in ss, one after the other.
Concat(ss) ==
    LET upTo[n \in 0..Len(ss)] == IF n = 0 THEN <<>> ELSE upTo[n-1] \o ss[n]
    IN  upTo[Len(ss)]

\* The elements of s that are in A, in their order.
Filter(s, A) ==
    LET upTo[n \in 0..Len(s)] ==
            CASE n = 0 -> <<>>
              [] n # 0 /\ s[n] \in A -> Append(upTo[n-1], s[n])
              [] OTHER -> upTo[n-1]
    IN  upTo[Len(s)]

IsSeq(s) == s \in Seq(Range(s))
=============================================================================
