---------------------------- MODULE SeqOpsProofs ----------------------------
(***************************************************************************)
(* What Concat and Filter compute.  The induction theorems of the library  *)
(* take an operator; here the property is the set of those that have it,   *)
(* and the least number outside the set does not exist (WFMin).            *)
(***************************************************************************)
EXTENDS SeqOps, SequenceTheorems, WellFoundedInduction, TLAPS

\* Induction over the natural numbers, for a set.
LEMMA SetInduction ==
    ASSUME NEW T, 0 \in T, \A n \in Nat : n \in T => n + 1 \in T
    PROVE  \A n \in Nat : n \in T
<1> SUFFICES ASSUME NEW n \in Nat, n \notin T PROVE FALSE
  OBVIOUS
<1> DEFINE Bad == Nat \ T
<1>1. PICK m \in Bad : \A k \in Bad : ~(<<k, m>> \in OpToRel(<, Nat))
  <2>1. Bad \subseteq Nat /\ Bad # {}
    OBVIOUS
  <2> HIDE DEF Bad
  <2> QED
    BY <2>1, NatLessThanWellFounded, WFMin, Zenon
<1>2. m \in Nat /\ m - 1 \in Nat /\ m - 1 \notin T
  OBVIOUS
<1>3. <<m - 1, m>> \in {p \in Nat \X Nat : p[1] < p[2]}
  BY <1>2
<1>4. <<m - 1, m>> \in OpToRel(<, Nat)
  BY <1>3, Zenon DEF OpToRel
<1> QED
  BY <1>1, <1>2, <1>4, Zenon

\* Induction over the sequences on a set, for a set.
LEMMA SeqInduction ==
    ASSUME NEW S, NEW T, <<>> \in T,
           \A s \in Seq(S), x \in S : s \in T => Append(s, x) \in T
    PROVE  \A s \in Seq(S) : s \in T
<1> DEFINE N == {n \in Nat : \A s \in Seq(S) : Len(s) = n => s \in T}
<1>1. 0 \in N
  BY EmptySeq
<1>2. ASSUME NEW n \in Nat, n \in N PROVE n + 1 \in N
  <2> SUFFICES ASSUME NEW s \in Seq(S), Len(s) = n + 1 PROVE s \in T
    OBVIOUS
  <2>1. s # <<>>
    BY EmptySeq
  <2>2. PICK t \in Seq(S), x \in S : s = Append(t, x)
    BY <2>1, SequenceEmptyOrAppend
  <2>3. Len(t) = n
    BY <2>2, AppendProperties, LenProperties
  <2> QED
    BY <1>2, <2>2, <2>3
<1>3. \A n \in Nat : n \in N
  <2> HIDE DEF N
  <2> QED
    BY <1>1, <1>2, SetInduction
<1> QED
  BY <1>3, LenProperties

-----------------------------------------------------------------------------
(* The recursive functions exist, so that their equations hold.            *)

\* The equation of Concat.
LEMMA ConcatEquation ==
    ASSUME NEW ss, Len(ss) \in Nat
    PROVE  \E f : /\ \A n \in 0..Len(ss) : f[n] = IF n = 0 THEN <<>> ELSE f[n-1] \o ss[n]
                  /\ Concat(ss) = f[Len(ss)]
<1> DEFINE V(f, n) == IF n = 0 THEN <<>> ELSE f[n-1] \o ss[n]
           E(f, k) == f = [n \in 0..k |-> V(f, n)]
           T == {k \in Nat : \E f : E(f, k)}
           upTo[n \in 0..Len(ss)] == IF n = 0 THEN <<>> ELSE upTo[n-1] \o ss[n]
<1>1. 0 \in T
  <2>1. E([n \in 0..0 |-> <<>>], 0)
    OBVIOUS
  <2> QED
    BY <2>1, Zenon
<1>2. ASSUME NEW k \in Nat, k \in T PROVE k + 1 \in T
  <2>1. PICK f : E(f, k)
    BY <1>2, Zenon
  <2> DEFINE g == [n \in 0..k+1 |-> IF n = k+1 THEN V(f, k+1) ELSE f[n]]
  <2>2. \A n \in 0..k : f[n] = V(f, n)
    BY <2>1, Zenon
  <2>3. \A n \in 0..k+1 : g[n] = V(g, n)
    BY <2>2
  <2>4. E(g, k + 1)
    BY <2>3, Zenon
  <2> HIDE DEF E, g
  <2> QED
    BY <2>4
<1>3. \A k \in Nat : k \in T
  <2> HIDE DEF T
  <2> QED
    BY <1>1, <1>2, SetInduction
<1>4. \E f : E(f, Len(ss))
  BY <1>3, Zenon
<1>5. upTo = [n \in 0..Len(ss) |-> V(upTo, n)]
  BY <1>4, Zenon
<1>6. Concat(ss) = upTo[Len(ss)]
  BY DEF Concat
<1>7. \A n \in 0..Len(ss) : upTo[n] = V(upTo, n)
  BY <1>5, Zenon
<1> HIDE DEF upTo
<1> QED
  BY <1>6, <1>7

\* The equation of Filter.
LEMMA FilterEquation ==
    ASSUME NEW s, Len(s) \in Nat, NEW A
    PROVE  \E f : /\ \A n \in 0..Len(s) : f[n] = CASE n = 0 -> <<>>
                                                   [] n # 0 /\ s[n] \in A -> Append(f[n-1], s[n])
                                                   [] OTHER -> f[n-1]
                  /\ Filter(s, A) = f[Len(s)]
<1> DEFINE V(f, n) == CASE n = 0 -> <<>>
                        [] n # 0 /\ s[n] \in A -> Append(f[n-1], s[n])
                        [] OTHER -> f[n-1]
           E(f, k) == f = [n \in 0..k |-> V(f, n)]
           T == {k \in Nat : \E f : E(f, k)}
           upTo[n \in 0..Len(s)] ==
               CASE n = 0 -> <<>>
                 [] n # 0 /\ s[n] \in A -> Append(upTo[n-1], s[n])
                 [] OTHER -> upTo[n-1]
<1>1. 0 \in T
  <2>1. E([n \in 0..0 |-> <<>>], 0)
    OBVIOUS
  <2> QED
    BY <2>1, Zenon
<1>2. ASSUME NEW k \in Nat, k \in T PROVE k + 1 \in T
  <2>1. PICK f : E(f, k)
    BY <1>2
  <2> DEFINE g == [n \in 0..k+1 |-> IF n = k+1 THEN V(f, k+1) ELSE f[n]]
  <2>2. \A n \in 0..k : f[n] = V(f, n)
    BY <2>1, Zenon
  <2>3. \A n \in 0..k+1 : g[n] = V(g, n)
    BY <2>2
  <2>4. E(g, k + 1)
    BY <2>3
  <2> HIDE DEF E, g
  <2> QED
    BY <2>4
<1>3. \A k \in Nat : k \in T
  <2> HIDE DEF T
  <2> QED
    BY <1>1, <1>2, SetInduction
<1>4. \E f : E(f, Len(s))
  BY <1>3
<1>5. upTo = [n \in 0..Len(s) |-> V(upTo, n)]
  BY <1>4, Zenon
<1>6. Filter(s, A) = upTo[Len(s)]
  BY DEF Filter
<1>7. \A n \in 0..Len(s) : upTo[n] = V(upTo, n)
  BY <1>5, Zenon
<1> HIDE DEF upTo
<1> QED
  BY <1>6, <1>7

-----------------------------------------------------------------------------
(* Filter, by the last element.                                            *)

\* Nothing of nothing.
LEMMA FilterEmpty == \A A : Filter(<<>>, A) = <<>>
<1> SUFFICES ASSUME NEW A PROVE Filter(<<>>, A) = <<>>
  OBVIOUS
<1>1. Len(<<>>) = 0
  BY EmptySeq
<1>2. PICK f : /\ \A n \in 0..0 : f[n] = CASE n = 0 -> <<>>
                                         [] n # 0 /\ <<>>[n] \in A -> Append(f[n-1], <<>>[n])
                                         [] OTHER -> f[n-1]
               /\ Filter(<<>>, A) = f[0]
  BY <1>1, FilterEquation
<1> QED
  BY <1>2

\* The last element is kept if it is in A.
LEMMA FilterAppend ==
    ASSUME NEW S, NEW s \in Seq(S), NEW x \in S, NEW A
    PROVE  Filter(Append(s, x), A) = IF x \in A THEN Append(Filter(s, A), x) ELSE Filter(s, A)
<1> DEFINE t == Append(s, x)
           m == Len(s)
<1>1. /\ m \in Nat /\ Len(t) = m + 1
      /\ \A n \in 1..m : t[n] = s[n]
      /\ t[m + 1] = x
  BY AppendProperties, LenProperties
<1> HIDE DEF t, m
<1>2. PICK f : /\ \A n \in 0..m : f[n] = CASE n = 0 -> <<>>
                                         [] n # 0 /\ s[n] \in A -> Append(f[n-1], s[n])
                                         [] OTHER -> f[n-1]
               /\ Filter(s, A) = f[m]
  BY <1>1, FilterEquation DEF m
<1>3. PICK g : /\ \A n \in 0..m+1 : g[n] = CASE n = 0 -> <<>>
                                           [] n # 0 /\ t[n] \in A -> Append(g[n-1], t[n])
                                           [] OTHER -> g[n-1]
               /\ Filter(t, A) = g[m+1]
  BY <1>1, FilterEquation
<1> DEFINE T == {n \in Nat : n <= m => f[n] = g[n]}
<1>4. 0 \in T
  BY <1>1, <1>2, <1>3
<1>5. ASSUME NEW n \in Nat, n \in T PROVE n + 1 \in T
  <2> SUFFICES ASSUME n + 1 <= m PROVE f[n+1] = g[n+1]
    OBVIOUS
  <2>1. f[n] = g[n] /\ t[n+1] = s[n+1]
    BY <1>1, <1>5
  <2>2. f[n+1] = IF s[n+1] \in A THEN Append(f[n], s[n+1]) ELSE f[n]
    BY <1>1, <1>2
  <2>3. g[n+1] = IF t[n+1] \in A THEN Append(g[n], t[n+1]) ELSE g[n]
    BY <1>1, <1>3
  <2> QED
    BY <2>1, <2>2, <2>3
<1>6. \A n \in Nat : n \in T
  <2> HIDE DEF T
  <2> QED
    BY <1>4, <1>5, SetInduction
<1>7. f[m] = g[m]
  BY <1>1, <1>6
<1>8. g[m+1] = IF x \in A THEN Append(g[m], x) ELSE g[m]
  BY <1>1, <1>3
<1> QED
  BY <1>2, <1>3, <1>7, <1>8 DEF t

-----------------------------------------------------------------------------
(* Concat, by the last sequence.                                           *)

\* Nothing of nothing.
LEMMA ConcatEmpty == Concat(<<>>) = <<>>
<1>1. Len(<<>>) = 0
  BY EmptySeq
<1>2. PICK f : /\ \A n \in 0..0 : f[n] = IF n = 0 THEN <<>> ELSE f[n-1] \o <<>>[n]
               /\ Concat(<<>>) = f[0]
  BY <1>1, ConcatEquation
<1> QED
  BY <1>2

\* The last sequence comes last.
LEMMA ConcatAppend ==
    ASSUME NEW S, NEW ss \in Seq(S), NEW x \in S
    PROVE  Concat(Append(ss, x)) = Concat(ss) \o x
<1> DEFINE t == Append(ss, x)
           m == Len(ss)
<1>1. /\ m \in Nat /\ Len(t) = m + 1
      /\ \A n \in 1..m : t[n] = ss[n]
      /\ t[m + 1] = x
  BY AppendProperties, LenProperties
<1> HIDE DEF t, m
<1>2. PICK f : /\ \A n \in 0..m : f[n] = IF n = 0 THEN <<>> ELSE f[n-1] \o ss[n]
               /\ Concat(ss) = f[m]
  BY <1>1, ConcatEquation DEF m
<1>3. PICK g : /\ \A n \in 0..m+1 : g[n] = IF n = 0 THEN <<>> ELSE g[n-1] \o t[n]
               /\ Concat(t) = g[m+1]
  BY <1>1, ConcatEquation
<1> DEFINE T == {n \in Nat : n <= m => f[n] = g[n]}
<1>4. 0 \in T
  BY <1>1, <1>2, <1>3
<1>5. ASSUME NEW n \in Nat, n \in T PROVE n + 1 \in T
  <2> SUFFICES ASSUME n + 1 <= m PROVE f[n+1] = g[n+1]
    OBVIOUS
  <2>1. f[n] = g[n] /\ t[n+1] = ss[n+1]
    BY <1>1, <1>5
  <2> DEFINE k == n + 1
  <2>2. k \in 0..m /\ k \in 0..m+1 /\ k # 0 /\ k - 1 = n
    BY <1>1
  <2> HIDE DEF k
  <2>3. f[k] = f[n] \o ss[k] /\ g[k] = g[n] \o t[k]
    BY <1>2, <1>3, <2>2, Zenon
  <2> QED
    BY <2>1, <2>3 DEF k
<1>6. \A n \in Nat : n \in T
  <2> HIDE DEF T
  <2> QED
    BY <1>4, <1>5, SetInduction
<1>7. f[m] = g[m]
  BY <1>1, <1>6
<1>8. g[m+1] = g[m] \o x
  <2>1. m+1 \in 0..m+1 /\ m+1 # 0 /\ (m+1)-1 = m
    BY <1>1
  <2> QED
    BY <1>1, <1>3, <2>1, Zenon
<1> QED
  BY <1>2, <1>3, <1>7, <1>8 DEF t

-----------------------------------------------------------------------------
(* What Filter keeps.                                                      *)

\* A sequence with one more element has one more element.
LEMMA RangeAppend ==
    ASSUME NEW S, NEW s \in Seq(S), NEW x \in S
    PROVE  Range(Append(s, x)) = Range(s) \union {x}
<1>1. /\ Append(s, x) \in Seq(S) /\ Len(Append(s, x)) = Len(s) + 1 /\ Len(s) \in Nat
      /\ \A i \in 1..Len(s) : Append(s, x)[i] = s[i]
      /\ Append(s, x)[Len(s) + 1] = x
  BY AppendProperties, LenProperties
<1>2. /\ Range(Append(s, x)) = {Append(s, x)[i] : i \in 1..Len(s) + 1}
      /\ Range(s) = {s[i] : i \in 1..Len(s)}
  BY <1>1, RangeEquality, Zenon
<1> QED
  BY <1>1, <1>2

\* Filter gives a sequence over the same set.
LEMMA FilterSeq ==
    ASSUME NEW S, NEW A
    PROVE  \A s \in Seq(S) : Filter(s, A) \in Seq(S)
<1> DEFINE T == {s \in Seq(S) : Filter(s, A) \in Seq(S)}
<1>1. <<>> \in T
  BY FilterEmpty, EmptySeq, Zenon
<1>2. ASSUME NEW s \in Seq(S), NEW x \in S, s \in T PROVE Append(s, x) \in T
  <2>1. Filter(Append(s, x), A) = IF x \in A THEN Append(Filter(s, A), x) ELSE Filter(s, A)
    BY FilterAppend
  <2>2. Append(s, x) \in Seq(S) /\ Append(Filter(s, A), x) \in Seq(S)
    BY <1>2, AppendProperties
  <2> QED
    BY <1>2, <2>1, <2>2
<1>3. \A s \in Seq(S) : s \in T
  <2> HIDE DEF T
  <2> QED
    BY <1>1, <1>2, SeqInduction
<1> QED
  BY <1>3

\* Filter keeps exactly the elements that are in A.
LEMMA FilterRange ==
    ASSUME NEW S, NEW A
    PROVE  \A s \in Seq(S) : Range(Filter(s, A)) = Range(s) \intersect A
<1> DEFINE T == {s \in Seq(S) : Range(Filter(s, A)) = Range(s) \intersect A}
<1>1. <<>> \in T
  <2>1. Range(<<>>) = {}
    BY DEF Range
  <2> QED
    BY <2>1, FilterEmpty, EmptySeq
<1>2. ASSUME NEW s \in Seq(S), NEW x \in S, s \in T PROVE Append(s, x) \in T
  <2>1. Filter(s, A) \in Seq(S) /\ Append(s, x) \in Seq(S)
    BY FilterSeq, AppendProperties
  <2>2. Range(Append(s, x)) = Range(s) \union {x}
    BY RangeAppend
  <2>3. Range(Append(Filter(s, A), x)) = Range(Filter(s, A)) \union {x}
    BY <2>1, RangeAppend
  <2>4. Filter(Append(s, x), A) = IF x \in A THEN Append(Filter(s, A), x) ELSE Filter(s, A)
    BY FilterAppend
  <2>5. Range(Filter(s, A)) = Range(s) \intersect A
    BY <1>2
  <2>6. CASE x \in A
    BY <2>1, <2>2, <2>3, <2>4, <2>5, <2>6, Zenon
  <2>7. CASE x \notin A
    BY <2>1, <2>2, <2>4, <2>5, <2>7
  <2> QED
    BY <2>6, <2>7
<1>3. \A s \in Seq(S) : s \in T
  <2> HIDE DEF T
  <2> QED
    BY <1>1, <1>2, SeqInduction
<1> QED
  BY <1>3

\* Sets that agree on the elements keep the same ones.
LEMMA FilterSame ==
    ASSUME NEW S, NEW A, NEW B, \A x \in S : x \in A <=> x \in B
    PROVE  \A s \in Seq(S) : Filter(s, A) = Filter(s, B)
<1> DEFINE T == {s \in Seq(S) : Filter(s, A) = Filter(s, B)}
<1>1. <<>> \in T
  BY FilterEmpty, EmptySeq
<1>2. ASSUME NEW s \in Seq(S), NEW x \in S, s \in T PROVE Append(s, x) \in T
  <2>1. /\ Filter(Append(s, x), A) = IF x \in A THEN Append(Filter(s, A), x) ELSE Filter(s, A)
        /\ Filter(Append(s, x), B) = IF x \in B THEN Append(Filter(s, B), x) ELSE Filter(s, B)
    BY FilterAppend
  <2> QED
    BY <1>2, <2>1, AppendProperties
<1>3. \A s \in Seq(S) : s \in T
  <2> HIDE DEF T
  <2> QED
    BY <1>1, <1>2, SeqInduction
<1> QED
  BY <1>3

\* A set with all the elements keeps the sequence as it is.
LEMMA FilterAll ==
    ASSUME NEW S, NEW A, S \subseteq A
    PROVE  \A s \in Seq(S) : Filter(s, A) = s
<1> DEFINE T == {s \in Seq(S) : Filter(s, A) = s}
<1>1. <<>> \in T
  BY FilterEmpty, EmptySeq
<1>2. ASSUME NEW s \in Seq(S), NEW x \in S, s \in T PROVE Append(s, x) \in T
  BY <1>2, FilterAppend, AppendProperties
<1>3. \A s \in Seq(S) : s \in T
  <2> HIDE DEF T
  <2> QED
    BY <1>1, <1>2, SeqInduction
<1> QED
  BY <1>3

\* To filter twice is to filter by both sets.
LEMMA FilterTwice ==
    ASSUME NEW S, NEW A, NEW B
    PROVE  \A s \in Seq(S) : Filter(Filter(s, A), B) = Filter(s, A \intersect B)
<1> DEFINE T == {s \in Seq(S) : Filter(Filter(s, A), B) = Filter(s, A \intersect B)}
<1>1. <<>> \in T
  BY FilterEmpty, EmptySeq
<1>2. ASSUME NEW s \in Seq(S), NEW x \in S, s \in T PROVE Append(s, x) \in T
  <2>1. Filter(s, A) \in Seq(S)
    BY FilterSeq
  <2>2. /\ Filter(Append(s, x), A) = IF x \in A THEN Append(Filter(s, A), x) ELSE Filter(s, A)
        /\ Filter(Append(s, x), A \intersect B) =
             IF x \in A \intersect B THEN Append(Filter(s, A \intersect B), x)
             ELSE Filter(s, A \intersect B)
    BY FilterAppend
  <2>3. Filter(Append(Filter(s, A), x), B) =
          IF x \in B THEN Append(Filter(Filter(s, A), B), x) ELSE Filter(Filter(s, A), B)
    BY <2>1, FilterAppend
  <2>4. Filter(Filter(s, A), B) = Filter(s, A \intersect B) /\ Append(s, x) \in Seq(S)
    BY <1>2, AppendProperties
  <2>5. Filter(Filter(Append(s, x), A), B) = Filter(Append(s, x), A \intersect B)
    <3>1. CASE x \in A
      <4>1. Filter(Append(s, x), A) = Append(Filter(s, A), x)
        BY <2>2, <3>1
      <4>2. x \in A \intersect B <=> x \in B
        BY <3>1
      <4> HIDE DEF T
      <4> QED
        BY ONLY <2>2, <2>3, <2>4, <4>1, <4>2, Zenon
    <3>2. CASE x \notin A
      BY <2>2, <2>4, <3>2
    <3> QED
      BY <3>1, <3>2
  <2> QED
    BY <2>4, <2>5
<1>3. \A s \in Seq(S) : s \in T
  <2> HIDE DEF T
  <2> QED
    BY <1>1, <1>2, SeqInduction
<1> QED
  BY <1>3, Zenon

\* Of disjoint sets, the union keeps as many as they do together.
LEMMA FilterUnion ==
    ASSUME NEW S, NEW A, NEW B, A \intersect B = {}
    PROVE  \A s \in Seq(S) :
             Len(Filter(s, A \union B)) = Len(Filter(s, A)) + Len(Filter(s, B))
<1> DEFINE T == {s \in Seq(S) :
                   Len(Filter(s, A \union B)) = Len(Filter(s, A)) + Len(Filter(s, B))}
<1>1. <<>> \in T
  BY FilterEmpty, EmptySeq
<1>2. ASSUME NEW s \in Seq(S), NEW x \in S, s \in T PROVE Append(s, x) \in T
  <2>1. ASSUME NEW C
        PROVE  /\ Len(Filter(s, C)) \in Nat
               /\ Len(Filter(Append(s, x), C)) = Len(Filter(s, C)) + (IF x \in C THEN 1 ELSE 0)
    <3>1. Filter(s, C) \in Seq(S)
      BY FilterSeq
    <3>2. Len(Append(Filter(s, C), x)) = Len(Filter(s, C)) + 1 /\ Len(Filter(s, C)) \in Nat
      BY <3>1, AppendProperties, LenProperties
    <3>3. Filter(Append(s, x), C) = IF x \in C THEN Append(Filter(s, C), x) ELSE Filter(s, C)
      BY FilterAppend
    <3> QED
      BY <3>2, <3>3
  <2>2. /\ Len(Filter(s, A)) \in Nat /\ Len(Filter(s, B)) \in Nat
        /\ Len(Filter(Append(s, x), A)) = Len(Filter(s, A)) + (IF x \in A THEN 1 ELSE 0)
        /\ Len(Filter(Append(s, x), B)) = Len(Filter(s, B)) + (IF x \in B THEN 1 ELSE 0)
        /\ Len(Filter(Append(s, x), A \union B)) =
             Len(Filter(s, A \union B)) + (IF x \in A \union B THEN 1 ELSE 0)
    BY <2>1
  <2>3. Append(s, x) \in Seq(S)
    BY AppendProperties
  <2> QED
    BY <1>2, <2>2, <2>3
<1>3. \A s \in Seq(S) : s \in T
  <2> HIDE DEF T
  <2> QED
    BY <1>1, <1>2, SeqInduction
<1> QED
  BY <1>3, Zenon

\* The functions from S to R, by a name.
Maps(S, R) == [S -> R]

\* A function on 1..n is a sequence of n elements.
LEMMA FunctionSeq ==
    ASSUME NEW S, NEW n \in Nat, NEW s \in Maps(1..n, S)
    PROVE  s \in Seq(S) /\ Len(s) = n /\ DOMAIN s = 1..n
BY DEF Maps

\* What a sequence has is in the set that it is over.
LEMMA RangeInSet ==
    ASSUME NEW S, NEW s \in Seq(S)
    PROVE  s \in Seq(Range(s)) /\ Range(s) \subseteq S
BY SeqOfRange, RangeEquality, LenProperties

\* Sets that agree on what a sequence has pick the same from it.
LEMMA FilterAgree ==
    ASSUME NEW S, NEW s \in Seq(S), NEW A, NEW B, \A x \in Range(s) : x \in A <=> x \in B
    PROVE  Filter(s, A) = Filter(s, B)
<1>1. s \in Seq(Range(s))
  BY RangeInSet
<1> QED
  BY <1>1, FilterSame

-----------------------------------------------------------------------------
(* Sequences one after the other.                                          *)

\* An element that is added to the second sequence is added to both.
LEMMA JoinAppend ==
    ASSUME NEW S, NEW s \in Seq(S), NEW t \in Seq(S), NEW x \in S
    PROVE  s \o Append(t, x) = Append(s \o t, x)
<1>1. <<x>> \in Seq(S) /\ s \o t \in Seq(S)
  BY ConcatProperties
<1>2. Append(t, x) = t \o <<x>> /\ Append(s \o t, x) = (s \o t) \o <<x>>
  BY <1>1, AppendIsConcat
<1>3. (s \o t) \o <<x>> = s \o (t \o <<x>>)
  BY <1>1, ConcatAssociative
<1> QED
  BY <1>2, <1>3

\* Filter picks from one sequence after the other.
LEMMA FilterJoin ==
    ASSUME NEW S, NEW A, NEW s \in Seq(S)
    PROVE  \A t \in Seq(S) : Filter(s \o t, A) = Filter(s, A) \o Filter(t, A)
<1> DEFINE T == {t \in Seq(S) : Filter(s \o t, A) = Filter(s, A) \o Filter(t, A)}
<1>1. Filter(s, A) \in Seq(S)
  BY FilterSeq
<1>2. <<>> \in T
  <2>1. s \o <<>> = s /\ Filter(s, A) \o <<>> = Filter(s, A)
    BY <1>1, ConcatEmptySeq
  <2> QED
    BY <2>1, FilterEmpty, EmptySeq, Zenon
<1>3. ASSUME NEW t \in Seq(S), NEW x \in S, t \in T PROVE Append(t, x) \in T
  <2>1. s \o t \in Seq(S) /\ Filter(t, A) \in Seq(S) /\ Append(t, x) \in Seq(S)
    BY ConcatProperties, FilterSeq, AppendProperties
  <2>2. s \o Append(t, x) = Append(s \o t, x)
    BY JoinAppend
  <2>3. Filter(s, A) \o Append(Filter(t, A), x) = Append(Filter(s, A) \o Filter(t, A), x)
    BY <1>1, <2>1, JoinAppend
  <2>4. Filter(Append(s \o t, x), A) = IF x \in A THEN Append(Filter(s \o t, A), x) ELSE Filter(s \o t, A)
    BY <2>1, FilterAppend, Zenon
  <2>5. Filter(Append(t, x), A) = IF x \in A THEN Append(Filter(t, A), x) ELSE Filter(t, A)
    BY FilterAppend
  <2>6. Filter(s \o t, A) = Filter(s, A) \o Filter(t, A)
    BY <1>3
  <2>7. Filter(s \o Append(t, x), A) = Filter(s, A) \o Filter(Append(t, x), A)
    <3>1. CASE x \in A
      <4>1. Filter(Append(s \o t, x), A) = Append(Filter(s \o t, A), x)
        BY <2>4, <3>1
      <4>2. Filter(Append(t, x), A) = Append(Filter(t, A), x)
        BY <2>5, <3>1
      <4> QED
        BY ONLY <2>2, <2>3, <2>6, <4>1, <4>2, Zenon
    <3>2. CASE x \notin A
      <4>1. Filter(Append(s \o t, x), A) = Filter(s \o t, A)
        BY <2>4, <3>2
      <4>2. Filter(Append(t, x), A) = Filter(t, A)
        BY <2>5, <3>2
      <4> QED
        BY ONLY <2>2, <2>6, <4>1, <4>2, Zenon
    <3> QED
      BY <3>1, <3>2
  <2> QED
    BY <2>1, <2>7
<1>4. \A t \in Seq(S) : t \in T
  <2> HIDE DEF T
  <2> QED
    BY <1>2, <1>3, SeqInduction
<1> QED
  BY <1>4

\* Sequences over S together are a sequence over S.
LEMMA ConcatSeq ==
    ASSUME NEW S
    PROVE  \A ss \in Seq(Seq(S)) : Concat(ss) \in Seq(S)
<1> DEFINE T == {ss \in Seq(Seq(S)) : Concat(ss) \in Seq(S)}
<1>1. <<>> \in T
  BY ConcatEmpty, EmptySeq, Zenon
<1>2. ASSUME NEW ss \in Seq(Seq(S)), NEW x \in Seq(S), ss \in T PROVE Append(ss, x) \in T
  <2>1. Concat(Append(ss, x)) = Concat(ss) \o x
    BY ConcatAppend
  <2>2. Concat(ss) \o x \in Seq(S) /\ Append(ss, x) \in Seq(Seq(S))
    BY <1>2, ConcatProperties, AppendProperties
  <2> QED
    BY <2>1, <2>2, Zenon
<1>3. \A ss \in Seq(Seq(S)) : ss \in T
  <2> HIDE DEF T
  <2> QED
    BY <1>1, <1>2, SeqInduction
<1> QED
  BY <1>3

\* Two sequences joined have the elements of both.
LEMMA RangeJoin ==
    ASSUME NEW S, NEW s \in Seq(S), NEW t \in Seq(S)
    PROVE  Range(s \o t) = Range(s) \union Range(t)
<1>1. /\ Range(s \o t) = {(s \o t)[i] : i \in 1..Len(s \o t)}
      /\ Range(s) = {s[i] : i \in 1..Len(s)} /\ Range(t) = {t[i] : i \in 1..Len(t)}
  <2>1. s \o t \in Seq(S)
    BY ConcatProperties
  <2> QED
    BY ONLY <2>1, s \in Seq(S), t \in Seq(S), RangeEquality, Zenon
<1>2. Len(s) \in Nat /\ Len(t) \in Nat
  BY LenProperties
<1>3. /\ Len(s \o t) = Len(s) + Len(t) /\ Len(s) \in Nat /\ Len(t) \in Nat
      /\ \A i \in 1..Len(s) + Len(t) : (s \o t)[i] = IF i <= Len(s) THEN s[i] ELSE t[i - Len(s)]
  BY ONLY <1>2, s \in Seq(S), t \in Seq(S), ConcatProperties, Zenon
<1>4. ASSUME NEW i \in 1..Len(t) PROVE (s \o t)[Len(s) + i] = t[i] /\ Len(s) + i \in 1..Len(s) + Len(t)
  <2>1. Len(s) + i \in 1..Len(s) + Len(t) /\ ~(Len(s) + i <= Len(s)) /\ Len(s) + i - Len(s) = i
    BY <1>3
  <2> QED
    BY <1>3, <2>1
<1>5. ASSUME NEW i \in 1..Len(s) PROVE (s \o t)[i] = s[i] /\ i \in 1..Len(s) + Len(t)
  BY <1>3
<1>6. ASSUME NEW i \in 1..Len(s) + Len(t), ~(i <= Len(s)) PROVE (s \o t)[i] = t[i - Len(s)] /\ i - Len(s) \in 1..Len(t)
  BY <1>3, <1>6
<1>7. Range(s) \union Range(t) \subseteq Range(s \o t)
  BY <1>1, <1>3, <1>4, <1>5
<1>8. ASSUME NEW x \in Range(s \o t) PROVE x \in Range(s) \union Range(t)
  <2>1. PICK i \in 1..Len(s) + Len(t) : x = (s \o t)[i]
    BY <1>1, <1>3
  <2>2. CASE i <= Len(s)
    BY <1>1, <1>3, <2>1, <2>2
  <2>3. CASE ~(i <= Len(s))
    BY <1>1, <1>6, <2>1, <2>3
  <2> QED
    BY <2>2, <2>3
<1> QED
  BY <1>7, <1>8

\* The elements are those of the sequences.
LEMMA ConcatRange ==
    ASSUME NEW S
    PROVE  \A ss \in Seq(Seq(S)) : Range(Concat(ss)) = UNION {Range(s) : s \in Range(ss)}
<1> DEFINE T == {ss \in Seq(Seq(S)) : Range(Concat(ss)) = UNION {Range(s) : s \in Range(ss)}}
<1>1. <<>> \in T
  <2>1. Range(<<>>) = {}
    BY DEF Range
  <2> QED
    BY <2>1, ConcatEmpty, EmptySeq
<1>2. ASSUME NEW ss \in Seq(Seq(S)), NEW x \in Seq(S), ss \in T PROVE Append(ss, x) \in T
  <2>1. Concat(Append(ss, x)) = Concat(ss) \o x /\ Concat(ss) \in Seq(S) /\ Append(ss, x) \in Seq(Seq(S))
    BY ConcatAppend, ConcatSeq, AppendProperties
  <2>2. Range(Concat(ss) \o x) = Range(Concat(ss)) \union Range(x)
    BY <2>1, RangeJoin
  <2>3. Range(Append(ss, x)) = Range(ss) \union {x}
    BY RangeAppend
  <2>4. Range(Concat(ss)) = UNION {Range(s) : s \in Range(ss)}
    BY <1>2
  <2>5. ASSUME NEW R PROVE UNION {Range(s) : s \in R \union {x}} = (UNION {Range(s) : s \in R}) \union Range(x)
    BY Zenon
  <2>6. Range(Concat(Append(ss, x))) = UNION {Range(s) : s \in Range(Append(ss, x))}
    BY ONLY <2>1, <2>2, <2>3, <2>4, <2>5, Zenon
  <2> QED
    BY <2>1, <2>6, Zenon
<1>3. \A ss \in Seq(Seq(S)) : ss \in T
  <2> HIDE DEF T
  <2> QED
    BY <1>1, <1>2, SeqInduction
<1> QED
  BY <1>3

\* Concat of two sequences of sequences.
LEMMA ConcatJoin ==
    ASSUME NEW S, NEW a \in Seq(Seq(S))
    PROVE  \A b \in Seq(Seq(S)) : Concat(a \o b) = Concat(a) \o Concat(b)
<1> DEFINE T == {b \in Seq(Seq(S)) : Concat(a \o b) = Concat(a) \o Concat(b)}
<1>1. Concat(a) \in Seq(S)
  BY ConcatSeq
<1>2. <<>> \in T
  <2>1. a \o <<>> = a /\ Concat(a) \o <<>> = Concat(a)
    BY <1>1, ConcatEmptySeq
  <2> QED
    BY <2>1, ConcatEmpty, EmptySeq, Zenon
<1>3. ASSUME NEW b \in Seq(Seq(S)), NEW x \in Seq(S), b \in T PROVE Append(b, x) \in T
  <2>1. a \o b \in Seq(Seq(S)) /\ Append(b, x) \in Seq(Seq(S)) /\ Concat(b) \in Seq(S)
    BY ConcatProperties, AppendProperties, ConcatSeq
  <2>2. a \o Append(b, x) = Append(a \o b, x)
    BY JoinAppend
  <2>3. Concat(Append(a \o b, x)) = Concat(a \o b) \o x /\ Concat(Append(b, x)) = Concat(b) \o x
    BY <2>1, ConcatAppend, Zenon
  <2>4. (Concat(a) \o Concat(b)) \o x = Concat(a) \o (Concat(b) \o x)
    BY <1>1, <2>1, ConcatAssociative
  <2>5. Concat(a \o b) = Concat(a) \o Concat(b)
    BY <1>3
  <2>6. Concat(a \o Append(b, x)) = Concat(a) \o Concat(Append(b, x))
    BY ONLY <2>2, <2>3, <2>4, <2>5, Zenon
  <2> QED
    BY <2>1, <2>6
<1>4. \A b \in Seq(Seq(S)) : b \in T
  <2> HIDE DEF T
  <2> QED
    BY <1>2, <1>3, SeqInduction
<1> QED
  BY <1>4

\* The sequences of sequences over S, by a name.
Rows(S) == Seq(Seq(S))

\* What was said of Concat, of rows.
LEMMA RowsConcat ==
    ASSUME NEW S, NEW ss \in Rows(S)
    PROVE  /\ Concat(ss) \in Seq(S)
           /\ Range(Concat(ss)) = UNION {Range(s) : s \in Range(ss)}
BY ConcatSeq, ConcatRange DEF Rows

\* A function from 1..n to sequences is such a sequence of rows.
LEMMA FunctionRows ==
    ASSUME NEW S, NEW n \in Nat, NEW ss \in Maps(1..n, Seq(S))
    PROVE  ss \in Rows(S) /\ Len(ss) = n /\ DOMAIN ss = 1..n
<1> DEFINE Q == Seq(S)
<1>1. ss \in Maps(1..n, Q)
  OBVIOUS
<1>2. ss \in Seq(Q) /\ Len(ss) = n /\ DOMAIN ss = 1..n
  <2> HIDE DEF Q
  <2> QED
    BY <1>1, FunctionSeq
<1> QED
  BY <1>2 DEF Rows

-----------------------------------------------------------------------------
(* Every element replaced.                                                 *)

Map(F, s) == [i \in DOMAIN s |-> F[s[i]]]

\* The result is as long and over the range of F.
LEMMA MapSeq ==
    ASSUME NEW S, NEW R, NEW F \in Maps(S, R), NEW s \in Seq(S)
    PROVE  Map(F, s) \in Seq(R) /\ Len(Map(F, s)) = Len(s) /\ DOMAIN Map(F, s) = 1..Len(s)
<1>1. Len(s) \in Nat /\ DOMAIN s = 1..Len(s) /\ \A i \in 1..Len(s) : s[i] \in S
  BY LenProperties
<1>2. Map(F, s) \in [1..Len(s) -> R]
  BY <1>1 DEF Map, Maps
<1>3. Map(F, s) \in Seq(R)
  BY <1>1, <1>2
<1>4. DOMAIN Map(F, s) = 1..Len(s)
  BY <1>1 DEF Map
<1>5. DOMAIN Map(F, s) = 1..Len(Map(F, s)) /\ Len(Map(F, s)) \in Nat
  BY <1>3, LenProperties
<1> QED
  BY <1>1, <1>3, <1>4, <1>5

\* Nothing of nothing.
LEMMA MapEmpty == \A F : Map(F, <<>>) = <<>>
  BY DEF Map

\* One more element, replaced.
LEMMA MapAppend ==
    ASSUME NEW S, NEW R, NEW F \in Maps(S, R), NEW s \in Seq(S), NEW x \in S
    PROVE  Map(F, Append(s, x)) = Append(Map(F, s), F[x])
<1>1. /\ Append(s, x) \in Seq(S) /\ Len(Append(s, x)) = Len(s) + 1
      /\ \A i \in 1..Len(s) : Append(s, x)[i] = s[i]
      /\ Append(s, x)[Len(s) + 1] = x
  BY AppendProperties
<1>2. /\ Map(F, s) \in Seq(R) /\ Len(Map(F, s)) = Len(s) /\ F[x] \in R /\ Len(s) \in Nat
      /\ Map(F, Append(s, x)) \in Seq(R) /\ Len(Map(F, Append(s, x))) = Len(s) + 1
  <2>1. Map(F, s) \in Seq(R) /\ Len(Map(F, s)) = Len(s)
    BY MapSeq
  <2>2. Map(F, Append(s, x)) \in Seq(R) /\ Len(Map(F, Append(s, x))) = Len(Append(s, x))
    <3>1. Append(s, x) \in Seq(S)
      BY <1>1
    <3>2. \A t \in Seq(S) : Map(F, t) \in Seq(R) /\ Len(Map(F, t)) = Len(t)
      BY MapSeq
    <3> QED
      BY ONLY <3>1, <3>2, Zenon
  <2>3. F[x] \in R /\ Len(s) \in Nat
    BY LenProperties DEF Maps
  <2> QED
    BY <1>1, <2>1, <2>2, <2>3
<1>3. /\ Append(Map(F, s), F[x]) \in Seq(R) /\ Len(Append(Map(F, s), F[x])) = Len(s) + 1
      /\ \A i \in 1..Len(s) : Append(Map(F, s), F[x])[i] = Map(F, s)[i]
      /\ Append(Map(F, s), F[x])[Len(s) + 1] = F[x]
  BY <1>2, AppendProperties
<1>4. \A i \in 1..Len(s) : Map(F, s)[i] = F[s[i]]
  BY LenProperties DEF Map
<1>5. \A i \in 1..Len(s) + 1 : Map(F, Append(s, x))[i] = F[Append(s, x)[i]]
  <2>1. DOMAIN Append(s, x) = 1..Len(s) + 1
    BY <1>1, LenProperties
  <2> QED
    BY <2>1 DEF Map
<1>6. ASSUME NEW i \in 1..Len(s) + 1
      PROVE  Map(F, Append(s, x))[i] = Append(Map(F, s), F[x])[i]
  <2>1. CASE i = Len(s) + 1
    BY <1>1, <1>3, <1>5, <2>1
  <2>2. CASE i \in 1..Len(s)
    BY <1>1, <1>3, <1>4, <1>5, <2>2
  <2> QED
    BY <1>2, <2>1, <2>2
<1> QED
  BY <1>2, <1>3, <1>6, SeqEqual

\* Two sequences joined.
LEMMA MapJoin ==
    ASSUME NEW S, NEW R, NEW F \in Maps(S, R), NEW s \in Seq(S)
    PROVE  \A t \in Seq(S) : Map(F, s \o t) = Map(F, s) \o Map(F, t)
<1> DEFINE T == {t \in Seq(S) : Map(F, s \o t) = Map(F, s) \o Map(F, t)}
<1>1. Map(F, s) \in Seq(R)
  BY MapSeq
<1>2. <<>> \in T
  <2>1. s \o <<>> = s /\ Map(F, s) \o <<>> = Map(F, s)
    BY <1>1, ConcatEmptySeq
  <2>2. Map(F, <<>>) = <<>>
    BY MapEmpty
  <2> QED
    BY <2>1, <2>2, EmptySeq, Zenon
<1>3. ASSUME NEW t \in Seq(S), NEW x \in S, t \in T PROVE Append(t, x) \in T
  <2>1. s \o t \in Seq(S) /\ Append(t, x) \in Seq(S) /\ Map(F, t) \in Seq(R) /\ F[x] \in R
    <3>1. F[x] \in R
      BY DEF Maps
    <3> QED
      BY <3>1, ConcatProperties, AppendProperties, MapSeq
  <2>2. s \o Append(t, x) = Append(s \o t, x)
    BY JoinAppend
  <2>3. Map(F, Append(s \o t, x)) = Append(Map(F, s \o t), F[x])
    BY <2>1, MapAppend, Zenon
  <2>4. Map(F, Append(t, x)) = Append(Map(F, t), F[x])
    BY MapAppend
  <2>5. Map(F, s) \o Append(Map(F, t), F[x]) = Append(Map(F, s) \o Map(F, t), F[x])
    BY <1>1, <2>1, JoinAppend
  <2>6. Map(F, s \o t) = Map(F, s) \o Map(F, t)
    BY <1>3
  <2>7. Map(F, s \o Append(t, x)) = Map(F, s) \o Map(F, Append(t, x))
    BY ONLY <2>2, <2>3, <2>4, <2>5, <2>6, Zenon
  <2> QED
    BY <2>1, <2>7
<1>4. \A t \in Seq(S) : t \in T
  <2> HIDE DEF T
  <2> QED
    BY <1>2, <1>3, SeqInduction
<1> QED
  BY <1>4

\* As many elements of the result are picked as have their image in A.
LEMMA MapFilter ==
    ASSUME NEW S, NEW R, NEW F \in Maps(S, R), NEW A
    PROVE  \A s \in Seq(S) : Len(Filter(Map(F, s), A)) = Len(Filter(s, {x \in S : F[x] \in A}))
<1> DEFINE B == {x \in S : F[x] \in A}
           T == {s \in Seq(S) : Len(Filter(Map(F, s), A)) = Len(Filter(s, B))}
<1>1. <<>> \in T
  BY MapEmpty, FilterEmpty, EmptySeq
<1>2. ASSUME NEW s \in Seq(S), NEW x \in S, s \in T PROVE Append(s, x) \in T
  <2>1. Map(F, s) \in Seq(R) /\ F[x] \in R
    <3>1. F[x] \in R
      BY DEF Maps
    <3> QED
      BY <3>1, MapSeq
  <2>2. Filter(Map(F, s), A) \in Seq(R) /\ Filter(s, B) \in Seq(S) /\ Append(s, x) \in Seq(S)
    BY <2>1, FilterSeq, AppendProperties
  <2>3. /\ Len(Append(Filter(Map(F, s), A), F[x])) = Len(Filter(Map(F, s), A)) + 1
        /\ Len(Append(Filter(s, B), x)) = Len(Filter(s, B)) + 1
    BY <2>1, <2>2, AppendProperties
  <2>4. Filter(Append(Map(F, s), F[x]), A) =
          IF F[x] \in A THEN Append(Filter(Map(F, s), A), F[x]) ELSE Filter(Map(F, s), A)
    <3>1. \A m \in Seq(R), y \in R :
             Filter(Append(m, y), A) = IF y \in A THEN Append(Filter(m, A), y) ELSE Filter(m, A)
      BY FilterAppend
    <3> QED
      BY ONLY <2>1, <3>1, Zenon
  <2>5. Filter(Append(s, x), B) = IF x \in B THEN Append(Filter(s, B), x) ELSE Filter(s, B)
    BY FilterAppend
  <2>6. Map(F, Append(s, x)) = Append(Map(F, s), F[x])
    BY MapAppend
  <2>7. Len(Filter(Map(F, s), A)) = Len(Filter(s, B)) /\ (x \in B <=> F[x] \in A)
    BY <1>2
  <2>8. Len(Filter(Map(F, Append(s, x)), A)) = Len(Filter(Append(s, x), B))
    <3> HIDE DEF B
    <3> QED
      BY <2>3, <2>4, <2>5, <2>6, <2>7, Zenon
  <2> QED
    BY <2>2, <2>8
<1>3. \A s \in Seq(S) : s \in T
  <2> HIDE DEF T
  <2> QED
    BY <1>1, <1>2, SeqInduction
<1> QED
  BY <1>3

\* To replace sequences in the sequences of ss and put them together is to do
\* both in each of them first.
LEMMA MapConcat ==
    ASSUME NEW S, NEW R, NEW F \in Maps(S, Seq(R)), NEW G,
           G = [s \in Seq(S) |-> Concat(Map(F, s))]
    PROVE  \A ss \in Rows(S) : Concat(Map(F, Concat(ss))) = Concat(Map(G, ss))
<1> DEFINE T == {ss \in Seq(Seq(S)) : Concat(Map(F, Concat(ss))) = Concat(Map(G, ss))}
<1>1. \A s \in Seq(S) : Map(F, s) \in Seq(Seq(R)) /\ Concat(Map(F, s)) \in Seq(R)
  BY MapSeq, ConcatSeq
<1>2. G \in Maps(Seq(S), Seq(R))
  BY <1>1 DEF Maps
<1>3. <<>> \in T
  <2>1. Map(F, <<>>) = <<>> /\ Map(G, <<>>) = <<>>
    BY MapEmpty
  <2> QED
    BY <2>1, ConcatEmpty, EmptySeq
<1>4. ASSUME NEW ss \in Seq(Seq(S)), NEW x \in Seq(S), ss \in T PROVE Append(ss, x) \in T
  <2>1. Concat(Append(ss, x)) = Concat(ss) \o x /\ Concat(ss) \in Seq(S) /\ Append(ss, x) \in Seq(Seq(S))
    BY ConcatAppend, ConcatSeq, AppendProperties
  <2>2. Map(F, Concat(ss) \o x) = Map(F, Concat(ss)) \o Map(F, x)
    BY <2>1, MapJoin
  <2>3. Concat(Map(F, Concat(ss)) \o Map(F, x)) = Concat(Map(F, Concat(ss))) \o Concat(Map(F, x))
    BY <1>1, <2>1, ConcatJoin
  <2>4. Map(G, ss) \in Seq(Seq(R)) /\ G[x] \in Seq(R) /\ G[x] = Concat(Map(F, x))
    BY <1>1, <1>2, MapSeq
  <2>5. Map(G, Append(ss, x)) = Append(Map(G, ss), G[x])
    BY ONLY <1>2, ss \in Seq(Seq(S)), x \in Seq(S), MapAppend, Zenon
  <2>6. Concat(Append(Map(G, ss), G[x])) = Concat(Map(G, ss)) \o G[x]
    BY <2>4, ConcatAppend, Zenon
  <2>7. Concat(Map(F, Concat(ss))) = Concat(Map(G, ss))
    BY <1>4
  <2>8. Concat(Map(F, Concat(Append(ss, x)))) = Concat(Map(G, Append(ss, x)))
    BY ONLY <2>1, <2>2, <2>3, <2>4, <2>5, <2>6, <2>7, Zenon
  <2> QED
    BY <2>1, <2>8, Zenon
<1>5. \A ss \in Seq(Seq(S)) : ss \in T
  <2> HIDE DEF T
  <2> QED
    BY <1>3, <1>4, SeqInduction, Zenon
<1> QED
  BY <1>5 DEF Rows

-----------------------------------------------------------------------------
(* How many elements are picked.                                           *)

\* One more sequence at the end.
LEMMA CountAppend ==
    ASSUME NEW S, NEW A, NEW ss \in Seq(Seq(S)), NEW x \in Seq(S)
    PROVE  /\ Len(Filter(Concat(Append(ss, x)), A)) = Len(Filter(Concat(ss), A)) + Len(Filter(x, A))
           /\ Len(Filter(Concat(ss), A)) \in Nat /\ Len(Filter(x, A)) \in Nat
<1>1. Concat(Append(ss, x)) = Concat(ss) \o x /\ Concat(ss) \in Seq(S)
  BY ConcatAppend, ConcatSeq
<1>2. Filter(Concat(ss) \o x, A) = Filter(Concat(ss), A) \o Filter(x, A)
  BY <1>1, FilterJoin
<1>3. Filter(Concat(ss), A) \in Seq(S) /\ Filter(x, A) \in Seq(S)
  BY <1>1, FilterSeq
<1>4. /\ Len(Filter(Concat(ss), A) \o Filter(x, A)) = Len(Filter(Concat(ss), A)) + Len(Filter(x, A))
      /\ Len(Filter(Concat(ss), A)) \in Nat /\ Len(Filter(x, A)) \in Nat
  BY <1>3, ConcatProperties, LenProperties
<1> QED
  BY ONLY <1>1, <1>2, <1>4, Zenon

SameCounts(xs, A, ys, B) ==
    /\ Len(xs) = Len(ys)
    /\ \A i \in 1..Len(xs) : Len(Filter(xs[i], A)) = Len(Filter(ys[i], B))

\* Sequences that agree one by one on how many are picked agree together.
LEMMA CountConcat ==
    ASSUME NEW S, NEW R, NEW A, NEW B
    PROVE  \A xs \in Rows(S) : \A ys \in Rows(R) :
             SameCounts(xs, A, ys, B) => Len(Filter(Concat(xs), A)) = Len(Filter(Concat(ys), B))
<1> DEFINE Agree(xs, ys) ==
             /\ Len(xs) = Len(ys)
             /\ \A i \in 1..Len(xs) : Len(Filter(xs[i], A)) = Len(Filter(ys[i], B))
           T == {xs \in Seq(Seq(S)) : \A ys \in Seq(Seq(R)) :
                   Agree(xs, ys) => Len(Filter(Concat(xs), A)) = Len(Filter(Concat(ys), B))}
<1>1. <<>> \in T
  <2> SUFFICES ASSUME NEW ys \in Seq(Seq(R)), Len(<<>>) = Len(ys)
               PROVE  Len(Filter(Concat(<<>>), A)) = Len(Filter(Concat(ys), B))
    BY EmptySeq
  <2>1. ys = <<>>
    BY EmptySeq
  <2> QED
    BY <2>1, ConcatEmpty, FilterEmpty
<1>2. ASSUME NEW xs \in Seq(Seq(S)), NEW x \in Seq(S), xs \in T PROVE Append(xs, x) \in T
  <2>1. /\ Append(xs, x) \in Seq(Seq(S)) /\ Len(Append(xs, x)) = Len(xs) + 1
        /\ \A i \in 1..Len(xs) : Append(xs, x)[i] = xs[i]
        /\ Append(xs, x)[Len(xs) + 1] = x /\ Len(xs) \in Nat
    BY AppendProperties, LenProperties
  <2> SUFFICES ASSUME NEW ys \in Seq(Seq(R)), Agree(Append(xs, x), ys)
               PROVE  Len(Filter(Concat(Append(xs, x)), A)) = Len(Filter(Concat(ys), B))
    BY <2>1, Zenon
  <2>2. Len(ys) = Len(xs) + 1
    BY <2>1
  <2>3. ys # <<>>
    BY <2>1, <2>2, EmptySeq
  <2>4. PICK zs \in Seq(Seq(R)), z \in Seq(R) : ys = Append(zs, z)
    BY <2>3, SequenceEmptyOrAppend, Zenon
  <2>5. /\ Len(Append(zs, z)) = Len(zs) + 1 /\ Len(zs) \in Nat
        /\ \A i \in 1..Len(zs) : Append(zs, z)[i] = zs[i]
        /\ Append(zs, z)[Len(zs) + 1] = z
    BY AppendProperties, LenProperties
  <2>6. Len(zs) = Len(xs)
    BY <2>1, <2>4, <2>5, <2>2
  <2>7. Len(Filter(x, A)) = Len(Filter(z, B))
    <3>1. Len(xs) + 1 \in 1..Len(Append(xs, x))
      BY <2>1
    <3>2. Len(Filter(Append(xs, x)[Len(xs) + 1], A)) = Len(Filter(ys[Len(xs) + 1], B))
      BY <3>1
    <3> QED
      BY <2>1, <2>4, <2>5, <2>6, <3>2
  <2>8. ASSUME NEW i \in 1..Len(xs) PROVE Len(Filter(xs[i], A)) = Len(Filter(zs[i], B))
    <3>1. i \in 1..Len(Append(xs, x))
      BY <2>1
    <3>2. Len(Filter(Append(xs, x)[i], A)) = Len(Filter(ys[i], B))
      BY <3>1
    <3> QED
      BY <2>1, <2>4, <2>5, <2>6, <3>2
  <2>9. Len(Filter(Concat(xs), A)) = Len(Filter(Concat(zs), B))
    BY <1>2, <2>6, <2>8
  <2>10. Len(Filter(Concat(Append(xs, x)), A)) = Len(Filter(Concat(xs), A)) + Len(Filter(x, A))
    BY CountAppend
  <2>11. Len(Filter(Concat(Append(zs, z)), B)) = Len(Filter(Concat(zs), B)) + Len(Filter(z, B))
    BY CountAppend
  <2> QED
    BY <2>4, <2>7, <2>9, <2>10, <2>11
<1>3. \A xs \in Seq(Seq(S)) : xs \in T
  <2> HIDE DEF T
  <2> QED
    BY <1>1, <1>2, SeqInduction
<1> QED
  BY <1>3, Zenon DEF Rows, SameCounts

\* A sequence taken apart by the first n of the sets cls.
Classes(s, cls, n) == [k \in 1..n |-> Filter(s, cls[k])]
Cover(cls, n) == UNION {cls[k] : k \in 1..n}
Disjoint(cls, n) == \A j, k \in 1..n : j # k => cls[j] \intersect cls[k] = {}

\* Taken apart, a sequence is a sequence of sequences.
LEMMA ClassRows ==
    ASSUME NEW S, NEW s \in Seq(S), NEW n \in Nat, NEW cls
    PROVE  /\ Classes(s, cls, n) \in Rows(S) /\ Len(Classes(s, cls, n)) = n
           /\ \A k \in 1..n : Classes(s, cls, n)[k] = Filter(s, cls[k])
<1>1. \A A : Filter(s, A) \in Seq(S)
  BY FilterSeq
<1>2. Classes(s, cls, n) \in Maps(1..n, Seq(S))
  BY <1>1 DEF Classes, Maps
<1>3. \A k \in 1..n : Classes(s, cls, n)[k] = Filter(s, cls[k])
  BY DEF Classes
<1> QED
  BY <1>2, <1>3, FunctionRows

\* A sequence that is taken apart by disjoint sets, and put together again,
\* has as many elements of A as are in one of the sets.
LEMMA CountClasses ==
    ASSUME NEW S, NEW s \in Seq(S), NEW A, NEW n \in Nat, NEW cls, Disjoint(cls, n)
    PROVE  Len(Filter(Concat(Classes(s, cls, n)), A)) = Len(Filter(s, A \intersect Cover(cls, n)))
<1> DEFINE Part(m) == [k \in 1..m |-> Filter(s, cls[k])]
           Of(m) == A \intersect UNION {cls[k] : k \in 1..m}
           T == {m \in Nat : m <= n => Len(Filter(Concat(Part(m)), A)) = Len(Filter(s, Of(m)))}
<1>1. ASSUME NEW m \in Nat PROVE Part(m) \in Seq(Seq(S)) /\ Len(Part(m)) = m
  <2>1. \A k \in 1..m : Filter(s, cls[k]) \in Seq(S)
    BY FilterSeq
  <2>2. Part(m) \in [1..m -> Seq(S)]
    BY <2>1
  <2> QED
    BY <2>2
<1>2. 0 \in T
  <2>1. Part(0) = <<>>
    OBVIOUS
  <2>2. Len(Filter(Concat(Part(0)), A)) = 0
    BY <2>1, ConcatEmpty, FilterEmpty, EmptySeq
  <2>3. Range(Filter(s, Of(0))) = {} /\ Filter(s, Of(0)) \in Seq(S)
    <3>1. Of(0) = {}
      OBVIOUS
    <3>2. Range(Filter(s, {})) = Range(s) \intersect {} /\ Filter(s, {}) \in Seq(S)
      BY FilterRange, FilterSeq
    <3> QED
      BY <3>1, <3>2, Zenon
  <2>4. Len(Filter(s, Of(0))) = 0
    <3> HIDE DEF Of
    <3>1. ASSUME NEW t \in Seq(S), Range(t) = {} PROVE Len(t) = 0
      <4>1. Len(t) \in Nat /\ Range(t) = {t[i] : i \in 1..Len(t)}
        BY LenProperties, RangeEquality
      <4>2. Len(t) # 0 => 1 \in 1..Len(t)
        BY <4>1
      <4> QED
        BY ONLY <3>1, <4>1, <4>2, Zenon
    <3> QED
      BY <2>3, <3>1
  <2> QED
    BY <2>2, <2>4
<1>3. ASSUME NEW m \in Nat, m \in T PROVE m + 1 \in T
  <2> SUFFICES ASSUME m + 1 <= n
               PROVE  Len(Filter(Concat(Part(m + 1)), A)) = Len(Filter(s, Of(m + 1)))
    OBVIOUS
  <2> DEFINE x == Filter(s, cls[m + 1])
  <2>1. Part(m) \in Seq(Seq(S)) /\ Len(Part(m)) = m /\ x \in Seq(S)
    BY <1>1, FilterSeq
  <2>2. Part(m + 1) = Append(Part(m), x)
    <3>1. /\ Append(Part(m), x) \in Seq(Seq(S)) /\ Len(Append(Part(m), x)) = m + 1
          /\ \A i \in 1..m : Append(Part(m), x)[i] = Part(m)[i]
          /\ Append(Part(m), x)[m + 1] = x
      <4> DEFINE Q == Seq(S)
      <4>1. Part(m) \in Seq(Q) /\ Len(Part(m)) = m /\ x \in Q
        BY <2>1
      <4> HIDE DEF Part, x, Q
      <4>2. /\ Append(Part(m), x) \in Seq(Q) /\ Len(Append(Part(m), x)) = m + 1
            /\ \A i \in 1..m : Append(Part(m), x)[i] = Part(m)[i]
            /\ Append(Part(m), x)[m + 1] = x
        BY <4>1, AppendProperties
      <4> QED
        BY <4>2 DEF Q
    <3>2. Part(m + 1) \in Seq(Seq(S)) /\ Len(Part(m + 1)) = m + 1
      BY <1>1
    <3>3. ASSUME NEW i \in 1..m + 1 PROVE Part(m + 1)[i] = Append(Part(m), x)[i]
      <4>1. Part(m + 1)[i] = Filter(s, cls[i])
        OBVIOUS
      <4>2. CASE i = m + 1
        BY <3>1, <4>1, <4>2
      <4>3. CASE i \in 1..m
        <5>1. Part(m)[i] = Filter(s, cls[i])
          BY <4>3
        <5> QED
          BY <3>1, <4>1, <4>3, <5>1
      <4> QED
        BY <4>2, <4>3
    <3> HIDE DEF Part
    <3> QED
      BY <3>1, <3>2, <3>3, SeqEqual
  <2>3. /\ Len(Filter(Concat(Append(Part(m), x)), A)) = Len(Filter(Concat(Part(m)), A)) + Len(Filter(x, A))
    <3> HIDE DEF Part, x
    <3> QED
      BY <2>1, CountAppend
  <2>4. Len(Filter(Concat(Part(m)), A)) = Len(Filter(s, Of(m)))
    BY <1>3
  <2>5. Filter(x, A) = Filter(s, cls[m + 1] \intersect A)
    BY FilterTwice
  <2>6. Of(m + 1) = Of(m) \union (cls[m + 1] \intersect A)
    <3>1. 1..m + 1 = (1..m) \union {m + 1}
      OBVIOUS
    <3>2. {cls[k] : k \in 1..m + 1} = {cls[k] : k \in 1..m} \union {cls[m + 1]}
      BY <3>1
    <3> QED
      BY <3>2
  <2>7. Of(m) \intersect (cls[m + 1] \intersect A) = {}
    <3>1. \A k \in 1..m : k \in 1..n /\ k # m + 1
      OBVIOUS
    <3>2. m + 1 \in 1..n
      OBVIOUS
    <3> QED
      BY <3>1, <3>2 DEF Disjoint
  <2>8. Len(Filter(s, Of(m) \union (cls[m + 1] \intersect A))) =
          Len(Filter(s, Of(m))) + Len(Filter(s, cls[m + 1] \intersect A))
    <3> HIDE DEF Of
    <3> QED
      BY <2>7, FilterUnion
  <2> HIDE DEF Of, Part, x
  <2> QED
    BY <2>2, <2>3, <2>4, <2>5, <2>6, <2>8, Zenon
<1>4. \A m \in Nat : m \in T
  <2> HIDE DEF T
  <2> QED
    BY <1>2, <1>3, SetInduction
<1>5. n \in T
  BY <1>4
<1>6. Classes(s, cls, n) = Part(n) /\ A \intersect Cover(cls, n) = Of(n)
  BY DEF Classes, Cover
<1>7. Len(Filter(Concat(Part(n)), A)) = Len(Filter(s, Of(n)))
  BY <1>5
<1> HIDE DEF Part, Of
<1> QED
  BY ONLY <1>6, <1>7, Zenon

-----------------------------------------------------------------------------
(* Positions.                                                              *)

Distinct(s) == \A i, j \in DOMAIN s : s[i] = s[j] => i = j

\* What is picked from distinct elements is distinct.
LEMMA FilterDistinct ==
    ASSUME NEW S, NEW A
    PROVE  \A s \in Seq(S) : Distinct(s) => Distinct(Filter(s, A))
<1> DEFINE T == {s \in Seq(S) : Distinct(s) => Distinct(Filter(s, A))}
<1>1. <<>> \in T
  BY FilterEmpty, EmptySeq
<1>2. ASSUME NEW s \in Seq(S), NEW x \in S, s \in T PROVE Append(s, x) \in T
  <2>1. /\ Append(s, x) \in Seq(S) /\ DOMAIN Append(s, x) = 1..Len(s) + 1
        /\ \A i \in 1..Len(s) : Append(s, x)[i] = s[i]
        /\ Append(s, x)[Len(s) + 1] = x /\ Len(s) \in Nat /\ DOMAIN s = 1..Len(s)
    <3>1. /\ Append(s, x) \in Seq(S) /\ Len(Append(s, x)) = Len(s) + 1
          /\ \A i \in 1..Len(s) : Append(s, x)[i] = s[i]
          /\ Append(s, x)[Len(s) + 1] = x /\ Len(s) \in Nat /\ DOMAIN s = 1..Len(s)
      BY AppendProperties, LenProperties
    <3>2. DOMAIN Append(s, x) = 1..Len(Append(s, x))
      BY <3>1, LenProperties
    <3> QED
      BY <3>1, <3>2
  <2> SUFFICES ASSUME Distinct(Append(s, x)) PROVE Distinct(Filter(Append(s, x), A))
    BY <2>1
  <2>2. Distinct(s) /\ x \notin Range(s)
    BY <2>1 DEF Distinct, Range
  <2>3. Distinct(Filter(s, A)) /\ Filter(s, A) \in Seq(S)
    BY <1>2, <2>2, FilterSeq
  <2>4. x \notin Range(Filter(s, A))
    BY <2>2, FilterRange
  <2>5. Filter(Append(s, x), A) = IF x \in A THEN Append(Filter(s, A), x) ELSE Filter(s, A)
    BY FilterAppend
  <2>6. ASSUME NEW t \in Seq(S), Distinct(t), x \notin Range(t) PROVE Distinct(Append(t, x))
    <3>1. /\ Append(t, x) \in Seq(S) /\ Len(Append(t, x)) = Len(t) + 1
          /\ \A i \in 1..Len(t) : Append(t, x)[i] = t[i]
          /\ Append(t, x)[Len(t) + 1] = x /\ Len(t) \in Nat /\ DOMAIN t = 1..Len(t)
      BY AppendProperties, LenProperties
    <3>2. DOMAIN Append(t, x) = 1..Len(t) + 1
      BY <3>1, LenProperties
    <3>3. \A i \in 1..Len(t) : t[i] # x
      BY <2>6, <3>1 DEF Range
    <3> QED
      BY <2>6, <3>1, <3>2, <3>3 DEF Distinct
  <2>7. CASE x \in A
    BY <2>3, <2>4, <2>5, <2>6, <2>7
  <2>8. CASE x \notin A
    BY <2>3, <2>5, <2>8
  <2> QED
    BY <2>7, <2>8
<1>3. \A s \in Seq(S) : s \in T
  <2> HIDE DEF T
  <2> QED
    BY <1>1, <1>2, SeqInduction
<1> QED
  BY <1>3

\* The least position at which something holds.
LEMMA LeastPosition ==
    ASSUME NEW P, NEW n \in P, P \subseteq Nat
    PROVE  \E m \in P : \A k \in P : m <= k
<1> DEFINE T == {m \in Nat : \A k \in P : m <= k}
<1> SUFFICES ASSUME \A m \in P : m \notin T PROVE FALSE
  OBVIOUS
<1>1. 0 \in T
  OBVIOUS
<1>2. ASSUME NEW m \in Nat, m \in T PROVE m + 1 \in T
  <2>1. m \notin P
    BY <1>2
  <2> QED
    BY <1>2, <2>1
<1>3. \A m \in Nat : m \in T
  <2> HIDE DEF T
  <2> QED
    BY <1>1, <1>2, SetInduction
<1>4. n + 1 \in T
  BY <1>3
<1> QED
  BY <1>4

\* Neighbours can be exchanged, if at most one of them is picked.
LEMMA ExchangeNeighbours ==
    ASSUME NEW S, NEW s \in Seq(S), NEW i \in 1..Len(s) - 1, NEW t,
           t = [s EXCEPT ![i] = s[i + 1], ![i + 1] = s[i]]
    PROVE  /\ t \in Seq(S) /\ Len(t) = Len(s) /\ Range(t) = Range(s)
           /\ \A A : s[i] \notin A \/ s[i + 1] \notin A => Filter(t, A) = Filter(s, A)
<1>1. PICK n \in Nat : n = Len(s)
  BY LenProperties
<1>2. s \in [1..n -> S] /\ DOMAIN s = 1..n /\ i \in 1..n /\ i + 1 \in 1..n
  BY <1>1, LenProperties
<1>3. /\ t \in [1..n -> S] /\ DOMAIN t = 1..n
      /\ t[i] = s[i + 1] /\ t[i + 1] = s[i] /\ \A k \in 1..n : k # i /\ k # i + 1 => t[k] = s[k]
  BY <1>2
<1>4. t \in Seq(S) /\ Len(t) = n
  BY <1>3
<1>5. Range(t) = Range(s)
  <2>1. \A k \in 1..n : \E m \in 1..n : t[k] = s[m]
    BY <1>2, <1>3
  <2>2. \A k \in 1..n : \E m \in 1..n : s[k] = t[m]
    BY <1>2, <1>3
  <2>3. DOMAIN s = 1..n /\ DOMAIN t = 1..n
    BY <1>2, <1>3
  <2>4. Range(t) = {t[k] : k \in 1..n} /\ Range(s) = {s[k] : k \in 1..n}
    BY ONLY <2>3, Zenon DEF Range
  <2>5. {t[k] : k \in 1..n} = {s[k] : k \in 1..n}
    <3>1. \A y \in {t[k] : k \in 1..n} : y \in {s[k] : k \in 1..n}
      BY ONLY <2>1, Zenon
    <3>2. \A y \in {s[k] : k \in 1..n} : y \in {t[k] : k \in 1..n}
      BY ONLY <2>2, Zenon
    <3> QED
      BY ONLY <3>1, <3>2, Zenon
  <2> QED
    BY ONLY <2>4, <2>5, Zenon
<1>6. ASSUME NEW A, s[i] \notin A \/ s[i + 1] \notin A PROVE Filter(t, A) = Filter(s, A)
  <2>1. ASSUME NEW u, Len(u) = n
        PROVE  \E f : /\ \A k \in Nat : k + 1 <= n =>
                            f[k + 1] = IF u[k + 1] \in A THEN Append(f[k], u[k + 1]) ELSE f[k]
                      /\ f[0] = <<>>
                      /\ Filter(u, A) = f[n]
    <3>1. PICK f : /\ \A k \in 0..n : f[k] = CASE k = 0 -> <<>>
                                               [] k # 0 /\ u[k] \in A -> Append(f[k-1], u[k])
                                               [] OTHER -> f[k-1]
                   /\ Filter(u, A) = f[n]
      <4>1. Len(u) \in Nat
        BY <2>1
      <4>2. \E f : /\ \A k \in 0..Len(u) : f[k] = CASE k = 0 -> <<>>
                                                    [] k # 0 /\ u[k] \in A -> Append(f[k-1], u[k])
                                                    [] OTHER -> f[k-1]
                   /\ Filter(u, A) = f[Len(u)]
        BY ONLY <4>1, FilterEquation, Zenon
      <4> QED
        BY ONLY <2>1, <4>2, Zenon
    <3>2. ASSUME NEW k \in Nat, k + 1 <= n
          PROVE  f[k + 1] = IF u[k + 1] \in A THEN Append(f[k], u[k + 1]) ELSE f[k]
      <4>1. k + 1 \in 0..n /\ k + 1 # 0 /\ (k + 1) - 1 = k
        BY <3>2
      <4> QED
        BY <3>1, <4>1
    <3>3. f[0] = <<>>
      BY <3>1
    <3> QED
      BY <3>1, <3>2, <3>3
  <2>2. PICK f : /\ \A k \in Nat : k + 1 <= n =>
                       f[k + 1] = IF s[k + 1] \in A THEN Append(f[k], s[k + 1]) ELSE f[k]
                 /\ f[0] = <<>> /\ Filter(s, A) = f[n]
    BY <1>1, <2>1
  <2>3. PICK g : /\ \A k \in Nat : k + 1 <= n =>
                       g[k + 1] = IF t[k + 1] \in A THEN Append(g[k], t[k + 1]) ELSE g[k]
                 /\ g[0] = <<>> /\ Filter(t, A) = g[n]
    BY <1>4, <2>1, Zenon
  <2>4. ASSUME NEW k \in Nat, k + 1 <= n
        PROVE  /\ f[k + 1] = IF s[k + 1] \in A THEN Append(f[k], s[k + 1]) ELSE f[k]
               /\ g[k + 1] = IF t[k + 1] \in A THEN Append(g[k], t[k + 1]) ELSE g[k]
    BY <2>2, <2>3, <2>4, Zenon
  <2> DEFINE T == {k \in Nat : k <= n => (k # i => f[k] = g[k]) /\ (k = i => f[k-1] = g[k-1])}
  <2>5. 0 \in T
    BY <1>2, <2>2, <2>3
  <2>6. ASSUME NEW k \in Nat, k \in T PROVE k + 1 \in T
    <3> SUFFICES ASSUME k + 1 <= n
                 PROVE  /\ k + 1 # i => f[k + 1] = g[k + 1]
                        /\ k + 1 = i => f[(k + 1) - 1] = g[(k + 1) - 1]
      OBVIOUS
    <3>1. CASE k + 1 = i
      BY <2>6, <3>1
    <3>2. CASE k # i /\ k + 1 # i
      <4>1. f[k] = g[k] /\ t[k + 1] = s[k + 1]
        BY <1>2, <1>3, <2>6, <3>2
      <4> QED
        BY <2>4, <3>2, <4>1
    <3>3. CASE k = i
      <4>1. f[i - 1] = g[i - 1] /\ i - 1 \in Nat /\ (i - 1) + 1 = i /\ (i - 1) + 1 <= n
        BY <1>2, <2>6, <3>3
      <4>2. /\ f[i] = IF s[i] \in A THEN Append(f[i - 1], s[i]) ELSE f[i - 1]
            /\ g[i] = IF s[i + 1] \in A THEN Append(g[i - 1], s[i + 1]) ELSE g[i - 1]
        BY <1>3, <2>4, <4>1
      <4>3. /\ f[i + 1] = IF s[i + 1] \in A THEN Append(f[i], s[i + 1]) ELSE f[i]
            /\ g[i + 1] = IF s[i] \in A THEN Append(g[i], s[i]) ELSE g[i]
        BY <1>3, <2>4, <3>3
      <4>4. f[i + 1] = g[i + 1]
        BY <1>6, <4>1, <4>2, <4>3
      <4> QED
        BY <3>3, <4>4
    <3> QED
      BY <3>1, <3>2, <3>3
  <2>7. \A k \in Nat : k \in T
    <3> HIDE DEF T
    <3> QED
      BY <2>5, <2>6, SetInduction
  <2>8. f[n] = g[n]
    <3>1. n \in T /\ n # i
      BY <1>2, <2>7
    <3> QED
      BY <3>1
  <2> QED
    BY <2>2, <2>3, <2>8
<1> QED
  BY <1>1, <1>4, <1>5, <1>6, Zenon
=============================================================================
