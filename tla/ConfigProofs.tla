---------------------------- MODULE ConfigProofs ----------------------------
(***************************************************************************)
(* What becomes of the sections of a file, however many there are and in   *)
(* whatever order: the groups take them apart, the routine types take each *)
(* group apart, and nothing is lost or doubled on the way; and only the    *)
(* order within a group and type makes a difference.                       *)
(***************************************************************************)
EXTENDS Config, SeqOpsProofs

\* The sections of S that have a type in ts, or are in group g.
OfTypes(S, ts) == {s \in S : s.type \in ts}
Grouped(S, g) == {s \in S : GroupName(s) = g}
NoBackend(S) == {s \in S : s.type \notin BackendTypes}

\* The routines of S, those sections that make a routine in A, and routines
\* with the name of a connection in N.
RoutinesOn(S) == {Routine(s) : s \in S}
Making(S, A) == {s \in S : Routine(s) \in A}
Owned(N, S) == N \X RoutinesOn(S)

-----------------------------------------------------------------------------
\* OfType, RoutineSections and connGroup pick the same from a sequence over S
\* whether S or the sequence says what there is.
LEMMA Picks ==
    ASSUME NEW S, NEW ss \in Seq(S)
    PROVE  /\ \A t : OfType(ss, t) = Filter(ss, OfTypes(S, {t}))
           /\ RoutineSections(ss) = Filter(ss, NoBackend(S))
           /\ \A f, g : f.sections = ss => connGroup(f, g) = Filter(ss, Grouped(S, g))
<1>1. ss \in Seq(Range(ss)) /\ Range(ss) \subseteq S
  BY RangeInSet
<1>2. ASSUME NEW A, NEW B, \A x \in Range(ss) : x \in A <=> x \in B PROVE Filter(ss, A) = Filter(ss, B)
  BY <1>2, FilterAgree
<1>3. ASSUME NEW t PROVE OfType(ss, t) = Filter(ss, OfTypes(S, {t}))
  <2>1. \A x \in Range(ss) : x \in {s \in Range(ss) : s.type = t} <=> x \in OfTypes(S, {t})
    BY <1>1 DEF OfTypes
  <2> QED
    BY <1>2, <2>1, Zenon DEF OfType
<1>4. RoutineSections(ss) = Filter(ss, NoBackend(S))
  <2>1. \A x \in Range(ss) : x \in {s \in Range(ss) : s.type \notin BackendTypes} <=> x \in NoBackend(S)
    BY <1>1 DEF NoBackend
  <2> QED
    BY <1>2, <2>1 DEF RoutineSections
<1>5. ASSUME NEW f, NEW g, f.sections = ss PROVE connGroup(f, g) = Filter(ss, Grouped(S, g))
  <2>1. \A x \in Range(ss) : x \in {s \in Range(ss) : GroupName(s) = g} <=> x \in Grouped(S, g)
    BY <1>1 DEF Grouped
  <2>2. connGroup(f, g) = Filter(ss, {s \in Range(ss) : GroupName(s) = g})
    BY <1>5 DEF connGroup
  <2> QED
    BY <1>2, <2>1, <2>2
<1> QED
  BY <1>3, <1>4, <1>5

\* The types of routines are all different.
LEMMA ParsersDiffer ==
    /\ Len(routineParsers) = 7 /\ DOMAIN routineParsers = 1..7
    /\ \A j, k \in 1..7 : j # k => routineParsers[j] # routineParsers[k]
    /\ \A t \in Range(routineParsers) : \E k \in 1..7 : t = routineParsers[k]
<1>1. Len(routineParsers) = 7 /\ DOMAIN routineParsers = 1..7
  BY DEF routineParsers
<1>2. \A j, k \in 1..7 : j # k => routineParsers[j] # routineParsers[k]
  BY DEF routineParsers
<1>3. \A t \in Range(routineParsers) : \E k \in 1..7 : t = routineParsers[k]
  BY <1>1 DEF Range
<1> QED
  BY <1>1, <1>2, <1>3

\* appendRoutines makes one routine of each section, and no others.
LEMMA RoutinesCounted ==
    ASSUME NEW S, NEW ss \in Seq(S), appendRoutines(ss), NEW A
    PROVE  /\ ConfRoutines(ss) \in Seq(RoutinesOn(S))
           /\ Len(Filter(ConfRoutines(ss), A)) = Len(Filter(ss, Making(S, A)))
<1> DEFINE R == RoutinesOn(S)
           F == [s \in S |-> Routine(s)]
           cls == [k \in 1..7 |-> OfTypes(S, {routineParsers[k]})]
           ys == Classes(ss, cls, 7)
           xs == [k \in 1..7 |-> Map(F, ys[k])]
<1>1. F \in Maps(S, R)
  BY DEF Maps, RoutinesOn
<1> HIDE DEF F
<1>2. /\ ys \in Rows(S) /\ Len(ys) = 7 /\ \A k \in 1..7 : ys[k] = Filter(ss, cls[k])
      /\ Len(Filter(Concat(ys), Making(S, A))) = Len(Filter(ss, Making(S, A) \intersect Cover(cls, 7)))
  <2>1. Disjoint(cls, 7)
    BY ParsersDiffer DEF OfTypes, Disjoint
  <2>2. 7 \in Nat
    OBVIOUS
  <2> HIDE DEF cls
  <2> QED
    <3>1. ys \in Rows(S) /\ Len(ys) = 7 /\ \A k \in 1..7 : ys[k] = Filter(ss, cls[k])
      <4>1. \A n \in Nat : /\ Classes(ss, cls, n) \in Rows(S) /\ Len(Classes(ss, cls, n)) = n
                           /\ \A k \in 1..n : Classes(ss, cls, n)[k] = Filter(ss, cls[k])
        BY ONLY ss \in Seq(S), ClassRows
      <4> QED
        BY ONLY <2>2, <4>1, Zenon
    <3>2. \A B : Len(Filter(Concat(ys), B)) = Len(Filter(ss, B \intersect Cover(cls, 7)))
      BY ONLY <2>1, <2>2, ss \in Seq(S), CountClasses
    <3> QED
      BY ONLY <3>1, <3>2
<1>3. \A k \in 1..7 : ys[k] \in Seq(S) /\ xs[k] = Map(F, ys[k]) /\ xs[k] \in Seq(R)
  <2>1. \A B : Filter(ss, B) \in Seq(S)
    BY FilterSeq
  <2>2. \A s \in Seq(S) : Map(F, s) \in Seq(R)
    <3> HIDE DEF R
    <3> QED
      BY <1>1, MapSeq
  <2> HIDE DEF ys, R
  <2> QED
    BY <1>2, <2>1, <2>2, Zenon
<1>4. xs \in Rows(R) /\ Len(xs) = 7
  <2>1. xs \in Maps(1..7, Seq(R)) /\ 7 \in Nat
    BY <1>3 DEF Maps
  <2> HIDE DEF xs, R
  <2> QED
    BY ONLY <2>1, FunctionRows, Zenon
<1>5. ConfRoutines(ss) = Concat(xs)
  <2>1. ASSUME NEW k \in 1..7
        PROVE  LET sections == OfType(ss, routineParsers[k])
               IN  [i \in DOMAIN sections |-> Routine(sections[i])] = xs[k]
    <3> DEFINE u == ys[k]
    <3>1. OfType(ss, routineParsers[k]) = u
      BY <1>2, Picks
    <3>2. u \in Seq(S)
      BY <1>3, Zenon
    <3>3. \A i \in DOMAIN u : u[i] \in S
      <4> HIDE DEF u
      <4> QED
        BY <3>2, LenProperties
    <3>4. xs[k] = Map(F, u)
      OBVIOUS
    <3> HIDE DEF u, xs
    <3>5. Map(F, u) = [i \in DOMAIN u |-> Routine(u[i])]
      BY <3>3 DEF Map, F
    <3> QED
      BY <3>1, <3>4, <3>5
  <2>2. ConfRoutines(ss) = Concat([k \in 1..7 |->
              LET sections == OfType(ss, routineParsers[k])
              IN  [i \in DOMAIN sections |-> Routine(sections[i])]])
    BY ParsersDiffer DEF ConfRoutines
  <2>3. xs = [k \in 1..7 |-> LET sections == OfType(ss, routineParsers[k])
                            IN  [i \in DOMAIN sections |-> Routine(sections[i])]]
    <3>1. xs = [k \in 1..7 |-> xs[k]]
      OBVIOUS
    <3> HIDE DEF xs
    <3> QED
      BY <2>1, <3>1
  <2> QED
    BY ONLY <2>2, <2>3, Zenon
<1>6. ConfRoutines(ss) \in Seq(R)
  <2> HIDE DEF xs, R
  <2> QED
    BY <1>4, <1>5, RowsConcat
<1>7. \A k \in 1..7 : Len(Filter(xs[k], A)) = Len(Filter(ys[k], Making(S, A)))
  <2>1. {x \in S : F[x] \in A} = Making(S, A)
    BY DEF F, Making
  <2>2. \A s \in Seq(S) : Len(Filter(Map(F, s), A)) = Len(Filter(s, {x \in S : F[x] \in A}))
    <3> HIDE DEF R
    <3> QED
      BY <1>1, MapFilter
  <2> HIDE DEF xs, ys
  <2> QED
    BY <1>3, <2>1, <2>2, Zenon
<1>8. Len(Filter(Concat(xs), A)) = Len(Filter(Concat(ys), Making(S, A)))
  <2> HIDE DEF xs, ys, R
  <2>1. SameCounts(xs, A, ys, Making(S, A))
    BY <1>2, <1>4, <1>7 DEF SameCounts
  <2> QED
    BY ONLY <1>2, <1>4, <2>1, CountConcat
<1>9. Filter(ss, Making(S, A) \intersect Cover(cls, 7)) = Filter(ss, Making(S, A))
  <2>1. Range(ss) \subseteq S
    BY RangeInSet
  <2>2. \A x \in Range(ss) : x.type \in Range(routineParsers)
    BY DEF Range, appendRoutines
  <2>3. \A x \in Range(ss) : x \in Cover(cls, 7)
    BY <2>1, <2>2, ParsersDiffer DEF OfTypes, Cover
  <2>4. \A x \in Range(ss) : x \in Making(S, A) \intersect Cover(cls, 7) <=> x \in Making(S, A)
    BY <2>3, Zenon
  <2> QED
    BY ONLY <2>4, ss \in Seq(S), FilterAgree, Zenon
<1> HIDE DEF xs, ys, cls
<1> QED
  BY <1>2, <1>5, <1>6, <1>8, <1>9

\* The sections of S that make, for a connection called n, one in A.
MakingFor(n, S, A) == {s \in S : <<n, Routine(s)>> \in A}

\* Connection c has a routine for each section of ss, as far as A can tell.
LoadedFrom(c, ss, N, S, A) ==
    /\ Loaded(c) \in Seq(Owned(N, S))
    /\ Len(Filter(Loaded(c), A)) = Len(Filter(ss, MakingFor(c.name, S, A)))

\* A connection has one routine of its own for each section of its group.
LEMMA LoadedCounted ==
    ASSUME NEW S, NEW ss \in Seq(S), appendRoutines(ss), NEW N, NEW A,
           NEW c, c.name \in N, c.routines = ConfRoutines(ss)
    PROVE  LoadedFrom(c, ss, N, S, A)
<1> DEFINE R == RoutinesOn(S)
           n == c.name
           rs == c.routines
           F == [r \in R |-> <<n, r>>]
           B == {r \in R : F[r] \in A}
<1>1. F \in Maps(R, Owned(N, S))
  BY DEF Maps, Owned
<1>2. rs \in Seq(R) /\ Len(Filter(rs, B)) = Len(Filter(ss, Making(S, B)))
  <2> HIDE DEF B, F
  <2> QED
    BY RoutinesCounted
<1>3. Loaded(c) = Map(F, rs)
  <2>1. \A j \in DOMAIN rs : rs[j] \in R
    <3> HIDE DEF R, rs
    <3> QED
      BY <1>2, LenProperties
  <2> QED
    BY <2>1 DEF Loaded, Map
<1>4. Making(S, B) = MakingFor(n, S, A)
  BY DEF Making, MakingFor, RoutinesOn
<1>5. Map(F, rs) \in Seq(Owned(N, S)) /\ Len(Filter(Map(F, rs), A)) = Len(Filter(rs, B))
  <2> HIDE DEF F, R, rs
  <2> QED
    BY <1>1, <1>2, MapSeq, MapFilter
<1> HIDE DEF F, R, rs, B
<1> QED
  BY <1>2, <1>3, <1>4, <1>5, Zenon DEF LoadedFrom

-----------------------------------------------------------------------------
(* Groups.                                                                 *)

Names(f) == {GroupName(s) : s \in Range(f.sections)}

\* splitIntoGroups has each group of the file once.
LEMMA GroupsOnce ==
    ASSUME NEW f, IsSeq(f.sections)
    PROVE  /\ splitIntoGroups(f) \in Seq(Names(f))
           /\ Distinct(splitIntoGroups(f))
           /\ Range(splitIntoGroups(f)) = Names(f)
<1> DEFINE ss == f.sections
           name(i) == GroupName(ss[i])
<1>1. PICK n \in Nat : n = Len(ss)
  BY LenProperties DEF IsSeq
<1>2. DOMAIN ss = 1..n
  BY <1>1, LenProperties DEF IsSeq
<1> DEFINE D == 1..n
           ids == [i \in DOMAIN ss |-> i]
           P == {i \in DOMAIN ss : \A j \in 1..i-1 : GroupName(ss[j]) # GroupName(ss[i])}
           firsts == Filter(ids, P)
           gs == [i \in DOMAIN firsts |-> GroupName(ss[firsts[i]])]
<1>3. splitIntoGroups(f) = gs
  BY DEF splitIntoGroups
<1>4. ids \in Seq(D) /\ Distinct(ids) /\ Range(ids) = D
  <2>1. ids \in Maps(1..n, D) /\ DOMAIN ids = D /\ \A i \in D : ids[i] = i
    BY <1>2 DEF Maps
  <2> HIDE DEF ids
  <2>2. ids \in Seq(D)
    BY <2>1, FunctionSeq
  <2> HIDE DEF D
  <2> QED
    BY <2>1, <2>2 DEF Distinct, Range
<1>5. firsts \in Seq(D) /\ Distinct(firsts) /\ Range(firsts) = P
  <2>1. P \subseteq D
    BY <1>2
  <2> HIDE DEF ids, P, D
  <2>2. firsts \in Seq(D)
    BY <1>4, FilterSeq
  <2>3. Distinct(firsts)
    BY <1>4, FilterDistinct
  <2>4. Range(firsts) = D \intersect P
    BY <1>4, FilterRange
  <2> QED
    BY <2>1, <2>2, <2>3, <2>4
<1>6. PICK m \in Nat : DOMAIN firsts = 1..m /\ \A a \in 1..m : firsts[a] \in D /\ firsts[a] \in P
  <2> HIDE DEF firsts, D, P
  <2>1. Len(firsts) \in Nat /\ DOMAIN firsts = 1..Len(firsts)
    BY <1>5, LenProperties
  <2>2. \A a \in DOMAIN firsts : firsts[a] \in D /\ firsts[a] \in P
    <3>1. \A a \in DOMAIN firsts : firsts[a] \in Range(firsts)
      BY DEF Range
    <3>2. \A a \in DOMAIN firsts : firsts[a] \in D
      BY <1>5, <2>1, ElementOfSeq
    <3> QED
      BY <1>5, <3>1, <3>2
  <2> QED
    BY <2>1, <2>2, Zenon
<1> HIDE DEF firsts
<1>7. gs \in Seq(Names(f))
  <2>1. \A i \in D : ss[i] \in Range(ss)
    BY <1>2 DEF Range
  <2>2. \A a \in 1..m : GroupName(ss[firsts[a]]) \in Names(f)
    BY <1>6, <2>1 DEF Names
  <2>3. gs \in Maps(1..m, Names(f))
    BY <1>6, <2>2 DEF Maps
  <2> HIDE DEF gs
  <2> QED
    BY <2>3, FunctionSeq
<1>8. Distinct(gs)
  <2> SUFFICES ASSUME NEW a \in 1..m, NEW b \in 1..m, name(firsts[a]) = name(firsts[b]) PROVE a = b
    BY <1>6 DEF Distinct
  <2>1. firsts[a] \in P /\ firsts[b] \in P /\ firsts[a] \in 1..n /\ firsts[b] \in 1..n
    BY <1>6
  <2>2. ~(firsts[a] < firsts[b])
    <3> SUFFICES ASSUME firsts[a] < firsts[b] PROVE FALSE
      OBVIOUS
    <3>1. firsts[a] \in 1..firsts[b] - 1
      BY <2>1
    <3> QED
      BY <2>1, <3>1
  <2>3. ~(firsts[b] < firsts[a])
    <3> SUFFICES ASSUME firsts[b] < firsts[a] PROVE FALSE
      OBVIOUS
    <3>1. firsts[b] \in 1..firsts[a] - 1
      BY <2>1
    <3> QED
      BY <2>1, <3>1
  <2>4. firsts[a] = firsts[b]
    BY <2>1, <2>2, <2>3
  <2> QED
    BY <1>5, <1>6, <2>4, Zenon DEF Distinct
<1>9. Range(gs) = Names(f)
  <2>1. Range(gs) \subseteq Names(f)
    <3> HIDE DEF gs
    <3> QED
      BY <1>7, RangeInSet
  <2>2. ASSUME NEW i \in D PROVE name(i) \in Range(gs)
    <3> DEFINE Q == {j \in D : name(j) = name(i)}
    <3>1. i \in Q /\ Q \subseteq Nat
      OBVIOUS
    <3> HIDE DEF Q
    <3>2. PICK k \in Q : \A j \in Q : k <= j
      BY <3>1, LeastPosition, Zenon
    <3>3. k \in D /\ name(k) = name(i) /\ \A j \in 1..k-1 : name(j) # name(k)
      <4>1. k \in D /\ name(k) = name(i)
        BY DEF Q
      <4>2. ASSUME NEW j \in 1..k-1, name(j) = name(k) PROVE FALSE
        <5>1. j \in D /\ j < k
          BY <4>1, <4>2
        <5>2. j \in Q
          BY <4>1, <4>2, <5>1 DEF Q
        <5> QED
          BY <3>1, <3>2, <5>1, <5>2
      <4> QED
        BY <4>1, <4>2
    <3>4. k \in P
      BY <1>2, <3>3
    <3>5. PICK a \in 1..m : firsts[a] = k
      <4>1. k \in Range(firsts)
        BY <1>5, <3>4
      <4> QED
        BY <1>6, <4>1 DEF Range
    <3>6. gs[a] = name(k) /\ a \in DOMAIN gs
      BY <1>6, <3>5
    <3> HIDE DEF gs
    <3>7. gs[a] \in Range(gs)
      BY <3>6 DEF Range
    <3> QED
      BY <3>3, <3>6, <3>7
  <2>3. Names(f) \subseteq Range(gs)
    <3> HIDE DEF gs
    <3> QED
      BY <1>2, <2>2 DEF Names, Range
  <2> QED
    BY <2>1, <2>3
<1> QED
  BY <1>3, <1>7, <1>8, <1>9

\* The sections of S that ask, in file f, for a routine with its owner in A.
Asking(S, f, A) == {s \in S : <<ConnName(f, GroupName(s)), Routine(s)>> \in A}

\* Every name that a section of S can give a connection of f.
Naming(S, f, N) == \A s \in S : ConnName(f, GroupName(s)) \in N

\* The routines a file asks for, counted by its sections.
LEMMA WrittenCounted ==
    ASSUME NEW f, NEW S, f.sections \in Seq(S), NEW N, Naming(S, f, N), NEW A
    PROVE  /\ Written(f) \in Seq(Owned(N, S))
           /\ Len(Filter(Written(f), A)) = Len(Filter(RoutineSections(f.sections), Asking(S, f, A)))
<1> DEFINE ss == RoutineSections(f.sections)
           F == [s \in S |-> <<ConnName(f, GroupName(s)), Routine(s)>>]
<1>1. F \in Maps(S, Owned(N, S))
  BY DEF Maps, Owned, RoutinesOn, Naming
<1>2. ss \in Seq(S)
  BY FilterSeq DEF RoutineSections
<1>3. Written(f) = Map(F, ss)
  <2>1. \A j \in DOMAIN ss : ss[j] \in S
    <3> HIDE DEF ss
    <3> QED
      BY <1>2, LenProperties
  <2>2. Written(f) = [j \in DOMAIN ss |-> <<ConnName(f, GroupName(ss[j])), Routine(ss[j])>>]
    BY DEF Written
  <2> HIDE DEF ss
  <2> QED
    BY <2>1, <2>2 DEF Map
<1>4. Asking(S, f, A) = {s \in S : F[s] \in A}
  BY DEF Asking
<1>5. Map(F, ss) \in Seq(Owned(N, S)) /\ Len(Filter(Map(F, ss), A)) = Len(Filter(ss, {s \in S : F[s] \in A}))
  <2> HIDE DEF F, ss
  <2> QED
    BY <1>1, <1>2, MapSeq, MapFilter
<1> HIDE DEF F
<1> QED
  BY <1>3, <1>4, <1>5

\* The routines of the connections of a file, group by group.
FileLoaded(f) ==
    [g \in DOMAIN splitIntoGroups(f) |-> Loaded(ConnectionSpec(f, splitIntoGroups(f)[g]))]

\* The name and the routines of a connection.
LEMMA SpecRoutines ==
    \A f, g : /\ ConnectionSpec(f, g).name = ConnName(f, g)
             /\ ConnectionSpec(f, g).routines = ConfRoutines(RoutineSections(connGroup(f, g)))
  BY DEF ConnectionSpec

\* The connections of a file that parses have the routines it asks for.
LEMMA FileCounted ==
    ASSUME NEW f, IsSeq(f.sections), NEW S, f.sections \in Seq(S),
           \A i \in DOMAIN f.sections : appendRoutines(RoutineSections(connGroup(f, GroupName(f.sections[i])))),
           NEW N, Naming(S, f, N), NEW A
    PROVE  /\ FileLoaded(f) \in Rows(Owned(N, S)) /\ Written(f) \in Seq(Owned(N, S))
           /\ Len(Filter(Concat(FileLoaded(f)), A)) = Len(Filter(Written(f), A))
<1> DEFINE ss == f.sections
           gs == splitIntoGroups(f)
           NB == NoBackend(S)
           T == Asking(S, f, A)
           R == Owned(N, S)
           xs == FileLoaded(f)
<1>1. gs \in Seq(Names(f)) /\ Distinct(gs) /\ Range(gs) = Names(f)
  BY GroupsOnce
<1>2. PICK n \in Nat : n = Len(gs) /\ DOMAIN gs = 1..n /\ \A g \in 1..n : gs[g] \in Names(f)
  <2> HIDE DEF gs
  <2> QED
    BY <1>1, LenProperties
<1> DEFINE cls == [g \in 1..n |-> Grouped(S, gs[g])]
           ys == Classes(ss, cls, n)
<1>3. \A g \in 1..n : appendRoutines(RoutineSections(connGroup(f, gs[g])))
  <2>1. ASSUME NEW g \in 1..n PROVE \E i \in DOMAIN ss : gs[g] = GroupName(ss[i])
    BY <1>2 DEF Names, Range
  <2> QED
    BY <2>1
<1>4. /\ ys \in Rows(S) /\ Len(ys) = n /\ \A g \in 1..n : ys[g] = Filter(ss, cls[g])
  <2> HIDE DEF cls, ss
  <2> QED
    BY ClassRows DEF ss
<1>5. ASSUME NEW g \in 1..n
      PROVE  /\ connGroup(f, gs[g]) = ys[g] /\ ys[g] \in Seq(S)
             /\ RoutineSections(ys[g]) = Filter(ys[g], NB)
             /\ RoutineSections(ys[g]) \in Seq(S)
  <2>1. connGroup(f, gs[g]) = Filter(ss, Grouped(S, gs[g]))
    BY Picks
  <2>2. ys[g] = Filter(ss, Grouped(S, gs[g]))
    BY <1>4
  <2>3. Filter(ss, Grouped(S, gs[g])) \in Seq(S)
    BY FilterSeq
  <2> HIDE DEF ys, NB
  <2>4. ys[g] \in Seq(S)
    BY <2>2, <2>3
  <2>5. RoutineSections(ys[g]) = Filter(ys[g], NB)
    BY <2>4, Picks DEF NB
  <2>6. Filter(ys[g], NB) \in Seq(S)
    BY <2>4, FilterSeq
  <2> QED
    BY <2>1, <2>2, <2>4, <2>5, <2>6
<1>6. ASSUME NEW g \in 1..n
      PROVE  /\ xs[g] \in Seq(R)
             /\ Len(Filter(xs[g], A)) = Len(Filter(ys[g], NB \intersect T))
  <2> DEFINE c == ConnectionSpec(f, gs[g])
             us == RoutineSections(ys[g])
             B == MakingFor(c.name, S, A)
  <2>1. xs[g] = Loaded(c)
    BY <1>2 DEF FileLoaded
  <2>2. c.name = ConnName(f, gs[g]) /\ c.routines = ConfRoutines(us)
    BY <1>5, SpecRoutines
  <2>3. c.name \in N
    <3>1. PICK s \in Range(ss) : gs[g] = GroupName(s)
      BY <1>2 DEF Names
    <3>2. s \in S
      BY <3>1, RangeInSet
    <3> QED
      BY <2>2, <3>1, <3>2 DEF Naming
  <2>4. appendRoutines(us) /\ us \in Seq(S)
    BY <1>3, <1>5
  <2>5. xs[g] \in Seq(R) /\ Len(Filter(xs[g], A)) = Len(Filter(us, B))
    <3> HIDE DEF us, c, xs
    <3>1. LoadedFrom(c, us, N, S, A)
      BY ONLY <2>2, <2>3, <2>4, LoadedCounted, Zenon
    <3> QED
      BY <2>1, <3>1 DEF LoadedFrom
  <2>6. Filter(us, B) = Filter(us, T)
    <3>1. \A x \in Range(us) : x \in S /\ GroupName(x) = gs[g]
      <4>1. us = Filter(ys[g], NB) /\ ys[g] \in Seq(S) /\ ys[g] = Filter(ss, cls[g])
        BY <1>4, <1>5, Zenon
      <4>2. Range(us) \subseteq Range(ys[g]) /\ Range(ys[g]) \subseteq cls[g]
        <5> HIDE DEF us, ys, NB, cls, ss
        <5> QED
          BY <4>1, FilterRange DEF ss
      <4>3. cls[g] \subseteq S /\ \A x \in cls[g] : GroupName(x) = gs[g]
        BY DEF Grouped
      <4> HIDE DEF us, ys, cls
      <4> QED
        BY <4>2, <4>3
    <3>2. \A x \in Range(us) : x \in B <=> x \in T
      <4> HIDE DEF us, c
      <4> QED
        BY <2>2, <3>1 DEF Asking, MakingFor
    <3> HIDE DEF us, B, T
    <3> QED
      BY <2>4, <3>2, FilterAgree
  <2>7. Filter(us, T) = Filter(ys[g], NB \intersect T)
    <3>1. us = Filter(ys[g], NB) /\ ys[g] \in Seq(S)
      BY <1>5
    <3> HIDE DEF us, ys, NB, T
    <3> QED
      BY <3>1, FilterTwice
  <2> HIDE DEF us, B, T, ys, xs, NB, R
  <2> QED
    BY <2>5, <2>6, <2>7
<1>7. xs \in Rows(R) /\ Len(xs) = n
  <2>1. xs \in Maps(1..n, Seq(R))
    <3>1. xs = [g \in 1..n |-> xs[g]]
      BY <1>2 DEF FileLoaded
    <3> HIDE DEF xs
    <3> QED
      BY <1>6, <3>1, Zenon DEF Maps
  <2> HIDE DEF xs, R
  <2> QED
    BY <2>1, FunctionRows
<1>8. Len(Filter(Concat(xs), A)) = Len(Filter(Concat(ys), NB \intersect T))
  <2> HIDE DEF xs, ys, R, NB, T
  <2>1. SameCounts(xs, A, ys, NB \intersect T)
    BY <1>4, <1>6, <1>7, Zenon DEF SameCounts
  <2> QED
    BY ONLY <1>4, <1>7, <2>1, CountConcat
<1>9. Len(Filter(Concat(ys), NB \intersect T)) = Len(Filter(ss, (NB \intersect T) \intersect Cover(cls, n)))
  <2>1. Disjoint(cls, n)
    <3>1. \A g, h \in 1..n : g # h => gs[g] # gs[h]
      <4> HIDE DEF gs
      <4> QED
        BY <1>1, <1>2 DEF Distinct
    <3> HIDE DEF gs
    <3> QED
      BY <3>1 DEF Grouped, Disjoint
  <2> HIDE DEF cls, ss, NB, T
  <2>2. \A B : Len(Filter(Concat(Classes(ss, cls, n)), B)) = Len(Filter(ss, B \intersect Cover(cls, n)))
    BY <2>1, CountClasses DEF ss
  <2> QED
    BY <2>2
<1>10. Filter(ss, (NB \intersect T) \intersect Cover(cls, n)) = Filter(ss, NB \intersect T)
  <2>1. ASSUME NEW x \in Range(ss) PROVE x \in Cover(cls, n)
    <3>1. x \in S /\ GroupName(x) \in Names(f)
      BY RangeInSet DEF Names
    <3>2. PICK g \in 1..n : gs[g] = GroupName(x)
      <4> HIDE DEF gs
      <4> QED
        BY <1>1, <1>2, <3>1 DEF Range
    <3>3. x \in cls[g]
      BY <3>1, <3>2 DEF Grouped
    <3> HIDE DEF cls
    <3> QED
      BY <3>3 DEF Cover
  <2>2. \A x \in Range(ss) : x \in (NB \intersect T) \intersect Cover(cls, n) <=> x \in NB \intersect T
    BY <2>1
  <2> HIDE DEF cls, NB, T
  <2> QED
    BY ONLY <2>2, f.sections \in Seq(S), FilterAgree, Zenon DEF ss
<1>11. Filter(RoutineSections(ss), T) = Filter(ss, NB \intersect T)
  <2>1. RoutineSections(ss) = Filter(ss, NB)
    BY Picks
  <2>2. Filter(Filter(ss, NB), T) = Filter(ss, NB \intersect T)
    BY FilterTwice
  <2> QED
    BY ONLY <2>1, <2>2, Zenon
<1>12. Written(f) \in Seq(R) /\ Len(Filter(Written(f), A)) = Len(Filter(RoutineSections(ss), T))
  BY WrittenCounted
<1> HIDE DEF xs, ys, NB, T, cls, R
<1> QED
  BY <1>7, <1>8, <1>9, <1>10, <1>11, <1>12 DEF xs, R

-----------------------------------------------------------------------------
(* Files.                                                                  *)

FilesIn(ps) == UNION {{ps[i].entries[j].file : j \in DOMAIN ps[i].entries} : i \in DOMAIN ps}

\* What LoadConfigSources reads are the files of the paths.
LEMMA FilesAre ==
    ASSUME NEW ps, IsSeq(ps), \A i \in DOMAIN ps : IsPath(ps[i])
    PROVE  ConfigFiles(ps) \in Seq(FilesIn(ps)) /\ \A f \in FilesIn(ps) : IsFile(f)
<1>1. PICK n \in Nat : DOMAIN ps = 1..n
  BY LenProperties DEF IsSeq
<1> DEFINE sel(i) == Filter(ps[i].entries, {e \in Range(ps[i].entries) : ps[i].isDir => e.conf /\ e.regular})
           row(i) == [j \in DOMAIN sel(i) |-> sel(i)[j].file]
           rows == [i \in DOMAIN ps |-> row(i)]
<1>2. ASSUME NEW i \in 1..n PROVE row(i) \in Seq(FilesIn(ps))
  <2>1. sel(i) \in Seq(Range(ps[i].entries))
    <3>1. ps[i].entries \in Seq(Range(ps[i].entries))
      BY <1>1 DEF IsPath, IsSeq
    <3> QED
      BY <3>1, FilterSeq
  <2> HIDE DEF sel
  <2>2. PICK m \in Nat : DOMAIN sel(i) = 1..m /\ \A j \in 1..m : sel(i)[j] \in Range(ps[i].entries)
    BY <2>1, LenProperties
  <2>3. \A e \in Range(ps[i].entries) : e.file \in FilesIn(ps)
    BY <1>1 DEF Range, FilesIn
  <2>4. row(i) \in Maps(1..m, FilesIn(ps))
    BY <2>2, <2>3 DEF Maps
  <2> HIDE DEF row
  <2> QED
    BY <2>4, FunctionSeq
<1>3. rows \in Rows(FilesIn(ps))
  <2> HIDE DEF row
  <2>1. rows \in Maps(1..n, Seq(FilesIn(ps)))
    BY <1>1, <1>2 DEF Maps
  <2> HIDE DEF rows
  <2> QED
    BY <2>1, FunctionRows
<1>4. ConfigFiles(ps) = Concat(rows)
  BY DEF ConfigFiles
<1>5. ConfigFiles(ps) \in Seq(FilesIn(ps))
  <2> HIDE DEF rows
  <2> QED
    BY <1>3, <1>4, RowsConcat
<1>6. \A f \in FilesIn(ps) : IsFile(f)
  BY DEF FilesIn, IsPath
<1> QED
  BY <1>5, <1>6

Sections(fs) == UNION {Range(f.sections) : f \in Range(fs)}
AllWritten(fs) == Concat([i \in DOMAIN fs |-> Written(fs[i])])
SpecsOf(fs) == Concat([i \in DOMAIN fs |-> ConnectionSpecs(fs[i])])
AllLoaded(cs) == Concat([i \in DOMAIN cs |-> Loaded(cs[i])])
Owners(fs) == {ConnName(f, GroupName(s)) : f \in Range(fs), s \in Sections(fs)}
Connections(fs) == UNION {Range(ConnectionSpecs(f)) : f \in Range(fs)}

\* Files that are all read and parse.
Parsed(fs) == IsSeq(fs) /\ \A f \in Range(fs) : IsFile(f) /\ parseConfigSource(f)

\* parseConfigSource looks at the routine sections of every group.
LEMMA ParsedRoutines ==
    ASSUME NEW f, parseConfigSource(f)
    PROVE  \A i \in DOMAIN f.sections : appendRoutines(RoutineSections(connGroup(f, GroupName(f.sections[i]))))
BY Zenon DEF parseConfigSource, parse

\* The connections of a file, and their routines.
LEMMA FileSpecs ==
    ASSUME NEW fs, Parsed(fs), NEW f \in Range(fs), NEW A
    PROVE  /\ ConnectionSpecs(f) \in Seq(Connections(fs))
           /\ FileLoaded(f) = [g \in DOMAIN ConnectionSpecs(f) |-> Loaded(ConnectionSpecs(f)[g])]
           /\ FileLoaded(f) \in Rows(Owned(Owners(fs), Sections(fs)))
           /\ Written(f) \in Seq(Owned(Owners(fs), Sections(fs)))
           /\ Len(Filter(Concat(FileLoaded(f)), A)) = Len(Filter(Written(f), A))
<1> DEFINE S == Sections(fs)
           N == Owners(fs)
           gs == splitIntoGroups(f)
<1>1. IsSeq(f.sections) /\ parseConfigSource(f)
  BY DEF Parsed, IsFile
<1>2. f.sections \in Seq(S) /\ Naming(S, f, N)
  <2>1. f.sections \in Seq(Range(f.sections))
    BY <1>1 DEF IsSeq
  <2>2. Range(f.sections) \subseteq S
    BY DEF Sections
  <2>3. Naming(S, f, N)
    BY DEF Naming, Owners
  <2> HIDE DEF S, N
  <2> QED
    BY <2>1, <2>2, <2>3, SeqMonotonic
<1>3. /\ FileLoaded(f) \in Rows(Owned(N, S)) /\ Written(f) \in Seq(Owned(N, S))
      /\ Len(Filter(Concat(FileLoaded(f)), A)) = Len(Filter(Written(f), A))
  <2> HIDE DEF S, N
  <2> QED
    BY <1>1, <1>2, FileCounted, ParsedRoutines
<1>4. gs \in Seq(Names(f))
  BY <1>1, GroupsOnce
<1>5. PICK n \in Nat : DOMAIN gs = 1..n /\ \A g \in 1..n : gs[g] \in Names(f)
  <2> HIDE DEF gs
  <2> QED
    BY <1>4, LenProperties
<1>6. ConnectionSpecs(f) \in Seq(Connections(fs))
  <2>1. DOMAIN ConnectionSpecs(f) = 1..n
    BY <1>5 DEF ConnectionSpecs
  <2>2. \A g \in 1..n : ConnectionSpecs(f)[g] \in Connections(fs)
    BY <2>1 DEF Connections, Range
  <2>3. ConnectionSpecs(f) = [g \in 1..n |-> ConnectionSpecs(f)[g]]
    BY <1>5 DEF ConnectionSpecs
  <2>4. ConnectionSpecs(f) \in Maps(1..n, Connections(fs))
    BY <2>2, <2>3 DEF Maps
  <2> QED
    BY <2>4, FunctionSeq
<1>7. FileLoaded(f) = [g \in DOMAIN ConnectionSpecs(f) |-> Loaded(ConnectionSpecs(f)[g])]
  BY DEF ConnectionSpecs, FileLoaded
<1> QED
  BY <1>3, <1>6, <1>7

\* Each connection's routines are a sequence.
LEMMA ConnectionRoutines ==
    ASSUME NEW fs, Parsed(fs), NEW c \in Connections(fs)
    PROVE  /\ Loaded(c) \in Seq(Owned(Owners(fs), Sections(fs)))
           /\ DOMAIN Loaded(c) = DOMAIN c.routines
<1> DEFINE P == Owned(Owners(fs), Sections(fs))
           Q == Seq(P)
<1>1. PICK f \in Range(fs) : c \in Range(ConnectionSpecs(f))
  BY DEF Connections
<1>2. PICK g \in DOMAIN ConnectionSpecs(f) : c = ConnectionSpecs(f)[g]
  BY <1>1 DEF Range
<1>3. /\ FileLoaded(f) = [k \in DOMAIN ConnectionSpecs(f) |-> Loaded(ConnectionSpecs(f)[k])]
      /\ FileLoaded(f) \in Rows(P)
  BY FileSpecs
<1>4. FileLoaded(f)[g] = Loaded(c) /\ g \in DOMAIN FileLoaded(f)
  BY <1>2, <1>3
<1>5. FileLoaded(f) \in Seq(Q)
  BY <1>3 DEF Rows
<1> HIDE DEF Q
<1>6. FileLoaded(f)[g] \in Q
  BY <1>4, <1>5, LenProperties
<1>7. DOMAIN Loaded(c) = DOMAIN c.routines
  BY DEF Loaded
<1> QED
  BY <1>4, <1>6, <1>7 DEF Q

\* The connections of all the files, as a sequence.
LEMMA SpecsRows ==
    ASSUME NEW fs, Parsed(fs)
    PROVE  /\ [i \in DOMAIN fs |-> ConnectionSpecs(fs[i])] \in Rows(Connections(fs))
           /\ SpecsOf(fs) \in Seq(Connections(fs))
           /\ Range(SpecsOf(fs)) = Connections(fs)
<1> DEFINE css == [i \in DOMAIN fs |-> ConnectionSpecs(fs[i])]
<1>1. PICK n \in Nat : n = Len(fs) /\ DOMAIN fs = 1..n
  BY LenProperties DEF Parsed, IsSeq
<1>2. \A i \in 1..n : fs[i] \in Range(fs) /\ ConnectionSpecs(fs[i]) \in Seq(Connections(fs))
  <2>1. \A i \in 1..n : fs[i] \in Range(fs)
    BY <1>1 DEF Range
  <2>2. \A f \in Range(fs) : ConnectionSpecs(f) \in Seq(Connections(fs))
    BY FileSpecs
  <2> QED
    BY <2>1, <2>2
<1>3. css \in Rows(Connections(fs))
  <2>1. css \in Maps(1..n, Seq(Connections(fs)))
    BY <1>1, <1>2 DEF Maps
  <2> HIDE DEF css
  <2> QED
    BY <2>1, FunctionRows
<1>4. SpecsOf(fs) = Concat(css)
  BY DEF SpecsOf
<1>5. SpecsOf(fs) \in Seq(Connections(fs)) /\ Range(SpecsOf(fs)) = UNION {Range(s) : s \in Range(css)}
  <2> HIDE DEF css
  <2> QED
    BY <1>3, <1>4, RowsConcat
<1>6. UNION {Range(s) : s \in Range(css)} = Connections(fs)
  <2>1. Range(css) = {ConnectionSpecs(f) : f \in Range(fs)}
    BY DEF Range
  <2> HIDE DEF css
  <2> QED
    BY <2>1 DEF Connections
<1> QED
  BY <1>3, <1>5, <1>6

\* The connections of all the files together have the routines that the files
\* ask for, each with its owner.
LEMMA AllCounted ==
    ASSUME NEW fs, Parsed(fs), NEW A
    PROVE  Len(Filter(AllLoaded(SpecsOf(fs)), A)) = Len(Filter(AllWritten(fs), A))
<1> DEFINE P == Owned(Owners(fs), Sections(fs))
           C == Connections(fs)
           F == [c \in C |-> Loaded(c)]
           G == [s \in Seq(C) |-> Concat(Map(F, s))]
           css == [i \in DOMAIN fs |-> ConnectionSpecs(fs[i])]
           ys == [i \in DOMAIN fs |-> Written(fs[i])]
           xs == Map(G, css)
<1>1. PICK n \in Nat : n = Len(fs) /\ DOMAIN fs = 1..n
  BY LenProperties DEF Parsed, IsSeq
<1>2. F \in Maps(C, Seq(P))
  BY ConnectionRoutines DEF Maps
<1>3. css \in Rows(C) /\ SpecsOf(fs) = Concat(css) /\ SpecsOf(fs) \in Seq(C)
  BY SpecsRows DEF SpecsOf
<1>4. AllWritten(fs) = Concat(ys)
  BY DEF AllWritten
<1>5. \A s \in Seq(C) : Map(F, s) = [i \in DOMAIN s |-> Loaded(s[i])]
  <2> SUFFICES ASSUME NEW s \in Seq(C) PROVE Map(F, s) = [i \in DOMAIN s |-> Loaded(s[i])]
    BY Zenon
  <2> HIDE DEF C
  <2>1. \A i \in DOMAIN s : s[i] \in C
    BY LenProperties
  <2> QED
    BY <2>1 DEF Map
<1>6. AllLoaded(SpecsOf(fs)) = Concat(Map(F, SpecsOf(fs)))
  BY <1>3, <1>5 DEF AllLoaded
<1>7. Concat(Map(F, Concat(css))) = Concat(xs)
  <2>1. \A ss \in Rows(C) : Concat(Map(F, Concat(ss))) = Concat(Map(G, ss))
    <3> HIDE DEF C, P, F
    <3> QED
      BY <1>2, MapConcat
  <2> HIDE DEF F, G, css
  <2> QED
    BY <1>3, <2>1
<1>8. ASSUME NEW i \in 1..n
      PROVE  /\ xs[i] \in Seq(P) /\ ys[i] \in Seq(P)
             /\ Len(Filter(xs[i], A)) = Len(Filter(ys[i], A))
  <2>1. fs[i] \in Range(fs)
    BY <1>1 DEF Range
  <2>2. /\ ConnectionSpecs(fs[i]) \in Seq(C)
        /\ FileLoaded(fs[i]) = [g \in DOMAIN ConnectionSpecs(fs[i]) |-> Loaded(ConnectionSpecs(fs[i])[g])]
        /\ FileLoaded(fs[i]) \in Rows(P) /\ Written(fs[i]) \in Seq(P)
        /\ Len(Filter(Concat(FileLoaded(fs[i])), A)) = Len(Filter(Written(fs[i]), A))
    BY <2>1, FileSpecs
  <2>3. xs[i] = Concat(Map(F, ConnectionSpecs(fs[i])))
    <3>1. xs[i] = G[css[i]] /\ css[i] = ConnectionSpecs(fs[i])
      BY <1>1 DEF Map
    <3>2. G[ConnectionSpecs(fs[i])] = Concat(Map(F, ConnectionSpecs(fs[i])))
      BY <2>2
    <3> HIDE DEF G, css, F
    <3> QED
      BY ONLY <3>1, <3>2, Zenon
  <2>4. Map(F, ConnectionSpecs(fs[i])) = FileLoaded(fs[i])
    BY <1>5, <2>2
  <2>5. Concat(FileLoaded(fs[i])) \in Seq(P)
    <3> HIDE DEF P
    <3> QED
      BY <2>2, RowsConcat
  <2>6. ys[i] = Written(fs[i])
    BY <1>1
  <2> HIDE DEF xs, ys, F, P
  <2> QED
    BY ONLY <2>2, <2>3, <2>4, <2>5, <2>6, Zenon
<1>9. xs \in Rows(P) /\ Len(xs) = n /\ ys \in Rows(P) /\ Len(ys) = n
  <2>1. xs = [i \in 1..n |-> xs[i]] /\ ys = [i \in 1..n |-> ys[i]]
    BY <1>1 DEF Map
  <2>2. xs \in Maps(1..n, Seq(P)) /\ ys \in Maps(1..n, Seq(P))
    <3> HIDE DEF xs, ys, P
    <3> QED
      BY <1>8, <2>1, Zenon DEF Maps
  <2> HIDE DEF xs, ys, P
  <2> QED
    BY <2>2, FunctionRows
<1>10. Len(Filter(Concat(xs), A)) = Len(Filter(Concat(ys), A))
  <2> HIDE DEF xs, ys, P
  <2>1. SameCounts(xs, A, ys, A)
    BY <1>8, <1>9 DEF SameCounts
  <2> QED
    BY ONLY <1>9, <2>1, CountConcat
<1>11. AllLoaded(SpecsOf(fs)) = Concat(xs)
  <2> HIDE DEF xs, F
  <2> QED
    BY ONLY <1>3, <1>6, <1>7, Zenon
<1> HIDE DEF xs, ys
<1> QED
  BY <1>4, <1>10, <1>11

\* The connections are numbered from 1, and so are the routines of each.
LEMMA SpecsNumbered ==
    ASSUME NEW fs, Parsed(fs)
    PROVE  LET cs == SpecsOf(fs)
           IN  /\ \A i \in DOMAIN cs : i \in Nat \ {0}
               /\ \A i \in DOMAIN cs : \A j \in DOMAIN cs[i].routines : j \in Nat \ {0}
               /\ \A i \in DOMAIN cs : \E f \in Range(fs) : \E g \in Names(f) : cs[i] = ConnectionSpec(f, g)
<1> DEFINE C == Connections(fs)
           cs == SpecsOf(fs)
<1>1. cs \in Seq(C)
  BY SpecsRows, Zenon
<1>2. ASSUME NEW i \in DOMAIN cs PROVE i \in Nat \ {0} /\ cs[i] \in C
  <2> HIDE DEF C, cs
  <2> QED
    BY <1>1, LenProperties
<1>3. ASSUME NEW i \in DOMAIN cs, NEW j \in DOMAIN cs[i].routines PROVE j \in Nat \ {0}
  <2>1. /\ Loaded(cs[i]) \in Seq(Owned(Owners(fs), Sections(fs)))
        /\ DOMAIN Loaded(cs[i]) = DOMAIN cs[i].routines
    BY <1>2, ConnectionRoutines
  <2> HIDE DEF C, cs
  <2> QED
    BY <2>1, LenProperties
<1>4. ASSUME NEW i \in DOMAIN cs PROVE \E f \in Range(fs) : \E g \in Names(f) : cs[i] = ConnectionSpec(f, g)
  <2>1. PICK f \in Range(fs) : cs[i] \in Range(ConnectionSpecs(f))
    BY <1>2 DEF Connections
  <2>2. PICK k \in DOMAIN splitIntoGroups(f) : cs[i] = ConnectionSpec(f, splitIntoGroups(f)[k])
    BY <2>1 DEF ConnectionSpecs, Range
  <2>3. IsSeq(f.sections)
    BY DEF Parsed, IsFile
  <2>4. splitIntoGroups(f)[k] \in Names(f)
    <3>1. splitIntoGroups(f)[k] \in Range(splitIntoGroups(f))
      BY DEF Range
    <3> QED
      BY <2>3, <3>1, GroupsOnce
  <2> QED
    BY <2>2, <2>4
<1> QED
  BY <1>2, <1>3, <1>4

-----------------------------------------------------------------------------
\* Files that differ in the order of sections of different groups or types
\* only: of each group they have the same sections, type by type.
SameParts(f, h) ==
    /\ h.readable = f.readable /\ h.dir = f.dir /\ h.stem = f.stem /\ h.root = f.root
    /\ IsSeq(f.sections) /\ IsSeq(h.sections) /\ Range(h.sections) = Range(f.sections)
    /\ \A g, t : /\ OfType(connGroup(h, g), t) = OfType(connGroup(f, g), t)
                 /\ OfType(RoutineSections(connGroup(h, g)), t) = OfType(RoutineSections(connGroup(f, g)), t)

\* What is picked from a group, from the file at once.
LEMMA PicksOnce ==
    ASSUME NEW S, NEW f, f.sections \in Seq(S), NEW g
    PROVE  /\ Range(connGroup(f, g)) = Range(f.sections) \intersect Grouped(S, g)
           /\ Range(RoutineSections(connGroup(f, g))) = Range(f.sections) \intersect Grouped(S, g) \intersect NoBackend(S)
           /\ \A t : /\ OfType(connGroup(f, g), t) = Filter(f.sections, Grouped(S, g) \intersect OfTypes(S, {t}))
                     /\ OfType(RoutineSections(connGroup(f, g)), t) =
                          Filter(f.sections, (Grouped(S, g) \intersect NoBackend(S)) \intersect OfTypes(S, {t}))
<1> DEFINE ss == f.sections
           G == Grouped(S, g)
           NB == NoBackend(S)
           ro == RoutineSections(connGroup(f, g))
<1>1. ss \in Seq(S)
  OBVIOUS
<1> HIDE DEF ss
<1>2. connGroup(f, g) = Filter(ss, G)
  <2>1. \A u, v : u.sections = ss => connGroup(u, v) = Filter(ss, Grouped(S, v))
    BY <1>1, Picks
  <2> QED
    BY <2>1 DEF ss
<1>3. connGroup(f, g) \in Seq(S)
  BY <1>1, <1>2, FilterSeq
<1>4. ro = Filter(connGroup(f, g), NB) /\ ro \in Seq(S)
  BY <1>3, Picks, FilterSeq
<1> HIDE DEF G, NB, ro
<1>5. ro = Filter(ss, G \intersect NB)
  BY <1>1, <1>2, <1>4, FilterTwice
<1>6. \A A, B : Filter(Filter(ss, A), B) = Filter(ss, A \intersect B)
  BY <1>1, FilterTwice
<1>7. ASSUME NEW t PROVE OfType(connGroup(f, g), t) = Filter(ss, G \intersect OfTypes(S, {t}))
  <2>1. OfType(connGroup(f, g), t) = Filter(connGroup(f, g), OfTypes(S, {t}))
    BY <1>3, Picks
  <2> QED
    BY ONLY <1>6, <1>2, <2>1, Zenon
<1>8. ASSUME NEW t PROVE OfType(ro, t) = Filter(ss, (G \intersect NB) \intersect OfTypes(S, {t}))
  <2>1. OfType(ro, t) = Filter(ro, OfTypes(S, {t}))
    BY <1>4, Picks
  <2> DEFINE B == G \intersect NB
  <2> HIDE DEF B
  <2>2. Filter(Filter(ss, B), OfTypes(S, {t})) = Filter(ss, B \intersect OfTypes(S, {t}))
    BY ONLY <1>6, Zenon
  <2>3. ro = Filter(ss, B)
    BY <1>5 DEF B
  <2>4. OfType(ro, t) = Filter(ss, B \intersect OfTypes(S, {t}))
    BY ONLY <2>1, <2>2, <2>3, Zenon
  <2> QED
    BY <2>4 DEF B
<1>9. Range(connGroup(f, g)) = Range(ss) \intersect G
  BY <1>1, <1>2, FilterRange
<1>10. Range(ro) = Range(ss) \intersect G \intersect NB
  <2>1. Range(ro) = Range(ss) \intersect (G \intersect NB)
    BY <1>1, <1>5, FilterRange
  <2> QED
    BY <2>1
<1> QED
  BY <1>7, <1>8, <1>9, <1>10, Zenon DEF ss, G, NB, ro

\* Exchanging neighbours of different groups or types gives such a file.
LEMMA ExchangedParts ==
    ASSUME NEW f, IsSeq(f.sections), NEW i \in 1..Len(f.sections) - 1, NEW h,
           h.readable = f.readable, h.dir = f.dir, h.stem = f.stem, h.root = f.root,
           h.sections = [f.sections EXCEPT ![i] = f.sections[i + 1], ![i + 1] = f.sections[i]],
           <<GroupName(f.sections[i]), f.sections[i].type>> #
             <<GroupName(f.sections[i + 1]), f.sections[i + 1].type>>
    PROVE  SameParts(f, h)
<1> DEFINE S == Range(f.sections)
           ss == f.sections
           us == h.sections
<1>1. ss \in Seq(S)
  BY DEF IsSeq
<1> HIDE DEF S
<1>2. /\ us \in Seq(S) /\ Len(us) = Len(ss) /\ Range(us) = Range(ss)
      /\ \A A : ss[i] \notin A \/ ss[i + 1] \notin A => Filter(us, A) = Filter(ss, A)
  <2>1. us = [ss EXCEPT ![i] = ss[i + 1], ![i + 1] = ss[i]]
    OBVIOUS
  <2> HIDE DEF ss, us
  <2> QED
    BY <1>1, <2>1, ExchangeNeighbours DEF ss
<1>3. IsSeq(us) /\ IsSeq(ss)
  BY <1>1, <1>2, RangeInSet DEF IsSeq
<1>4. ASSUME NEW g, NEW t
      PROVE  Filter(us, Grouped(S, g) \intersect OfTypes(S, {t})) =
               Filter(ss, Grouped(S, g) \intersect OfTypes(S, {t}))
  <2>1. ss[i] \notin Grouped(S, g) \intersect OfTypes(S, {t}) \/ ss[i + 1] \notin Grouped(S, g) \intersect OfTypes(S, {t})
    BY DEF Grouped, OfTypes
  <2> QED
    BY <1>2, <2>1, Zenon
<1>5. ASSUME NEW g, NEW t
      PROVE  Filter(us, (Grouped(S, g) \intersect NoBackend(S)) \intersect OfTypes(S, {t})) =
               Filter(ss, (Grouped(S, g) \intersect NoBackend(S)) \intersect OfTypes(S, {t}))
  <2> DEFINE A == (Grouped(S, g) \intersect NoBackend(S)) \intersect OfTypes(S, {t})
  <2>1. ss[i] \notin A \/ ss[i + 1] \notin A
    BY DEF Grouped, OfTypes
  <2> HIDE DEF A
  <2>2. Filter(us, A) = Filter(ss, A)
    BY <1>2, <2>1
  <2> QED
    BY <2>2 DEF A
<1>6. \A g, t : /\ OfType(connGroup(f, g), t) = Filter(ss, Grouped(S, g) \intersect OfTypes(S, {t}))
                /\ OfType(RoutineSections(connGroup(f, g)), t) =
                     Filter(ss, (Grouped(S, g) \intersect NoBackend(S)) \intersect OfTypes(S, {t}))
  BY ONLY <1>1, PicksOnce, Zenon
<1>7. \A g, t : /\ OfType(connGroup(h, g), t) = Filter(us, Grouped(S, g) \intersect OfTypes(S, {t}))
                /\ OfType(RoutineSections(connGroup(h, g)), t) =
                     Filter(us, (Grouped(S, g) \intersect NoBackend(S)) \intersect OfTypes(S, {t}))
  <2>1. h.sections \in Seq(S)
    BY <1>2
  <2> HIDE DEF us
  <2> QED
    BY ONLY <2>1, PicksOnce, ZenonT(30) DEF us
<1>8. ASSUME NEW g, NEW t
      PROVE  /\ OfType(connGroup(h, g), t) = OfType(connGroup(f, g), t)
             /\ OfType(RoutineSections(connGroup(h, g)), t) = OfType(RoutineSections(connGroup(f, g)), t)
  <2> HIDE DEF us, ss
  <2>1. OfType(connGroup(h, g), t) = OfType(connGroup(f, g), t)
    <3>1. OfType(connGroup(f, g), t) = Filter(ss, Grouped(S, g) \intersect OfTypes(S, {t}))
      BY ONLY <1>6, Zenon
    <3>2. OfType(connGroup(h, g), t) = Filter(us, Grouped(S, g) \intersect OfTypes(S, {t}))
      BY ONLY <1>7, Zenon
    <3>3. Filter(us, Grouped(S, g) \intersect OfTypes(S, {t})) = Filter(ss, Grouped(S, g) \intersect OfTypes(S, {t}))
      BY <1>4, Zenon
    <3> QED
      BY ONLY <3>1, <3>2, <3>3, Zenon
  <2>2. OfType(RoutineSections(connGroup(h, g)), t) = OfType(RoutineSections(connGroup(f, g)), t)
    <3> DEFINE A == (Grouped(S, g) \intersect NoBackend(S)) \intersect OfTypes(S, {t})
    <3>1. OfType(RoutineSections(connGroup(f, g)), t) = Filter(ss, A)
      BY ONLY <1>6, Zenon
    <3>2. OfType(RoutineSections(connGroup(h, g)), t) = Filter(us, A)
      BY ONLY <1>7, Zenon
    <3>3. Filter(us, A) = Filter(ss, A)
      BY <1>5
    <3> HIDE DEF A
    <3> QED
      BY ONLY <3>1, <3>2, <3>3, Zenon
  <2> QED
    BY <2>1, <2>2
<1>9. h.readable = f.readable /\ h.dir = f.dir /\ h.stem = f.stem /\ h.root = f.root
  OBVIOUS
<1> QED
  BY ONLY <1>2, <1>3, <1>8, <1>9 DEF SameParts

\* Whether a group parses, and what becomes of it, is settled by its sections
\* type by type.
LEMMA GroupDecided ==
    ASSUME NEW f, NEW h, SameParts(f, h), NEW g
    PROVE  /\ parse(h, g) <=> parse(f, g)
           /\ ConnectionSpec(h, g) = ConnectionSpec(f, g)
<1>1. /\ h.dir = f.dir /\ h.stem = f.stem /\ h.root = f.root
      /\ \A t : OfType(connGroup(h, g), t) = OfType(connGroup(f, g), t)
      /\ \A t : OfType(RoutineSections(connGroup(h, g)), t) = OfType(RoutineSections(connGroup(f, g)), t)
  BY DEF SameParts
<1>2. Importing(h, g) = Importing(f, g)
  BY <1>1, Zenon DEF Importing
<1>3. externalPath(h, g) = externalPath(f, g)
  <2> DEFINE ifaces(u) == OfType(connGroup(u, g), "interface")
             key(u) == IF ifaces(u) = <<>> THEN u.root.WGConfig ELSE ifaces(u)[1].keys.WGConfig
             path(u) == IF key(u).form = "plain" THEN key(u).v ELSE <<".", "$VAR">>
  <2>1. externalPath(h, g) = resolveWGConfigPath(path(h), h) /\ externalPath(f, g) = resolveWGConfigPath(path(f), f)
    BY Zenon DEF externalPath
  <2>2. ifaces(h) = ifaces(f)
    BY <1>1
  <2> HIDE DEF ifaces
  <2>3. key(h) = key(f)
    BY <1>1, <2>2
  <2> HIDE DEF key
  <2>4. path(h) = path(f)
    BY <2>3, SMTT(20)
  <2> HIDE DEF path
  <2> QED
    BY <1>1, <2>1, <2>4 DEF resolveWGConfigPath
<1>4. parseBackend(h, g) <=> parseBackend(f, g)
  BY <1>1, <1>2, <1>3 DEF parseBackend
<1>5. Device(h, g) = Device(f, g)
  BY <1>1, <1>2, <1>3 DEF Device
<1>6. ConnName(h, g) = ConnName(f, g)
  BY <1>1 DEF ConnName
<1>7. ConfRoutines(RoutineSections(connGroup(h, g))) = ConfRoutines(RoutineSections(connGroup(f, g)))
  BY <1>1 DEF ConfRoutines
<1>8. appendRoutines(RoutineSections(connGroup(h, g))) <=> appendRoutines(RoutineSections(connGroup(f, g)))
  <2> DEFINE S == Range(f.sections)
  <2>1. f.sections \in Seq(S) /\ h.sections \in Seq(S) /\ Range(h.sections) = S
    BY DEF SameParts, IsSeq
  <2> HIDE DEF S
  <2>2. Range(RoutineSections(connGroup(f, g))) = Range(f.sections) \intersect Grouped(S, g) \intersect NoBackend(S)
    BY ONLY <2>1, PicksOnce
  <2>3. Range(RoutineSections(connGroup(h, g))) = Range(h.sections) \intersect Grouped(S, g) \intersect NoBackend(S)
    BY ONLY <2>1, PicksOnce
  <2>4. Range(RoutineSections(connGroup(h, g))) = Range(RoutineSections(connGroup(f, g)))
    BY <2>1, <2>2, <2>3 DEF S
  <2>5. \A ss : appendRoutines(ss) <=> \A s \in Range(ss) : s.type \in Range(routineParsers) /\ parseRoutine(s)
    BY DEF appendRoutines, Range
  <2> QED
    BY ONLY <2>4, <2>5, Zenon
<1>9. parse(h, g) <=> parse(f, g)
  BY <1>1, <1>4, <1>8 DEF parse
<1>10. ConnectionSpec(h, g) = ConnectionSpec(f, g)
  BY <1>1, <1>5, <1>6, <1>7, Zenon DEF ConnectionSpec
<1> QED
  BY <1>9, <1>10

\* So they are both accepted or both rejected, and give the same connections.
LEMMA FileDecided ==
    ASSUME NEW f, NEW h, SameParts(f, h)
    PROVE  /\ parseConfigSource(h) <=> parseConfigSource(f)
           /\ Range(ConnectionSpecs(h)) = Range(ConnectionSpecs(f))
<1>1. /\ h.readable = f.readable /\ h.root = f.root
      /\ IsSeq(f.sections) /\ IsSeq(h.sections) /\ Range(h.sections) = Range(f.sections)
  BY DEF SameParts
<1>2. Names(h) = Names(f)
  BY <1>1 DEF Names
<1>3. h.sections = <<>> <=> f.sections = <<>>
  <2>1. \A s : IsSeq(s) => (s = <<>> <=> Range(s) = {})
    <3> SUFFICES ASSUME NEW s, s \in Seq(Range(s)) PROVE s = <<>> <=> Range(s) = {}
      BY DEF IsSeq
    <3>1. Len(s) \in Nat /\ DOMAIN s = 1..Len(s) /\ (s = <<>> <=> Len(s) = 0)
      BY LenProperties, EmptySeq
    <3> QED
      BY <3>1 DEF Range
  <2> QED
    BY <1>1, <2>1
<1>4. \A u : (\A i \in DOMAIN u.sections : u.sections[i].prefix # "" => GroupName(u.sections[i]) # "")
               <=> (\A s \in Range(u.sections) : s.prefix # "" => GroupName(s) # "")
  BY Zenon DEF Range
<1>5. \A u : (\A i \in DOMAIN u.sections : parse(u, GroupName(u.sections[i])))
               <=> (\A g \in Names(u) : parse(u, g))
  BY DEF Range, Names
<1>6. (\A g \in Names(h) : parse(h, g)) <=> (\A g \in Names(f) : parse(f, g))
  BY <1>2, GroupDecided
<1>7. parseConfigSource(h) <=> parseConfigSource(f)
  <2>1. (\A i \in DOMAIN h.sections : h.sections[i].prefix # "" => GroupName(h.sections[i]) # "")
          <=> (\A i \in DOMAIN f.sections : f.sections[i].prefix # "" => GroupName(f.sections[i]) # "")
    BY <1>1, <1>4, Zenon
  <2>2. (\A i \in DOMAIN h.sections : parse(h, GroupName(h.sections[i])))
          <=> (\A i \in DOMAIN f.sections : parse(f, GroupName(f.sections[i])))
    BY ONLY <1>5, <1>6, Zenon
  <2> QED
    BY <1>1, <1>3, <2>1, <2>2, Zenon DEF parseConfigSource
<1>8. ASSUME NEW u, IsSeq(u.sections)
      PROVE  Range(ConnectionSpecs(u)) = {ConnectionSpec(u, g) : g \in Names(u)}
  <2>1. Range(splitIntoGroups(u)) = Names(u)
    BY <1>8, GroupsOnce
  <2>2. Range(ConnectionSpecs(u)) = {ConnectionSpec(u, g) : g \in Range(splitIntoGroups(u))}
    BY DEF Range, ConnectionSpecs
  <2> QED
    BY <2>1, <2>2
<1>9. {ConnectionSpec(h, g) : g \in Names(h)} = {ConnectionSpec(f, g) : g \in Names(f)}
  <2>1. \A g : ConnectionSpec(h, g) = ConnectionSpec(f, g)
    BY GroupDecided
  <2> QED
    BY <1>2, <2>1
<1>10. Range(ConnectionSpecs(h)) = Range(ConnectionSpecs(f))
  BY <1>1, <1>8, <1>9
<1> QED
  BY <1>7, <1>10

-----------------------------------------------------------------------------
\* The fields of a device after applyInterfaceOverrides.
LEMMA Overridden ==
    ASSUME NEW s, NEW p
    PROVE  LET old == Imported(p)
               d == Override(s, old)
           IN  /\ d.key = old.key /\ d.addrs = old.addrs /\ d.peers = old.peers
               /\ d.mtu = Value(s, "MTU", old.mtu) /\ d.dns = Value(s, "DNS", old.dns)
               /\ d.listenPort = IF Has(s, "ListenPort") THEN OptInt(s, "ListenPort") ELSE old.listenPort
               /\ d.checkAlive = Value(s, "CheckAlive", old.checkAlive)
               /\ d.interval = Value(s, "CheckAliveInterval", old.interval)
<1> DEFINE old == Imported(p)
<1>1. old = [key |-> old.key, addrs |-> old.addrs, dns |-> old.dns, mtu |-> old.mtu,
             listenPort |-> old.listenPort, checkAlive |-> old.checkAlive,
             interval |-> old.interval, peers |-> old.peers]
  BY DEF Imported, Interface
<1> HIDE DEF old
<1>2. DOMAIN old = {"key", "addrs", "dns", "mtu", "listenPort", "checkAlive", "interval", "peers"}
  BY <1>1
<1>3. Override(s, old).key = old.key /\ Override(s, old).addrs = old.addrs /\ Override(s, old).peers = old.peers
  BY <1>2 DEF Override
<1>4. Override(s, old).mtu = Value(s, "MTU", old.mtu) /\ Override(s, old).dns = Value(s, "DNS", old.dns)
  BY <1>2 DEF Override
<1>5. Override(s, old).listenPort = IF Has(s, "ListenPort") THEN OptInt(s, "ListenPort") ELSE old.listenPort
  BY <1>2 DEF Override
<1>6. Override(s, old).checkAlive = Value(s, "CheckAlive", old.checkAlive)
  BY <1>2 DEF Override
<1>7. Override(s, old).interval = Value(s, "CheckAliveInterval", old.interval)
  BY <1>2 DEF Override
<1> QED
  BY <1>3, <1>4, <1>5, <1>6, <1>7 DEF old

\* An imported device keeps its identity, and a field that differs from the
\* imported one is as the wrapper gives it.
LEMMA ImportedDevice ==
    ASSUME NEW f, NEW g, Importing(f, g)
    PROVE  KeepsImport(f, g, Device(f, g))
<1> DEFINE d == Device(f, g)
           old == Imported(externalPath(f, g))
           wrapper == OfType(connGroup(f, g), "interface")
<1>1. CASE wrapper = <<>>
  <2>1. d = old
    BY <1>1 DEF Device
  <2>2. KeepsImport(f, g, old)
    BY DEF KeepsImport
  <2> QED
    BY <2>1, <2>2, Zenon
<1>2. CASE wrapper # <<>>
  <2> DEFINE s == wrapper[1]
  <2>1. d = Override(s, old)
    BY <1>2, Zenon DEF Device
  <2>2. ASSUME NEW k, NEW v, Has(s, k), s.keys[k].v = v
        PROVE  WrapperGives(f, g, k, v)
    BY <1>2, <2>2, Zenon DEF WrapperGives
  <2>3. ASSUME NEW k, NEW v, NEW w, w = Value(s, k, v), w # v
        PROVE  WrapperGives(f, g, k, w)
    BY <2>2, <2>3, Zenon DEF Value
  <2>4. \A q, p : LET o == Imported(p)
                     e == Override(q, o)
                 IN  /\ e.key = o.key /\ e.addrs = o.addrs /\ e.peers = o.peers
                     /\ e.mtu = Value(q, "MTU", o.mtu) /\ e.dns = Value(q, "DNS", o.dns)
                     /\ e.listenPort = IF Has(q, "ListenPort") THEN OptInt(q, "ListenPort") ELSE o.listenPort
                     /\ e.checkAlive = Value(q, "CheckAlive", o.checkAlive)
                     /\ e.interval = Value(q, "CheckAliveInterval", o.interval)
    BY Overridden, Zenon
  <2>5. /\ d.key = old.key /\ d.addrs = old.addrs /\ d.peers = old.peers
        /\ d.mtu = Value(s, "MTU", old.mtu) /\ d.dns = Value(s, "DNS", old.dns)
        /\ d.listenPort = IF Has(s, "ListenPort") THEN OptInt(s, "ListenPort") ELSE old.listenPort
        /\ d.checkAlive = Value(s, "CheckAlive", old.checkAlive)
        /\ d.interval = Value(s, "CheckAliveInterval", old.interval)
    <3> HIDE DEF d, s
    <3> QED
      BY <2>1, <2>4, Zenon
  <2> HIDE DEF d, old, wrapper, s
  <2>6. ASSUME NEW n \in d.listenPort \ old.listenPort
        PROVE  WrapperGives(f, g, "ListenPort", n)
    <3>1. Has(s, "ListenPort") /\ n \in OptInt(s, "ListenPort")
      BY <2>5, <2>6
    <3>2. s.keys["ListenPort"].v = n
      BY <3>1 DEF OptInt
    <3> QED
      BY <2>2, <3>1, <3>2
  <2> QED
    BY <2>3, <2>5, <2>6, Zenon DEF KeepsImport, d, old
<1> QED
  BY <1>1, <1>2
=============================================================================
