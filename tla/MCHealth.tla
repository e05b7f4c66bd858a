------------------------------ MODULE MCHealth ------------------------------
(* Health for TLC. *)
EXTENDS Health, TLC

CONSTANTS c1, c2, t1, t2, s1, s2

\* Two connections with one CheckAlive address each.
MCConnOf == t1 :> c1 @@ t2 :> c2

MCTwoInterval == c1 :> 2 @@ c2 :> 3

\* The shortest interval the configuration allows.
MCShortInterval == c1 :> 1 @@ c2 :> 1

\* Probes of the first overlap; every Dial to the second fails, so that its
\* record only ages.
MCSlots == t1 :> {s1, s2} @@ t2 :> {}
MCSymmetry == Permutations({s1, s2})

MCTwoSlots == t1 :> {s1} @@ t2 :> {s1}

\* One connection with one address.
MCOneConnOf == t1 :> c1
MCOneSlots == t1 :> {s1, s2}
MCOneInterval == c1 :> 1
=============================================================================
