----------------------------- MODULE MCUDPProxy -----------------------------
(* UDPProxy for TLC. *)
EXTENDS UDPProxy, TLC

\* Clients and session objects are interchangeable: sound for the runs that
\* check invariants and step properties only.
Symmetry == Permutations(Clients) \union Permutations(Sess)
=============================================================================
