----------------------------- MODULE MCQueryCache -----------------------------
(* Instances of QueryCache for TLC. *)
EXTENDS QueryCache, TLC

Symmetric == Permutations(Clients) \cup Permutations(Trees)
=============================================================================
