----------------------------- MODULE MCTtlCache -----------------------------
(* TtlCache for TLC: an outcome that lives one tick, one that is kept out of *)
(* the cache, and one whose time to live runs past the end of the clock.     *)
EXTENDS TtlCache, TLC

MCTtl == [o \in Outcomes |-> CASE o = "ok" -> 1 [] o = "uncached" -> 0 [] o = "forever" -> 9]

Symmetry == Permutations(Keys) \cup Permutations(Callers)
=============================================================================
