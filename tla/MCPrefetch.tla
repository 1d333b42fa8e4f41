----------------------------- MODULE MCPrefetch -----------------------------
(* One anonymous tab and the two signed-in ones, and two accounts at the browser. *)
EXTENDS Prefetch, TLC

CONSTANTS a, b

MCOrder == <<"upcoming", "wishlist", "purchased">>
MCSignedInTabs == {"wishlist", "purchased"}
MCAccounts == {a, b}
Symmetry == Permutations(MCAccounts)
=============================================================================
