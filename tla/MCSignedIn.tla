----------------------------- MODULE MCSignedIn -----------------------------
(* SignedIn for TLC: an account whose library fits the page cap exactly, and *)
(* one whose library is a page too large.                                    *)
EXTENDS SignedIn, TLC

CONSTANTS fits, tooLarge

MCNpssos == {fits, tooLarge}
MCFullPages == (fits :> 1) @@ (tooLarge :> 2)

Symmetry == Permutations(Requests)
=============================================================================
