---------------------------- MODULE MCGameLookup ----------------------------
(* GameLookup for TLC: two of the four lists, and outcomes that outlive the  *)
(* failures and the misses.                                                  *)
EXTENDS GameLookup

MCFeeds == <<"new", "monthly">>
MCSuccessTtl == [c \in Caches |-> IF c = "price" THEN 1 ELSE 2]
MCFailureTtl == [c \in Caches |-> 1]
=============================================================================
