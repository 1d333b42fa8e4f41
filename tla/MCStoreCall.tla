----------------------------- MODULE MCStoreCall -----------------------------
(* Two retries, so that an attempt in the middle of a call is reached, and   *)
(* bodies of every kind that the adapter tells apart.                        *)
EXTENDS StoreCall

Body(errors, node, kept, dropped) ==
    [json |-> TRUE, errors |-> errors, node |-> node, kept |-> kept, dropped |-> dropped]

MCBodies ==
    { Body({}, "ok", 2, 0), Body({}, "ok", 1, 1), Body({}, "ok", 0, 0), Body({}, "ok", 0, 2),
      Body({"5xx"}, "ok", 1, 0), Body({"5xx"}, "null", 0, 0), Body({"404"}, "null", 0, 0),
      Body({"rotated"}, "null", 0, 0), Body({"rotated", "5xx"}, "null", 0, 0),
      Body({"rotated", "malformed"}, "null", 0, 0), Body({}, "malformed", 0, 0),
      [Body({}, "null", 0, 0) EXCEPT !.json = FALSE] }

MCRetryAfters == {-1, 0, 9}
=============================================================================
