--------------------------- MODULE BoundedLookups ---------------------------
(***************************************************************************)
(* crates/server/src/application/bounded.rs: in_order_bounded, the way in   *)
(* which a page, a list or the wishlist looks its items up: at most `limit` *)
(* lookups at once, started in the order of the items, finished in any      *)
(* order, answered in the order of the items.                               *)
(*                                                                          *)
(* A pool is the state of one such stream: the number of items, how many of *)
(* them have been started, and the outputs in the order they came in.       *)
(***************************************************************************)
EXTENDS Integers, Sequences

Least(m, n) == IF m < n THEN m ELSE n

\* All at once.
NewPoolUnbounded(size, limit) == [size |-> size, started |-> size, done |-> <<>>]
NewPool(size, limit) == [size |-> size, started |-> Least(size, limit), done |-> <<>>]

Finished(pool) == {pool.done[k].item : k \in DOMAIN pool.done}
Unfinished(pool) == 1..pool.started \ Finished(pool)
IsComplete(pool) == Finished(pool) = 1..pool.size

\* What `buffered` counts: outputs that wait behind an earlier lookup keep a slot.
FinishedFront(items, size) == CHOOSE n \in 0..size : 1..n \subseteq items /\ n + 1 \notin items
FinishBuffered(pool, item, output, limit) ==
    LET done == Append(pool.done, [item |-> item, output |-> output])
    IN  [pool EXCEPT !.done = done,
                     !.started = Least(pool.size, FinishedFront(Finished([done |-> done]), pool.size) + limit)]

\* A finished lookup frees its slot at once, for the next item in order.
Finish(pool, item, output, limit) ==
    LET done == Append(pool.done, [item |-> item, output |-> output])
    IN  [pool EXCEPT !.done = done, !.started = Least(pool.size, Len(done) + limit)]

\* The outputs as they came in.
OutputsUnsorted(pool) == [i \in 1..pool.size |-> pool.done[i].output]

\* sort_by_key: the output of each item, in the order of the items.
Outputs(pool) ==
    [i \in 1..pool.size |->
        LET k == CHOOSE k \in DOMAIN pool.done : pool.done[k].item = i
        IN  pool.done[k].output]

=============================================================================
