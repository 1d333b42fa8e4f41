--------------------------- MODULE CacheContract ---------------------------
(***************************************************************************)
(* What a caller may rely on when it asks TtlCache::get_with or            *)
(* InFlight::run for a key: it is tied to ONE lookup of ITS key, which is   *)
(* still running or ended less than its time to live ago, and it receives   *)
(* that lookup's outcome.  Capacity, recency, entries and lookup numbers    *)
(* are the implementation's business.  TtlCache implements this contract    *)
(* as it stands; InFlight implements it with a time to live of zero.        *)
(***************************************************************************)
EXTENDS Integers

CONSTANTS
    Keys,       \* what can be looked up
    Callers,    \* the requests that call the cache
    Outcomes,   \* the outcomes of a lookup that the time to live tells apart
    Ttl,        \* time to live of each outcome, in clock ticks
    MaxInstant, \* the last instant the clock can represent
    LookupIds   \* names of lookups, zero apart, which stands for none

VARIABLES
    now,        \* the clock
    lookups,    \* every lookup ever started: its key, how and when it ended
    calls       \* the key each caller asked for and the lookup it waits for

vars == <<now, lookups, calls>>

Idle == [key |-> "no_key", id |-> 0]
Waiting(c) == calls[c].id # 0

(***************************************************************************)
(* A caller may be tied to a lookup that runs, or to an outcome whose time  *)
(* to live, counted from the END of the lookup, has not passed.  A time to  *)
(* live past the end of the clock never passes.  A zero time to live and a  *)
(* panic leave nothing to join.                                             *)
(***************************************************************************)
Fresh(task) ==
    \/ task.end = "running"
    \/ /\ task.end \in Outcomes
       /\ Ttl[task.end] > 0
       /\ \/ now < task.at + Ttl[task.end]
          \/ task.at + Ttl[task.end] > MaxInstant

Init ==
    /\ now = 0
    /\ lookups = [i \in {} |-> {}]
    /\ calls = [c \in Callers |-> Idle]

Join(c, k, id) ==
    /\ ~Waiting(c)
    /\ id \in DOMAIN lookups
    /\ lookups[id].key = k
    /\ Fresh(lookups[id])
    /\ calls' = [calls EXCEPT ![c] = [key |-> k, id |-> id]]
    /\ UNCHANGED <<now, lookups>>

Begin(c, k, id) ==
    /\ ~Waiting(c)
    /\ id \notin DOMAIN lookups
    /\ lookups' = [i \in DOMAIN lookups \cup {id} |->
                      IF i = id THEN [key |-> k, end |-> "running", at |-> 0] ELSE lookups[i]]
    /\ calls' = [calls EXCEPT ![c] = [key |-> k, id |-> id]]
    /\ UNCHANGED now

\* A lookup ends once, with an outcome or a panic, whoever still waits for it.
End(id, end) ==
    /\ id \in DOMAIN lookups
    /\ lookups[id].end = "running"
    /\ lookups' = [lookups EXCEPT ![id].end = end, ![id].at = now]
    /\ UNCHANGED <<now, calls>>

\* The caller has the outcome of the lookup it was tied to.
Answer(c) ==
    /\ Waiting(c)
    /\ lookups[calls[c].id].end # "running"
    /\ calls' = [calls EXCEPT ![c] = Idle]
    /\ UNCHANGED <<now, lookups>>

\* The caller's future is dropped while it waits.
Abandon(c) ==
    /\ Waiting(c)
    /\ calls' = [calls EXCEPT ![c] = Idle]
    /\ UNCHANGED <<now, lookups>>

TimePasses ==
    /\ now' = now + 1
    /\ UNCHANGED <<lookups, calls>>

Next ==
    \/ \E c \in Callers, k \in Keys, id \in LookupIds : Join(c, k, id) \/ Begin(c, k, id)
    \/ \E id \in LookupIds, end \in Outcomes \cup {"panicked"} : End(id, end)
    \/ \E c \in Callers : Answer(c) \/ Abandon(c)
    \/ TimePasses

Spec == Init /\ [][Next]_vars

=============================================================================
