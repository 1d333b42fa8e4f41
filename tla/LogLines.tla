------------------------------ MODULE LogLines ------------------------------
(***************************************************************************)
(* The log layer of observability.rs.  An event is written as one line with *)
(* its own fields and those of every span around it; a field that is not on *)
(* the allowlist leaves only its name, and an event of another crate, or    *)
(* below the level info, is not written.                                    *)
(*                                                                          *)
(* A set of fields is a function from names to values; an event is a record *)
(* [target, level, values].                                                 *)
(***************************************************************************)
EXTENDS FiniteSets, SequencesExt

AllowedFields == {
    "message", "request_id", "route", "method", "status", "elapsed_ms", "reason", "operation", "feature",
    "stage", "bind", "panic_location", "count", "entries", "priced", "dropped", "kept", "event", "failed",
    "out_of_scope"}

NoFields == [kept |-> << >>, dropped |-> {}]

\* The values of f, and those of g under the other names.
Over(f, g) == [x \in DOMAIN f \cup DOMAIN g |-> IF x \in DOMAIN f THEN f[x] ELSE g[x]]

\* record, put: later values replace earlier ones.
Record(fields, values) == [
    kept |-> Over(Restrict(values, DOMAIN values \cap AllowedFields), fields.kept),
    dropped |-> fields.dropped \cup (DOMAIN values \ AllowedFields)]

Merge(outer, inner) == [kept |-> Over(inner.kept, outer.kept), dropped |-> outer.dropped \cup inner.dropped]

IsOwn(event) == event.target = "psstore_server"
IsWritten(event) == IsOwn(event) /\ event.level \in {"info", "warn", "error"}

\* on_event: the spans from the root to the innermost one, then the event.
LineOf(scope, event) == Record(FoldLeft(Merge, NoFields, scope), event.values)

Event(level, values) == [target |-> "psstore_server", level |-> level, values |-> values]
=============================================================================
