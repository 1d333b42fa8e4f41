---------------------------- MODULE ReleaseSplit ----------------------------
(***************************************************************************)
(* The two release windows of the server (domain/listing.rs) and the split  *)
(* of the client (releaseDay.ts), as functions of a release date.           *)
(***************************************************************************)
EXTENDS Integers

CONSTANTS
    MaxLocalDay, \* MAX_LOCAL_DAY_MS: the longest time to the next local midnight
    Margin,      \* CLIENT_CLOCK_MARGIN_MS
    NoDate       \* a date that does not parse

ASSUME SplitAssumption == MaxLocalDay \in Nat /\ Margin \in Nat /\ NoDate \notin Int

\* in_new_window and in_upcoming_window, on the server's clock.
InNewWindow(date, now) == date # NoDate /\ date < now + MaxLocalDay + Margin
InUpcomingWindowWithoutMargin(date, now) == date = NoDate \/ date >= now + MaxLocalDay
InUpcomingWindow(date, now) == date = NoDate \/ date >= now - Margin
InWindow(view, date, now) ==
    IF view = "new" THEN InNewWindow(date, now) ELSE InUpcomingWindow(date, now)

\* splitByReleaseDay, with the start of the viewer's next local day.
BeforeBoundary(date, boundary) == date # NoDate /\ date < boundary
InView(view, date, boundary) ==
    IF view = "new" THEN BeforeBoundary(date, boundary) ELSE ~BeforeBoundary(date, boundary)
=============================================================================
