--------------------------- MODULE MCReleaseLists ---------------------------
(* ReleaseLists for TLC: days of two hours, a margin of one, and the dates   *)
(* around both windows.                                                      *)
EXTENDS ReleaseLists

MCDates == {-1, 0, 2}
MCCalendars == {{-2, 0, 2, 4, 6}, {-1, 1, 3, 5}}
MCSkews == {-1, 0, 1}
=============================================================================
