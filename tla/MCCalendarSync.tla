---------------------------- MODULE MCCalendarSync ----------------------------
(***************************************************************************)
(* Instances of CalendarSync for TLC.                                      *)
(***************************************************************************)
EXTENDS CalendarSync, TLC


Symmetry == Permutations(Request) \cup Permutations(Event)

===============================================================================
