-------------------------- MODULE MCMarkerSchedule --------------------------
(***************************************************************************)
(* Instances of MarkerSchedule for TLC.                                    *)
(***************************************************************************)
EXTENDS MarkerSchedule, TLC

CONSTANTS m1, m2

AllUtc == [m \in Marker |-> "utc"]
OneEast == [m \in Marker |-> IF m = m1 THEN "east" ELSE "utc"]

\* All that users and integrations do.
CallerOps == AllOps \ AdminOps
DeleteOps == {"CreateMarker", "CreateSchedule", "DeleteMarker"}
OverwriteOps == {"CreateMarker", "Overwrite"}

Symmetry == Permutations(Schedule) \cup Permutations(Process)

===============================================================================
