------------------------------ MODULE MCCatalogue ------------------------------
(***************************************************************************)
(* Markers and schedules, stations, pins and pin groups for TLC.  They     *)
(* share no state that is modelled and call none of each other, so nothing *)
(* is lost when in each behaviour only one of them is at work.             *)
(***************************************************************************)
EXTENDS MarkerSchedule, Stations, TypePins, PinGroups, TLC

CONSTANTS m1, m2

AllUtc == [m \in Marker |-> "utc"]
CallerOps == AllOps \ AdminOps

VARIABLE part  \* which of them

catalogueVars == <<part, vars, stationVars, pinVars, groupVars>>

CatalogueInit ==
    /\ part \in {"markers", "stations", "pins", "groups"}
    /\ Init /\ StationInit /\ PinInit /\ GroupInit

\* Two requests overlap only while there is one line and one name of a map at
\* most, each of them looks up or makes one line at most, and no station or map
\* is excepted (bound).
Narrow ==
    \/ /\ \E l \in LineId : \A k \in LineId \ {l} : line[k] = NoLine
       /\ \E m \in StationMap : \A n \in StationMap \ {m} : mapRow[n] = "absent"
       /\ \A r \in StationRequest :
             \A n, k \in editing[r].todo \cup editing[r].made : n = k
       /\ torn = {} /\ stray = {}
    \/ \E r \in StationRequest : \A q \in StationRequest \ {r} : ~Busy(q)

CatalogueNext ==
    /\ UNCHANGED part
    /\ \/ part = "markers" /\ Next /\ UNCHANGED <<stationVars, pinVars, groupVars>>
       \/ part = "stations" /\ StationNext /\ Narrow' /\ UNCHANGED <<vars, pinVars, groupVars>>
       \/ part = "pins" /\ PinNext /\ UNCHANGED <<vars, stationVars, groupVars>>
       \/ part = "groups" /\ GroupNext /\ UNCHANGED <<vars, stationVars, pinVars>>

CatalogueSpec == CatalogueInit /\ [][CatalogueNext]_catalogueVars

\* Lines have the names of markers, and the names of lines are those of
\* schedules.  The requests of all but markers have the same names, and so have
\* the grouped pins, groups and names of groups.
Symmetry ==
    Permutations(StationRequest) \cup Permutations(LineId) \cup Permutations(LineName)

\* The types of all of them.
CatalogueTypesOK == TypeOK /\ StationTypeOK /\ PinTypeOK /\ GroupTypeOK

===============================================================================
