------------------------------- MODULE MCNotes -------------------------------
(***************************************************************************)
(* Markers and schedules, and release notes, for TLC.  They share no state *)
(* and call none of each other, so nothing is lost when in each behaviour  *)
(* only one of them is at work.                                            *)
(***************************************************************************)
EXTENDS MarkerSchedule, ReleaseNotes, TLC

AllUtc == [m \in Marker |-> "utc"]

\* 3.0.0-beta and 3.0.0-2: beta is the word with place 1.
Beta == [main |-> <<3, 0, 0>>, pre |-> <<[number |-> FALSE, v |-> 1]>>]
Two == [main |-> <<3, 0, 0>>, pre |-> <<[number |-> TRUE, v |-> 2]>>]
Versions == {Beta, Two}
Builds == {Beta}

VARIABLE part  \* which of them

allVars == <<part, vars, noteVars>>

RacesInit ==
    /\ part \in {"markers", "notes"}
    /\ Init /\ NoteInit
    /\ part = "notes" \/ note = [n \in Note |-> NoNote]

RacesNext ==
    /\ UNCHANGED part
    /\ \/ part = "markers" /\ Next /\ UNCHANGED noteVars
       \/ part = "notes" /\ NoteNext /\ UNCHANGED vars

RacesSpec == RacesInit /\ [][RacesNext]_allVars

\* The requests of both have the same names.
Symmetry == Permutations(NoteRequest) \cup Permutations(Schedule)

\* The types of both.
RaceTypesOK == TypeOK /\ NoteTypeOK

===============================================================================
