---------------------------- MODULE MarkerSchedule ----------------------------
(***************************************************************************)
(* Markers and the schedules that plan a visit to them                     *)
(* (service/marker.go, service/schedule.go, the resolvers of               *)
(* graph/schema.resolvers.go, the integration handlers of                  *)
(* service/api_key_http.go, service/admin_cleanup_http.go).                *)
(*                                                                         *)
(* A marker's status is derived from its schedules and kept by hand: every *)
(* operation that changes a schedule saves the marker as well.  A request  *)
(* reads rows, works on its copies, and saves whole rows; only some of the *)
(* requests save inside a transaction, and none locks what it reads.  A    *)
(* request is therefore two steps or more: what it reads, and the commit   *)
(* that writes.  Saving a row that was deleted meanwhile revives it or     *)
(* fails; saving one that was erased inserts it again (gorm's Save).       *)
(* All rows belong to one relation.                                        *)
(***************************************************************************)
EXTENDS Naturals, FiniteSets

CONSTANTS
    Marker,       \* ids of markers
    Schedule,     \* ids of schedules
    Process,      \* requests that may be open at a time
    NoMarker,     \* the marker of a movie schedule without one
    NoSchedule,
    Days,         \* dates are 1 .. Days, in local time
    Slot,         \* times of a day in use
    Zone,         \* the time zone a marker lies in
    Ops,          \* the operations callers use
    EditedFlags,  \* the flags of rows that edits change
    TestingFlag,  \* the values of the testing flag callers ask for
    MaxItems,     \* items of an overwrite (bound)
    Serial        \* no request starts before the last one has ended

CreateOps == {"CreateSchedule", "CreateMovieSchedule", "IntegrationCreateSchedule"}
SaveOps == {"EditMarker", "RemoveMarker", "IntegrationDeleteMarker",
            "UpdateMarkerFavourite", "RevokeMarker"}
RowOps == {"EditSchedule", "RemoveSchedule"}
AdminOps == {"DeleteMarker", "DeleteSchedule", "ClearTesting"}
\* Creation, and the operations that decide a marker's status.
PlanOps == CreateOps \cup {"CreateMarker", "RemoveMarker", "IntegrationDeleteMarker",
                           "RevokeMarker", "RemoveSchedule", "UpdateScheduleStatus"}
AllOps == CreateOps \cup SaveOps \cup RowOps \cup AdminOps
            \cup {"CreateMarker", "UpdateScheduleStatus", "Overwrite"}

ASSUME MarkerAssumption ==
    /\ NoMarker \notin Marker /\ NoSchedule \notin Schedule
    /\ Days \in Nat /\ MaxItems \in Nat
    /\ Slot \subseteq {"early", "noon", "late"}
    /\ Zone \in [Marker -> {"utc", "east", "west"}]
    /\ Ops \subseteq AllOps
    /\ EditedFlags \subseteq {"permanent", "testing"}
    /\ TestingFlag \subseteq BOOLEAN
    /\ Serial \in BOOLEAN

VARIABLES
    marker,    \* the table of markers
    schedule,  \* the table of schedules
    req        \* the request each process is in, with the copies it holds

vars == <<marker, schedule, req>>

\* "deleted" is a row with deleted_at set, "erased" one that is gone.
RowState == {"none", "live", "deleted", "erased"}
Stored == {"live", "deleted"}
MarkerStatus == {"", "scheduled", "arrived", "cancelled"}
ScheduleStatus == {"", "arrived", "cancelled"}
Day == 1 .. Days

MarkerRow == [state : RowState, status : MarkerStatus, permanent : BOOLEAN,
              favourite : BOOLEAN, testing : BOOLEAN]
ScheduleRow == [state : RowState, marker : Marker \cup {NoMarker}, day : 0 .. Days,
                utc : 0 .. Days + 1, status : ScheduleStatus, testing : BOOLEAN]
\* mrow and srow are the rows a request has read and not given up; dirty are the
\* markers among them that it saves.
Request == [op : AllOps \cup {"idle"}, m : Marker \cup {NoMarker},
            s : Schedule \cup {NoSchedule}, day : 0 .. Days,
            mrow : [Marker -> MarkerRow], dirty : SUBSET Marker,
            srow : [Schedule -> ScheduleRow]]

NoMarkerRow == [state |-> "none", status |-> "", permanent |-> FALSE,
                favourite |-> FALSE, testing |-> FALSE]
NoScheduleRow == [state |-> "none", marker |-> NoMarker, day |-> 0, utc |-> 0,
                  status |-> "", testing |-> FALSE]
NoRequest == [op |-> "idle", m |-> NoMarker, s |-> NoSchedule, day |-> 0,
              mrow |-> [m \in Marker |-> NoMarkerRow], dirty |-> {},
              srow |-> [s \in Schedule |-> NoScheduleRow]]

TypeOK ==
    /\ marker \in [Marker -> MarkerRow]
    /\ schedule \in [Schedule -> ScheduleRow]
    /\ req \in [Process -> Request]

Init ==
    /\ marker = [m \in Marker |-> NoMarkerRow]
    /\ schedule = [s \in Schedule |-> NoScheduleRow]
    /\ req = [p \in Process |-> NoRequest]

-------------------------------------------------------------------------------
(***************************************************************************)
(* Reading and saving rows.                                                *)
(***************************************************************************)

CanStart(p, op) ==
    /\ op \in Ops
    /\ req[p].op = "idle"
    /\ Serial => \A q \in Process : req[q].op = "idle"

Open(p, r) ==
    /\ req' = [req EXCEPT ![p] = r]
    /\ UNCHANGED <<marker, schedule>>

Close(p) == req' = [req EXCEPT ![p] = NoRequest]

Live(row) == row.state = "live"

\* A marker read through a schedule: there is none if the marker is deleted.
Preloaded(rows, m) ==
    IF m \in Marker /\ Live(rows[m]) THEN rows[m] ELSE NoMarkerRow

WithMarker(copies, rows, m) ==
    [k \in Marker |-> IF k = m THEN Preloaded(rows, m) ELSE copies[k]]

\* What is in the table of markers after a save: dirty copies replace their
\* rows, and a copy that hangs on a saved schedule is inserted if its row is gone.
Saved(rows, dirty) ==
    [m \in Marker |->
        IF m \in dirty \/ (Live(rows[m]) /\ marker[m].state = "erased")
        THEN rows[m] ELSE marker[m]]

\* A schedule that is saved refers to a row that exists (foreign key).
Commit(p, mrows, dirty, srows) ==
    /\ \A s \in Schedule :
          Live(srows[s]) /\ srows[s].marker \in Marker
            => Saved(mrows, dirty)[srows[s].marker].state \in Stored
    /\ marker' = Saved(mrows, dirty)
    /\ schedule' = [s \in Schedule |-> IF Live(srows[s]) THEN srows[s] ELSE schedule[s]]
    /\ Close(p)

\* A request ends without having written: a refusal, a database error that
\* rolls back its transaction, or a caller that goes away.
Fail(p) ==
    /\ req[p].op # "idle"
    /\ Close(p)
    /\ UNCHANGED <<marker, schedule>>

-------------------------------------------------------------------------------
(***************************************************************************)
(* Markers.                                                                *)
(***************************************************************************)

CreateMarker(p, m) ==
    /\ CanStart(p, "CreateMarker")
    /\ marker[m].state = "none"
    /\ \E permanent \in BOOLEAN, testing \in TestingFlag :
          marker' = [marker EXCEPT ![m] = [NoMarkerRow EXCEPT !.state = "live",
                        !.permanent = permanent, !.testing = testing]]
    /\ UNCHANGED <<schedule, req>>

\* What the handlers check of the marker they have read.
Accepts(op, row) ==
    /\ op = "RemoveMarker" => ~row.favourite
    /\ op = "CreateSchedule" => row.status # "cancelled"

ReadMarker(p, op, m) ==
    /\ op \in CreateOps \cup SaveOps /\ CanStart(p, op)
    /\ Live(marker[m]) /\ Accepts(op, marker[m])
    /\ Open(p, [NoRequest EXCEPT !.op = op, !.m = m, !.mrow[m] = marker[m]])

\* The copy, with some of its fields changed, is saved over the marker.
SaveMarker(p, row) ==
    Commit(p, [req[p].mrow EXCEPT ![req[p].m] = row], {req[p].m}, req[p].srow)

Copy(p) == req[p].mrow[req[p].m]

EditMarker(p) ==
    /\ req[p].op = "EditMarker"
    /\ \E permanent, testing \in BOOLEAN :
          /\ "permanent" \notin EditedFlags => permanent = Copy(p).permanent
          /\ "testing" \notin EditedFlags => testing = Copy(p).testing
          /\ SaveMarker(p, [Copy(p) EXCEPT !.permanent = permanent,
                                           !.testing = testing])

\* RemoveMarker and the integration's delete only mark the marker.
RemoveMarker(p) ==
    /\ req[p].op \in {"RemoveMarker", "IntegrationDeleteMarker"}
    /\ SaveMarker(p, [Copy(p) EXCEPT !.status = "cancelled"])

UpdateMarkerFavourite(p) ==
    /\ req[p].op = "UpdateMarkerFavourite"
    /\ \E favourite \in BOOLEAN :
          SaveMarker(p, [Copy(p) EXCEPT !.favourite = favourite])

RevokeMarker(p) ==
    /\ req[p].op = "RevokeMarker"
    /\ SaveMarker(p, [Copy(p) EXCEPT !.status = ""])

-------------------------------------------------------------------------------
(***************************************************************************)
(* Creating schedules.                                                     *)
(***************************************************************************)

\* The date in UTC of a time that is entered in the marker's zone.
UtcDay(zone, day, slot) ==
    CASE zone = "east" /\ slot = "early" -> day - 1
      [] zone = "west" /\ slot = "late" -> day + 1
      [] OTHER -> day

ZoneOf(m, row) == IF m \in Marker /\ Live(row) THEN Zone[m] ELSE "utc"

Planned(m, row, day, slot, testing) ==
    [state |-> "live", marker |-> m, day |-> day,
     utc |-> UtcDay(ZoneOf(m, row), day, slot), status |-> "", testing |-> testing]

\* A permanent marker is not put into the scheduled state.
Marked(row) == IF row.permanent THEN row ELSE [row EXCEPT !.status = "scheduled"]

TestingOf(op, row) ==
    CASE op = "CreateSchedule" -> {FALSE}
      [] op = "CreateMovieSchedule" -> {row.testing}
      [] op = "IntegrationCreateSchedule" -> {t \/ row.testing : t \in TestingFlag}

CreateSchedule(p, s) ==
    /\ req[p].op \in CreateOps
    /\ schedule[s].state = "none"
    /\ \E day \in Day, slot \in Slot, testing \in TestingOf(req[p].op, Copy(p)) :
          Commit(p, [req[p].mrow EXCEPT ![req[p].m] = Marked(Copy(p))],
                 IF Copy(p).permanent THEN {} ELSE {req[p].m},
                 [req[p].srow EXCEPT ![s] =
                     Planned(req[p].m, Copy(p), day, slot, testing)])

\* A movie schedule need not have a marker.
CreateMovieSchedule(p, s) ==
    /\ CanStart(p, "CreateMovieSchedule")
    /\ schedule[s].state = "none"
    /\ \E day \in Day, slot \in Slot :
          schedule' = [schedule EXCEPT ![s] =
                          Planned(NoMarker, NoMarkerRow, day, slot, FALSE)]
    /\ UNCHANGED <<marker, req>>

-------------------------------------------------------------------------------
(***************************************************************************)
(* Editing and removing schedules, and what became of them.                *)
(***************************************************************************)

ReadSchedule(p, op, s) ==
    /\ op \in RowOps /\ CanStart(p, op)
    /\ Live(schedule[s])
    /\ Open(p, [NoRequest EXCEPT !.op = op, !.s = s,
                  !.mrow = WithMarker(NoRequest.mrow, marker, schedule[s].marker),
                  !.srow[s] = schedule[s]])

Row(p) == req[p].srow[req[p].s]
RowMarker(p) ==
    IF Row(p).marker \in Marker THEN req[p].mrow[Row(p).marker] ELSE NoMarkerRow

\* The date may change; it is read in the zone of the marker that was loaded.
Moved(p, day, slot) ==
    [Row(p) EXCEPT !.day = day,
                   !.utc = UtcDay(ZoneOf(Row(p).marker, RowMarker(p)), day, slot)]

EditedRows(p) ==
    {Row(p)} \cup {Moved(p, at[1], at[2]) : at \in Day \X Slot}

EditSchedule(p) ==
    /\ req[p].op = "EditSchedule"
    /\ \E row \in EditedRows(p), testing \in BOOLEAN :
          /\ "testing" \notin EditedFlags => testing = row.testing
          /\ Commit(p, req[p].mrow, {},
                    [req[p].srow EXCEPT ![req[p].s] = [row EXCEPT !.testing = testing]])

\* Mistake: the marker stays as it is when its schedule is removed.
RemoveScheduleOnly(p) ==
    /\ req[p].op = "RemoveSchedule"
    /\ Live(schedule[req[p].s])
    /\ UNCHANGED marker
    /\ schedule' = [schedule EXCEPT ![req[p].s].state = "deleted"]
    /\ Close(p)

\* ResetMarkerBySchedule and RemoveSchedule, in one transaction; the schedule
\* is read again before it is deleted.
RemoveSchedule(p) ==
    /\ req[p].op = "RemoveSchedule"
    /\ Live(schedule[req[p].s])
    /\ marker' = [m \in Marker |->
                     IF m = Row(p).marker /\ Live(RowMarker(p))
                     THEN [RowMarker(p) EXCEPT !.status = ""] ELSE marker[m]]
    /\ schedule' = [schedule EXCEPT ![req[p].s].state = "deleted"]
    /\ Close(p)

\* UpdateScheduleStatus works through a list inside one transaction, which
\* sees its own writes: an entry is read, then written.
OwnMarkers(p) ==
    [m \in Marker |-> IF m \in req[p].dirty THEN req[p].mrow[m] ELSE marker[m]]
OwnSchedule(p, s) == IF Live(req[p].srow[s]) THEN req[p].srow[s] ELSE schedule[s]

ReadEntry(p, s) ==
    /\ \/ CanStart(p, "UpdateScheduleStatus")
       \/ req[p].op = "UpdateScheduleStatus" /\ req[p].s = NoSchedule
    /\ Live(OwnSchedule(p, s))
    /\ Open(p, [req[p] EXCEPT !.op = "UpdateScheduleStatus", !.s = s,
                  !.mrow = WithMarker(@, OwnMarkers(p), OwnSchedule(p, s).marker),
                  !.srow[s] = OwnSchedule(p, s)])

\* What a schedule's status makes of its marker.
StatusFor(status) ==
    CASE status = "arrived" -> "arrived"
      [] status = "cancelled" -> ""
      [] status = "" -> "scheduled"

Follows(p) == Live(RowMarker(p)) /\ ~RowMarker(p).permanent

WriteEntry(p, status) ==
    /\ req[p].op = "UpdateScheduleStatus" /\ req[p].s # NoSchedule
    /\ Open(p, [req[p] EXCEPT !.s = NoSchedule,
                  !.srow[req[p].s].status = status,
                  !.mrow = [m \in Marker |->
                      IF Follows(p) /\ m = Row(p).marker
                      THEN [RowMarker(p) EXCEPT !.status = StatusFor(status)]
                      ELSE req[p].mrow[m]],
                  !.dirty = @ \cup {m \in Marker : Follows(p) /\ m = Row(p).marker}])

UpdateScheduleStatus(p) ==
    /\ req[p].op = "UpdateScheduleStatus" /\ req[p].s = NoSchedule
    /\ Commit(p, req[p].mrow, req[p].dirty, req[p].srow)

-------------------------------------------------------------------------------
(***************************************************************************)
(* Overwriting a day through the integration API.                          *)
(***************************************************************************)

OnDay(day) == {s \in Schedule : Live(schedule[s]) /\ schedule[s].utc = day}

\* The markers of the day's schedules are read.
ListDay(p, day) ==
    /\ CanStart(p, "Overwrite")
    /\ LET listed == {schedule[s].marker : s \in OnDay(day)}
       IN  Open(p, [NoRequest EXCEPT !.op = "Overwrite", !.day = day,
                      !.mrow = [m \in Marker |->
                          IF m \in listed THEN Preloaded(marker, m) ELSE NoMarkerRow]])

\* Mistake: the markers of the replaced schedules keep their status.
ResetNothing(p) == marker

Reset(p) ==
    [m \in Marker |-> IF Live(req[p].mrow[m])
                      THEN [req[p].mrow[m] EXCEPT !.status = ""] ELSE marker[m]]

\* Mistake: schedules that are over are not replaced.
ReplacedPlanned(p) == {s \in OnDay(req[p].day) : schedule[s].status = ""}

Replaced(p) == OnDay(req[p].day)

Item == [marker : Marker, slot : Slot, testing : TestingFlag]

\* The markers are reset, the day's schedules deleted and the items planned,
\* all in one transaction; a bad item undoes it (Fail).
Overwrite(p) ==
    /\ req[p].op = "Overwrite"
    /\ \E ids \in SUBSET {s \in Schedule : schedule[s].state = "none"} :
       \E item \in [ids -> Item] :
          /\ Cardinality(ids) <= MaxItems
          /\ \A s \in ids : Live(Reset(p)[item[s].marker])
          /\ marker' = [m \in Marker |->
                IF \E s \in ids : item[s].marker = m
                THEN Marked(Reset(p)[m]) ELSE Reset(p)[m]]
          /\ schedule' = [s \in Schedule |->
                IF s \in ids
                THEN LET row == Reset(p)[item[s].marker]
                     IN  Planned(item[s].marker, row, req[p].day, item[s].slot,
                                 item[s].testing \/ row.testing)
                ELSE IF s \in Replaced(p)
                     THEN [schedule[s] EXCEPT !.state = "deleted"]
                     ELSE schedule[s]]
    /\ Close(p)

-------------------------------------------------------------------------------
(***************************************************************************)
(* Cleaning up as an administrator.                                        *)
(***************************************************************************)

\* Mistake: only the schedules that are still planned are counted.
CountedPlanned(m) ==
    {s \in Schedule : Live(schedule[s]) /\ schedule[s].marker = m /\ schedule[s].status = ""}

Counted(m) == {s \in Schedule : Live(schedule[s]) /\ schedule[s].marker = m}

\* The schedules of a marker are counted, then the marker is deleted.
ValidateDeletion(p, m) ==
    /\ CanStart(p, "DeleteMarker")
    /\ Live(marker[m])
    /\ Counted(m) = {}
    /\ Open(p, [NoRequest EXCEPT !.op = "DeleteMarker", !.m = m])

DeleteMarker(p) ==
    /\ req[p].op = "DeleteMarker"
    /\ marker' = [marker EXCEPT ![req[p].m].state = IF @ = "live" THEN "deleted" ELSE @]
    /\ Close(p)
    /\ UNCHANGED schedule

DeleteSchedule(p, s) ==
    /\ CanStart(p, "DeleteSchedule")
    /\ Live(schedule[s])
    /\ schedule' = [schedule EXCEPT ![s].state = "deleted"]
    /\ UNCHANGED <<marker, req>>

ForTesting(row) == row.state \in Stored /\ row.testing

\* All testing rows are erased, unless a row that stays refers to one of them.
ClearTesting(p) ==
    /\ CanStart(p, "ClearTesting")
    /\ \A s \in Schedule :
          schedule[s].state \in Stored /\ ~schedule[s].testing
            /\ schedule[s].marker \in Marker
            => ~ForTesting(marker[schedule[s].marker])
    /\ schedule' = [s \in Schedule |->
          IF ForTesting(schedule[s]) THEN [schedule[s] EXCEPT !.state = "erased"]
                                     ELSE schedule[s]]
    /\ marker' = [m \in Marker |->
          IF ForTesting(marker[m]) THEN [marker[m] EXCEPT !.state = "erased"]
                                   ELSE marker[m]]
    /\ UNCHANGED req

-------------------------------------------------------------------------------

MarkerStep(p) ==
    \/ \E m \in Marker : CreateMarker(p, m)
    \/ \E m \in Marker, op \in AllOps : ReadMarker(p, op, m)
    \/ EditMarker(p)
    \/ RemoveMarker(p)
    \/ UpdateMarkerFavourite(p)
    \/ RevokeMarker(p)

ScheduleStep(p) ==
    \/ \E s \in Schedule : CreateSchedule(p, s)
    \/ \E s \in Schedule : CreateMovieSchedule(p, s)
    \/ \E s \in Schedule, op \in AllOps : ReadSchedule(p, op, s)
    \/ EditSchedule(p)
    \/ RemoveSchedule(p)
    \/ \E s \in Schedule : ReadEntry(p, s)
    \/ \E status \in ScheduleStatus : WriteEntry(p, status)
    \/ UpdateScheduleStatus(p)
    \/ \E day \in Day : ListDay(p, day)
    \/ Overwrite(p)

AdminStep(p) ==
    \/ \E m \in Marker : ValidateDeletion(p, m)
    \/ DeleteMarker(p)
    \/ \E s \in Schedule : DeleteSchedule(p, s)
    \/ ClearTesting(p)

Next ==
    \E p \in Process : MarkerStep(p) \/ ScheduleStep(p) \/ AdminStep(p) \/ Fail(p)

Spec == Init /\ [][Next]_vars

-------------------------------------------------------------------------------
(***************************************************************************)
(* Properties.                                                             *)
(***************************************************************************)

Shown == {"scheduled", "arrived"}
Witness(of, status) ==
    (status = "scheduled" /\ of = "") \/ (status = "arrived" /\ of = "arrived")

\* A marker shown as scheduled has a schedule that is still planned, and one
\* shown as arrived a schedule that says so: "update schedule status, will also
\* update marker status", "remove schedule and revoke the related marker"
\* (graph/schema.resolvers.go).
StatusHasSchedule ==
    \A m \in Marker :
        Live(marker[m]) /\ marker[m].status \in Shown
          => \E s \in Schedule :
                Live(schedule[s]) /\ schedule[s].marker = m
                  /\ Witness(schedule[s].status, marker[m].status)

\* No operation on schedules marks a permanent marker: whatever is planned or
\* visited there, it stays open (the notes of 29/11/2021 in service/schedule.go).
PermanentIsOpen ==
    \A m \in Marker :
        Live(marker[m]) /\ marker[m].permanent
          => marker[m].status \in {"", "cancelled"}

\* Every schedule refers to a marker that can still be shown: removal only
\* cancels a marker, and an administrator deletes a marker after its schedules.
PlannedHasMarker ==
    \A s \in Schedule :
        Live(schedule[s]) /\ schedule[s].marker \in Marker
          => Live(marker[schedule[s].marker])

\* After an overwrite the only schedules on its date are those it has created,
\* whatever was there before.
OverwriteReplaces ==
    [][\A p \in Process :
         req[p].op = "Overwrite" /\ schedule' # schedule /\ req'[p].op = "idle"
           => \A s \in Schedule :
                 Live(schedule'[s]) /\ schedule'[s].day = req[p].day
                   => schedule[s].state = "none"]_vars

-------------------------------------------------------------------------------
(***************************************************************************)
(* Inductive invariants.                                                   *)
(***************************************************************************)

\* The copies a request of each kind holds.
Holds(r) ==
    /\ r.op \in Ops \cup {"idle"}
    /\ r.op = "idle" => r = NoRequest
    /\ r.op \in CreateOps \cup SaveOps =>
          /\ r.m \in Marker /\ Live(r.mrow[r.m])
          /\ \A s \in Schedule : ~Live(r.srow[s])
    /\ r.op \in RowOps => r.s \in Schedule /\ Live(r.srow[r.s])
    /\ r.op = "UpdateScheduleStatus" /\ r.s \in Schedule => Live(r.srow[r.s])
    /\ \A m \in r.dirty : Live(r.mrow[m])
    /\ r.op = "DeleteMarker" => r.m \in Marker
    /\ r.op = "Overwrite" => r.day \in Day

Copies == \A p \in Process : Holds(req[p])

\* What a list of status updates has worked through is consistent in itself:
\* it saves the marker with the schedule, and a schedule for each shown marker.
ListConsistent(r) ==
    /\ \A s \in Schedule :
          Live(r.srow[s]) /\ s # r.s /\ r.srow[s].marker \in Marker
            => r.srow[s].marker \in r.dirty \/ marker[r.srow[s].marker].permanent
    /\ \A m \in r.dirty :
          /\ ~r.mrow[m].permanent
          /\ r.mrow[m].status \in Shown =>
                \E s \in Schedule :
                   Live(r.srow[s]) /\ r.srow[s].marker = m
                     /\ Witness(r.srow[s].status, r.mrow[m].status)

\* While only PlanOps are used a copy may be stale in its status only.
PlanHolds(r) ==
    /\ \A m \in Marker : Live(r.mrow[m]) =>
          Live(marker[m]) /\ marker[m].permanent = r.mrow[m].permanent
    /\ \A s \in Schedule : Live(r.srow[s]) =>
          /\ schedule[s].state # "none"
          /\ schedule[s].marker = r.srow[s].marker
          /\ r.s = s /\ r.srow[s].marker \in Marker => Live(r.mrow[r.srow[s].marker])
    /\ r.op = "UpdateScheduleStatus" => ListConsistent(r)

PlanTables ==
    /\ \A m \in Marker : marker[m].state \in {"none", "live"}
    /\ \A s \in Schedule :
          schedule[s].state # "none" /\ schedule[s].marker \in Marker
            => Live(marker[schedule[s].marker])
    /\ PermanentIsOpen
    /\ StatusHasSchedule

PlanInv == Copies /\ PlanTables /\ \A p \in Process : PlanHolds(req[p])

\* One request at a time: what it has read is still so when it saves.
Fresh ==
    /\ \A p, q \in Process : req[p].op # "idle" /\ req[q].op # "idle" => p = q
    /\ \A p \in Process :
          /\ req[p].op \in CreateOps => Live(marker[req[p].m])
          /\ req[p].op = "DeleteMarker" =>
                \A s \in Schedule : Live(schedule[s]) => schedule[s].marker # req[p].m
          /\ \A s \in Schedule : Live(req[p].srow[s]) =>
                Live(schedule[s]) /\ schedule[s].marker = req[p].srow[s].marker

FreshInv == Copies /\ Fresh /\ PlannedHasMarker

\* Where every marker lies in UTC the two dates of a schedule are the same.
SameDate ==
    \A s \in Schedule :
        /\ schedule[s].utc = schedule[s].day
        /\ \A p \in Process : req[p].srow[s].utc = req[p].srow[s].day

===============================================================================
