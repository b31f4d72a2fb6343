------------------------ MODULE MarkerScheduleProofs ------------------------
(***************************************************************************)
(* Proofs about MarkerSchedule, for all sets of markers, schedules and     *)
(* requests, all dates and all choices of operations.                      *)
(***************************************************************************)
EXTENDS MarkerSchedule, TLAPS

USE MarkerAssumption

-------------------------------------------------------------------------------
(***************************************************************************)
(* Rows and requests.                                                      *)
(***************************************************************************)

LEMMA BlanksTyped ==
    /\ NoMarkerRow \in MarkerRow
    /\ NoScheduleRow \in ScheduleRow
    /\ NoRequest \in Request
    /\ Holds(NoRequest)
BY DEF NoMarkerRow, MarkerRow, NoScheduleRow, ScheduleRow, NoRequest, Request, RowState,
       MarkerStatus, ScheduleStatus, Holds, CreateOps, SaveOps, RowOps

LEMMA NotLive == ~Live(NoMarkerRow) /\ ~Live(NoScheduleRow)
BY DEF Live, NoMarkerRow, NoScheduleRow

\* A request keeps the types if its step writes well-typed rows and leaves it
\* with a well-typed request.
LEMMA RequestTyped ==
    ASSUME TypeOK, NEW p \in Process, NEW r \in Request,
           req' = [req EXCEPT ![p] = r],
           marker' \in [Marker -> MarkerRow], schedule' \in [Schedule -> ScheduleRow]
    PROVE  TypeOK'
BY DEF TypeOK

LEMMA RequestHolds ==
    ASSUME TypeOK, Copies, NEW p \in Process, NEW r, Holds(r),
           req' = [req EXCEPT ![p] = r]
    PROVE  Copies'
BY DEF TypeOK, Copies

LEMMA OpenTyped ==
    ASSUME TypeOK, Copies, NEW p \in Process, NEW r \in Request, Holds(r), Open(p, r)
    PROVE  TypeOK' /\ Copies'
<1>1. TypeOK'
  BY DEF Open, TypeOK
<1> QED
  BY <1>1, RequestHolds DEF Open

LEMMA CloseHolds ==
    ASSUME TypeOK, Copies, NEW p \in Process, Close(p)
    PROVE  Copies' /\ req' \in [Process -> Request]
BY RequestHolds, BlanksTyped DEF Close, TypeOK

LEMMA UtcDayTyped ==
    ASSUME NEW zone, NEW slot, NEW day \in Day
    PROVE  UtcDay(zone, day, slot) \in 0 .. Days + 1
BY DEF UtcDay, Day

LEMMA PlannedTyped ==
    ASSUME NEW m \in Marker \cup {NoMarker}, NEW row, NEW day \in Day, NEW slot,
           NEW testing \in BOOLEAN
    PROVE  /\ Planned(m, row, day, slot, testing) \in ScheduleRow
           /\ Live(Planned(m, row, day, slot, testing))
           /\ Planned(m, row, day, slot, testing).marker = m
           /\ Planned(m, row, day, slot, testing).status = ""
<1>1. UtcDay(ZoneOf(m, row), day, slot) \in 0 .. Days + 1
  BY DEF UtcDay, Day
<1> QED
  BY <1>1 DEF Planned, ScheduleRow, RowState, ScheduleStatus, Live, Day

LEMMA MarkedTyped ==
    ASSUME NEW row \in MarkerRow
    PROVE  /\ Marked(row) \in MarkerRow
           /\ Marked(row).permanent = row.permanent
           /\ Marked(row).state = row.state
           /\ ~row.permanent => Marked(row).status = "scheduled"
BY DEF Marked, MarkerRow, MarkerStatus

LEMMA CommitTyped ==
    ASSUME TypeOK, Copies, NEW p \in Process, NEW mrows \in [Marker -> MarkerRow],
           NEW dirty \in SUBSET Marker, NEW srows \in [Schedule -> ScheduleRow],
           Commit(p, mrows, dirty, srows)
    PROVE  TypeOK' /\ Copies'
<1>1. marker' \in [Marker -> MarkerRow] /\ schedule' \in [Schedule -> ScheduleRow]
  BY DEF Commit, Saved, TypeOK
<1> QED
  BY <1>1, CloseHolds DEF Commit, TypeOK

LEMMA WithMarkerTyped ==
    ASSUME NEW copies \in [Marker -> MarkerRow], NEW rows \in [Marker -> MarkerRow], NEW m
    PROVE  WithMarker(copies, rows, m) \in [Marker -> MarkerRow]
BY BlanksTyped DEF WithMarker, Preloaded

LEMMA TestingOfTyped ==
    ASSUME NEW op \in CreateOps, NEW row \in MarkerRow
    PROVE  TestingOf(op, row) \subseteq BOOLEAN
BY DEF TestingOf, CreateOps, MarkerRow

LEMMA ResetTyped ==
    ASSUME TypeOK, NEW p \in Process
    PROVE  Reset(p) \in [Marker -> MarkerRow]
<1>1. \A m \in Marker : req[p].mrow[m] \in MarkerRow
  BY DEF TypeOK, Request
<1>2. \A row \in MarkerRow : [row EXCEPT !.status = ""] \in MarkerRow
  BY DEF MarkerRow, MarkerStatus
<1> QED
  BY <1>1, <1>2 DEF Reset, TypeOK

LEMMA EditedRowsTyped ==
    ASSUME NEW p \in Process, Row(p) \in ScheduleRow, NEW row \in EditedRows(p)
    PROVE  /\ row \in ScheduleRow
           /\ row.state = Row(p).state /\ row.marker = Row(p).marker
           /\ row.status = Row(p).status
<1>1. CASE row = Row(p)
  BY <1>1
<1>2. ASSUME NEW day \in Day, NEW slot \in Slot, row = Moved(p, day, slot)
      PROVE  /\ row \in ScheduleRow
             /\ row.state = Row(p).state /\ row.marker = Row(p).marker
             /\ row.status = Row(p).status
  <2> DEFINE utc == UtcDay(ZoneOf(Row(p).marker, RowMarker(p)), day, slot)
  <2>1. day \in 0 .. Days
    BY DEF Day
  <2>2. utc \in 0 .. Days + 1
    BY UtcDayTyped
  <2>3. row = [Row(p) EXCEPT !.day = day, !.utc = utc]
    BY <1>2 DEF Moved
  <2> HIDE DEF utc
  <2> QED
    BY <2>1, <2>2, <2>3 DEF ScheduleRow
<1> QED
  BY <1>1, <1>2 DEF EditedRows

-------------------------------------------------------------------------------
(***************************************************************************)
(* Type correctness, together with what the requests hold.                 *)
(***************************************************************************)

LEMMA MarkerStepTyped ==
    ASSUME TypeOK, Copies, NEW p \in Process, MarkerStep(p)
    PROVE  TypeOK' /\ Copies'
<1>r. req[p] \in Request /\ Holds(req[p])
  BY DEF TypeOK, Copies
<1>f. /\ req[p].mrow \in [Marker -> MarkerRow]
      /\ req[p].srow \in [Schedule -> ScheduleRow]
  BY <1>r DEF Request
<1>s. ASSUME NEW row \in MarkerRow, SaveMarker(p, row), req[p].op \in SaveOps
      PROVE  TypeOK' /\ Copies'
  <2>1. req[p].m \in Marker
    BY <1>r, <1>s DEF Holds
  <2>2. [req[p].mrow EXCEPT ![req[p].m] = row] \in [Marker -> MarkerRow]
    BY <1>f, <1>s
  <2> QED
    BY <2>1, <2>2, <1>s, <1>f, CommitTyped DEF SaveMarker
<1>c. req[p].op \in SaveOps => Copy(p) \in MarkerRow
  BY <1>r, <1>f DEF Copy, Holds
<1>1. ASSUME NEW m \in Marker, CreateMarker(p, m)
      PROVE  TypeOK' /\ Copies'
  <2>1. \A permanent \in BOOLEAN, testing \in TestingFlag :
           [NoMarkerRow EXCEPT !.state = "live", !.permanent = permanent,
                               !.testing = testing] \in MarkerRow
    BY DEF NoMarkerRow, MarkerRow, RowState, MarkerStatus
  <2>3. PICK row \in MarkerRow : marker' = [marker EXCEPT ![m] = row]
    BY <1>1, <2>1 DEF CreateMarker
  <2>2. marker' \in [Marker -> MarkerRow]
    BY <2>3 DEF TypeOK
  <2> QED
    BY <1>1, <2>2 DEF CreateMarker, TypeOK, Copies
<1>2. ASSUME NEW m \in Marker, NEW op \in AllOps, ReadMarker(p, op, m)
      PROVE  TypeOK' /\ Copies'
  <2> DEFINE r == [NoRequest EXCEPT !.op = op, !.m = m, !.mrow[m] = marker[m]]
  <2>1. marker[m] \in MarkerRow /\ Live(marker[m])
    BY <1>2 DEF ReadMarker, TypeOK
  <2>2. r \in Request
    BY <2>1, BlanksTyped DEF Request
  <2>3. r.op = op /\ r.m = m /\ r.mrow[m] = marker[m] /\ r.dirty = {}
          /\ \A s \in Schedule : r.srow[s] = NoScheduleRow
    BY DEF NoRequest
  <2>4. Holds(r)
    BY <1>2, <2>1, <2>3, NotLive
       DEF Holds, ReadMarker, CanStart, CreateOps, SaveOps, RowOps
  <2> QED
    BY <1>2, <2>2, <2>4, OpenTyped DEF ReadMarker
<1>3. ASSUME EditMarker(p) PROVE TypeOK' /\ Copies'
  <2>1. req[p].op \in SaveOps
    BY <1>3 DEF EditMarker, SaveOps
  <2>2. PICK permanent, testing \in BOOLEAN :
           SaveMarker(p, [Copy(p) EXCEPT !.permanent = permanent, !.testing = testing])
    BY <1>3 DEF EditMarker
  <2>3. [Copy(p) EXCEPT !.permanent = permanent, !.testing = testing] \in MarkerRow
    BY <2>1, <1>c DEF MarkerRow
  <2> QED
    BY <2>1, <2>2, <2>3, <1>s
<1>4. ASSUME RemoveMarker(p) PROVE TypeOK' /\ Copies'
  <2>1. req[p].op \in SaveOps
    BY <1>4 DEF RemoveMarker, SaveOps
  <2>3. [Copy(p) EXCEPT !.status = "cancelled"] \in MarkerRow
    BY <2>1, <1>c DEF MarkerRow, MarkerStatus
  <2> QED
    BY <2>1, <2>3, <1>s, <1>4 DEF RemoveMarker
<1>5. ASSUME UpdateMarkerFavourite(p) PROVE TypeOK' /\ Copies'
  <2>1. req[p].op \in SaveOps
    BY <1>5 DEF UpdateMarkerFavourite, SaveOps
  <2>3. \A favourite \in BOOLEAN : [Copy(p) EXCEPT !.favourite = favourite] \in MarkerRow
    BY <2>1, <1>c DEF MarkerRow
  <2> QED
    BY <2>1, <2>3, <1>s, <1>5 DEF UpdateMarkerFavourite
<1>6. ASSUME RevokeMarker(p) PROVE TypeOK' /\ Copies'
  <2>1. req[p].op \in SaveOps
    BY <1>6 DEF RevokeMarker, SaveOps
  <2>3. [Copy(p) EXCEPT !.status = ""] \in MarkerRow
    BY <2>1, <1>c DEF MarkerRow, MarkerStatus
  <2> QED
    BY <2>1, <2>3, <1>s, <1>6 DEF RevokeMarker
<1> QED
  BY <1>1, <1>2, <1>3, <1>4, <1>5, <1>6 DEF MarkerStep

LEMMA ScheduleStepTyped ==
    ASSUME TypeOK, Copies, NEW p \in Process, ScheduleStep(p)
    PROVE  TypeOK' /\ Copies'
<1>r. req[p] \in Request /\ Holds(req[p])
  BY DEF TypeOK, Copies
<1>f. /\ req[p].mrow \in [Marker -> MarkerRow]
      /\ req[p].srow \in [Schedule -> ScheduleRow]
      /\ req[p].dirty \in SUBSET Marker
  BY <1>r DEF Request
<1>m. RowMarker(p) \in MarkerRow
  BY <1>f, BlanksTyped DEF RowMarker
<1>1. ASSUME NEW s \in Schedule, CreateSchedule(p, s)
      PROVE  TypeOK' /\ Copies'
  <2>1. req[p].op \in CreateOps /\ req[p].m \in Marker /\ Copy(p) \in MarkerRow
    BY <1>1, <1>r, <1>f DEF CreateSchedule, Holds, Copy
  <2>2. PICK day \in Day, slot \in Slot, testing \in TestingOf(req[p].op, Copy(p)) :
          Commit(p, [req[p].mrow EXCEPT ![req[p].m] = Marked(Copy(p))],
                 IF Copy(p).permanent THEN {} ELSE {req[p].m},
                 [req[p].srow EXCEPT ![s] =
                     Planned(req[p].m, Copy(p), day, slot, testing)])
    BY <1>1 DEF CreateSchedule
  <2>7. testing \in BOOLEAN
    BY <2>1, <2>2, TestingOfTyped
  <2>3. Planned(req[p].m, Copy(p), day, slot, testing) \in ScheduleRow
    BY <2>1, <2>7, PlannedTyped
  <2>4. [req[p].mrow EXCEPT ![req[p].m] = Marked(Copy(p))] \in [Marker -> MarkerRow]
    BY <2>1, <1>f, MarkedTyped
  <2>5. [req[p].srow EXCEPT ![s] = Planned(req[p].m, Copy(p), day, slot, testing)]
          \in [Schedule -> ScheduleRow]
    BY <2>3, <1>f
  <2>6. (IF Copy(p).permanent THEN {} ELSE {req[p].m}) \in SUBSET Marker
    BY <2>1
  <2> QED
    BY <2>2, <2>4, <2>5, <2>6, CommitTyped
<1>2. ASSUME NEW s \in Schedule, CreateMovieSchedule(p, s)
      PROVE  TypeOK' /\ Copies'
  <2>1. \A day \in Day, slot \in Slot :
           Planned(NoMarker, NoMarkerRow, day, slot, FALSE) \in ScheduleRow
    BY PlannedTyped
  <2>3. PICK row \in ScheduleRow : schedule' = [schedule EXCEPT ![s] = row]
    BY <1>2, <2>1 DEF CreateMovieSchedule
  <2>2. schedule' \in [Schedule -> ScheduleRow]
    BY <2>3 DEF TypeOK
  <2> QED
    BY <1>2, <2>2 DEF CreateMovieSchedule, TypeOK, Copies
<1>3. ASSUME NEW s \in Schedule, NEW op \in AllOps, ReadSchedule(p, op, s)
      PROVE  TypeOK' /\ Copies'
  <2> DEFINE mrow == WithMarker(NoRequest.mrow, marker, schedule[s].marker)
             r == [NoRequest EXCEPT !.op = op, !.s = s, !.mrow = mrow,
                                    !.srow[s] = schedule[s]]
  <2>1. schedule[s] \in ScheduleRow /\ Live(schedule[s]) /\ op \in RowOps
    BY <1>3 DEF ReadSchedule, TypeOK
  <2>2. mrow \in [Marker -> MarkerRow]
    BY WithMarkerTyped, BlanksTyped DEF Request, TypeOK
  <2> HIDE DEF mrow
  <2>3. r \in Request
    BY <2>1, <2>2, BlanksTyped DEF Request
  <2>4. r.op = op /\ r.s = s /\ r.srow[s] = schedule[s] /\ r.dirty = {}
    BY DEF NoRequest
  <2>6. op \in Ops
    BY <1>3 DEF ReadSchedule, CanStart
  <2>5. Holds(r)
    BY <2>1, <2>4, <2>6 DEF Holds, CreateOps, SaveOps, RowOps
  <2> QED
    BY <1>3, <2>3, <2>5, OpenTyped DEF ReadSchedule, mrow
<1>4. ASSUME EditSchedule(p) PROVE TypeOK' /\ Copies'
  <2>1. req[p].s \in Schedule /\ Row(p) \in ScheduleRow
    BY <1>4, <1>r, <1>f DEF EditSchedule, Holds, RowOps, Row
  <2>2. PICK row \in EditedRows(p), testing \in BOOLEAN :
          Commit(p, req[p].mrow, {},
                 [req[p].srow EXCEPT ![req[p].s] = [row EXCEPT !.testing = testing]])
    BY <1>4 DEF EditSchedule
  <2>3. row \in ScheduleRow
    BY <2>1, EditedRowsTyped
  <2>4. [row EXCEPT !.testing = testing] \in ScheduleRow
    BY <2>3 DEF ScheduleRow
  <2>5. [req[p].srow EXCEPT ![req[p].s] = [row EXCEPT !.testing = testing]]
          \in [Schedule -> ScheduleRow]
    BY <2>4, <1>f
  <2> QED
    BY <2>2, <2>5, <1>f, CommitTyped
<1>5. ASSUME RemoveSchedule(p) PROVE TypeOK' /\ Copies'
  <2>1. [RowMarker(p) EXCEPT !.status = ""] \in MarkerRow
    BY <1>m DEF MarkerRow, MarkerStatus
  <2>2. \A s \in Schedule : [schedule[s] EXCEPT !.state = "deleted"] \in ScheduleRow
    BY DEF TypeOK, ScheduleRow, RowState
  <2>3. marker' \in [Marker -> MarkerRow]
    BY <1>5, <2>1 DEF RemoveSchedule, TypeOK
  <2>4. req[p].s \in Schedule
    BY <1>5, <1>r DEF RemoveSchedule, Holds, RowOps
  <2>5. schedule' \in [Schedule -> ScheduleRow]
    BY <1>5, <2>2, <2>4 DEF RemoveSchedule, TypeOK
  <2> QED
    BY <1>5, <2>3, <2>5, CloseHolds DEF RemoveSchedule, TypeOK
<1>6. ASSUME NEW s \in Schedule, ReadEntry(p, s) PROVE TypeOK' /\ Copies'
  <2> DEFINE mrow == WithMarker(req[p].mrow, OwnMarkers(p), OwnSchedule(p, s).marker)
             r == [req[p] EXCEPT !.op = "UpdateScheduleStatus", !.s = s, !.mrow = mrow,
                                 !.srow[s] = OwnSchedule(p, s)]
  <2>1. OwnSchedule(p, s) \in ScheduleRow /\ Live(OwnSchedule(p, s))
    BY <1>6, <1>f DEF ReadEntry, OwnSchedule, TypeOK
  <2>2. OwnMarkers(p) \in [Marker -> MarkerRow]
    BY <1>f DEF OwnMarkers, TypeOK
  <2>3. mrow \in [Marker -> MarkerRow]
    BY <1>f, <2>2, WithMarkerTyped
  <2>4. \A m \in req[p].dirty : Live(mrow[m])
    <3>1. \A m \in req[p].dirty : m \in Marker /\ Live(req[p].mrow[m])
                                  /\ OwnMarkers(p)[m] = req[p].mrow[m]
      BY <1>r, <1>f DEF Holds, OwnMarkers
    <3> QED
      BY <3>1 DEF WithMarker, Preloaded
  <2> HIDE DEF mrow
  <2>5. r \in Request
    BY <1>r, <1>f, <2>1, <2>3 DEF Request, AllOps
  <2>6. /\ r.op = "UpdateScheduleStatus" /\ r.s = s /\ r.dirty = req[p].dirty
        /\ r.srow[s] = OwnSchedule(p, s) /\ r.mrow = mrow
    BY <1>r, <1>f DEF Request
  <2>9. "UpdateScheduleStatus" \in Ops
    BY <1>6, <1>r DEF ReadEntry, CanStart, Holds
  <2>7. Holds(r)
    BY <2>1, <2>4, <2>6, <2>9 DEF Holds, CreateOps, SaveOps, RowOps
  <2>8. Open(p, r)
    BY <1>6 DEF ReadEntry, mrow
  <2> QED
    BY <2>5, <2>7, <2>8, OpenTyped
<1>7. ASSUME NEW status \in ScheduleStatus, WriteEntry(p, status)
      PROVE  TypeOK' /\ Copies'
  <2> DEFINE mrow == [m \in Marker |->
                 IF Follows(p) /\ m = Row(p).marker
                 THEN [RowMarker(p) EXCEPT !.status = StatusFor(status)]
                 ELSE req[p].mrow[m]]
             dirty == req[p].dirty \cup {m \in Marker : Follows(p) /\ m = Row(p).marker}
             r == [req[p] EXCEPT !.s = NoSchedule, !.srow[req[p].s].status = status,
                                 !.mrow = mrow, !.dirty = dirty]
  <2>1. /\ req[p].op = "UpdateScheduleStatus" /\ req[p].s \in Schedule
        /\ Row(p) \in ScheduleRow /\ Live(Row(p))
    BY <1>7, <1>r, <1>f DEF WriteEntry, Holds, Request, Row
  <2>2. [RowMarker(p) EXCEPT !.status = StatusFor(status)] \in MarkerRow
    BY <1>m DEF MarkerRow, MarkerStatus, StatusFor, ScheduleStatus
  <2>3. mrow \in [Marker -> MarkerRow]
    BY <2>2, <1>f
  <2>4. dirty \in SUBSET Marker
    BY <1>f
  <2>5. \A m \in dirty : Live(mrow[m])
    BY <1>r, <1>f, <1>m DEF Holds, Follows, Live, MarkerRow
  <2> HIDE DEF mrow, dirty
  <2>a. [Row(p) EXCEPT !.status = status] \in ScheduleRow
    BY <2>1 DEF ScheduleRow
  <2>b. [req[p].srow EXCEPT ![req[p].s].status = status] \in [Schedule -> ScheduleRow]
    BY <1>f, <2>1, <2>a DEF Row
  <2>6. r \in Request
    BY <1>r, <2>3, <2>4, <2>b DEF Request
  <2>7. r.op = "UpdateScheduleStatus" /\ r.s = NoSchedule /\ r.dirty = dirty /\ r.mrow = mrow
    BY <1>r, <2>1 DEF Request
  <2>c. r.op \in Ops
    BY <1>r, <2>1, <2>7 DEF Holds
  <2>8. Holds(r)
    BY <2>5, <2>7, <2>c DEF Holds, CreateOps, SaveOps, RowOps
  <2>9. Open(p, r)
    BY <1>7 DEF WriteEntry, mrow, dirty
  <2> QED
    BY <2>6, <2>8, <2>9, OpenTyped
<1>8. ASSUME UpdateScheduleStatus(p) PROVE TypeOK' /\ Copies'
  BY <1>8, <1>f, CommitTyped DEF UpdateScheduleStatus
<1>9. ASSUME NEW day \in Day, ListDay(p, day) PROVE TypeOK' /\ Copies'
  <2> DEFINE listed == {schedule[s].marker : s \in OnDay(day)}
             mrow == [m \in Marker |->
                        IF m \in listed THEN Preloaded(marker, m) ELSE NoMarkerRow]
             r == [NoRequest EXCEPT !.op = "Overwrite", !.day = day, !.mrow = mrow]
  <2>1. mrow \in [Marker -> MarkerRow]
    BY BlanksTyped DEF Preloaded, TypeOK
  <2> HIDE DEF mrow
  <2>a. day \in 0 .. Days
    BY DEF Day
  <2>b. "Overwrite" \in AllOps
    BY DEF AllOps
  <2>2. r \in Request
    BY <2>1, <2>a, <2>b, BlanksTyped DEF Request
  <2>3. r.op = "Overwrite" /\ r.dirty = {} /\ r.day = day
    BY DEF NoRequest
  <2>c. "Overwrite" \in Ops
    BY <1>9 DEF ListDay, CanStart
  <2>4. Holds(r)
    BY <2>3, <2>c DEF Holds, CreateOps, SaveOps, RowOps
  <2>5. Open(p, r)
    BY <1>9 DEF ListDay, mrow
  <2> QED
    BY <2>2, <2>4, <2>5, OpenTyped
<1>10. ASSUME Overwrite(p) PROVE TypeOK' /\ Copies'
  <2>1. PICK ids \in SUBSET {s \in Schedule : schedule[s].state = "none"} :
        \E item \in [ids -> Item] :
          /\ marker' = [m \in Marker |->
                IF \E s \in ids : item[s].marker = m
                THEN Marked(Reset(p)[m]) ELSE Reset(p)[m]]
          /\ schedule' = [s \in Schedule |->
                IF s \in ids
                THEN LET row == Reset(p)[item[s].marker]
                     IN  Planned(item[s].marker, row, req[p].day, item[s].slot,
                                 item[s].testing \/ row.testing)
                ELSE IF s \in Replaced(p)
                     THEN [schedule[s] EXCEPT !.state = "deleted"]
                     ELSE schedule[s]]
    BY <1>10 DEF Overwrite
  <2>2. PICK item \in [ids -> Item] :
          /\ marker' = [m \in Marker |->
                IF \E s \in ids : item[s].marker = m
                THEN Marked(Reset(p)[m]) ELSE Reset(p)[m]]
          /\ schedule' = [s \in Schedule |->
                IF s \in ids
                THEN LET row == Reset(p)[item[s].marker]
                     IN  Planned(item[s].marker, row, req[p].day, item[s].slot,
                                 item[s].testing \/ row.testing)
                ELSE IF s \in Replaced(p)
                     THEN [schedule[s] EXCEPT !.state = "deleted"]
                     ELSE schedule[s]]
    BY <2>1
  <2>3. marker' \in [Marker -> MarkerRow]
    BY <2>2, ResetTyped, MarkedTyped
  <2>d. req[p].day \in Day
    BY <1>10, <1>r DEF Overwrite, Holds
  <2>4. ASSUME NEW s \in ids
        PROVE  Planned(item[s].marker, Reset(p)[item[s].marker], req[p].day, item[s].slot,
                       item[s].testing \/ Reset(p)[item[s].marker].testing) \in ScheduleRow
    <3>1. item[s].marker \in Marker /\ item[s].testing \in BOOLEAN
      BY <2>4 DEF Item
    <3>2. (item[s].testing \/ Reset(p)[item[s].marker].testing) \in BOOLEAN
      OBVIOUS
    <3> QED
      BY <3>1, <3>2, <2>d, PlannedTyped
  <2>5. \A s \in Schedule : [schedule[s] EXCEPT !.state = "deleted"] \in ScheduleRow
    BY DEF TypeOK, ScheduleRow, RowState
  <2>6. schedule' \in [Schedule -> ScheduleRow]
    BY <2>2, <2>4, <2>5 DEF TypeOK
  <2> QED
    BY <1>10, <2>3, <2>6, CloseHolds DEF Overwrite, TypeOK
<1> QED
  BY <1>1, <1>2, <1>3, <1>4, <1>5, <1>6, <1>7, <1>8, <1>9, <1>10 DEF ScheduleStep

LEMMA OtherStepTyped ==
    ASSUME TypeOK, Copies, NEW p \in Process, AdminStep(p) \/ Fail(p)
    PROVE  TypeOK' /\ Copies'
<1>1. ASSUME NEW m \in Marker, ValidateDeletion(p, m) PROVE TypeOK' /\ Copies'
  <2> DEFINE r == [NoRequest EXCEPT !.op = "DeleteMarker", !.m = m]
  <2>1. r \in Request
    BY BlanksTyped DEF Request, AllOps, AdminOps
  <2>2. r.op = "DeleteMarker" /\ r.m = m /\ r.dirty = {}
    BY DEF NoRequest
  <2>4. "DeleteMarker" \in Ops
    BY <1>1 DEF ValidateDeletion, CanStart
  <2>3. Holds(r)
    BY <2>2, <2>4 DEF Holds, CreateOps, SaveOps, RowOps
  <2> QED
    BY <1>1, <2>1, <2>3, OpenTyped DEF ValidateDeletion
<1>2. ASSUME DeleteMarker(p) PROVE TypeOK' /\ Copies'
  <2>1. req[p].m \in Marker
    BY <1>2 DEF DeleteMarker, Copies, Holds
  <2>2. marker[req[p].m] \in MarkerRow
    BY <2>1 DEF TypeOK
  <2>3. [marker[req[p].m] EXCEPT !.state = IF @ = "live" THEN "deleted" ELSE @] \in MarkerRow
    BY <2>2 DEF MarkerRow, RowState
  <2>4. marker' \in [Marker -> MarkerRow]
    BY <1>2, <2>3 DEF DeleteMarker, TypeOK
  <2> QED
    BY <1>2, <2>4, CloseHolds DEF DeleteMarker, TypeOK
<1>3. ASSUME NEW s \in Schedule, DeleteSchedule(p, s) PROVE TypeOK' /\ Copies'
  <2>1. [schedule[s] EXCEPT !.state = "deleted"] \in ScheduleRow
    BY DEF TypeOK, ScheduleRow, RowState
  <2>2. schedule' \in [Schedule -> ScheduleRow]
    BY <1>3, <2>1 DEF DeleteSchedule, TypeOK
  <2> QED
    BY <1>3, <2>2 DEF DeleteSchedule, TypeOK, Copies
<1>4. ASSUME ClearTesting(p) PROVE TypeOK' /\ Copies'
  <2>1. \A s \in Schedule : [schedule[s] EXCEPT !.state = "erased"] \in ScheduleRow
    BY DEF TypeOK, ScheduleRow, RowState
  <2>2. \A m \in Marker : [marker[m] EXCEPT !.state = "erased"] \in MarkerRow
    BY DEF TypeOK, MarkerRow, RowState
  <2>3. schedule' \in [Schedule -> ScheduleRow] /\ marker' \in [Marker -> MarkerRow]
    BY <1>4, <2>1, <2>2 DEF ClearTesting, TypeOK
  <2> QED
    BY <1>4, <2>3 DEF ClearTesting, TypeOK, Copies
<1>5. ASSUME Fail(p) PROVE TypeOK' /\ Copies'
  BY <1>5, CloseHolds DEF Fail, TypeOK
<1> QED
  BY <1>1, <1>2, <1>3, <1>4, <1>5 DEF AdminStep

LEMMA TypeStep ==
    ASSUME TypeOK, Copies, [Next]_vars
    PROVE  TypeOK' /\ Copies'
<1>1. ASSUME NEW p \in Process, MarkerStep(p) \/ ScheduleStep(p) \/ AdminStep(p) \/ Fail(p)
      PROVE  TypeOK' /\ Copies'
  BY <1>1, MarkerStepTyped, ScheduleStepTyped, OtherStepTyped
<1>2. CASE UNCHANGED vars
  BY <1>2 DEF vars, TypeOK, Copies
<1> QED
  BY <1>1, <1>2 DEF Next

LEMMA TypeInit == Init => TypeOK /\ Copies
BY BlanksTyped DEF Init, TypeOK, Copies

\* Tables and requests keep their types, and a request holds the copies that
\* its kind needs.
THEOREM MarkerTypeCorrect == Spec => [](TypeOK /\ Copies)
<1>1. TypeOK /\ Copies /\ [Next]_vars => TypeOK' /\ Copies'
  BY TypeStep
<1> QED
  BY <1>1, TypeInit, PTL DEF Spec

-------------------------------------------------------------------------------
(***************************************************************************)
(* The status of a marker, while only PlanOps are used.                    *)
(***************************************************************************)

\* What a commit does to the tables, D the markers it saves and T the schedules:
\* a marker is created or saved open, or shown with a schedule to show for it, and a
\* schedule is changed only together with its marker.
Effect(D, T) ==
    /\ \A m \in Marker \ D : marker'[m] = marker[m]
    /\ \A m \in D :
          /\ Live(marker'[m])
          /\ Live(marker[m]) => marker'[m].permanent = marker[m].permanent
          /\ \/ marker'[m].status \in {"", "cancelled"}
             \/ /\ ~marker'[m].permanent
                /\ \E s \in Schedule :
                      Live(schedule'[s]) /\ schedule'[s].marker = m
                        /\ Witness(schedule'[s].status, marker'[m].status)
    /\ \A s \in Schedule \ T : schedule'[s] = schedule[s]
    /\ \A s \in T :
          /\ schedule'[s].state # "none"
          /\ schedule'[s].marker \in Marker => Live(marker[schedule'[s].marker])
          /\ schedule[s].state # "none" =>
                /\ schedule'[s].marker = schedule[s].marker
                /\ schedule[s].marker \in Marker =>
                      schedule[s].marker \in D \/ marker[schedule[s].marker].permanent

Grows ==
    /\ \A m \in Marker : Live(marker[m]) =>
          Live(marker'[m]) /\ marker'[m].permanent = marker[m].permanent
    /\ \A s \in Schedule : schedule[s].state # "none" =>
          schedule'[s].state # "none" /\ schedule'[s].marker = schedule[s].marker

LEMMA EffectKeepsPlan ==
    ASSUME TypeOK, PlanTables, NEW D \in SUBSET Marker, NEW T \in SUBSET Schedule,
           Effect(D, T)
    PROVE  PlanTables' /\ Grows
<1>1. Grows
  BY DEF Grows, Effect
<1>2. \A m \in Marker : marker'[m].state \in {"none", "live"}
  BY DEF PlanTables, Effect, Live
<1>3. ASSUME NEW s \in Schedule, schedule'[s].state # "none", schedule'[s].marker \in Marker
      PROVE  Live(marker'[schedule'[s].marker])
  <2>1. Live(marker[schedule'[s].marker])
    BY <1>3 DEF PlanTables, Effect
  <2> QED
    BY <1>1, <1>3, <2>1 DEF Grows
<1>4. ASSUME NEW m \in Marker, Live(marker'[m]), marker'[m].permanent
      PROVE  marker'[m].status \in {"", "cancelled"}
  BY <1>4 DEF PlanTables, PermanentIsOpen, Effect
<1>5. ASSUME NEW m \in Marker, Live(marker'[m]), marker'[m].status \in Shown
      PROVE  \E s \in Schedule :
                Live(schedule'[s]) /\ schedule'[s].marker = m
                  /\ Witness(schedule'[s].status, marker'[m].status)
  <2>1. CASE m \in D
    BY <1>5, <2>1 DEF Effect, Shown
  <2>2. CASE m \notin D
    <3>1. marker'[m] = marker[m]
      BY <2>2 DEF Effect
    <3>2. PICK s \in Schedule :
             Live(schedule[s]) /\ schedule[s].marker = m
               /\ Witness(schedule[s].status, marker[m].status)
      BY <1>5, <3>1 DEF PlanTables, StatusHasSchedule
    <3>3. ~marker[m].permanent
      BY <1>5, <3>1 DEF PlanTables, PermanentIsOpen, Shown
    <3>4. s \notin T
      BY <2>2, <3>2, <3>3 DEF Effect, Live
    <3> QED
      BY <3>1, <3>2, <3>4 DEF Effect
  <2> QED
    BY <2>1, <2>2
<1> QED
  BY <1>1, <1>2, <1>3, <1>4, <1>5 DEF PlanTables, PermanentIsOpen, StatusHasSchedule

\* What a request holds stays good when the tables grow.
LEMMA HeldKept ==
    ASSUME TypeOK, PlanTables, Grows, NEW q \in Process, PlanHolds(req[q]),
           req'[q] = req[q]
    PROVE  PlanHolds(req[q])'
<1>1. ASSUME NEW m \in Marker, Live(req[q].mrow[m])
      PROVE  Live(marker'[m]) /\ marker'[m].permanent = req[q].mrow[m].permanent
  BY <1>1 DEF PlanHolds, Grows
<1>2. ASSUME NEW s \in Schedule, Live(req[q].srow[s])
      PROVE  /\ schedule'[s].state # "none"
             /\ schedule'[s].marker = req[q].srow[s].marker
             /\ req[q].s = s /\ req[q].srow[s].marker \in Marker
                  => Live(req[q].mrow[req[q].srow[s].marker])
             /\ req[q].srow[s].marker \in Marker =>
                  marker'[req[q].srow[s].marker].permanent
                    = marker[req[q].srow[s].marker].permanent
  <2>1. /\ schedule[s].state # "none"
        /\ schedule[s].marker = req[q].srow[s].marker
        /\ req[q].s = s /\ req[q].srow[s].marker \in Marker
             => Live(req[q].mrow[req[q].srow[s].marker])
    BY <1>2 DEF PlanHolds
  <2> QED
    BY <2>1 DEF Grows, PlanTables
<1>3. ASSUME req[q].op = "UpdateScheduleStatus"
      PROVE  ListConsistent(req[q])'
  <2>1. ListConsistent(req[q])
    BY <1>3 DEF PlanHolds
  <2> QED
    BY <1>2, <2>1 DEF ListConsistent
<1> QED
  BY <1>1, <1>2, <1>3 DEF PlanHolds

LEMMA BlankPlan == PlanHolds(NoRequest)
BY NotLive DEF PlanHolds, NoRequest, Live

\* A request that only reads.
LEMMA OpenPlan ==
    ASSUME TypeOK, PlanTables, \A q \in Process : PlanHolds(req[q]),
           NEW p \in Process, NEW r, PlanHolds(r), Open(p, r)
    PROVE  PlanTables' /\ \A q \in Process : PlanHolds(req[q])'
<1>1. marker' = marker /\ schedule' = schedule /\ req' = [req EXCEPT ![p] = r]
  BY DEF Open
<1>2. PlanTables'
  BY <1>1 DEF PlanTables, PermanentIsOpen, StatusHasSchedule
<1>3. \A q \in Process : PlanHolds(req'[q])
  BY <1>1 DEF TypeOK
<1>4. \A q \in Process : PlanHolds(req[q])'
  BY <1>1, <1>3 DEF PlanHolds, ListConsistent
<1> QED
  BY <1>2, <1>4

\* A request that ends with a commit.
LEMMA EffectPlan ==
    ASSUME TypeOK, PlanTables, \A q \in Process : PlanHolds(req[q]),
           NEW p \in Process, Close(p) \/ UNCHANGED req,
           NEW D \in SUBSET Marker, NEW T \in SUBSET Schedule, Effect(D, T)
    PROVE  PlanTables' /\ \A q \in Process : PlanHolds(req[q])'
<1>1. PlanTables' /\ Grows
  BY EffectKeepsPlan
<1>2. ASSUME NEW q \in Process, req'[q] = req[q]
      PROVE  PlanHolds(req[q])'
  BY <1>1, <1>2, HeldKept
<1>3. ASSUME NEW q \in Process, req'[q] = NoRequest
      PROVE  PlanHolds(req[q])'
  <2>1. \A m \in Marker : ~Live(NoRequest.mrow[m])
    BY NotLive DEF NoRequest
  <2>2. \A s \in Schedule : ~Live(NoRequest.srow[s])
    BY NotLive DEF NoRequest
  <2>3. NoRequest.op = "idle"
    BY DEF NoRequest
  <2> QED
    BY <1>3, <2>1, <2>2, <2>3 DEF PlanHolds
<1>4. \A q \in Process : req'[q] = req[q] \/ req'[q] = NoRequest
  BY DEF Close, TypeOK
<1> QED
  BY <1>1, <1>2, <1>3, <1>4

\* While no marker is ever erased a commit writes what it saves and no more.
LEMMA CommitPlan ==
    ASSUME TypeOK, PlanTables, NEW p \in Process, NEW mrows, NEW dirty, NEW srows,
           Commit(p, mrows, dirty, srows)
    PROVE  /\ marker' = [m \in Marker |-> IF m \in dirty THEN mrows[m] ELSE marker[m]]
           /\ schedule' = [s \in Schedule |->
                             IF Live(srows[s]) THEN srows[s] ELSE schedule[s]]
           /\ Close(p)
<1>1. \A m \in Marker : marker[m].state # "erased"
  BY DEF PlanTables
<1> QED
  BY <1>1 DEF Commit, Saved

\* Markers are created, or read, or saved with a status that needs no schedule.
LEMMA StatusStepPlan ==
    ASSUME TypeOK, PlanInv, NEW p \in Process,
           \/ \E m \in Marker : CreateMarker(p, m)
           \/ \E m \in Marker, op \in AllOps : ReadMarker(p, op, m)
           \/ RemoveMarker(p)
           \/ RevokeMarker(p)
    PROVE  PlanTables' /\ \A q \in Process : PlanHolds(req[q])'
<1>p. PlanTables /\ (\A q \in Process : PlanHolds(req[q])) /\ Holds(req[p])
  BY DEF PlanInv, Copies
<1>t. req[p] \in Request
  BY DEF TypeOK
\* The copy is saved with a status that needs no schedule.
<1>s. ASSUME NEW status \in {"", "cancelled"}, req[p].op \in SaveOps,
             SaveMarker(p, [Copy(p) EXCEPT !.status = status])
      PROVE  PlanTables' /\ \A q \in Process : PlanHolds(req[q])'
  <2> DEFINE m == req[p].m
             row == [Copy(p) EXCEPT !.status = status]
  <2>1. m \in Marker /\ Live(req[p].mrow[m]) /\ \A s \in Schedule : ~Live(req[p].srow[s])
    BY <1>s, <1>p DEF Holds
  <2>2. req[p].mrow[m] \in MarkerRow
    BY <1>t, <2>1 DEF Request
  <2>3. Live(row) /\ row.permanent = marker[m].permanent /\ row.status = status
    <3>1. Live(marker[m]) /\ marker[m].permanent = req[p].mrow[m].permanent
      BY <1>p, <2>1 DEF PlanHolds
    <3> QED
      BY <2>1, <2>2, <3>1 DEF Copy, MarkerRow, Live
  <2>4. /\ marker' = [k \in Marker |->
               IF k \in {m} THEN [req[p].mrow EXCEPT ![m] = row][k] ELSE marker[k]]
        /\ schedule' = [s \in Schedule |->
               IF Live(req[p].srow[s]) THEN req[p].srow[s] ELSE schedule[s]]
        /\ Close(p)
    BY <1>s, <1>p, CommitPlan DEF SaveMarker
  <2>5. schedule' = schedule
    BY <2>1, <2>4 DEF TypeOK
  <2>6. [req[p].mrow EXCEPT ![m] = row][m] = row
    BY <1>t, <2>1 DEF Request
  <2> HIDE DEF m, row
  <2>7. marker'[m] = row /\ \A k \in Marker \ {m} : marker'[k] = marker[k]
    BY <2>1, <2>4, <2>6
  <2>8. Effect({m}, {})
    BY <2>1, <2>3, <2>5, <2>7, <1>s DEF Effect
  <2> QED
    BY <2>1, <2>4, <2>8, <1>p, EffectPlan
<1>1. ASSUME NEW m \in Marker, CreateMarker(p, m)
      PROVE  PlanTables' /\ \A q \in Process : PlanHolds(req[q])'
  <2>1. \A permanent \in BOOLEAN, testing \in TestingFlag :
           LET row == [NoMarkerRow EXCEPT !.state = "live", !.permanent = permanent,
                                          !.testing = testing]
           IN  Live(row) /\ row.status = ""
    BY DEF NoMarkerRow, Live
  <2>2. PICK row : Live(row) /\ row.status = "" /\ marker' = [marker EXCEPT ![m] = row]
    BY <1>1, <2>1 DEF CreateMarker
  <2>3. marker'[m] = row /\ \A k \in Marker \ {m} : marker'[k] = marker[k]
    BY <2>2 DEF TypeOK
  <2>4. schedule' = schedule /\ req' = req /\ ~Live(marker[m])
    BY <1>1 DEF CreateMarker, Live
  <2>5. Effect({m}, {})
    BY <2>2, <2>3, <2>4 DEF Effect
  <2> QED
    BY <2>4, <2>5, <1>p, EffectPlan
<1>2. ASSUME NEW m \in Marker, NEW op \in AllOps, ReadMarker(p, op, m)
      PROVE  PlanTables' /\ \A q \in Process : PlanHolds(req[q])'
  <2> DEFINE r == [NoRequest EXCEPT !.op = op, !.m = m, !.mrow[m] = marker[m]]
  <2>1. Live(marker[m]) /\ op \in CreateOps \cup SaveOps /\ Open(p, r)
    BY <1>2 DEF ReadMarker
  <2>2. /\ r.op = op /\ \A s \in Schedule : r.srow[s] = NoScheduleRow
        /\ r.mrow[m] = marker[m]
        /\ \A k \in Marker \ {m} : r.mrow[k] = NoMarkerRow
    BY DEF NoRequest
  <2>3. PlanHolds(r)
    BY <2>1, <2>2, NotLive DEF PlanHolds, CreateOps, SaveOps
  <2> QED
    BY <2>1, <2>3, <1>p, OpenPlan
<1>3. ASSUME RemoveMarker(p)
      PROVE  PlanTables' /\ \A q \in Process : PlanHolds(req[q])'
  BY <1>3, <1>s DEF RemoveMarker, SaveOps
<1>4. ASSUME RevokeMarker(p)
      PROVE  PlanTables' /\ \A q \in Process : PlanHolds(req[q])'
  BY <1>4, <1>s DEF RevokeMarker, SaveOps
<1> QED
  BY <1>1, <1>2, <1>3, <1>4

LEMMA MarkerStepPlan ==
    ASSUME TypeOK, PlanInv, Ops \subseteq PlanOps, NEW p \in Process, MarkerStep(p)
    PROVE  PlanTables' /\ \A q \in Process : PlanHolds(req[q])'
<1>1. req[p].op \in PlanOps \cup {"idle"}
  BY DEF PlanInv, Copies, Holds
<1>2. ~EditMarker(p) /\ ~UpdateMarkerFavourite(p)
  BY <1>1 DEF EditMarker, UpdateMarkerFavourite, PlanOps, CreateOps
<1> QED
  BY <1>2, StatusStepPlan DEF MarkerStep

LEMMA CreateSchedulePlan ==
    ASSUME TypeOK, PlanInv, NEW p \in Process, NEW s \in Schedule,
           CreateSchedule(p, s) \/ CreateMovieSchedule(p, s)
    PROVE  PlanTables' /\ \A q \in Process : PlanHolds(req[q])'
<1>p. PlanTables /\ (\A q \in Process : PlanHolds(req[q])) /\ Holds(req[p])
  BY DEF PlanInv, Copies
<1>t. req[p] \in Request
  BY DEF TypeOK
<1>1. CASE CreateSchedule(p, s)
  <2> DEFINE m == req[p].m
             D == IF Copy(p).permanent THEN {} ELSE {m}
  <2>1. /\ req[p].op \in CreateOps /\ schedule[s].state = "none"
        /\ m \in Marker /\ Live(req[p].mrow[m])
        /\ \A k \in Schedule : ~Live(req[p].srow[k])
    BY <1>1, <1>p DEF CreateSchedule, Holds
  <2>2. Copy(p) \in MarkerRow /\ Copy(p) = req[p].mrow[m]
    BY <1>t, <2>1 DEF Request, Copy
  <2>3. Live(marker[m]) /\ marker[m].permanent = Copy(p).permanent
    BY <1>p, <2>1, <2>2 DEF PlanHolds
  <2>4. PICK day \in Day, slot \in Slot, testing \in TestingOf(req[p].op, Copy(p)) :
          Commit(p, [req[p].mrow EXCEPT ![m] = Marked(Copy(p))], D,
                 [req[p].srow EXCEPT ![s] = Planned(m, Copy(p), day, slot, testing)])
    BY <1>1 DEF CreateSchedule
  <2> DEFINE new == Planned(m, Copy(p), day, slot, testing)
  <2>5. Live(new) /\ new.marker = m /\ new.status = "" /\ new.state # "none"
    BY DEF Planned, Live
  <2>6. Live(Marked(Copy(p))) /\ Marked(Copy(p)).permanent = Copy(p).permanent
          /\ (~Copy(p).permanent => Marked(Copy(p)).status = "scheduled")
    BY <2>1, <2>2, MarkedTyped DEF Live
  <2> HIDE DEF m, D, new
  <2>7. /\ marker' = [k \in Marker |->
               IF k \in D THEN [req[p].mrow EXCEPT ![m] = Marked(Copy(p))][k] ELSE marker[k]]
        /\ schedule' = [k \in Schedule |->
               IF Live([req[p].srow EXCEPT ![s] = new][k])
               THEN [req[p].srow EXCEPT ![s] = new][k] ELSE schedule[k]]
        /\ Close(p)
    BY <2>4, <1>p, CommitPlan DEF new
  <2>8. schedule'[s] = new /\ \A k \in Schedule \ {s} : schedule'[k] = schedule[k]
    BY <2>1, <2>5, <2>7, <1>t DEF Request
  <2>9. D \in SUBSET Marker /\ D \subseteq {m} /\ (m \in D => ~Copy(p).permanent)
    BY <2>1 DEF D
  <2>10. /\ \A k \in Marker \ D : marker'[k] = marker[k]
         /\ \A k \in D : marker'[k] = Marked(Copy(p))
    BY <2>1, <2>7, <2>9, <1>t DEF Request
  <2>11. ASSUME NEW k \in D
         PROVE  /\ Live(marker'[k])
                /\ Live(marker[k]) => marker'[k].permanent = marker[k].permanent
                /\ ~marker'[k].permanent
                /\ Live(schedule'[s]) /\ schedule'[s].marker = k
                /\ Witness(schedule'[s].status, marker'[k].status)
    <3>1. k = m /\ ~Copy(p).permanent /\ marker'[k] = Marked(Copy(p))
      BY <2>9, <2>10
    <3>2. marker'[k].permanent = Copy(p).permanent /\ marker'[k].status = "scheduled"
      BY <3>1, <2>6
    <3> QED
      BY <3>1, <3>2, <2>3, <2>5, <2>6, <2>8 DEF Witness
  <2>12. Effect(D, {s})
    BY <2>1, <2>3, <2>5, <2>8, <2>10, <2>11 DEF Effect
  <2> QED
    BY <2>7, <2>9, <2>12, <1>p, EffectPlan
<1>2. CASE CreateMovieSchedule(p, s)
  <2>1. \A day \in Day, slot \in Slot :
           LET row == Planned(NoMarker, NoMarkerRow, day, slot, FALSE)
           IN  row.state # "none" /\ row.marker = NoMarker
    BY DEF Planned
  <2>2. PICK row : /\ row.state # "none" /\ row.marker = NoMarker
                   /\ schedule' = [schedule EXCEPT ![s] = row]
    BY <1>2, <2>1 DEF CreateMovieSchedule
  <2>3. schedule'[s] = row /\ \A k \in Schedule \ {s} : schedule'[k] = schedule[k]
    BY <2>2 DEF TypeOK
  <2>4. marker' = marker /\ req' = req /\ schedule[s].state = "none"
    BY <1>2 DEF CreateMovieSchedule
  <2>5. Effect({}, {s})
    BY <2>2, <2>3, <2>4 DEF Effect
  <2> QED
    BY <2>4, <2>5, <1>p, EffectPlan
<1> QED
  BY <1>1, <1>2

LEMMA RemoveSchedulePlan ==
    ASSUME TypeOK, PlanInv, NEW p \in Process, RemoveSchedule(p)
    PROVE  PlanTables' /\ \A q \in Process : PlanHolds(req[q])'
<1>p. PlanTables /\ (\A q \in Process : PlanHolds(req[q])) /\ Holds(req[p])
  BY DEF PlanInv, Copies
<1>t. req[p] \in Request
  BY DEF TypeOK
<1> DEFINE s == req[p].s
           D == {m \in Marker : m = Row(p).marker}
<1>1. /\ s \in Schedule /\ Live(req[p].srow[s]) /\ Row(p) = req[p].srow[s]
      /\ schedule[s].state # "none"
  BY <1>p DEF RemoveSchedule, Holds, RowOps, Row, Live
<1>2. /\ schedule[s].marker = Row(p).marker
      /\ \A m \in D : RowMarker(p) = req[p].mrow[m] /\ Live(RowMarker(p))
  BY <1>p, <1>1 DEF PlanHolds, RowMarker
<1>3. RowMarker(p) \in MarkerRow
  BY <1>t, BlanksTyped DEF Request, RowMarker
<1>4. LET open == [RowMarker(p) EXCEPT !.status = ""]
      IN  open.status = "" /\ open.state = RowMarker(p).state
            /\ open.permanent = RowMarker(p).permanent
  BY <1>3 DEF MarkerRow
<1> HIDE DEF s
<1>5. /\ \A m \in Marker \ D : marker'[m] = marker[m]
      /\ \A m \in D : marker'[m] = [RowMarker(p) EXCEPT !.status = ""]
      /\ schedule' = [schedule EXCEPT ![s].state = "deleted"]
      /\ Close(p)
  BY <1>2 DEF RemoveSchedule, s
<1>6. /\ \A k \in Schedule \ {s} : schedule'[k] = schedule[k]
      /\ schedule'[s].state = "deleted" /\ schedule'[s].marker = schedule[s].marker
  <2>1. schedule[s] \in ScheduleRow
    BY <1>1 DEF TypeOK
  <2> QED
    BY <1>1, <1>5, <2>1 DEF TypeOK, ScheduleRow
<1>7. \A m \in D : /\ Live(marker'[m]) /\ marker'[m].status = ""
                   /\ marker'[m].permanent = marker[m].permanent
  <2>1. \A m \in D : marker[m].permanent = req[p].mrow[m].permanent
    BY <1>p, <1>2 DEF PlanHolds
  <2> QED
    BY <1>2, <1>4, <1>5, <2>1 DEF Live
<1>8. schedule[s].marker \in Marker => Live(marker[schedule[s].marker])
  BY <1>1, <1>p DEF PlanTables
<1>9. Effect(D, {s})
  BY <1>1, <1>2, <1>5, <1>6, <1>7, <1>8 DEF Effect
<1>10. D \in SUBSET Marker /\ {s} \in SUBSET Schedule
  BY <1>1
<1> HIDE DEF D
<1> QED
  BY <1>5, <1>9, <1>10, <1>p, EffectPlan

LEMMA ReadSchedulePlan ==
    ASSUME TypeOK, PlanInv, NEW p \in Process, NEW s \in Schedule, NEW op \in AllOps,
           ReadSchedule(p, op, s)
    PROVE  PlanTables' /\ \A q \in Process : PlanHolds(req[q])'
<1>p. PlanTables /\ (\A q \in Process : PlanHolds(req[q]))
  BY DEF PlanInv
<1> DEFINE mrow == WithMarker(NoRequest.mrow, marker, schedule[s].marker)
           r == [NoRequest EXCEPT !.op = op, !.s = s, !.mrow = mrow,
                                  !.srow[s] = schedule[s]]
<1>1. op \in RowOps /\ Live(schedule[s]) /\ Open(p, r)
  BY DEF ReadSchedule
<1>2. \A m \in Marker :
        mrow[m] = IF m = schedule[s].marker /\ Live(marker[m]) THEN marker[m]
                                                               ELSE NoMarkerRow
  BY DEF WithMarker, Preloaded, NoRequest
<1>3. schedule[s].marker \in Marker => Live(marker[schedule[s].marker])
  BY <1>1, <1>p DEF PlanTables, Live
<1> HIDE DEF mrow
<1>4. /\ r.op = op /\ r.s = s /\ r.mrow = mrow /\ r.srow[s] = schedule[s]
      /\ \A k \in Schedule \ {s} : r.srow[k] = NoScheduleRow
  BY DEF NoRequest
<1>5. PlanHolds(r)
  BY <1>1, <1>2, <1>3, <1>4, NotLive DEF PlanHolds, RowOps, Live
<1> QED
  BY <1>1, <1>5, <1>p, OpenPlan

LEMMA ReadEntryPlan ==
    ASSUME TypeOK, PlanInv, NEW p \in Process, NEW s \in Schedule, ReadEntry(p, s)
    PROVE  PlanTables' /\ \A q \in Process : PlanHolds(req[q])'
<1>p. PlanTables /\ (\A q \in Process : PlanHolds(req[q])) /\ Holds(req[p])
  BY DEF PlanInv, Copies
<1>t. req[p] \in Request
  BY DEF TypeOK
<1>f. /\ req[p].mrow \in [Marker -> MarkerRow] /\ req[p].srow \in [Schedule -> ScheduleRow]
      /\ req[p].dirty \in SUBSET Marker
  BY <1>t DEF Request
<1> DEFINE row == OwnSchedule(p, s)
           mrow == WithMarker(req[p].mrow, OwnMarkers(p), row.marker)
           r == [req[p] EXCEPT !.op = "UpdateScheduleStatus", !.s = s, !.mrow = mrow,
                               !.srow[s] = row]
<1>1. Live(row) /\ Open(p, r)
  BY DEF ReadEntry
\* A request that has just started holds nothing.
<1>2. /\ ListConsistent(req[p]) /\ req[p].s = NoSchedule
      /\ \A m \in req[p].dirty : Live(req[p].mrow[m])
  <2>1. CASE req[p] = NoRequest
    BY <2>1, NotLive DEF ListConsistent, NoRequest
  <2>2. CASE req[p].op = "UpdateScheduleStatus" /\ req[p].s = NoSchedule
    BY <2>2, <1>p DEF PlanHolds, Holds
  <2> QED
    BY <2>1, <2>2, <1>p DEF ReadEntry, CanStart, Holds
<1>3. /\ schedule[s].state # "none" /\ row.marker = schedule[s].marker
      /\ Live(req[p].srow[s]) => row = req[p].srow[s]
  BY <1>1, <1>p DEF OwnSchedule, PlanHolds, Live
<1>4. row.marker \in Marker => Live(marker[row.marker])
  BY <1>3, <1>p DEF PlanTables
<1>5. \A m \in Marker :
        /\ m \in req[p].dirty => mrow[m] = req[p].mrow[m]
        /\ m \notin req[p].dirty =>
              mrow[m] = IF m = row.marker
                        THEN (IF Live(marker[m]) THEN marker[m] ELSE NoMarkerRow)
                        ELSE req[p].mrow[m]
  BY <1>2 DEF WithMarker, Preloaded, OwnMarkers
<1>6. /\ \A m \in Marker : Live(mrow[m]) =>
            Live(marker[m]) /\ marker[m].permanent = mrow[m].permanent
      /\ row.marker \in Marker => Live(mrow[row.marker])
  BY <1>2, <1>4, <1>5, <1>p, NotLive DEF PlanHolds
<1> HIDE DEF row, mrow
<1>7. /\ r.op = "UpdateScheduleStatus" /\ r.s = s /\ r.dirty = req[p].dirty
      /\ r.mrow = mrow /\ r.srow[s] = row
      /\ \A k \in Schedule \ {s} : r.srow[k] = req[p].srow[k]
  BY <1>t, <1>f DEF Request
<1> HIDE DEF r
<1>8. ListConsistent(r)
  <2>1. \A k \in Schedule : k # NoSchedule
    OBVIOUS
  <2>2. \A k \in Schedule : Live(req[p].srow[k]) => r.srow[k] = req[p].srow[k]
    BY <1>3, <1>7
  <2>3. \A m \in r.dirty : m \in Marker /\ r.mrow[m] = req[p].mrow[m]
    BY <1>5, <1>7, <1>f
  <2> QED
    BY <1>2, <1>7, <2>1, <2>2, <2>3 DEF ListConsistent
<1>9. \A k \in Schedule : Live(r.srow[k]) =>
         schedule[k].state # "none" /\ schedule[k].marker = r.srow[k].marker
  BY <1>3, <1>7, <1>p DEF PlanHolds
<1>10. PlanHolds(r)
  BY <1>6, <1>7, <1>8, <1>9 DEF PlanHolds
<1> QED
  BY <1>1, <1>10, <1>p, OpenPlan

LEMMA WriteEntryPlan ==
    ASSUME TypeOK, PlanInv, NEW p \in Process, NEW status \in ScheduleStatus,
           WriteEntry(p, status)
    PROVE  PlanTables' /\ \A q \in Process : PlanHolds(req[q])'
<1>p. PlanTables /\ (\A q \in Process : PlanHolds(req[q])) /\ Holds(req[p])
  BY DEF PlanInv, Copies
<1>t. req[p] \in Request
  BY DEF TypeOK
<1>f. /\ req[p].mrow \in [Marker -> MarkerRow] /\ req[p].srow \in [Schedule -> ScheduleRow]
      /\ req[p].dirty \in SUBSET Marker
  BY <1>t DEF Request
<1> DEFINE s == req[p].s
           shown == [RowMarker(p) EXCEPT !.status = StatusFor(status)]
           row == [Row(p) EXCEPT !.status = status]
           mrow == [m \in Marker |-> IF Follows(p) /\ m = Row(p).marker
                                     THEN shown ELSE req[p].mrow[m]]
           dirty == req[p].dirty \cup {m \in Marker : Follows(p) /\ m = Row(p).marker}
           r == [req[p] EXCEPT !.s = NoSchedule, !.srow[s].status = status,
                               !.mrow = mrow, !.dirty = dirty]
<1>1. /\ s \in Schedule /\ Row(p) = req[p].srow[s] /\ Live(Row(p))
      /\ Row(p) \in ScheduleRow /\ req[p].op = "UpdateScheduleStatus" /\ Open(p, r)
  BY <1>p, <1>t, <1>f DEF WriteEntry, Holds, Request, Row
<1>2. /\ ListConsistent(req[p])
      /\ Row(p).marker \in Marker => Live(RowMarker(p))
      /\ Row(p).marker \in Marker => RowMarker(p) = req[p].mrow[Row(p).marker]
  <2>1. PlanHolds(req[p])
    BY <1>p
  <2>2. ListConsistent(req[p])
    BY <2>1, <1>1 DEF PlanHolds
  <2>3. Row(p).marker \in Marker => Live(req[p].mrow[Row(p).marker])
    BY <2>1, <1>1 DEF PlanHolds
  <2> QED
    BY <2>2, <2>3 DEF RowMarker
<1>3. RowMarker(p) \in MarkerRow
  BY <1>f, BlanksTyped DEF RowMarker
<1>4. /\ shown.status = StatusFor(status) /\ shown.permanent = RowMarker(p).permanent
      /\ Live(shown) <=> Live(RowMarker(p))
  BY <1>3 DEF MarkerRow, Live
<1>5. row.status = status /\ row.marker = Row(p).marker /\ Live(row)
  BY <1>1 DEF ScheduleRow, Live
<1>6. StatusFor(status) \in Shown => Witness(status, StatusFor(status))
  BY DEF StatusFor, Shown, Witness, ScheduleStatus
<1> HIDE DEF shown, row
<1>7. \A m \in Marker :
        mrow[m] = IF Follows(p) /\ m = Row(p).marker THEN shown ELSE req[p].mrow[m]
  OBVIOUS
<1>8. \A m \in Marker : m \in dirty <=>
        m \in req[p].dirty \/ (Follows(p) /\ m = Row(p).marker)
  OBVIOUS
<1>12. dirty \in SUBSET Marker
  BY <1>f
<1> HIDE DEF mrow, dirty
<1>9. /\ r.op = req[p].op /\ r.s = NoSchedule /\ r.dirty = dirty /\ r.mrow = mrow
      /\ r.srow[s] = row
      /\ \A k \in Schedule \ {s} : r.srow[k] = req[p].srow[k]
  BY <1>t, <1>f, <1>1 DEF Request, row
<1> HIDE DEF r
<1>10. ASSUME NEW m \in Marker, Live(mrow[m])
       PROVE  Live(marker[m]) /\ marker[m].permanent = mrow[m].permanent
  BY <1>10, <1>2, <1>4, <1>7, <1>p DEF PlanHolds
<1>11. ListConsistent(r)
  <2>1. ASSUME NEW k \in Schedule, Live(r.srow[k]), r.srow[k].marker \in Marker
        PROVE  r.srow[k].marker \in dirty \/ marker[r.srow[k].marker].permanent
    <3>1. CASE k = s
      <4>1. r.srow[k].marker = Row(p).marker
        BY <3>1, <1>5, <1>9
      <4>2. CASE RowMarker(p).permanent
        BY <4>1, <4>2, <2>1, <1>2, <1>p DEF PlanHolds
      <4>3. CASE ~RowMarker(p).permanent
        BY <4>1, <4>3, <2>1, <1>2, <1>8 DEF Follows
      <4> QED
        BY <4>2, <4>3
    <3>2. CASE k # s
      BY <3>2, <2>1, <1>2, <1>8, <1>9 DEF ListConsistent
    <3> QED
      BY <3>1, <3>2
  <2>2. ASSUME NEW m \in dirty
        PROVE  /\ ~mrow[m].permanent
               /\ mrow[m].status \in Shown =>
                     \E k \in Schedule : /\ Live(r.srow[k]) /\ r.srow[k].marker = m
                                         /\ Witness(r.srow[k].status, mrow[m].status)
    <3>m. m \in Marker
      BY <1>12
    <3>1. CASE Follows(p) /\ m = Row(p).marker
      <4>1. mrow[m] = shown /\ ~RowMarker(p).permanent
        BY <3>1, <3>m, <1>7 DEF Follows
      <4>2. Live(r.srow[s]) /\ r.srow[s].marker = m /\ r.srow[s].status = status
        BY <3>1, <1>5, <1>9
      <4> QED
        BY <4>1, <4>2, <1>1, <1>4, <1>6
    <3>2. CASE ~(Follows(p) /\ m = Row(p).marker)
      <4>1. m \in req[p].dirty /\ mrow[m] = req[p].mrow[m]
        BY <3>2, <3>m, <1>7, <1>8
      <4>2. ~req[p].mrow[m].permanent
        BY <4>1, <1>2 DEF ListConsistent
      <4>3. ASSUME mrow[m].status \in Shown
            PROVE  \E k \in Schedule : /\ Live(r.srow[k]) /\ r.srow[k].marker = m
                                       /\ Witness(r.srow[k].status, mrow[m].status)
        <5>1. PICK k \in Schedule :
                 /\ Live(req[p].srow[k]) /\ req[p].srow[k].marker = m
                 /\ Witness(req[p].srow[k].status, mrow[m].status)
          BY <4>1, <4>3, <1>2 DEF ListConsistent
        <5>2. CASE k = s
          <6>1. Row(p).marker = m
            BY <5>1, <5>2, <1>1
          <6>2. Live(RowMarker(p)) /\ ~RowMarker(p).permanent
            BY <6>1, <3>m, <4>2, <1>2
          <6> QED
            BY <6>1, <6>2, <3>2 DEF Follows
        <5>3. CASE k # s
          BY <5>1, <5>3, <1>9
        <5> QED
          BY <5>2, <5>3
      <4> QED
        BY <4>1, <4>2, <4>3
    <3> QED
      BY <3>1, <3>2
  <2> QED
    BY <2>1, <2>2, <1>9 DEF ListConsistent
<1>13. ASSUME NEW k \in Schedule, Live(r.srow[k])
       PROVE  schedule[k].state # "none" /\ schedule[k].marker = r.srow[k].marker
  <2>1. CASE k = s
    BY <2>1, <1>1, <1>5, <1>9, <1>p DEF PlanHolds
  <2>2. CASE k # s
    BY <2>2, <1>13, <1>9, <1>p DEF PlanHolds
  <2> QED
    BY <2>1, <2>2
<1>14. PlanHolds(r)
  BY <1>9, <1>10, <1>11, <1>13 DEF PlanHolds
<1> QED
  BY <1>1, <1>14, <1>p, OpenPlan

LEMMA UpdateScheduleStatusPlan ==
    ASSUME TypeOK, PlanInv, NEW p \in Process, UpdateScheduleStatus(p)
    PROVE  PlanTables' /\ \A q \in Process : PlanHolds(req[q])'
<1>p. PlanTables /\ (\A q \in Process : PlanHolds(req[q])) /\ Holds(req[p])
  BY DEF PlanInv, Copies
<1>f. /\ req[p].mrow \in [Marker -> MarkerRow] /\ req[p].srow \in [Schedule -> ScheduleRow]
      /\ req[p].dirty \in SUBSET Marker
  BY DEF TypeOK, Request
<1> DEFINE D == req[p].dirty
           T == {s \in Schedule : Live(req[p].srow[s])}
<1>1. /\ req[p].op = "UpdateScheduleStatus" /\ req[p].s = NoSchedule
      /\ ListConsistent(req[p])
  BY <1>p DEF UpdateScheduleStatus, PlanHolds
<1>2. /\ marker' = [m \in Marker |-> IF m \in D THEN req[p].mrow[m] ELSE marker[m]]
      /\ schedule' = [s \in Schedule |->
                        IF Live(req[p].srow[s]) THEN req[p].srow[s] ELSE schedule[s]]
      /\ Close(p)
  BY <1>p, CommitPlan DEF UpdateScheduleStatus
<1>3. ASSUME NEW m \in D
      PROVE  /\ m \in Marker /\ marker'[m] = req[p].mrow[m] /\ Live(req[p].mrow[m])
             /\ marker[m].permanent = req[p].mrow[m].permanent
             /\ ~req[p].mrow[m].permanent
             /\ req[p].mrow[m].status \in MarkerStatus
  BY <1>1, <1>2, <1>p, <1>f DEF Holds, PlanHolds, ListConsistent, MarkerRow
<1>4. ASSUME NEW m \in D, marker'[m].status \in Shown
      PROVE  \E s \in Schedule :
                Live(schedule'[s]) /\ schedule'[s].marker = m
                  /\ Witness(schedule'[s].status, marker'[m].status)
  <2>1. PICK s \in Schedule :
           Live(req[p].srow[s]) /\ req[p].srow[s].marker = m
             /\ Witness(req[p].srow[s].status, req[p].mrow[m].status)
    BY <1>1, <1>3, <1>4 DEF ListConsistent
  <2> QED
    BY <2>1, <1>2, <1>3
<1>5. ASSUME NEW s \in T
      PROVE  /\ schedule'[s].state # "none" /\ schedule[s].state # "none"
             /\ schedule'[s].marker = schedule[s].marker
             /\ schedule[s].marker \in Marker =>
                   /\ Live(marker[schedule[s].marker])
                   /\ schedule[s].marker \in D \/ marker[schedule[s].marker].permanent
  <2>1. schedule'[s] = req[p].srow[s] /\ Live(req[p].srow[s])
    BY <1>2
  <2>2. schedule[s].state # "none" /\ schedule[s].marker = req[p].srow[s].marker
    BY <2>1, <1>p DEF PlanHolds
  <2>3. s # NoSchedule
    OBVIOUS
  <2> QED
    BY <2>1, <2>2, <2>3, <1>1, <1>p DEF PlanTables, ListConsistent, Live
<1>6. \A m \in Marker \ D : marker'[m] = marker[m]
  BY <1>2
<1>7. \A s \in Schedule \ T : schedule'[s] = schedule[s]
  BY <1>2
<1>8. D \in SUBSET Marker /\ T \in SUBSET Schedule
  BY <1>f
<1> HIDE DEF D, T
<1>a. ASSUME NEW m \in D
      PROVE  /\ Live(marker'[m]) /\ marker'[m].permanent = marker[m].permanent
             /\ \/ marker'[m].status \in {"", "cancelled"}
                \/ ~marker'[m].permanent /\ marker'[m].status \in Shown
  BY <1>3 DEF MarkerStatus, Shown
<1>b. \A s \in T :
        /\ schedule'[s].state # "none" /\ schedule'[s].marker = schedule[s].marker
        /\ schedule'[s].marker \in Marker => Live(marker[schedule'[s].marker])
        /\ schedule[s].marker \in Marker =>
              schedule[s].marker \in D \/ marker[schedule[s].marker].permanent
  BY <1>5
<1>9. Effect(D, T)
  BY <1>4, <1>6, <1>7, <1>a, <1>b DEF Effect
<1> QED
  BY <1>2, <1>8, <1>9, <1>p, EffectPlan

LEMMA PlanStep ==
    ASSUME TypeOK, PlanInv, Ops \subseteq PlanOps, [Next]_vars
    PROVE  PlanInv'
<1>p. PlanTables /\ (\A q \in Process : PlanHolds(req[q])) /\ Copies
  BY DEF PlanInv
<1>1. ASSUME NEW p \in Process, ScheduleStep(p)
      PROVE  PlanTables' /\ \A q \in Process : PlanHolds(req[q])'
  <2>1. req[p].op \in PlanOps \cup {"idle"}
    BY <1>p DEF Copies, Holds
  <2>2. ~EditSchedule(p) /\ ~Overwrite(p) /\ \A day \in Day : ~ListDay(p, day)
    BY <2>1 DEF EditSchedule, Overwrite, ListDay, CanStart, PlanOps, CreateOps
  <2> QED
    BY <1>1, <2>2, CreateSchedulePlan, RemoveSchedulePlan, ReadSchedulePlan,
       ReadEntryPlan, WriteEntryPlan, UpdateScheduleStatusPlan DEF ScheduleStep
<1>2. ASSUME NEW p \in Process
      PROVE  ~AdminStep(p)
  <2>1. req[p].op \in PlanOps \cup {"idle"}
    BY <1>p DEF Copies, Holds
  <2> QED
    BY <2>1 DEF AdminStep, ValidateDeletion, DeleteMarker, DeleteSchedule, ClearTesting,
                CanStart, PlanOps, CreateOps
<1>3. ASSUME NEW p \in Process, Fail(p)
      PROVE  PlanTables' /\ \A q \in Process : PlanHolds(req[q])'
  <2>1. Effect({}, {}) /\ Close(p)
    BY <1>3 DEF Fail, Effect
  <2> QED
    BY <2>1, <1>p, EffectPlan
<1>4. CASE UNCHANGED vars
  <2>1. Effect({}, {}) /\ UNCHANGED req
    BY <1>4 DEF vars, Effect
  <2>2. PlanTables' /\ Grows
    BY <2>1, <1>p, EffectKeepsPlan
  <2>3. \A q \in Process : PlanHolds(req[q])'
    BY <2>1, <2>2, <1>p, HeldKept
  <2> QED
    BY <2>2, <2>3, <1>p, TypeStep DEF PlanInv
<1>5. CASE Next
  <2>1. PlanTables' /\ \A q \in Process : PlanHolds(req[q])'
    BY <1>1, <1>2, <1>3, <1>5, MarkerStepPlan DEF Next
  <2> QED
    BY <2>1, <1>p, TypeStep DEF PlanInv
<1> QED
  BY <1>4, <1>5

LEMMA PlanInit == Init => PlanInv
<1> SUFFICES ASSUME Init PROVE PlanInv
  OBVIOUS
<1>1. Copies
  BY TypeInit
<1>2. \A m \in Marker : marker[m] = NoMarkerRow
  BY DEF Init
<1>3. \A s \in Schedule : schedule[s] = NoScheduleRow
  BY DEF Init
<1>4. PlanTables
  <2>1. \A m \in Marker : marker[m].state = "none" /\ ~Live(marker[m])
    <3>1. NoMarkerRow.state = "none"
      BY DEF NoMarkerRow
    <3> QED
      BY <3>1, <1>2 DEF Live
  <2>2. \A s \in Schedule : schedule[s].state = "none"
    <3>1. NoScheduleRow.state = "none"
      BY DEF NoScheduleRow
    <3> QED
      BY <3>1, <1>3
  <2> QED
    BY <2>1, <2>2 DEF PlanTables, PermanentIsOpen, StatusHasSchedule
<1>5. \A q \in Process : PlanHolds(req[q])
  <2>1. \A q \in Process : req[q] = NoRequest
    BY DEF Init
  <2> QED
    BY <2>1, BlankPlan
<1> QED
  BY <1>1, <1>4, <1>5 DEF PlanInv

\* However the requests of any number of callers interleave, a marker shown as
\* scheduled or arrived has a schedule to show for it, and a permanent marker
\* is never marked, as long as markers change only with their schedules.
THEOREM StatusCorrect ==
    ASSUME Ops \subseteq PlanOps
    PROVE  Spec => [](StatusHasSchedule /\ PermanentIsOpen)
<1>1. TypeOK /\ PlanInv /\ [Next]_vars => TypeOK' /\ PlanInv'
  BY PlanStep, TypeStep DEF PlanInv
<1>2. Init => TypeOK /\ PlanInv
  BY PlanInit, TypeInit
<1>3. PlanInv => StatusHasSchedule /\ PermanentIsOpen
  BY DEF PlanInv, PlanTables
<1> QED
  BY <1>1, <1>2, <1>3, PTL DEF Spec

-------------------------------------------------------------------------------
(***************************************************************************)
(* Requests that do not overlap, whatever they do.                         *)
(***************************************************************************)

LEMMA FreshOpen ==
    ASSUME TypeOK, Copies, Fresh, PlannedHasMarker, NEW p \in Process, NEW r, Open(p, r),
           r.op \in CreateOps => Live(marker[r.m]),
           r.op = "DeleteMarker" =>
              \A s \in Schedule : Live(schedule[s]) => schedule[s].marker # r.m,
           \A s \in Schedule : Live(r.srow[s]) =>
              Live(schedule[s]) /\ schedule[s].marker = r.srow[s].marker,
           req[p].op # "idle" \/ \A q \in Process : req[q].op = "idle"
    PROVE  Fresh' /\ PlannedHasMarker'
<1>1. \A q \in Process : req'[q] = IF q = p THEN r ELSE req[q]
  BY DEF Open, TypeOK
<1>2. marker' = marker /\ schedule' = schedule
  BY DEF Open
<1>3. \A q, k \in Process : req'[q].op # "idle" /\ req'[k].op # "idle" => q = k
  BY <1>1 DEF Fresh
<1> QED
  BY <1>1, <1>2, <1>3 DEF Fresh, PlannedHasMarker

LEMMA IdleHolds ==
    ASSUME Copies, NEW q \in Process, req[q].op = "idle"
    PROVE  \A s \in Schedule : ~Live(req[q].srow[s])
BY NotLive DEF Copies, Holds, NoRequest

\* The only request that was open ends, or there was none.
LEMMA FreshClose ==
    ASSUME TypeOK, Copies, Fresh, PlannedHasMarker', NEW p \in Process,
           \/ Close(p) /\ req[p].op # "idle"
           \/ UNCHANGED req /\ \A q \in Process : req[q].op = "idle"
    PROVE  Fresh'
<1>1. NoRequest.op = "idle" /\ \A s \in Schedule : ~Live(NoRequest.srow[s])
  BY NotLive DEF NoRequest
<1>2. \A q \in Process : req[q].op # "idle" => Close(p) /\ q = p
  BY DEF Fresh
<1>3. ASSUME NEW q \in Process
      PROVE  req'[q].op = "idle" /\ \A s \in Schedule : ~Live(req'[q].srow[s])
  <2>1. CASE req[q].op = "idle"
    <3>1. \A s \in Schedule : ~Live(req[q].srow[s])
      BY <2>1, IdleHolds
    <3>2. req'[q] = req[q] \/ req'[q] = NoRequest
      BY DEF Close, TypeOK
    <3> QED
      BY <2>1, <3>1, <3>2, <1>1
  <2>2. CASE req[q].op # "idle"
    <3>1. req'[q] = NoRequest
      BY <2>2, <1>2 DEF Close, TypeOK
    <3> QED
      BY <3>1, <1>1
  <2> QED
    BY <2>1, <2>2
<1> QED
  BY <1>3 DEF Fresh, CreateOps

\* Markers stay, and a schedule is either there with its marker already or
\* saved with a marker that is.
LEMMA KeepsMarkers ==
    ASSUME PlannedHasMarker, TypeOK,
           \A m \in Marker : Live(marker[m]) => Live(marker'[m]),
           \A s \in Schedule : Live(schedule'[s]) /\ schedule'[s].marker \in Marker =>
              \/ Live(schedule[s]) /\ schedule'[s].marker = schedule[s].marker
              \/ Live(marker'[schedule'[s].marker])
    PROVE  PlannedHasMarker'
BY DEF PlannedHasMarker

LEMMA CommitFresh ==
    ASSUME TypeOK, Copies, Fresh, PlannedHasMarker, NEW p \in Process, req[p].op # "idle",
           NEW mrows, NEW dirty, NEW srows, Commit(p, mrows, dirty, srows),
           \A m \in dirty : Live(mrows[m]),
           \A s \in Schedule : Live(srows[s]) /\ srows[s].marker \in Marker =>
              \/ Live(schedule[s]) /\ srows[s].marker = schedule[s].marker
              \/ Live(marker[srows[s].marker])
    PROVE  Fresh' /\ PlannedHasMarker'
<1>1. \A m \in Marker : marker'[m] = marker[m] \/ Live(marker'[m])
  BY DEF Commit, Saved
<1>2. \A s \in Schedule :
         schedule'[s] = schedule[s] \/ (Live(srows[s]) /\ schedule'[s] = srows[s])
  BY DEF Commit
<1>3. PlannedHasMarker'
  BY <1>1, <1>2, KeepsMarkers
<1> QED
  BY <1>3, FreshClose DEF Commit

LEMMA MarkerStepFresh ==
    ASSUME TypeOK, Copies, Fresh, PlannedHasMarker, Serial, NEW p \in Process, MarkerStep(p)
    PROVE  Fresh' /\ PlannedHasMarker'
<1>r. req[p] \in Request /\ Holds(req[p])
  BY DEF TypeOK, Copies
<1>s. ASSUME NEW row, SaveMarker(p, row), req[p].op \in SaveOps, row.state = Copy(p).state
      PROVE  Fresh' /\ PlannedHasMarker'
  <2> DEFINE m == req[p].m
             mrows == [req[p].mrow EXCEPT ![m] = row]
  <2>1. /\ m \in Marker /\ Live(req[p].mrow[m]) /\ \A s \in Schedule : ~Live(req[p].srow[s])
        /\ req[p].op # "idle"
    BY <1>s, <1>r DEF Holds, SaveOps
  <2>2. Live(mrows[m])
    BY <1>s, <1>r, <2>1 DEF Request, Live, Copy
  <2>3. Commit(p, mrows, {m}, req[p].srow)
    BY <1>s DEF SaveMarker
  <2> HIDE DEF m, mrows
  <2> QED
    BY <2>1, <2>2, <2>3, CommitFresh
<1>c. req[p].op \in SaveOps => Copy(p) \in MarkerRow
  BY <1>r DEF Copy, Holds, Request
<1>1. ASSUME NEW m \in Marker, CreateMarker(p, m)
      PROVE  Fresh' /\ PlannedHasMarker'
  <2>1. /\ \A k \in Marker : Live(marker[k]) => marker'[k] = marker[k]
        /\ schedule' = schedule /\ req' = req /\ \A q \in Process : req[q].op = "idle"
    BY <1>1 DEF CreateMarker, CanStart, TypeOK, Live
  <2>2. PlannedHasMarker'
    BY <2>1, KeepsMarkers
  <2> QED
    BY <2>1, <2>2, FreshClose
<1>2. ASSUME NEW m \in Marker, NEW op \in AllOps, ReadMarker(p, op, m)
      PROVE  Fresh' /\ PlannedHasMarker'
  <2> DEFINE r == [NoRequest EXCEPT !.op = op, !.m = m, !.mrow[m] = marker[m]]
  <2>1. /\ Open(p, r) /\ Live(marker[m]) /\ op \in CreateOps \cup SaveOps
        /\ \A q \in Process : req[q].op = "idle"
    BY <1>2 DEF ReadMarker, CanStart
  <2>2. r.op = op /\ r.m = m /\ \A s \in Schedule : ~Live(r.srow[s])
    BY NotLive DEF NoRequest
  <2> HIDE DEF r
  <2>3. r.op # "DeleteMarker"
    BY <2>1, <2>2 DEF CreateOps, SaveOps
  <2> QED
    BY <2>1, <2>2, <2>3, FreshOpen
<1>3. ASSUME EditMarker(p) PROVE Fresh' /\ PlannedHasMarker'
  <2>1. req[p].op \in SaveOps
    BY <1>3 DEF EditMarker, SaveOps
  <2>2. \A permanent, testing \in BOOLEAN :
           [Copy(p) EXCEPT !.permanent = permanent, !.testing = testing].state
             = Copy(p).state
    BY <2>1, <1>c DEF MarkerRow
  <2> QED
    BY <1>3, <2>1, <2>2, <1>s DEF EditMarker
<1>4. ASSUME RemoveMarker(p) \/ UpdateMarkerFavourite(p) \/ RevokeMarker(p)
      PROVE  Fresh' /\ PlannedHasMarker'
  <2>1. req[p].op \in SaveOps
    BY <1>4 DEF RemoveMarker, UpdateMarkerFavourite, RevokeMarker, SaveOps
  <2>2. /\ \A status : [Copy(p) EXCEPT !.status = status].state = Copy(p).state
        /\ \A favourite : [Copy(p) EXCEPT !.favourite = favourite].state = Copy(p).state
    BY <2>1, <1>c DEF MarkerRow
  <2> QED
    BY <1>4, <2>1, <2>2, <1>s DEF RemoveMarker, UpdateMarkerFavourite, RevokeMarker
<1> QED
  BY <1>1, <1>2, <1>3, <1>4 DEF MarkerStep

LEMMA ListFresh ==
    ASSUME TypeOK, Copies, Fresh, PlannedHasMarker, Serial, NEW p \in Process,
           \/ \E s \in Schedule : ReadEntry(p, s)
           \/ \E status \in ScheduleStatus : WriteEntry(p, status)
    PROVE  Fresh' /\ PlannedHasMarker'
<1>r. req[p] \in Request /\ Holds(req[p])
  BY DEF TypeOK, Copies
<1>f. req[p].srow \in [Schedule -> ScheduleRow]
  BY <1>r DEF Request
<1>n. "UpdateScheduleStatus" \notin CreateOps
  BY DEF CreateOps
<1>h. \A k \in Schedule : Live(req[p].srow[k]) =>
         Live(schedule[k]) /\ schedule[k].marker = req[p].srow[k].marker
  BY DEF Fresh
<1>1. ASSUME NEW s \in Schedule, ReadEntry(p, s)
      PROVE  Fresh' /\ PlannedHasMarker'
  <2> DEFINE row == OwnSchedule(p, s)
             mrow == WithMarker(req[p].mrow, OwnMarkers(p), row.marker)
             r == [req[p] EXCEPT !.op = "UpdateScheduleStatus", !.s = s, !.mrow = mrow,
                                 !.srow[s] = row]
  <2>1. /\ Live(row) /\ Open(p, r)
        /\ req[p].op # "idle" \/ \A q \in Process : req[q].op = "idle"
    BY <1>1 DEF ReadEntry, CanStart
  <2>2. Live(schedule[s]) /\ schedule[s].marker = row.marker
    BY <2>1, <1>h DEF OwnSchedule
  <2> HIDE DEF row, mrow
  <2>3. /\ r.op = "UpdateScheduleStatus" /\ r.srow[s] = row
        /\ \A k \in Schedule \ {s} : r.srow[k] = req[p].srow[k]
    BY <1>r, <1>f DEF Request
  <2> HIDE DEF r
  <2>4. \A k \in Schedule : Live(r.srow[k]) =>
           Live(schedule[k]) /\ schedule[k].marker = r.srow[k].marker
    BY <2>2, <2>3, <1>h
  <2> QED
    BY <2>1, <2>3, <2>4, <1>n, FreshOpen
<1>2. ASSUME NEW status \in ScheduleStatus, WriteEntry(p, status)
      PROVE  Fresh' /\ PlannedHasMarker'
  <2> DEFINE mrow == [m \in Marker |->
                 IF Follows(p) /\ m = Row(p).marker
                 THEN [RowMarker(p) EXCEPT !.status = StatusFor(status)]
                 ELSE req[p].mrow[m]]
             dirty == req[p].dirty \cup {m \in Marker : Follows(p) /\ m = Row(p).marker}
             s == req[p].s
             r == [req[p] EXCEPT !.s = NoSchedule, !.srow[s].status = status,
                                 !.mrow = mrow, !.dirty = dirty]
  <2>1. /\ Open(p, r) /\ req[p].op = "UpdateScheduleStatus" /\ s \in Schedule
        /\ req[p].srow[s] \in ScheduleRow /\ Live(req[p].srow[s])
    BY <1>2, <1>r, <1>f DEF WriteEntry, Holds, Request
  <2> HIDE DEF mrow, dirty
  <2>2. /\ r.op = "UpdateScheduleStatus" /\ r.srow[s].marker = req[p].srow[s].marker
        /\ \A k \in Schedule \ {s} : r.srow[k] = req[p].srow[k]
    BY <2>1, <1>r, <1>f DEF Request, ScheduleRow
  <2> HIDE DEF r, s
  <2>3. \A k \in Schedule : Live(r.srow[k]) =>
           Live(schedule[k]) /\ schedule[k].marker = r.srow[k].marker
    BY <2>1, <2>2, <1>h
  <2> QED
    BY <2>1, <2>2, <2>3, <1>n, FreshOpen
<1> QED
  BY <1>1, <1>2

LEMMA CreateScheduleFresh ==
    ASSUME TypeOK, Copies, Fresh, PlannedHasMarker, Serial, NEW p \in Process,
           NEW s \in Schedule, CreateSchedule(p, s) \/ CreateMovieSchedule(p, s)
    PROVE  Fresh' /\ PlannedHasMarker'
<1>r. req[p] \in Request /\ Holds(req[p])
  BY DEF TypeOK, Copies
<1>1. CASE CreateSchedule(p, s)
  <2> DEFINE m == req[p].m
             D == IF Copy(p).permanent THEN {} ELSE {m}
             mrows == [req[p].mrow EXCEPT ![m] = Marked(Copy(p))]
  <2>1. /\ m \in Marker /\ Live(req[p].mrow[m]) /\ Live(marker[m])
        /\ \A k \in Schedule : ~Live(req[p].srow[k])
        /\ req[p].op # "idle"
    BY <1>1, <1>r DEF CreateSchedule, Holds, Fresh, CreateOps
  <2>2. PICK row :
          /\ row.marker = m
          /\ Commit(p, mrows, D, [req[p].srow EXCEPT ![s] = row])
    <3>1. \A day, slot, testing : Planned(m, Copy(p), day, slot, testing).marker = m
      BY DEF Planned
    <3> QED
      BY <1>1, <3>1 DEF CreateSchedule
  <2>3. \A k \in D : Live(mrows[k])
    <3>1. Copy(p) \in MarkerRow /\ Copy(p) = req[p].mrow[m]
      BY <1>r, <2>1 DEF Request, Copy
    <3>2. Live(Marked(Copy(p)))
      BY <2>1, <3>1, MarkedTyped DEF Live
    <3>3. mrows[m] = Marked(Copy(p))
      BY <1>r, <2>1 DEF Request
    <3> QED
      BY <3>2, <3>3
  <2> DEFINE srows == [req[p].srow EXCEPT ![s] = row]
  <2>4. srows[s] = row /\ \A k \in Schedule \ {s} : srows[k] = req[p].srow[k]
    BY <1>r DEF Request
  <2>5. Commit(p, mrows, D, srows)
    BY <2>2
  <2> HIDE DEF mrows, D, srows, m
  <2>6. \A k \in Schedule : Live(srows[k]) => Live(marker[srows[k].marker])
    BY <2>1, <2>2, <2>4
  <2> QED
    BY <2>1, <2>3, <2>5, <2>6, CommitFresh
<1>2. CASE CreateMovieSchedule(p, s)
  <2>1. \A day, slot : Planned(NoMarker, NoMarkerRow, day, slot, FALSE).marker = NoMarker
    BY DEF Planned
  <2>2. PICK row : row.marker = NoMarker /\ schedule' = [schedule EXCEPT ![s] = row]
    BY <1>2, <2>1 DEF CreateMovieSchedule
  <2>3. schedule'[s] = row /\ \A k \in Schedule \ {s} : schedule'[k] = schedule[k]
    BY <2>2 DEF TypeOK
  <2>4. marker' = marker /\ req' = req /\ \A q \in Process : req[q].op = "idle"
    BY <1>2 DEF CreateMovieSchedule, CanStart
  <2>5. PlannedHasMarker'
    BY <2>2, <2>3, <2>4, KeepsMarkers
  <2> QED
    BY <2>4, <2>5, FreshClose
<1> QED
  BY <1>1, <1>2

LEMMA RowStepFresh ==
    ASSUME TypeOK, Copies, Fresh, PlannedHasMarker, Serial, NEW p \in Process,
           \/ \E s \in Schedule, op \in AllOps : ReadSchedule(p, op, s)
           \/ EditSchedule(p)
           \/ RemoveSchedule(p)
           \/ UpdateScheduleStatus(p)
    PROVE  Fresh' /\ PlannedHasMarker'
<1>r. req[p] \in Request /\ Holds(req[p])
  BY DEF TypeOK, Copies
<1>f. req[p].srow \in [Schedule -> ScheduleRow]
  BY <1>r DEF Request
<1>h. \A k \in Schedule : Live(req[p].srow[k]) =>
         Live(schedule[k]) /\ schedule[k].marker = req[p].srow[k].marker
  BY DEF Fresh
<1>1. ASSUME NEW s \in Schedule, NEW op \in AllOps, ReadSchedule(p, op, s)
      PROVE  Fresh' /\ PlannedHasMarker'
  <2> DEFINE mrow == WithMarker(NoRequest.mrow, marker, schedule[s].marker)
             r == [NoRequest EXCEPT !.op = op, !.s = s, !.mrow = mrow,
                                    !.srow[s] = schedule[s]]
  <2>1. /\ op \in RowOps /\ Live(schedule[s]) /\ Open(p, r)
        /\ \A q \in Process : req[q].op = "idle"
    BY <1>1 DEF ReadSchedule, CanStart
  <2> HIDE DEF mrow
  <2>2. /\ r.op = op /\ r.srow[s] = schedule[s]
        /\ \A k \in Schedule \ {s} : ~Live(r.srow[k])
    BY NotLive DEF NoRequest
  <2> HIDE DEF r
  <2>3. r.op \notin CreateOps /\ r.op # "DeleteMarker"
    BY <2>1, <2>2 DEF CreateOps, RowOps
  <2>4. \A k \in Schedule : Live(r.srow[k]) =>
           Live(schedule[k]) /\ schedule[k].marker = r.srow[k].marker
    BY <2>1, <2>2
  <2> QED
    BY <2>1, <2>3, <2>4, FreshOpen
<1>2. ASSUME EditSchedule(p) PROVE Fresh' /\ PlannedHasMarker'
  <2> DEFINE s == req[p].s
  <2>1. s \in Schedule /\ Row(p) = req[p].srow[s] /\ Live(Row(p)) /\ Row(p) \in ScheduleRow
          /\ req[p].op # "idle"
    BY <1>2, <1>r, <1>f DEF EditSchedule, Holds, RowOps, Row
  <2>2. PICK row \in EditedRows(p), testing \in BOOLEAN :
          Commit(p, req[p].mrow, {},
                 [req[p].srow EXCEPT ![s] = [row EXCEPT !.testing = testing]])
    BY <1>2 DEF EditSchedule
  <2> DEFINE new == [row EXCEPT !.testing = testing]
             srows == [req[p].srow EXCEPT ![s] = new]
  <2>3. new.marker = Row(p).marker
    BY <2>1, EditedRowsTyped DEF ScheduleRow
  <2> HIDE DEF new
  <2>4. srows[s] = new /\ \A k \in Schedule \ {s} : srows[k] = req[p].srow[k]
    BY <1>f, <2>1
  <2>5. Commit(p, req[p].mrow, {}, srows)
    BY <2>2 DEF new
  <2> HIDE DEF srows, s
  <2>6. \A k \in Schedule : Live(srows[k]) =>
           Live(schedule[k]) /\ srows[k].marker = schedule[k].marker
    BY <2>1, <2>3, <2>4, <1>h
  <2> QED
    BY <2>1, <2>5, <2>6, CommitFresh
<1>3. ASSUME RemoveSchedule(p) PROVE Fresh' /\ PlannedHasMarker'
  <2>1. RowMarker(p) \in MarkerRow
    BY <1>r, BlanksTyped DEF RowMarker, Request
  <2>2. Live(RowMarker(p)) => Live([RowMarker(p) EXCEPT !.status = ""])
    BY <2>1 DEF MarkerRow, Live
  <2>3. \A m \in Marker : Live(marker[m]) => Live(marker'[m])
    BY <1>3, <2>2 DEF RemoveSchedule
  <2>4. \A s \in Schedule : Live(schedule'[s]) => schedule'[s] = schedule[s]
    <3>1. \A s \in Schedule : ~Live([schedule[s] EXCEPT !.state = "deleted"])
      BY DEF TypeOK, ScheduleRow, Live
    <3> QED
      BY <1>3, <3>1 DEF RemoveSchedule, TypeOK
  <2>5. PlannedHasMarker'
    BY <2>3, <2>4, KeepsMarkers
  <2> QED
    BY <1>3, <2>5, FreshClose DEF RemoveSchedule
<1>4. ASSUME UpdateScheduleStatus(p) PROVE Fresh' /\ PlannedHasMarker'
  <2>1. /\ req[p].op # "idle" /\ \A m \in req[p].dirty : Live(req[p].mrow[m])
        /\ Commit(p, req[p].mrow, req[p].dirty, req[p].srow)
    BY <1>4, <1>r DEF UpdateScheduleStatus, Holds
  <2> QED
    BY <2>1, <1>h, CommitFresh
<1> QED
  BY <1>1, <1>2, <1>3, <1>4

LEMMA OverwriteFresh ==
    ASSUME TypeOK, Copies, Fresh, PlannedHasMarker, Serial, NEW p \in Process,
           Overwrite(p) \/ \E day \in Day : ListDay(p, day)
    PROVE  Fresh' /\ PlannedHasMarker'
<1>r. req[p] \in Request
  BY DEF TypeOK
<1>1. ASSUME NEW day \in Day, ListDay(p, day)
      PROVE  Fresh' /\ PlannedHasMarker'
  <2> DEFINE listed == {schedule[s].marker : s \in OnDay(day)}
             mrow == [m \in Marker |->
                        IF m \in listed THEN Preloaded(marker, m) ELSE NoMarkerRow]
             r == [NoRequest EXCEPT !.op = "Overwrite", !.day = day, !.mrow = mrow]
  <2>1. Open(p, r) /\ \A q \in Process : req[q].op = "idle"
    BY <1>1 DEF ListDay, CanStart
  <2> HIDE DEF mrow
  <2>2. r.op = "Overwrite" /\ \A k \in Schedule : ~Live(r.srow[k])
    BY NotLive DEF NoRequest
  <2> HIDE DEF r
  <2> QED
    BY <2>1, <2>2, FreshOpen DEF CreateOps
<1>2. ASSUME Overwrite(p) PROVE Fresh' /\ PlannedHasMarker'
  <2>1. PICK ids \in SUBSET {s \in Schedule : schedule[s].state = "none"} :
        \E item \in [ids -> Item] :
          /\ \A s \in ids : Live(Reset(p)[item[s].marker])
          /\ marker' = [m \in Marker |->
                IF \E s \in ids : item[s].marker = m
                THEN Marked(Reset(p)[m]) ELSE Reset(p)[m]]
          /\ schedule' = [s \in Schedule |->
                IF s \in ids
                THEN LET row == Reset(p)[item[s].marker]
                     IN  Planned(item[s].marker, row, req[p].day, item[s].slot,
                                 item[s].testing \/ row.testing)
                ELSE IF s \in Replaced(p)
                     THEN [schedule[s] EXCEPT !.state = "deleted"]
                     ELSE schedule[s]]
    BY <1>2 DEF Overwrite
  <2>2. PICK item \in [ids -> Item] :
          /\ \A s \in ids : Live(Reset(p)[item[s].marker])
          /\ marker' = [m \in Marker |->
                IF \E s \in ids : item[s].marker = m
                THEN Marked(Reset(p)[m]) ELSE Reset(p)[m]]
          /\ schedule' = [s \in Schedule |->
                IF s \in ids
                THEN LET row == Reset(p)[item[s].marker]
                     IN  Planned(item[s].marker, row, req[p].day, item[s].slot,
                                 item[s].testing \/ row.testing)
                ELSE IF s \in Replaced(p)
                     THEN [schedule[s] EXCEPT !.state = "deleted"]
                     ELSE schedule[s]]
    BY <2>1
  <2>3. ASSUME NEW m \in Marker
        PROVE  /\ Live(marker[m]) => Live(Reset(p)[m])
               /\ Live(Reset(p)[m]) => Live(marker'[m])
    <3>1. Live(marker[m]) => Live(Reset(p)[m])
      <4>1. req[p].mrow[m] \in MarkerRow
        BY <1>r DEF Request
      <4>2. Live(req[p].mrow[m]) => Live([req[p].mrow[m] EXCEPT !.status = ""])
        BY <4>1 DEF MarkerRow, Live
      <4> QED
        BY <4>2 DEF Reset
    <3>2. Reset(p)[m] \in MarkerRow
      BY ResetTyped
    <3>3. marker'[m] \in {Reset(p)[m], Marked(Reset(p)[m])}
      BY <2>2
    <3> QED
      BY <3>1, <3>2, <3>3, MarkedTyped DEF Live
  <2>4. ASSUME NEW s \in Schedule, Live(schedule'[s]), schedule'[s].marker \in Marker
        PROVE  \/ Live(schedule[s]) /\ schedule'[s].marker = schedule[s].marker
               \/ Live(marker'[schedule'[s].marker])
    <3>1. CASE s \in ids
      <4>1. schedule'[s].marker = item[s].marker
        BY <2>2, <3>1 DEF Planned
      <4> QED
        BY <2>2, <2>3, <2>4, <3>1, <4>1
    <3>2. CASE s \notin ids /\ s \in Replaced(p)
      <4>1. schedule'[s] = [schedule[s] EXCEPT !.state = "deleted"]
        BY <2>2, <3>2
      <4>2. schedule[s] \in ScheduleRow
        BY DEF TypeOK
      <4> QED
        BY <4>1, <4>2, <2>4 DEF Live, ScheduleRow
    <3>3. CASE s \notin ids /\ s \notin Replaced(p)
      BY <2>2, <2>4, <3>3
    <3> QED
      BY <3>1, <3>2, <3>3
  <2>5. PlannedHasMarker'
    BY <2>3, <2>4, KeepsMarkers
  <2> QED
    BY <1>2, <2>5, FreshClose DEF Overwrite
<1> QED
  BY <1>1, <1>2

LEMMA OtherStepFresh ==
    ASSUME TypeOK, Copies, Fresh, PlannedHasMarker, Serial, NEW p \in Process,
           AdminStep(p) \/ Fail(p)
    PROVE  Fresh' /\ PlannedHasMarker'
<1>1. ASSUME NEW m \in Marker, ValidateDeletion(p, m) PROVE Fresh' /\ PlannedHasMarker'
  <2> DEFINE r == [NoRequest EXCEPT !.op = "DeleteMarker", !.m = m]
  <2>1. Open(p, r) /\ Counted(m) = {} /\ \A q \in Process : req[q].op = "idle"
    BY <1>1 DEF ValidateDeletion, CanStart
  <2>2. r.op = "DeleteMarker" /\ r.m = m /\ \A k \in Schedule : ~Live(r.srow[k])
    BY NotLive DEF NoRequest
  <2> HIDE DEF r
  <2>3. \A s \in Schedule : Live(schedule[s]) => schedule[s].marker # m
    BY <2>1 DEF Counted
  <2> QED
    BY <2>1, <2>2, <2>3, FreshOpen DEF CreateOps
<1>2. ASSUME DeleteMarker(p) PROVE Fresh' /\ PlannedHasMarker'
  <2>1. /\ \A s \in Schedule : Live(schedule[s]) => schedule[s].marker # req[p].m
        /\ schedule' = schedule /\ Close(p) /\ req[p].op # "idle"
    BY <1>2 DEF DeleteMarker, Fresh
  <2>2. \A m \in Marker : m # req[p].m => marker'[m] = marker[m]
    BY <1>2 DEF DeleteMarker, TypeOK
  <2>3. PlannedHasMarker'
    BY <2>1, <2>2 DEF PlannedHasMarker
  <2> QED
    BY <2>1, <2>3, FreshClose
<1>3. ASSUME NEW s \in Schedule, DeleteSchedule(p, s) PROVE Fresh' /\ PlannedHasMarker'
  <2>1. ~Live([schedule[s] EXCEPT !.state = "deleted"])
    BY DEF TypeOK, ScheduleRow, Live
  <2>2. /\ \A k \in Schedule : Live(schedule'[k]) => schedule'[k] = schedule[k]
        /\ marker' = marker /\ req' = req /\ \A q \in Process : req[q].op = "idle"
    BY <1>3, <2>1 DEF DeleteSchedule, CanStart, TypeOK
  <2>3. PlannedHasMarker'
    BY <2>2, KeepsMarkers
  <2> QED
    BY <2>2, <2>3, FreshClose
<1>4. ASSUME ClearTesting(p) PROVE Fresh' /\ PlannedHasMarker'
  <2>1. \A s \in Schedule : ~Live([schedule[s] EXCEPT !.state = "erased"])
    BY DEF TypeOK, ScheduleRow, Live
  <2>2. \A s \in Schedule : Live(schedule'[s]) =>
           schedule'[s] = schedule[s] /\ ~ForTesting(schedule[s])
    BY <1>4, <2>1 DEF ClearTesting
  <2>3. /\ \A m \in Marker : ~ForTesting(marker[m]) => marker'[m] = marker[m]
        /\ req' = req /\ \A q \in Process : req[q].op = "idle"
    BY <1>4 DEF ClearTesting, CanStart
  <2>4. \A s \in Schedule : Live(schedule'[s]) /\ schedule'[s].marker \in Marker =>
           ~ForTesting(marker[schedule'[s].marker])
    BY <1>4, <2>2 DEF ClearTesting, ForTesting, Live, Stored
  <2>5. PlannedHasMarker'
    BY <2>2, <2>3, <2>4 DEF PlannedHasMarker
  <2> QED
    BY <2>3, <2>5, FreshClose
<1>5. ASSUME Fail(p) PROVE Fresh' /\ PlannedHasMarker'
  <2>1. marker' = marker /\ schedule' = schedule /\ Close(p) /\ req[p].op # "idle"
    BY <1>5 DEF Fail
  <2> QED
    BY <2>1, FreshClose DEF PlannedHasMarker
<1> QED
  BY <1>1, <1>2, <1>3, <1>4, <1>5 DEF AdminStep

LEMMA FreshStep ==
    ASSUME TypeOK, FreshInv, Serial, [Next]_vars
    PROVE  FreshInv'
<1>i. Copies /\ Fresh /\ PlannedHasMarker
  BY DEF FreshInv
<1>1. ASSUME NEW p \in Process, MarkerStep(p) \/ ScheduleStep(p) \/ AdminStep(p) \/ Fail(p)
      PROVE  Fresh' /\ PlannedHasMarker'
  BY <1>1, <1>i, MarkerStepFresh, CreateScheduleFresh, RowStepFresh, ListFresh,
     OverwriteFresh, OtherStepFresh DEF ScheduleStep
<1>2. ASSUME UNCHANGED vars PROVE Fresh' /\ PlannedHasMarker'
  BY <1>2, <1>i DEF vars, Fresh, PlannedHasMarker
<1>3. Fresh' /\ PlannedHasMarker'
  BY <1>1, <1>2 DEF Next
<1> QED
  BY <1>i, <1>3, TypeStep DEF FreshInv

LEMMA FreshInit == Init => FreshInv
<1> SUFFICES ASSUME Init PROVE FreshInv
  OBVIOUS
<1>1. Copies
  BY TypeInit
<1>2. NoRequest.op = "idle" /\ \A s \in Schedule : ~Live(NoRequest.srow[s])
  BY NotLive DEF NoRequest
<1>3. \A p \in Process : req[p] = NoRequest
  BY DEF Init
<1>4. Fresh
  BY <1>2, <1>3 DEF Fresh, CreateOps
<1>5. PlannedHasMarker
  BY NotLive DEF Init, PlannedHasMarker
<1> QED
  BY <1>1, <1>4, <1>5 DEF FreshInv

\* As long as no two requests overlap, no operation, not even an
\* administrator's, leaves a schedule without the marker it refers to.
THEOREM PlannedHasMarkerInOrder ==
    ASSUME Serial
    PROVE  Spec => []PlannedHasMarker
<1>1. TypeOK /\ FreshInv /\ [Next]_vars => TypeOK' /\ FreshInv'
  BY FreshStep, TypeStep DEF FreshInv
<1>2. Init => TypeOK /\ FreshInv
  BY FreshInit, TypeInit
<1>3. FreshInv => PlannedHasMarker
  BY DEF FreshInv
<1> QED
  BY <1>1, <1>2, <1>3, PTL DEF Spec

-------------------------------------------------------------------------------
(***************************************************************************)
(* The status of a marker, whatever callers do one at a time.              *)
(***************************************************************************)

\* What a request saves beside a status, or resets, is what the tables hold.
UpToDate(r) ==
    /\ r.op \in {"EditMarker", "UpdateMarkerFavourite"} => r.mrow[r.m] = marker[r.m]
    /\ r.op = "EditSchedule" =>
          /\ schedule[r.s] = r.srow[r.s]
          /\ \A s \in Schedule \ {r.s} : ~Live(r.srow[s])
    /\ r.op = "Overwrite" =>
          /\ \A m \in Marker : Live(r.mrow[m]) => r.mrow[m] = marker[m]
          /\ \A s \in OnDay(r.day) :
                schedule[s].marker \in Marker => Live(r.mrow[schedule[s].marker])

OrderedInv == PlanInv /\ FreshInv /\ \A p \in Process : UpToDate(req[p])

LEMMA IdleCurrent == ASSUME NEW r, r.op = "idle" PROVE UpToDate(r) /\ UpToDate(r)'
BY DEF UpToDate

\* A request that only reads, while no other is served.
LEMMA OpenCurrent ==
    ASSUME TypeOK, Fresh, NEW p \in Process, NEW r, Open(p, r), UpToDate(r),
           \A q \in Process \ {p} : req[q].op = "idle"
    PROVE  \A q \in Process : UpToDate(req[q])'
<1>1. marker' = marker /\ schedule' = schedule /\ req' = [req EXCEPT ![p] = r]
  BY DEF Open
<1>2. req'[p] = r /\ \A q \in Process \ {p} : req'[q].op = "idle"
  BY <1>1 DEF TypeOK
<1>3. UpToDate(req[p])'
  BY <1>1, <1>2 DEF UpToDate, OnDay
<1> QED
  BY <1>2, <1>3 DEF UpToDate

\* A request that ends, or is over at once.
LEMMA CloseCurrent ==
    ASSUME TypeOK, Fresh, NEW p \in Process,
           \/ Close(p) /\ req[p].op # "idle"
           \/ UNCHANGED req /\ \A q \in Process : req[q].op = "idle"
    PROVE  \A q \in Process : UpToDate(req[q])'
<1>1. NoRequest.op = "idle"
  BY DEF NoRequest
<1>2. \A q \in Process : req'[q].op = "idle"
  BY <1>1 DEF Fresh, Close, TypeOK
<1> QED
  BY <1>2 DEF UpToDate

LEMMA AloneOpen ==
    ASSUME Fresh, NEW p \in Process,
           req[p].op # "idle" \/ \A q \in Process : req[q].op = "idle"
    PROVE  \A q \in Process \ {p} : req[q].op = "idle"
BY DEF Fresh

LEMMA MarkerStepCurrent ==
    ASSUME TypeOK, Copies, Fresh, Serial, NEW p \in Process, MarkerStep(p)
    PROVE  \A q \in Process : UpToDate(req[q])'
<1>1. ASSUME NEW m \in Marker, CreateMarker(p, m)
      PROVE  \A q \in Process : UpToDate(req[q])'
  BY <1>1, CloseCurrent DEF CreateMarker, CanStart
<1>2. ASSUME NEW m \in Marker, NEW op \in AllOps, ReadMarker(p, op, m)
      PROVE  \A q \in Process : UpToDate(req[q])'
  <2> DEFINE r == [NoRequest EXCEPT !.op = op, !.m = m, !.mrow[m] = marker[m]]
  <2>1. op \in CreateOps \cup SaveOps /\ Open(p, r) /\ \A q \in Process : req[q].op = "idle"
    BY <1>2 DEF ReadMarker, CanStart
  <2>2. r.op = op /\ r.m = m /\ r.mrow[m] = marker[m]
    BY DEF NoRequest
  <2> HIDE DEF r
  <2>3. UpToDate(r)
    BY <2>1, <2>2 DEF UpToDate, CreateOps, SaveOps
  <2> QED
    BY <2>1, <2>3, OpenCurrent
<1>3. ASSUME EditMarker(p) \/ RemoveMarker(p) \/ UpdateMarkerFavourite(p) \/ RevokeMarker(p)
      PROVE  \A q \in Process : UpToDate(req[q])'
  <2>1. Close(p) /\ req[p].op # "idle"
    BY <1>3 DEF EditMarker, RemoveMarker, UpdateMarkerFavourite, RevokeMarker, SaveMarker, Commit
  <2> QED
    BY <2>1, CloseCurrent
<1> QED
  BY <1>1, <1>2, <1>3 DEF MarkerStep

LEMMA ReadScheduleCurrent ==
    ASSUME TypeOK, Fresh, Serial, NEW p \in Process, NEW s \in Schedule, NEW op \in AllOps,
           ReadSchedule(p, op, s)
    PROVE  \A q \in Process : UpToDate(req[q])'
<1> DEFINE mrow == WithMarker(NoRequest.mrow, marker, schedule[s].marker)
           r == [NoRequest EXCEPT !.op = op, !.s = s, !.mrow = mrow, !.srow[s] = schedule[s]]
<1>1. op \in RowOps /\ Open(p, r) /\ \A q \in Process : req[q].op = "idle"
  BY DEF ReadSchedule, CanStart
<1> HIDE DEF mrow
<1>2. /\ r.op = op /\ r.s = s /\ r.srow[s] = schedule[s]
      /\ \A k \in Schedule \ {s} : ~Live(r.srow[k])
  BY NotLive DEF NoRequest
<1> HIDE DEF r
<1>3. UpToDate(r)
  BY <1>1, <1>2 DEF UpToDate, RowOps
<1> QED
  BY <1>1, <1>3, OpenCurrent

LEMMA ListDayCurrent ==
    ASSUME TypeOK, Fresh, PlanTables, Serial, NEW p \in Process, NEW day \in Day, ListDay(p, day)
    PROVE  /\ \A q \in Process : UpToDate(req[q])'
           /\ (\A q \in Process : PlanHolds(req[q])) =>
                 PlanTables' /\ \A q \in Process : PlanHolds(req[q])'
<1> DEFINE listed == {schedule[s].marker : s \in OnDay(day)}
           mrow == [m \in Marker |->
                      IF m \in listed THEN Preloaded(marker, m) ELSE NoMarkerRow]
           r == [NoRequest EXCEPT !.op = "Overwrite", !.day = day, !.mrow = mrow]
<1>1. Open(p, r) /\ \A q \in Process : req[q].op = "idle"
  BY DEF ListDay, CanStart
<1>2. \A m \in Marker : Live(mrow[m]) => mrow[m] = marker[m]
  BY NotLive DEF Preloaded
<1>3. ASSUME NEW s \in OnDay(day), schedule[s].marker \in Marker
      PROVE  Live(mrow[schedule[s].marker])
  <2>1. Live(marker[schedule[s].marker])
    BY <1>3 DEF OnDay, PlanTables, Live
  <2> QED
    BY <1>3, <2>1 DEF Preloaded
<1> HIDE DEF mrow
<1>4. /\ r.op = "Overwrite" /\ r.day = day /\ r.mrow = mrow
      /\ \A s \in Schedule : ~Live(r.srow[s])
  BY NotLive DEF NoRequest
<1> HIDE DEF r
<1>5. UpToDate(r)
  BY <1>2, <1>3, <1>4 DEF UpToDate
<1>6. PlanHolds(r)
  BY <1>2, <1>4 DEF PlanHolds
<1> QED
  BY <1>1, <1>5, <1>6, OpenCurrent, OpenPlan

LEMMA ScheduleStepCurrent ==
    ASSUME TypeOK, Copies, Fresh, PlanTables, Serial, NEW p \in Process, ScheduleStep(p)
    PROVE  \A q \in Process : UpToDate(req[q])'
<1>1. ASSUME NEW s \in Schedule, CreateSchedule(p, s)
      PROVE  \A q \in Process : UpToDate(req[q])'
  <2>1. Close(p) /\ req[p].op # "idle"
    BY <1>1 DEF CreateSchedule, CreateOps, Commit
  <2> QED
    BY <2>1, CloseCurrent
<1>2. ASSUME NEW s \in Schedule, CreateMovieSchedule(p, s)
      PROVE  \A q \in Process : UpToDate(req[q])'
  BY <1>2, CloseCurrent DEF CreateMovieSchedule, CanStart
<1>3. ASSUME EditSchedule(p) \/ RemoveSchedule(p) \/ UpdateScheduleStatus(p) \/ Overwrite(p)
      PROVE  \A q \in Process : UpToDate(req[q])'
  <2>1. Close(p) /\ req[p].op # "idle"
    BY <1>3 DEF EditSchedule, RemoveSchedule, UpdateScheduleStatus, Overwrite, Commit
  <2> QED
    BY <2>1, CloseCurrent
<1>4. ASSUME NEW s \in Schedule, ReadEntry(p, s)
      PROVE  \A q \in Process : UpToDate(req[q])'
  <2> DEFINE row == OwnSchedule(p, s)
             mrow == WithMarker(req[p].mrow, OwnMarkers(p), row.marker)
             r == [req[p] EXCEPT !.op = "UpdateScheduleStatus", !.s = s, !.mrow = mrow,
                                 !.srow[s] = row]
  <2>1. Open(p, r) /\ (req[p].op # "idle" \/ \A q \in Process : req[q].op = "idle")
    BY <1>4 DEF ReadEntry, CanStart
  <2> HIDE DEF row, mrow
  <2>2. r.op = "UpdateScheduleStatus"
    BY DEF TypeOK, Request
  <2> HIDE DEF r
  <2>3. UpToDate(r)
    BY <2>2 DEF UpToDate
  <2> QED
    BY <2>1, <2>3, AloneOpen, OpenCurrent
<1>5. ASSUME NEW status \in ScheduleStatus, WriteEntry(p, status)
      PROVE  \A q \in Process : UpToDate(req[q])'
  <2>1. PICK r : Open(p, r) /\ r.op = "UpdateScheduleStatus"
    <3> DEFINE mrow == [m \in Marker |->
                   IF Follows(p) /\ m = Row(p).marker
                   THEN [RowMarker(p) EXCEPT !.status = StatusFor(status)]
                   ELSE req[p].mrow[m]]
               dirty == req[p].dirty \cup {m \in Marker : Follows(p) /\ m = Row(p).marker}
               r == [req[p] EXCEPT !.s = NoSchedule, !.srow[req[p].s].status = status,
                                   !.mrow = mrow, !.dirty = dirty]
    <3>1. Open(p, r) /\ req[p].op = "UpdateScheduleStatus"
      BY <1>5 DEF WriteEntry
    <3> HIDE DEF mrow, dirty
    <3>2. r.op = req[p].op
      BY DEF TypeOK, Request
    <3> QED
      BY <3>1, <3>2
  <2>2. UpToDate(r)
    BY <2>1 DEF UpToDate
  <2>3. req[p].op # "idle"
    BY <1>5 DEF WriteEntry
  <2> QED
    BY <2>1, <2>2, <2>3, AloneOpen, OpenCurrent
<1> QED
  BY <1>1, <1>2, <1>3, <1>4, <1>5, ReadScheduleCurrent, ListDayCurrent DEF ScheduleStep

\* A marker that is saved as it is, but for what its status does not depend on.
LEMMA SameStatusPlan ==
    ASSUME TypeOK, PlanInv, NEW p \in Process, req[p].op \in SaveOps,
           req[p].mrow[req[p].m] = marker[req[p].m],
           NEW row, SaveMarker(p, row), row.state = Copy(p).state,
           row.status = Copy(p).status, row.permanent = Copy(p).permanent
    PROVE  PlanTables' /\ \A q \in Process : PlanHolds(req[q])'
<1>p. PlanTables /\ (\A q \in Process : PlanHolds(req[q])) /\ Holds(req[p])
  BY DEF PlanInv, Copies
<1>t. req[p] \in Request
  BY DEF TypeOK
<1> DEFINE m == req[p].m
<1>1. m \in Marker /\ Live(marker[m]) /\ \A s \in Schedule : ~Live(req[p].srow[s])
  BY <1>p DEF Holds
<1>2. /\ Live(row) /\ row.permanent = marker[m].permanent
      /\ row.status = marker[m].status /\ row.status \in MarkerStatus
  BY <1>1 DEF Copy, Live, TypeOK, MarkerRow
<1>3. /\ marker' = [k \in Marker |->
             IF k \in {m} THEN [req[p].mrow EXCEPT ![m] = row][k] ELSE marker[k]]
      /\ schedule' = [s \in Schedule |->
             IF Live(req[p].srow[s]) THEN req[p].srow[s] ELSE schedule[s]]
      /\ Close(p)
  BY <1>p, CommitPlan DEF SaveMarker
<1>4. schedule' = schedule
  BY <1>1, <1>3 DEF TypeOK
<1>5. [req[p].mrow EXCEPT ![m] = row][m] = row
  BY <1>t, <1>1 DEF Request
<1> HIDE DEF m
<1>6. marker'[m] = row /\ \A k \in Marker \ {m} : marker'[k] = marker[k]
  BY <1>1, <1>3, <1>5
<1>7. ASSUME row.status \in Shown
      PROVE  /\ ~row.permanent
             /\ \E s \in Schedule : Live(schedule[s]) /\ schedule[s].marker = m
                                      /\ Witness(schedule[s].status, row.status)
  BY <1>1, <1>2, <1>7, <1>p DEF PlanTables, PermanentIsOpen, StatusHasSchedule, Shown
<1>8. row.status \in {"", "cancelled"} \/ row.status \in Shown
  BY <1>2 DEF MarkerStatus, Shown
<1>9. Effect({m}, {})
  BY <1>1, <1>2, <1>4, <1>6, <1>7, <1>8 DEF Effect
<1> QED
  BY <1>1, <1>3, <1>9, <1>p, EffectPlan

LEMMA EditMarkerPlan ==
    ASSUME TypeOK, PlanInv, NEW p \in Process, UpToDate(req[p]), "permanent" \notin EditedFlags,
           EditMarker(p) \/ UpdateMarkerFavourite(p)
    PROVE  PlanTables' /\ \A q \in Process : PlanHolds(req[q])'
<1>1. req[p].op \in SaveOps /\ req[p].mrow[req[p].m] = marker[req[p].m]
  BY DEF EditMarker, UpdateMarkerFavourite, SaveOps, UpToDate
<1>2. Copy(p) \in MarkerRow
  <2>1. req[p].m \in Marker
    BY <1>1 DEF PlanInv, Copies, Holds
  <2> QED
    BY <2>1 DEF Copy, TypeOK, Request
<1>3. PICK row :
         /\ SaveMarker(p, row) /\ row.state = Copy(p).state
         /\ row.status = Copy(p).status /\ row.permanent = Copy(p).permanent
  <2>1. CASE EditMarker(p)
    <3>1. PICK testing \in BOOLEAN :
             SaveMarker(p, [Copy(p) EXCEPT !.permanent = Copy(p).permanent, !.testing = testing])
      BY <2>1 DEF EditMarker
    <3>2. \A flag \in BOOLEAN :
             LET row == [Copy(p) EXCEPT !.permanent = Copy(p).permanent, !.testing = flag]
             IN  /\ row.state = Copy(p).state /\ row.status = Copy(p).status
                 /\ row.permanent = Copy(p).permanent
      BY <1>2 DEF MarkerRow
    <3> QED
      BY <3>1, <3>2
  <2>2. CASE UpdateMarkerFavourite(p)
    <3>1. \A favourite \in BOOLEAN :
             LET row == [Copy(p) EXCEPT !.favourite = favourite]
             IN  /\ row.state = Copy(p).state /\ row.status = Copy(p).status
                 /\ row.permanent = Copy(p).permanent
      BY <1>2 DEF MarkerRow
    <3> QED
      BY <2>2, <3>1 DEF UpdateMarkerFavourite
  <2> QED
    BY <2>1, <2>2
<1> QED
  BY <1>1, <1>3, SameStatusPlan

LEMMA EditSchedulePlan ==
    ASSUME TypeOK, PlanInv, NEW p \in Process, UpToDate(req[p]), EditSchedule(p)
    PROVE  PlanTables' /\ \A q \in Process : PlanHolds(req[q])'
<1>p. PlanTables /\ (\A q \in Process : PlanHolds(req[q])) /\ Holds(req[p])
  BY DEF PlanInv, Copies
<1>t. req[p] \in Request
  BY DEF TypeOK
<1>f. req[p].srow \in [Schedule -> ScheduleRow]
  BY <1>t DEF Request
<1> DEFINE s == req[p].s
           D == {m \in Marker : m = schedule[s].marker}
<1>1. /\ s \in Schedule /\ Row(p) = schedule[s] /\ req[p].srow[s] = schedule[s]
      /\ Live(schedule[s]) /\ schedule[s] \in ScheduleRow
      /\ \A k \in Schedule \ {s} : ~Live(req[p].srow[k])
  BY <1>p, <1>f DEF EditSchedule, Holds, RowOps, Row, UpToDate
<1>2. PICK row \in EditedRows(p), testing \in BOOLEAN :
         Commit(p, req[p].mrow, {}, [req[p].srow EXCEPT ![s] = [row EXCEPT !.testing = testing]])
  BY DEF EditSchedule
<1> DEFINE new == [row EXCEPT !.testing = testing]
<1>3. Live(new) /\ new.marker = schedule[s].marker /\ new.status = schedule[s].status
  BY <1>1, EditedRowsTyped DEF ScheduleRow, Live
<1> HIDE DEF new
<1> DEFINE srows == [req[p].srow EXCEPT ![s] = new]
<1>4. srows[s] = new /\ \A k \in Schedule \ {s} : ~Live(srows[k])
  BY <1>1, <1>f
<1>5. Commit(p, req[p].mrow, {}, srows)
  BY <1>2 DEF new
<1> HIDE DEF srows, s
<1>6. /\ marker' = [m \in Marker |-> IF m \in {} THEN req[p].mrow[m] ELSE marker[m]]
      /\ schedule' = [k \in Schedule |-> IF Live(srows[k]) THEN srows[k] ELSE schedule[k]]
      /\ Close(p)
  BY <1>5, <1>p, CommitPlan
<1>7. /\ \A m \in Marker : marker'[m] = marker[m]
      /\ schedule'[s] = new /\ \A k \in Schedule \ {s} : schedule'[k] = schedule[k]
  BY <1>1, <1>3, <1>4, <1>6
<1>8. ASSUME NEW m \in D
      PROVE  /\ m \in Marker /\ Live(marker[m])
             /\ \/ marker[m].status \in {"", "cancelled"}
                \/ /\ ~marker[m].permanent
                   /\ \E k \in Schedule :
                         Live(schedule'[k]) /\ schedule'[k].marker = m
                           /\ Witness(schedule'[k].status, marker[m].status)
  <2>1. m = schedule[s].marker /\ m \in Marker /\ Live(marker[m])
    BY <1>1, <1>p DEF PlanTables, Live
  <2>2. ASSUME marker[m].status \in Shown
        PROVE  /\ ~marker[m].permanent
               /\ \E k \in Schedule :
                     Live(schedule'[k]) /\ schedule'[k].marker = m
                       /\ Witness(schedule'[k].status, marker[m].status)
    <3>1. PICK k \in Schedule : Live(schedule[k]) /\ schedule[k].marker = m
                                  /\ Witness(schedule[k].status, marker[m].status)
      BY <2>1, <2>2, <1>p DEF PlanTables, StatusHasSchedule
    <3>2. ~marker[m].permanent
      BY <2>1, <2>2, <1>p DEF PlanTables, PermanentIsOpen, Shown
    <3>3. Live(schedule'[k]) /\ schedule'[k].marker = m /\ schedule'[k].status = schedule[k].status
      BY <3>1, <1>3, <1>7
    <3> QED
      BY <3>1, <3>2, <3>3
  <2>3. marker[m].status \in MarkerStatus
    BY <2>1 DEF TypeOK, MarkerRow
  <2> QED
    BY <2>1, <2>2, <2>3 DEF MarkerStatus, Shown
<1>9. /\ new.state # "none" /\ schedule[s].state # "none"
      /\ new.marker \in Marker => Live(marker[new.marker]) /\ schedule[s].marker \in D
  BY <1>1, <1>3, <1>p DEF PlanTables, Live
<1> HIDE DEF D
<1>10. Effect(D, {s})
  BY <1>3, <1>7, <1>8, <1>9 DEF Effect
<1>11. D \in SUBSET Marker /\ {s} \in SUBSET Schedule
  BY <1>1 DEF D
<1> QED
  BY <1>6, <1>10, <1>11, <1>p, EffectPlan

LEMMA OverwritePlan ==
    ASSUME TypeOK, PlanInv, NEW p \in Process, UpToDate(req[p]), Overwrite(p)
    PROVE  PlanTables' /\ \A q \in Process : PlanHolds(req[q])'
<1>p. PlanTables /\ (\A q \in Process : PlanHolds(req[q])) /\ Holds(req[p])
  BY DEF PlanInv, Copies
<1>t. req[p] \in Request /\ Reset(p) \in [Marker -> MarkerRow]
  BY ResetTyped DEF TypeOK
<1>1. PICK ids \in SUBSET {s \in Schedule : schedule[s].state = "none"} :
      \E item \in [ids -> Item] :
        /\ \A s \in ids : Live(Reset(p)[item[s].marker])
        /\ marker' = [m \in Marker |->
              IF \E s \in ids : item[s].marker = m
              THEN Marked(Reset(p)[m]) ELSE Reset(p)[m]]
        /\ schedule' = [s \in Schedule |->
              IF s \in ids
              THEN LET row == Reset(p)[item[s].marker]
                   IN  Planned(item[s].marker, row, req[p].day, item[s].slot,
                               item[s].testing \/ row.testing)
              ELSE IF s \in Replaced(p)
                   THEN [schedule[s] EXCEPT !.state = "deleted"]
                   ELSE schedule[s]]
  <2>1. Overwrite(p)
    OBVIOUS
  <2> QED
    BY ONLY <2>1 DEF Overwrite
<1>2. PICK item \in [ids -> Item] :
        /\ \A s \in ids : Live(Reset(p)[item[s].marker])
        /\ marker' = [m \in Marker |->
              IF \E s \in ids : item[s].marker = m
              THEN Marked(Reset(p)[m]) ELSE Reset(p)[m]]
        /\ schedule' = [s \in Schedule |->
              IF s \in ids
              THEN LET row == Reset(p)[item[s].marker]
                   IN  Planned(item[s].marker, row, req[p].day, item[s].slot,
                               item[s].testing \/ row.testing)
              ELSE IF s \in Replaced(p)
                   THEN [schedule[s] EXCEPT !.state = "deleted"]
                   ELSE schedule[s]]
  BY <1>1
<1> DEFINE D == {m \in Marker : Live(req[p].mrow[m]) \/ \E s \in ids : item[s].marker = m}
           T == ids \cup Replaced(p)
<1>3. /\ \A m \in Marker : Live(req[p].mrow[m]) => req[p].mrow[m] = marker[m]
      /\ \A s \in Replaced(p) : schedule[s].marker \in Marker =>
            Live(req[p].mrow[schedule[s].marker])
      /\ req[p].op = "Overwrite"
  BY DEF Overwrite, UpToDate, Replaced
\* A reset marker is the one in the table, open if a schedule of the day had it.
<1>4. ASSUME NEW m \in Marker
      PROVE  /\ Reset(p)[m] \in MarkerRow
             /\ Live(Reset(p)[m]) <=> Live(marker[m])
             /\ Reset(p)[m].permanent = marker[m].permanent
             /\ Live(req[p].mrow[m]) => Reset(p)[m].status = ""
             /\ ~Live(req[p].mrow[m]) => Reset(p)[m] = marker[m]
  <2>1. marker[m] \in MarkerRow
    BY DEF TypeOK
  <2>2. Reset(p)[m] = IF Live(req[p].mrow[m]) THEN [req[p].mrow[m] EXCEPT !.status = ""]
                                              ELSE marker[m]
    BY DEF Reset
  <2>3. CASE Live(req[p].mrow[m])
    <3>1. req[p].mrow[m] = marker[m] /\ Reset(p)[m] = [marker[m] EXCEPT !.status = ""]
      BY <1>3, <2>2, <2>3
    <3> QED
      BY <1>t, <2>1, <2>3, <3>1 DEF MarkerRow, Live
  <2>4. CASE ~Live(req[p].mrow[m])
    BY <2>1, <2>2, <2>4
  <2> QED
    BY <2>3, <2>4
<1>5. ASSUME NEW s \in ids
      PROVE  /\ s \in Schedule /\ schedule[s].state = "none"
             /\ item[s].marker \in Marker /\ Live(marker[item[s].marker])
             /\ Live(schedule'[s]) /\ schedule'[s].marker = item[s].marker
             /\ schedule'[s].status = ""
  <2>1. s \in Schedule /\ schedule[s].state = "none" /\ item[s].marker \in Marker
    BY DEF Item
  <2>2. Live(marker[item[s].marker])
    BY <1>2, <1>4, <2>1
  <2>3. schedule'[s] = LET row == Reset(p)[item[s].marker]
                       IN  Planned(item[s].marker, row, req[p].day, item[s].slot,
                                   item[s].testing \/ row.testing)
    BY <1>2, <2>1
  <2>4. /\ Live(schedule'[s]) /\ schedule'[s].marker = item[s].marker
        /\ schedule'[s].status = ""
    <3> DEFINE row == Reset(p)[item[s].marker]
               testing == item[s].testing \/ row.testing
    <3>1. schedule'[s] = Planned(item[s].marker, row, req[p].day, item[s].slot, testing)
      BY <2>3
    <3> HIDE DEF row, testing
    <3>2. /\ Live(Planned(item[s].marker, row, req[p].day, item[s].slot, testing))
          /\ Planned(item[s].marker, row, req[p].day, item[s].slot, testing).marker
                = item[s].marker
          /\ Planned(item[s].marker, row, req[p].day, item[s].slot, testing).status = ""
      BY ONLY DEF Planned, Live
    <3> QED
      BY ONLY <3>1, <3>2
  <2> QED
    BY <2>1, <2>2, <2>4
<1>6. ASSUME NEW s \in Replaced(p)
      PROVE  /\ s \in Schedule /\ s \notin ids /\ schedule[s].state # "none"
             /\ schedule'[s].state = "deleted" /\ schedule'[s].marker = schedule[s].marker
             /\ schedule[s].marker \in Marker =>
                   Live(marker[schedule[s].marker]) /\ schedule[s].marker \in D
  <2>1. s \in Schedule /\ Live(schedule[s]) /\ schedule[s] \in ScheduleRow
    BY DEF Replaced, OnDay, TypeOK
  <2>2. s \notin ids
    BY <2>1 DEF Live
  <2>3. schedule'[s] = [schedule[s] EXCEPT !.state = "deleted"]
    BY <1>2, <2>1, <2>2
  <2>4. schedule[s].marker \in Marker => Live(marker[schedule[s].marker])
    BY <2>1, <1>p DEF PlanTables, Live
  <2> QED
    BY <1>3, <2>1, <2>2, <2>3, <2>4 DEF ScheduleRow, Live
<1>7. ASSUME NEW m \in D
      PROVE  /\ Live(marker'[m]) /\ marker'[m].permanent = marker[m].permanent
             /\ \/ marker'[m].status \in {"", "cancelled"}
                \/ /\ ~marker'[m].permanent
                   /\ \E s \in Schedule :
                         Live(schedule'[s]) /\ schedule'[s].marker = m
                           /\ Witness(schedule'[s].status, marker'[m].status)
  <2>m. m \in Marker
    OBVIOUS
  <2>1. CASE \E s \in ids : item[s].marker = m
    <3>1. PICK s \in ids : item[s].marker = m
      BY <2>1
    <3>2. marker'[m] = Marked(Reset(p)[m])
      BY <1>2, <2>1, <2>m
    <3>3. Live(marker[m])
      BY <1>5, <3>1
    <3>r. Reset(p)[m] \in MarkerRow /\ Live(Reset(p)[m])
            /\ Reset(p)[m].permanent = marker[m].permanent
      BY <1>4, <2>m, <3>3
    <3>4. Live(marker'[m]) /\ marker'[m].permanent = marker[m].permanent
      BY <3>2, <3>r, MarkedTyped DEF Live
    <3>5. CASE marker[m].permanent
      <4>1. marker'[m] = Reset(p)[m]
        BY <1>4, <2>m, <3>2, <3>5 DEF Marked
      <4>2. Reset(p)[m].status \in {"", marker[m].status}
        BY <1>4, <2>m
      <4> QED
        BY <1>p, <2>m, <3>3, <3>4, <3>5, <4>1, <4>2 DEF PlanTables, PermanentIsOpen
    <3>6. CASE ~marker[m].permanent
      <4>1. marker'[m].status = "scheduled"
        BY <3>2, <3>6, <3>r, MarkedTyped
      <4> QED
        BY <1>5, <3>1, <3>4, <3>6, <4>1 DEF Witness
    <3> QED
      BY <3>5, <3>6
  <2>2. CASE ~\E s \in ids : item[s].marker = m
    <3>1. marker'[m] = Reset(p)[m] /\ Live(req[p].mrow[m])
      BY <1>2, <2>2, <2>m
    <3> QED
      BY <1>3, <1>4, <2>m, <3>1
  <2> QED
    BY <2>1, <2>2
<1>8. \A m \in Marker \ D : marker'[m] = marker[m]
  BY <1>2, <1>4
<1>9. \A s \in Schedule \ T : schedule'[s] = schedule[s]
  BY <1>2
<1>10. D \in SUBSET Marker /\ T \in SUBSET Schedule
  BY <1>5, <1>6
<1>11. ASSUME NEW s \in T
       PROVE  /\ schedule'[s].state # "none"
              /\ schedule'[s].marker \in Marker => Live(marker[schedule'[s].marker])
              /\ schedule[s].state # "none" =>
                    /\ schedule'[s].marker = schedule[s].marker
                    /\ schedule[s].marker \in Marker => schedule[s].marker \in D
  <2>1. CASE s \in ids
    <3>1. Live(schedule'[s]) => schedule'[s].state # "none"
      BY DEF Live
    <3> QED
      BY <1>5, <2>1, <3>1
  <2>2. CASE s \in Replaced(p)
    BY <1>6, <2>2
  <2> QED
    BY <2>1, <2>2
<1> HIDE DEF D, T
<1>12. Effect(D, T)
  BY <1>7, <1>8, <1>9, <1>10, <1>11 DEF Effect
<1> QED
  BY <1>10, <1>12, <1>p, EffectPlan DEF Overwrite

\* Every step of callers who take turns keeps the invariant.
LEMMA OrderedStep ==
    ASSUME TypeOK, OrderedInv, Serial, Ops \cap AdminOps = {}, "permanent" \notin EditedFlags,
           [Next]_vars
    PROVE  OrderedInv'
<1>p. /\ PlanInv /\ PlanTables /\ (\A q \in Process : PlanHolds(req[q])) /\ Copies
      /\ FreshInv /\ Fresh /\ \A q \in Process : UpToDate(req[q])
  BY DEF OrderedInv, PlanInv, FreshInv
<1>1. ASSUME NEW p \in Process, MarkerStep(p)
      PROVE  /\ PlanTables' /\ \A q \in Process : PlanHolds(req[q])'
             /\ \A q \in Process : UpToDate(req[q])'
  <2>1. PlanTables' /\ \A q \in Process : PlanHolds(req[q])'
    BY <1>1, <1>p, EditMarkerPlan, StatusStepPlan DEF MarkerStep
  <2> QED
    BY <2>1, <1>1, <1>p, MarkerStepCurrent
<1>2. ASSUME NEW p \in Process, ScheduleStep(p)
      PROVE  /\ PlanTables' /\ \A q \in Process : PlanHolds(req[q])'
             /\ \A q \in Process : UpToDate(req[q])'
  <2>1. PlanTables' /\ \A q \in Process : PlanHolds(req[q])'
    BY <1>2, <1>p, CreateSchedulePlan, RemoveSchedulePlan, ReadSchedulePlan, ReadEntryPlan,
       WriteEntryPlan, UpdateScheduleStatusPlan, EditSchedulePlan, OverwritePlan,
       ListDayCurrent DEF ScheduleStep
  <2> QED
    BY <2>1, <1>2, <1>p, ScheduleStepCurrent
<1>3. ASSUME NEW p \in Process
      PROVE  ~AdminStep(p)
  <2>1. req[p].op \in Ops \cup {"idle"}
    BY <1>p DEF Copies, Holds
  <2> QED
    BY <2>1 DEF AdminStep, ValidateDeletion, DeleteMarker, DeleteSchedule, ClearTesting,
                CanStart, AdminOps
<1>4. ASSUME NEW p \in Process, Fail(p)
      PROVE  /\ PlanTables' /\ \A q \in Process : PlanHolds(req[q])'
             /\ \A q \in Process : UpToDate(req[q])'
  <2>1. Effect({}, {}) /\ Close(p) /\ req[p].op # "idle"
    BY <1>4 DEF Fail, Effect
  <2> QED
    BY <2>1, <1>p, EffectPlan, CloseCurrent
<1>5. CASE Next
  BY <1>1, <1>2, <1>3, <1>4, <1>5, <1>p, TypeStep, FreshStep DEF Next, OrderedInv, PlanInv
<1>6. CASE UNCHANGED vars
  <2>1. Effect({}, {}) /\ UNCHANGED req
    BY <1>6 DEF vars, Effect
  <2>2. PlanTables' /\ \A q \in Process : PlanHolds(req[q])'
    <3>1. PlanTables' /\ Grows
      BY <2>1, <1>p, EffectKeepsPlan
    <3> QED
      BY <2>1, <3>1, <1>p, HeldKept
  <2>3. \A q \in Process : UpToDate(req[q])'
    BY <1>6, <1>p DEF vars, UpToDate, OnDay
  <2> QED
    BY <2>2, <2>3, <1>p, TypeStep, FreshStep DEF OrderedInv, PlanInv
<1> QED
  BY <1>5, <1>6

\* As long as no two requests overlap, nothing that users and integrations do,
\* an edit, a favourite or an overwrite of a day, leaves a marker shown as
\* scheduled or arrived without a schedule to show for it, if no edit makes a
\* marker permanent.
THEOREM StatusCorrectInOrder ==
    ASSUME Serial, Ops \cap AdminOps = {}, "permanent" \notin EditedFlags
    PROVE  Spec => [](StatusHasSchedule /\ PermanentIsOpen)
<1>1. TypeOK /\ OrderedInv /\ [Next]_vars => TypeOK' /\ OrderedInv'
  BY OrderedStep, TypeStep DEF OrderedInv, PlanInv
<1>2. Init => TypeOK /\ OrderedInv
  <2>1. ASSUME Init PROVE \A p \in Process : UpToDate(req[p])
    <3>1. \A p \in Process : req[p] = NoRequest
      BY <2>1 DEF Init
    <3>2. NoRequest.op = "idle"
      BY DEF NoRequest
    <3> QED
      BY <3>1, <3>2, IdleCurrent
  <2> QED
    BY <2>1, PlanInit, FreshInit, TypeInit DEF OrderedInv
<1>3. OrderedInv => StatusHasSchedule /\ PermanentIsOpen
  BY DEF OrderedInv, PlanInv, PlanTables
<1> QED
  BY <1>1, <1>2, <1>3, PTL DEF Spec

-------------------------------------------------------------------------------
(***************************************************************************)
(* Overwriting a day where every marker lies in UTC.                       *)
(***************************************************************************)

OnlyUtc == \A m \in Marker : Zone[m] = "utc"

Same(row) == row.utc = row.day

LEMMA UtcDaySame ==
    ASSUME OnlyUtc, NEW m, NEW row, NEW day, NEW slot
    PROVE  UtcDay(ZoneOf(m, row), day, slot) = day
BY DEF OnlyUtc, ZoneOf, UtcDay

LEMMA PlannedSame ==
    ASSUME OnlyUtc, NEW m, NEW row, NEW day, NEW slot, NEW testing
    PROVE  Same(Planned(m, row, day, slot, testing))
BY UtcDaySame DEF Planned, Same

\* A step keeps the dates if the rows it writes and the copies it takes do.
LEMMA SameKept ==
    ASSUME TypeOK, SameDate,
           \A s \in Schedule : schedule'[s] = schedule[s] \/ Same(schedule'[s]),
           NEW p \in Process,
           \A q \in Process : q # p => req'[q] = req[q],
           \A s \in Schedule : Same(req'[p].srow[s])
    PROVE  SameDate'
BY DEF SameDate, Same

LEMMA CloseSame ==
    ASSUME TypeOK, SameDate, NEW p \in Process, Close(p) \/ UNCHANGED req
    PROVE  /\ \A q \in Process : q # p => req'[q] = req[q]
           /\ \A s \in Schedule : Same(req'[p].srow[s])
<1>1. \A s \in Schedule : Same(NoRequest.srow[s]) /\ Same(req[p].srow[s])
  BY DEF SameDate, Same, NoRequest, NoScheduleRow
<1>2. req'[p] = NoRequest \/ req'[p] = req[p]
  BY DEF Close, TypeOK
<1>3. \A q \in Process : q # p => req'[q] = req[q]
  BY DEF Close, TypeOK
<1> QED
  BY <1>1, <1>2, <1>3

LEMMA CommitSame ==
    ASSUME TypeOK, SameDate, NEW p \in Process, NEW mrows, NEW dirty, NEW srows,
           Commit(p, mrows, dirty, srows), \A s \in Schedule : Same(srows[s])
    PROVE  SameDate'
<1>1. \A s \in Schedule : schedule'[s] = schedule[s] \/ Same(schedule'[s])
  BY DEF Commit
<1> QED
  BY <1>1, CloseSame, SameKept DEF Commit

LEMMA OpenSame ==
    ASSUME TypeOK, SameDate, NEW p \in Process, NEW r, Open(p, r),
           \A s \in Schedule : Same(r.srow[s])
    PROVE  SameDate'
BY SameKept DEF Open, TypeOK

LEMMA MarkerStepSame ==
    ASSUME TypeOK, SameDate, NEW p \in Process, MarkerStep(p)
    PROVE  SameDate'
<1>b. \A s \in Schedule : Same(NoRequest.srow[s])
  BY DEF Same, NoRequest, NoScheduleRow
<1>c. \A s \in Schedule : Same(req[p].srow[s])
  BY DEF SameDate, Same
<1>s. ASSUME NEW row, SaveMarker(p, row) PROVE SameDate'
  BY <1>s, <1>c, CommitSame DEF SaveMarker
<1>1. ASSUME NEW m \in Marker, CreateMarker(p, m) PROVE SameDate'
  BY <1>1 DEF CreateMarker, SameDate
<1>2. ASSUME NEW m \in Marker, NEW op \in AllOps, ReadMarker(p, op, m) PROVE SameDate'
  <2> DEFINE r == [NoRequest EXCEPT !.op = op, !.m = m, !.mrow[m] = marker[m]]
  <2>1. r.srow = NoRequest.srow
    BY DEF NoRequest
  <2>2. Open(p, r)
    BY <1>2 DEF ReadMarker
  <2> HIDE DEF r
  <2> QED
    BY <2>1, <2>2, <1>b, OpenSame
<1>3. ASSUME EditMarker(p) \/ RemoveMarker(p) \/ UpdateMarkerFavourite(p) \/ RevokeMarker(p)
      PROVE  SameDate'
  BY <1>3, <1>s DEF EditMarker, RemoveMarker, UpdateMarkerFavourite, RevokeMarker
<1> QED
  BY <1>1, <1>2, <1>3 DEF MarkerStep

LEMMA RowsSame ==
    ASSUME TypeOK, SameDate, NEW p \in Process, NEW s \in Schedule, NEW row, Same(row)
    PROVE  \A k \in Schedule : Same([req[p].srow EXCEPT ![s] = row][k])
<1>1. req[p].srow \in [Schedule -> ScheduleRow] /\ \A k \in Schedule : Same(req[p].srow[k])
  BY DEF TypeOK, Request, SameDate, Same
<1> QED
  BY <1>1

LEMMA ScheduleStepSame ==
    ASSUME TypeOK, Copies, SameDate, OnlyUtc, NEW p \in Process, ScheduleStep(p)
    PROVE  SameDate'
<1>r. req[p] \in Request /\ Holds(req[p])
  BY DEF TypeOK, Copies
<1>f. req[p].srow \in [Schedule -> ScheduleRow]
  BY <1>r DEF Request
<1>b. \A s \in Schedule : Same(NoRequest.srow[s])
  BY DEF Same, NoRequest, NoScheduleRow
<1>c. \A s \in Schedule : Same(req[p].srow[s]) /\ Same(schedule[s])
  BY DEF SameDate, Same
<1>d. \A s \in Schedule, state \in RowState : Same([schedule[s] EXCEPT !.state = state])
  BY <1>c DEF TypeOK, ScheduleRow, Same
<1>1. ASSUME NEW s \in Schedule, CreateSchedule(p, s) PROVE SameDate'
  <2>1. PICK mrows, dirty, row :
          Same(row) /\ Commit(p, mrows, dirty, [req[p].srow EXCEPT ![s] = row])
    BY <1>1, PlannedSame DEF CreateSchedule
  <2> QED
    BY <2>1, RowsSame, CommitSame
<1>2. ASSUME NEW s \in Schedule, CreateMovieSchedule(p, s) PROVE SameDate'
  <2>1. PICK row : Same(row) /\ schedule' = [schedule EXCEPT ![s] = row]
    BY <1>2, PlannedSame DEF CreateMovieSchedule
  <2>2. \A k \in Schedule : schedule'[k] = schedule[k] \/ Same(schedule'[k])
    BY <2>1 DEF TypeOK
  <2> QED
    BY <1>2, <2>2, CloseSame, SameKept DEF CreateMovieSchedule
<1>3. ASSUME NEW s \in Schedule, NEW op \in AllOps, ReadSchedule(p, op, s) PROVE SameDate'
  <2> DEFINE mrow == WithMarker(NoRequest.mrow, marker, schedule[s].marker)
             r == [NoRequest EXCEPT !.op = op, !.s = s, !.mrow = mrow,
                                    !.srow[s] = schedule[s]]
  <2>1. Open(p, r)
    BY <1>3 DEF ReadSchedule
  <2> HIDE DEF mrow
  <2>2. /\ r.srow[s] = schedule[s]
        /\ \A k \in Schedule \ {s} : r.srow[k] = NoRequest.srow[k]
    BY DEF NoRequest
  <2> HIDE DEF r
  <2> QED
    BY <2>1, <2>2, <1>b, <1>c, OpenSame
<1>4. ASSUME EditSchedule(p) PROVE SameDate'
  <2> DEFINE s == req[p].s
  <2>1. s \in Schedule /\ Row(p) = req[p].srow[s] /\ Row(p) \in ScheduleRow
    BY <1>4, <1>r, <1>f DEF EditSchedule, Holds, RowOps, Row
  <2>2. PICK row \in EditedRows(p), testing \in BOOLEAN :
          Commit(p, req[p].mrow, {},
                 [req[p].srow EXCEPT ![s] = [row EXCEPT !.testing = testing]])
    BY <1>4 DEF EditSchedule
  <2>3. row \in ScheduleRow /\ Same(row)
    <3>1. CASE row = Row(p)
      BY <3>1, <2>1, <1>c
    <3>2. ASSUME NEW day \in Day, NEW slot \in Slot, row = Moved(p, day, slot)
          PROVE  Same(row)
      BY <3>2, <2>1, UtcDaySame DEF Moved, Same, ScheduleRow
    <3> QED
      BY <3>1, <3>2, <2>1, EditedRowsTyped DEF EditedRows
  <2>4. Same([row EXCEPT !.testing = testing])
    BY <2>3 DEF Same, ScheduleRow
  <2> HIDE DEF s
  <2>5. \A k \in Schedule :
           Same([req[p].srow EXCEPT ![s] = [row EXCEPT !.testing = testing]][k])
    BY <2>1, <2>4, RowsSame
  <2> QED
    BY <2>2, <2>5, CommitSame
<1>5. ASSUME RemoveSchedule(p) PROVE SameDate'
  <2>1. \A k \in Schedule : schedule'[k] = schedule[k] \/ Same(schedule'[k])
    BY <1>5, <1>d DEF RemoveSchedule, TypeOK, RowState
  <2> QED
    BY <1>5, <2>1, CloseSame, SameKept DEF RemoveSchedule
<1>6. ASSUME NEW s \in Schedule, ReadEntry(p, s) PROVE SameDate'
  <2> DEFINE row == OwnSchedule(p, s)
             mrow == WithMarker(req[p].mrow, OwnMarkers(p), row.marker)
             r == [req[p] EXCEPT !.op = "UpdateScheduleStatus", !.s = s, !.mrow = mrow,
                                 !.srow[s] = row]
  <2>1. Open(p, r)
    BY <1>6 DEF ReadEntry
  <2>2. Same(row)
    BY <1>c DEF OwnSchedule
  <2> HIDE DEF mrow, row
  <2>3. r.srow = [req[p].srow EXCEPT ![s] = row]
    BY <1>r DEF Request
  <2>4. \A k \in Schedule : Same([req[p].srow EXCEPT ![s] = row][k])
    BY <2>1, <2>2, RowsSame
  <2>5. \A k \in Schedule : Same(r.srow[k])
    BY <2>3, <2>4
  <2> HIDE DEF r
  <2> QED
    BY <2>1, <2>5, OpenSame
<1>7. ASSUME NEW status \in ScheduleStatus, WriteEntry(p, status) PROVE SameDate'
  <2> DEFINE s == req[p].s
             row == [req[p].srow[s] EXCEPT !.status = status]
             mrow == [m \in Marker |->
                 IF Follows(p) /\ m = Row(p).marker
                 THEN [RowMarker(p) EXCEPT !.status = StatusFor(status)]
                 ELSE req[p].mrow[m]]
             dirty == req[p].dirty \cup {m \in Marker : Follows(p) /\ m = Row(p).marker}
             r == [req[p] EXCEPT !.s = NoSchedule, !.srow[s].status = status,
                                 !.mrow = mrow, !.dirty = dirty]
  <2>1. Open(p, r) /\ s \in Schedule
    BY <1>7, <1>r DEF WriteEntry, Request
  <2>2. Same(row)
    BY <2>1, <1>c, <1>f DEF Same, ScheduleRow
  <2> HIDE DEF mrow, dirty
  <2>3. r.srow = [req[p].srow EXCEPT ![s] = row]
    BY <1>r, <1>f, <2>1 DEF Request
  <2> HIDE DEF row, s
  <2>4. \A k \in Schedule : Same([req[p].srow EXCEPT ![s] = row][k])
    BY <2>1, <2>2, RowsSame
  <2>5. \A k \in Schedule : Same(r.srow[k])
    BY <2>3, <2>4
  <2> HIDE DEF r
  <2> QED
    BY <2>1, <2>5, OpenSame
<1>8. ASSUME UpdateScheduleStatus(p) PROVE SameDate'
  BY <1>8, <1>c, CommitSame DEF UpdateScheduleStatus
<1>9. ASSUME NEW day \in Day, ListDay(p, day) PROVE SameDate'
  <2> DEFINE listed == {schedule[s].marker : s \in OnDay(day)}
             mrow == [m \in Marker |->
                        IF m \in listed THEN Preloaded(marker, m) ELSE NoMarkerRow]
             r == [NoRequest EXCEPT !.op = "Overwrite", !.day = day, !.mrow = mrow]
  <2>1. Open(p, r)
    BY <1>9 DEF ListDay
  <2> HIDE DEF mrow
  <2>2. r.srow = NoRequest.srow
    BY DEF NoRequest
  <2> HIDE DEF r
  <2> QED
    BY <2>1, <2>2, <1>b, OpenSame
<1>10. ASSUME Overwrite(p) PROVE SameDate'
  <2>a. PICK ids \in SUBSET {s \in Schedule : schedule[s].state = "none"} :
          \E item \in [ids -> Item] :
          schedule' = [s \in Schedule |->
                IF s \in ids
                THEN LET row == Reset(p)[item[s].marker]
                     IN  Planned(item[s].marker, row, req[p].day, item[s].slot,
                                 item[s].testing \/ row.testing)
                ELSE IF s \in Replaced(p)
                     THEN [schedule[s] EXCEPT !.state = "deleted"]
                     ELSE schedule[s]]
    BY <1>10 DEF Overwrite
  <2>1. PICK item \in [ids -> Item] :
          schedule' = [s \in Schedule |->
                IF s \in ids
                THEN LET row == Reset(p)[item[s].marker]
                     IN  Planned(item[s].marker, row, req[p].day, item[s].slot,
                                 item[s].testing \/ row.testing)
                ELSE IF s \in Replaced(p)
                     THEN [schedule[s] EXCEPT !.state = "deleted"]
                     ELSE schedule[s]]
    BY <2>a
  <2>2. \A k \in Schedule : schedule'[k] = schedule[k] \/ Same(schedule'[k])
    BY <2>1, <1>d, PlannedSame DEF RowState
  <2> QED
    BY <1>10, <2>2, CloseSame, SameKept DEF Overwrite
<1> QED
  BY <1>1, <1>2, <1>3, <1>4, <1>5, <1>6, <1>7, <1>8, <1>9, <1>10 DEF ScheduleStep

LEMMA SameStep ==
    ASSUME TypeOK, Copies, SameDate, OnlyUtc, [Next]_vars
    PROVE  SameDate'
<1>d. \A s \in Schedule, state \in RowState : Same([schedule[s] EXCEPT !.state = state])
  BY DEF TypeOK, ScheduleRow, Same, SameDate
<1>1. ASSUME NEW p \in Process, AdminStep(p) \/ Fail(p) PROVE SameDate'
  <2>1. ASSUME NEW m \in Marker, ValidateDeletion(p, m) PROVE SameDate'
    <3> DEFINE r == [NoRequest EXCEPT !.op = "DeleteMarker", !.m = m]
    <3>1. \A s \in Schedule : Same(r.srow[s])
      BY DEF Same, NoRequest, NoScheduleRow
    <3> QED
      BY <2>1, <3>1, OpenSame DEF ValidateDeletion
  <2>2. CASE DeleteMarker(p) \/ Fail(p)
    BY <2>2, CloseSame, SameKept DEF DeleteMarker, Fail
  <2>3. ASSUME NEW s \in Schedule, DeleteSchedule(p, s) PROVE SameDate'
    <3>1. \A k \in Schedule : schedule'[k] = schedule[k] \/ Same(schedule'[k])
      BY <2>3, <1>d DEF DeleteSchedule, TypeOK, RowState
    <3> QED
      BY <2>3, <3>1, CloseSame, SameKept DEF DeleteSchedule
  <2>4. CASE ClearTesting(p)
    <3>1. \A k \in Schedule : schedule'[k] = schedule[k] \/ Same(schedule'[k])
      BY <2>4, <1>d DEF ClearTesting, RowState
    <3> QED
      BY <2>4, <3>1, CloseSame, SameKept DEF ClearTesting
  <2> QED
    BY <1>1, <2>1, <2>2, <2>3, <2>4 DEF AdminStep
<1>2. CASE UNCHANGED vars
  BY <1>2 DEF vars, SameDate
<1> QED
  BY <1>1, <1>2, MarkerStepSame, ScheduleStepSame DEF Next

Replaces(p) ==
    req[p].op = "Overwrite" /\ schedule' # schedule /\ req'[p].op = "idle"
      => \A s \in Schedule :
            Live(schedule'[s]) /\ schedule'[s].day = req[p].day
              => schedule[s].state = "none"

\* Only the commit of the overwrite itself ends it and changes schedules.
LEMMA EndsOverwrite ==
    ASSUME TypeOK, NEW p \in Process, Next, req[p].op = "Overwrite",
           schedule' # schedule, req'[p].op = "idle"
    PROVE  Overwrite(p)
<1>1. PICK q \in Process : MarkerStep(q) \/ ScheduleStep(q) \/ AdminStep(q) \/ Fail(q)
  BY DEF Next
<1>2. CASE q # p
  <2>1. req'[p] = req[p]
    BY <1>1, <1>2
       DEF MarkerStep, ScheduleStep, AdminStep, Fail, CreateMarker, ReadMarker, EditMarker,
           RemoveMarker, UpdateMarkerFavourite, RevokeMarker, SaveMarker, Commit, Open,
           Close, CreateSchedule, CreateMovieSchedule, ReadSchedule, EditSchedule,
           RemoveSchedule, ReadEntry, WriteEntry, UpdateScheduleStatus, ListDay, Overwrite,
           ValidateDeletion, DeleteMarker, DeleteSchedule, ClearTesting, TypeOK
  <2> QED
    BY <2>1
<1>3. CASE q = p
  <2>1. ~MarkerStep(p)
    BY DEF MarkerStep, CreateMarker, ReadMarker, EditMarker, RemoveMarker,
           UpdateMarkerFavourite, RevokeMarker, CanStart
  <2>2. ~AdminStep(p)
    BY DEF AdminStep, ValidateDeletion, DeleteMarker, DeleteSchedule, ClearTesting, CanStart
  <2>3. ~Fail(p)
    BY DEF Fail
  <2>4. ScheduleStep(p) => Overwrite(p)
    BY DEF ScheduleStep, CreateSchedule, CreateMovieSchedule, ReadSchedule, EditSchedule,
           RemoveSchedule, ReadEntry, WriteEntry, UpdateScheduleStatus, ListDay, CanStart,
           CreateOps
  <2> QED
    BY <1>1, <1>3, <2>1, <2>2, <2>3, <2>4
<1> QED
  BY <1>2, <1>3

LEMMA OverwriteStep ==
    ASSUME TypeOK, SameDate, [Next]_vars
    PROVE  [\A p \in Process : Replaces(p)]_vars
<1> SUFFICES ASSUME NEW p \in Process, req[p].op = "Overwrite", schedule' # schedule,
                    req'[p].op = "idle", NEW s \in Schedule, Live(schedule'[s]),
                    schedule'[s].day = req[p].day
             PROVE  schedule[s].state = "none"
  BY DEF Replaces
<1>1. Overwrite(p)
  BY EndsOverwrite DEF vars
<1>2. PICK ids \in SUBSET {k \in Schedule : schedule[k].state = "none"} :
         \A k \in Schedule \ ids :
            schedule'[k] = IF k \in Replaced(p) THEN [schedule[k] EXCEPT !.state = "deleted"]
                                                ELSE schedule[k]
  BY <1>1 DEF Overwrite
<1>3. CASE s \notin ids
  <2>1. schedule[s] \in ScheduleRow
    BY DEF TypeOK
  <2>2. s \notin Replaced(p)
    BY <1>2, <1>3, <2>1 DEF Live, ScheduleRow
  <2>3. schedule'[s] = schedule[s]
    BY <1>2, <1>3, <2>2
  <2> QED
    BY <2>2, <2>3 DEF Replaced, OnDay, SameDate
<1> QED
  BY <1>2, <1>3

\* Where every marker lies in UTC an overwrite leaves on its date only the
\* schedules it has created, whatever other requests do meanwhile.
THEOREM OverwriteCorrect ==
    ASSUME OnlyUtc
    PROVE  Spec => OverwriteReplaces
<1>1. TypeOK /\ Copies /\ SameDate /\ [Next]_vars => TypeOK' /\ Copies' /\ SameDate'
  BY SameStep, TypeStep
<1>2. Init => TypeOK /\ Copies /\ SameDate
  <2>1. NoScheduleRow.utc = NoScheduleRow.day
    BY DEF NoScheduleRow
  <2>2. \A s \in Schedule : NoRequest.srow[s] = NoScheduleRow
    BY DEF NoRequest
  <2>3. Init => SameDate
    BY <2>1, <2>2 DEF Init, SameDate
  <2> QED
    BY <2>3, TypeInit
<1>3. TypeOK /\ SameDate /\ [Next]_vars => [\A p \in Process : Replaces(p)]_vars
  BY OverwriteStep
<1>4. [][\A p \in Process : Replaces(p)]_vars => OverwriteReplaces
  BY PTL DEF Replaces, OverwriteReplaces
<1> QED
  BY <1>1, <1>2, <1>3, <1>4, PTL DEF Spec
===============================================================================
