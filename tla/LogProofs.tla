---------------------------- MODULE LogProofs ----------------------------
(*****************************************************************************)
(* The audit logs and reminders, for any number of rows, workers, users and  *)
(* polls: a trim that runs undisturbed takes the oldest rows and no more than*)
(* it should, and the log of reminders tells what was due.                   *)
(*****************************************************************************)
EXTENDS MCLogs, OfflineExportProofs, FiniteSetTheorems, TLAPS

-----------------------------------------------------------------------------
(* The audit logs                                                          *)

\* Each row has an id of its own, which the sequence has passed.
RowsHaveIds ==
    /\ \A r \in logRows : r.id <= lastId
    /\ \A r, s \in logRows : r.id = s.id => r = s

\* Rows that would be left of those that are as young as r.
LeftSince(c, r) == {s \in logRows \ Selected(c) : s.time >= r.time}

\* What a worker has counted or selected, against what has become of the table.
WorkerOK(c) ==
    /\ \A i \in cleaner[c].ids : i <= lastId
    /\ added[c] <= lastId
    /\ cleaner[c].at = "pluck" =>
          /\ Cardinality(logRows) <= Cap + cleaner[c].excess + added[c]
          /\ c \notin disturbed => Cap + cleaner[c].excess <= Cardinality(logRows)
    /\ cleaner[c].at = "trim" =>
          /\ Cardinality(logRows \ Selected(c)) <= Cap + added[c]
          /\ c \notin disturbed => \A r \in Selected(c) : Cardinality(LeftSince(c, r)) >= Cap

AuditIInv ==
    /\ AuditTypeOK
    /\ RowsHaveIds
    /\ \A c \in Cleaner : WorkerOK(c)

LEMMA RowsFinite ==
    ASSUME AuditIInv
    PROVE  /\ IsFiniteSet(logRows)
           /\ Cardinality(logRows) \in 0 .. MaxRows
           /\ \A S \in SUBSET logRows : IsFiniteSet(S) /\ Cardinality(S) \in Nat
<1> DEFINE f == [r \in logRows |-> r.id]
<1>1. f \in Injection(logRows, 1 .. MaxRows)
  BY DEF AuditIInv, AuditTypeOK, AuditRow, RowsHaveIds, Injection, IsInjective
<1>2. IsFiniteSet(1 .. MaxRows) /\ Cardinality(1 .. MaxRows) = MaxRows
  BY AuditAssumption, FS_Interval
<1>3. IsFiniteSet(logRows) /\ Cardinality(logRows) <= MaxRows
  BY <1>1, <1>2, FS_Injection
<1>4. Cardinality(logRows) \in Nat
  BY <1>3, FS_CardinalityType
<1>5. \A S \in SUBSET logRows : IsFiniteSet(S) /\ Cardinality(S) \in Nat
  BY <1>3, FS_Subset, FS_CardinalityType
<1> QED BY <1>3, <1>4, <1>5, AuditAssumption

LEMMA AuditInitial == AuditInit => AuditIInv
<1> SUFFICES ASSUME AuditInit PROVE AuditIInv
  OBVIOUS
<1>1. AuditTypeOK
  BY AuditAssumption
  DEF AuditInit, AuditTypeOK, LogTime, PendingCall, CleanerState, Resting
<1> QED BY <1>1, AuditAssumption DEF AuditInit, AuditIInv, RowsHaveIds, WorkerOK, Resting

\* A row that is inserted is one more, and selected by nobody.
LEMMA InsertKeeps ==
    ASSUME AuditIInv, NEW time \in LogTime, NEW ofKey \in BOOLEAN, InsertLog(time, ofKey),
           cleaner' = cleaner, disturbed' = disturbed
    PROVE  /\ logRows' \subseteq AuditRow /\ lastId' \in 0 .. MaxRows
           /\ added' \in [Cleaner -> 0 .. MaxRows]
           /\ RowsHaveIds'
           /\ \A c \in Cleaner : WorkerOK(c)'
<1> DEFINE new == [id |-> lastId + 1, time |-> time, ofKey |-> ofKey]
<1>1. /\ lastId \in Nat /\ lastId < MaxRows /\ lastId' = lastId + 1
      /\ logRows' = logRows \cup {new}
      /\ added' = [c \in Cleaner |-> IF c \in Cleaning THEN added[c] + 1 ELSE 0]
      /\ \A c \in Cleaner : added[c] \in Nat /\ added[c] <= lastId
      /\ MaxRows \in Nat
  <2>1. MaxRows \in Nat /\ lastId \in Nat
    BY AuditAssumption DEF AuditIInv, AuditTypeOK
  <2>2. \A c \in Cleaner : added[c] \in Nat /\ added[c] <= lastId
    <3>1. \A c \in Cleaner : added[c] \in Nat
      BY <2>1 DEF AuditIInv, AuditTypeOK
    <3>2. \A c \in Cleaner : added[c] <= lastId
      BY DEF AuditIInv, WorkerOK
    <3> QED BY <3>1, <3>2
  <2> QED BY <2>1, <2>2 DEF InsertLog
<1>2. new \in AuditRow /\ new \notin logRows
  BY <1>1 DEF AuditRow, AuditIInv, AuditTypeOK, RowsHaveIds
<1>3. logRows' \subseteq AuditRow /\ lastId' \in 0 .. MaxRows
  BY <1>1, <1>2 DEF AuditIInv, AuditTypeOK
<1>4. added' \in [Cleaner -> 0 .. MaxRows]
  BY <1>1
<1>5. RowsHaveIds'
  BY <1>1, AuditAssumption DEF RowsHaveIds, AuditIInv, AuditTypeOK, AuditRow
<1>6. \A S \in SUBSET logRows :
         Cardinality(S \cup {new}) = Cardinality(S) + 1 /\ Cardinality(S) \in Nat
  BY <1>2, RowsFinite, FS_AddElement
<1>7. ASSUME NEW c \in Cleaner
      PROVE  WorkerOK(c)'
  <2>1. /\ cleaner[c].ids \subseteq 1 .. MaxRows
        /\ cleaner[c].excess \in Nat
        /\ WorkerOK(c)
    BY DEF AuditIInv, AuditTypeOK, CleanerState
  <2>2. Selected(c)' = Selected(c) /\ new \notin Selected(c)
    BY <1>1, <2>1 DEF Selected, WorkerOK
  <2>3. (logRows \ Selected(c))' = (logRows \ Selected(c)) \cup {new}
    BY <1>1, <1>2, <2>2
  <2>4. Cardinality(logRows') = Cardinality(logRows) + 1 /\ Cardinality(logRows) \in Nat
    BY <1>1, <1>6
  <2>5. Cardinality((logRows \ Selected(c))') = Cardinality(logRows \ Selected(c)) + 1
    BY <1>6, <2>3
  <2>6. ASSUME NEW r \in Selected(c), cleaner[c].at = "trim", c \notin disturbed
        PROVE  Cardinality(LeftSince(c, r)') >= Cap
    <3>1. Cardinality(LeftSince(c, r)) >= Cap
      BY <2>1, <2>6 DEF WorkerOK
    <3>2. LeftSince(c, r)' \in {LeftSince(c, r), LeftSince(c, r) \cup {new}}
      BY <2>3 DEF LeftSince
    <3>3. LeftSince(c, r) \in SUBSET logRows
      BY DEF LeftSince
    <3> QED BY <3>1, <3>2, <3>3, <1>6, AuditAssumption
  <2>7. cleaner[c].at # "idle" => added'[c] = added[c] + 1
    BY <1>1 DEF Cleaning
  <2>8. added'[c] <= lastId'
    BY <1>1
  <2>9. \A i \in cleaner'[c].ids : i <= lastId'
    BY <1>1, <2>1 DEF WorkerOK
  <2>10. cleaner[c].at = "pluck" =>
           /\ Cardinality(logRows') <= Cap + cleaner[c].excess + added'[c]
           /\ c \notin disturbed => Cap + cleaner[c].excess <= Cardinality(logRows')
    BY <1>1, <2>1, <2>4, <2>7, AuditAssumption DEF WorkerOK
  <2>11. cleaner[c].at = "trim" => Cardinality((logRows \ Selected(c))') <= Cap + added'[c]
    <3>1. Cardinality(logRows \ Selected(c)) \in Nat /\ added[c] \in Nat
      BY <1>1, <1>6
    <3>2. cleaner[c].at = "trim" => Cardinality(logRows \ Selected(c)) <= Cap + added[c]
      BY <2>1 DEF WorkerOK
    <3> QED BY <2>5, <2>7, <3>1, <3>2, AuditAssumption
  <2> QED BY <2>2, <2>6, <2>8, <2>9, <2>10, <2>11 DEF WorkerOK
<1> QED BY <1>3, <1>4, <1>5, <1>7

\* A worker that is not at work at the table does not care, and the others keep
\* their bounds from above; those from below are given up when rows go.
LEMMA DeletionKeeps ==
    ASSUME AuditIInv, logRows' \subseteq logRows, lastId' = lastId, NEW c \in Cleaner,
           cleaner'[c] = cleaner[c], added'[c] = added[c],
           cleaner[c].at # "idle" /\ c \notin disturbed' => logRows' = logRows /\ c \notin disturbed
    PROVE  WorkerOK(c)'
<1>1. /\ \A S, T \in SUBSET logRows : S \subseteq T => Cardinality(S) <= Cardinality(T)
      /\ \A S \in SUBSET logRows : Cardinality(S) \in Nat
  BY RowsFinite, FS_Subset
<1>2. cleaner[c].excess \in Nat /\ added[c] \in Nat /\ WorkerOK(c)
  BY DEF AuditIInv, AuditTypeOK, CleanerState
<1>3. (logRows \ Selected(c))' \subseteq logRows \ Selected(c)
  BY DEF Selected
<1>4. logRows' = logRows => Selected(c)' = Selected(c) /\ \A r : LeftSince(c, r)' = LeftSince(c, r)
  BY DEF Selected, LeftSince
<1>5. Cardinality(logRows') <= Cardinality(logRows)
  BY <1>1
<1>6. Cardinality((logRows \ Selected(c))') <= Cardinality(logRows \ Selected(c))
  BY <1>1, <1>3
<1>7. Cardinality(logRows) \in Nat /\ Cardinality(logRows') \in Nat
      /\ Cardinality(logRows \ Selected(c)) \in Nat /\ Cardinality((logRows \ Selected(c))') \in Nat
  BY <1>1, <1>3
<1>8. cleaner[c].at = "pluck" =>
          /\ Cardinality(logRows') <= Cap + cleaner[c].excess + added[c]
          /\ c \notin disturbed' => Cap + cleaner[c].excess <= Cardinality(logRows')
  BY <1>2, <1>5, <1>7, AuditAssumption DEF WorkerOK
<1>9. cleaner[c].at = "trim" =>
          /\ Cardinality((logRows \ Selected(c))') <= Cap + added[c]
          /\ c \notin disturbed' => \A r \in Selected(c)' : Cardinality(LeftSince(c, r)') >= Cap
  <2>1. cleaner[c].at = "trim" => Cardinality((logRows \ Selected(c))') <= Cap + added[c]
    BY <1>2, <1>6, <1>7, AuditAssumption DEF WorkerOK
  <2>2. cleaner[c].at = "trim" /\ c \notin disturbed'
          => \A r \in Selected(c)' : Cardinality(LeftSince(c, r)') >= Cap
    BY <1>2, <1>4 DEF WorkerOK
  <2> QED BY <2>1, <2>2
<1> QED BY <1>2, <1>8, <1>9 DEF WorkerOK

LEMMA TableUntouched ==
    ASSUME AuditIInv, UNCHANGED <<logRows, lastId, cleaner, disturbed, added>>
    PROVE  RowsHaveIds' /\ \A c \in Cleaner : WorkerOK(c)'
<1>1. \A c \in Cleaner : WorkerOK(c)'
  BY DeletionKeeps
<1> QED BY <1>1 DEF AuditIInv, RowsHaveIds

LEMMA RowsDeleted ==
    ASSUME AuditIInv, logRows' \subseteq logRows, lastId' = lastId
    PROVE  RowsHaveIds' /\ logRows' \subseteq AuditRow
  BY DEF AuditIInv, AuditTypeOK, RowsHaveIds

\* Writers.
LEMMA WritersKeep ==
    ASSUME AuditIInv,
           \/ \E p \in Caller : StartCall(p) \/ WriteEvent(p) \/ WriteEventFails(p)
           \/ CreateAPIKeyAuditLog \/ TimeGoesBy
    PROVE  AuditIInv'
<1> USE AuditAssumption
<1>0. /\ logKind \in {"external", "apikey"} /\ clock \in LogTime /\ horizon \in LogTime
      /\ caller \in [Caller -> PendingCall] /\ cleaner \in [Cleaner -> CleanerState]
      /\ errors \in 0 .. MaxErrors /\ disturbed \subseteq Cleaner
      /\ lastId \in 0 .. MaxRows
  BY DEF AuditIInv, AuditTypeOK
<1>1. ASSUME NEW p \in Caller, StartCall(p) PROVE AuditIInv'
  <2>1. AuditTypeOK'
    BY <1>1 DEF StartCall, AuditIInv, AuditTypeOK, LogTime, PendingCall
  <2> QED BY <2>1, <1>1, TableUntouched DEF StartCall, AuditIInv
<1>2. ASSUME NEW p \in Caller, WriteEvent(p) PROVE AuditIInv'
  <2>1. caller[p].time \in LogTime /\ InsertLog(caller[p].time, FALSE)
    BY <1>0, <1>2 DEF WriteEvent, PendingCall
  <2>2. caller' \in [Caller -> PendingCall] /\ UNCHANGED <<logKind, clock, horizon, cleaner, errors, disturbed>>
    BY <1>0, <1>2 DEF WriteEvent, PendingCall
  <2> QED BY <1>0, <2>1, <2>2, InsertKeeps DEF AuditIInv, AuditTypeOK
<1>3. ASSUME NEW p \in Caller, WriteEventFails(p) PROVE AuditIInv'
  <2>1. /\ caller' \in [Caller -> PendingCall]
        /\ UNCHANGED <<logKind, clock, horizon, cleaner, disturbed>>
        /\ errors' \in 0 .. MaxErrors
    BY <1>0, <1>3 DEF WriteEventFails, PendingCall
  <2>2. CASE InsertLog(caller[p].time, FALSE)
    <3>1. caller[p].time \in LogTime
      BY <1>0 DEF PendingCall
    <3> QED BY <1>0, <2>1, <2>2, <3>1, InsertKeeps DEF AuditIInv, AuditTypeOK
  <2>3. CASE UNCHANGED <<logRows, lastId, added>>
    BY <1>0, <2>1, <2>3, TableUntouched DEF AuditIInv, AuditTypeOK
  <2> QED BY <1>3, <2>2, <2>3 DEF WriteEventFails
<1>4. CASE CreateAPIKeyAuditLog
  <2>1. /\ clock' = clock + 1 /\ clock' \in LogTime
        /\ UNCHANGED <<logKind, horizon, caller, cleaner, errors, disturbed>>
    BY <1>0, <1>4 DEF CreateAPIKeyAuditLog, LogTime
  <2>2. PICK ofKey \in BOOLEAN : InsertLog(clock + 1, ofKey)
    BY <1>4 DEF CreateAPIKeyAuditLog
  <2> QED BY <1>0, <2>1, <2>2, InsertKeeps DEF AuditIInv, AuditTypeOK
<1>5. CASE TimeGoesBy
  <2>1. AuditTypeOK'
    BY <1>5 DEF TimeGoesBy, AuditIInv, AuditTypeOK, LogTime
  <2> QED BY <2>1, <1>5, TableUntouched DEF TimeGoesBy, AuditIInv
<1> QED BY <1>1, <1>2, <1>3, <1>4, <1>5

LEMMA DeleteKeyLogsKeeps ==
    ASSUME AuditIInv, DeleteKeyLogs
    PROVE  AuditIInv'
<1>1. /\ logRows' \subseteq logRows /\ disturbed' = Cleaning /\ Cleaning \subseteq Cleaner
      /\ UNCHANGED <<logKind, lastId, clock, horizon, caller, cleaner, errors, added>>
  BY DEF DeleteKeyLogs, Cleaning
<1>2. RowsHaveIds' /\ AuditTypeOK'
  BY <1>1, RowsDeleted DEF AuditIInv, AuditTypeOK
<1>3. ASSUME NEW c \in Cleaner PROVE WorkerOK(c)'
  BY <1>1, DeletionKeeps DEF Cleaning
<1> QED BY <1>2, <1>3 DEF AuditIInv

\* A worker deletes rows and goes on to a state without claims.
LEMMA CleanerDeletes ==
    ASSUME AuditIInv, NEW c \in Cleaner, NEW D, logRows' = logRows \ D, Overtaken(c, D),
           lastId' = lastId, cleaner' = [cleaner EXCEPT ![c] = cleaner'[c]],
           cleaner'[c] \in CleanerState, cleaner'[c].at \in {"idle", "count"},
           cleaner'[c].ids \subseteq cleaner[c].ids,
           added'[c] \in {0, added[c]}, added' = [added EXCEPT ![c] = added'[c]],
           UNCHANGED <<logKind, clock, horizon, caller, errors>>
    PROVE  AuditIInv'
<1>1. disturbed' \subseteq Cleaner
  BY DEF Overtaken, Cleaning, AuditIInv, AuditTypeOK
<1>2. RowsHaveIds' /\ AuditTypeOK'
  BY <1>1, RowsDeleted, AuditAssumption DEF AuditIInv, AuditTypeOK
<1>3. ASSUME NEW d \in Cleaner, d # c PROVE WorkerOK(d)'
  <2>1. cleaner[d].at # "idle" /\ d \notin disturbed' => logRows' = logRows /\ d \notin disturbed
    BY <1>3 DEF Overtaken, Cleaning
  <2>2. cleaner'[d] = cleaner[d] /\ added'[d] = added[d]
    BY <1>3 DEF AuditIInv, AuditTypeOK
  <2> QED BY <2>1, <2>2, DeletionKeeps
<1>4. WorkerOK(c)'
  <2>1. lastId \in Nat /\ added[c] <= lastId /\ \A i \in cleaner[c].ids : i <= lastId
    <3>1. lastId \in Nat
      BY DEF AuditIInv, AuditTypeOK
    <3>2. WorkerOK(c)
      BY DEF AuditIInv
    <3> QED BY <3>1, <3>2 DEF WorkerOK
  <2>2. cleaner'[c].at # "pluck" /\ cleaner'[c].at # "trim" /\ added'[c] <= lastId
    BY <2>1
  <2> QED BY <2>1, <2>2 DEF WorkerOK
<1> QED BY <1>2, <1>3, <1>4 DEF AuditIInv

LEMMA CleanersDelete ==
    ASSUME AuditIInv, NEW c \in Cleaner, DeleteExpired(c) \/ Trim(c)
    PROVE  AuditIInv'
<1>0. cleaner[c] \in CleanerState /\ cleaner \in [Cleaner -> CleanerState]
      /\ added \in [Cleaner -> 0 .. MaxRows] /\ c \in DOMAIN cleaner
  BY DEF AuditIInv, AuditTypeOK
<1>1. CASE DeleteExpired(c)
  <2>1. cleaner'[c] = [cleaner[c] EXCEPT !.at = "count"] /\ added'[c] = 0
    BY <1>0, <1>1 DEF DeleteExpired
  <2>2. cleaner'[c] \in CleanerState /\ cleaner'[c].at = "count" /\ cleaner'[c].ids = cleaner[c].ids
    BY <1>0, <2>1 DEF CleanerState
  <2>3. cleaner' = [cleaner EXCEPT ![c] = cleaner'[c]] /\ added' = [added EXCEPT ![c] = added'[c]]
    BY <1>0, <1>1 DEF DeleteExpired
  <2> QED BY <1>1, <2>1, <2>2, <2>3, CleanerDeletes DEF DeleteExpired
<1>2. CASE Trim(c)
  <2>1. cleaner'[c] = Resting /\ added' = added
    BY <1>0, <1>2 DEF Trim
  <2>2. cleaner'[c] \in CleanerState /\ cleaner'[c].at = "idle" /\ cleaner'[c].ids = {}
    BY <2>1, AuditAssumption DEF CleanerState, Resting
  <2>3. cleaner' = [cleaner EXCEPT ![c] = cleaner'[c]] /\ added' = [added EXCEPT ![c] = added'[c]]
    BY <1>0, <1>2, <2>1 DEF Trim
  <2> QED BY <1>2, <2>1, <2>2, <2>3, CleanerDeletes DEF Trim
<1> QED BY <1>1, <1>2

\* A worker that only looks at the table does not disturb the others.
LEMMA CleanerLooks ==
    ASSUME AuditIInv, NEW c \in Cleaner,
           cleaner' = [cleaner EXCEPT ![c] = cleaner'[c]], cleaner'[c] \in CleanerState,
           added'[c] \in {0, added[c]}, added' = [added EXCEPT ![c] = added'[c]],
           disturbed' \in {disturbed, disturbed \ {c}}, errors' \in 0 .. MaxErrors,
           UNCHANGED <<logKind, logRows, lastId, clock, horizon, caller>>, WorkerOK(c)'
    PROVE  AuditIInv'
<1>1. RowsHaveIds' /\ AuditTypeOK'
  BY RowsDeleted, AuditAssumption DEF AuditIInv, AuditTypeOK
<1>2. ASSUME NEW d \in Cleaner, d # c PROVE WorkerOK(d)'
  <2>1. cleaner'[d] = cleaner[d] /\ added'[d] = added[d] /\ (d \notin disturbed' => d \notin disturbed)
    BY <1>2 DEF AuditIInv, AuditTypeOK
  <2> QED BY <2>1, DeletionKeeps
<1> QED BY <1>1, <1>2 DEF AuditIInv

LEMMA CountRowsKeeps ==
    ASSUME AuditIInv, NEW c \in Cleaner, CountRows(c)
    PROVE  AuditIInv'
<1>0. /\ cleaner[c] \in CleanerState /\ cleaner \in [Cleaner -> CleanerState]
      /\ added \in [Cleaner -> 0 .. MaxRows] /\ lastId \in Nat
  BY DEF AuditIInv, AuditTypeOK
<1> DEFINE n == Cardinality(logRows)
<1>1. n \in 0 .. MaxRows
  BY RowsFinite
<1>2. /\ cleaner'[c] = IF n > Cap
                       THEN [Resting EXCEPT !.at = "pluck", !.excess = n - Cap]
                       ELSE Resting
      /\ added'[c] = 0 /\ c \notin disturbed' /\ logRows' = logRows /\ lastId' = lastId
  BY <1>0 DEF CountRows
<1>3. cleaner'[c] \in CleanerState
  <2>1. n > Cap => n - Cap \in 0 .. MaxRows
    BY <1>1, AuditAssumption
  <2>2. Resting \in CleanerState
    BY AuditAssumption DEF CleanerState, Resting
  <2>3. \A e \in 0 .. MaxRows : [Resting EXCEPT !.at = "pluck", !.excess = e] \in CleanerState
    BY AuditAssumption DEF CleanerState, Resting
  <2> QED BY <1>2, <2>1, <2>2, <2>3
<1>4. WorkerOK(c)'
  BY <1>0, <1>1, <1>2, AuditAssumption DEF WorkerOK, Resting
<1>5. /\ cleaner' = [cleaner EXCEPT ![c] = cleaner'[c]]
      /\ added' = [added EXCEPT ![c] = added'[c]]
  BY <1>0 DEF CountRows
<1>6. disturbed' = disturbed \ {c} /\ errors' \in 0 .. MaxErrors
      /\ UNCHANGED <<logKind, clock, horizon, caller>>
  BY DEF CountRows, AuditIInv, AuditTypeOK
<1> QED BY <1>2, <1>3, <1>4, <1>5, <1>6, CleanerLooks

\* The rows that are selected are as many as were counted in excess, if there
\* are that many, and all that is left is younger.
LEMMA PluckKeeps ==
    ASSUME AuditIInv, NEW c \in Cleaner, Pluck(c)
    PROVE  AuditIInv'
<1>0. /\ cleaner[c] \in CleanerState /\ cleaner \in [Cleaner -> CleanerState]
      /\ added \in [Cleaner -> 0 .. MaxRows] /\ lastId \in Nat
      /\ cleaner[c].excess \in Nat /\ added[c] \in Nat /\ Cap \in Nat
  BY AuditAssumption DEF AuditIInv, AuditTypeOK, CleanerState
<1>1. PICK T \in Oldest(logRows, cleaner[c].excess) :
         cleaner' = [cleaner EXCEPT ![c].at = IF T = {} THEN "idle" ELSE "trim",
                                    ![c].ids = {r.id : r \in T}]
  BY DEF Pluck
<1>2. T \in SUBSET logRows
  BY DEF Oldest
<1>3. /\ cleaner'[c].at = (IF T = {} THEN "idle" ELSE "trim")
      /\ cleaner'[c].ids = {r.id : r \in T}
      /\ cleaner'[c].excess = cleaner[c].excess
  BY <1>0, <1>1 DEF CleanerState
<1>4. UNCHANGED <<logKind, logRows, lastId, clock, horizon, caller, errors, disturbed, added>>
  BY DEF Pluck
<1>5. {r.id : r \in T} \subseteq 1 .. MaxRows /\ \A i \in {r.id : r \in T} : i <= lastId
  BY <1>2 DEF AuditIInv, AuditTypeOK, AuditRow, RowsHaveIds
<1>6. cleaner'[c] \in CleanerState
  BY <1>0, <1>1, <1>5 DEF CleanerState
<1>7. cleaner' = [cleaner EXCEPT ![c] = cleaner'[c]] /\ added' = [added EXCEPT ![c] = added'[c]]
  BY <1>0, <1>1, <1>4
<1>8. Selected(c)' = T
  BY <1>2, <1>3, <1>4 DEF Selected, AuditIInv, RowsHaveIds
<1> DEFINE rest == logRows \ T
<1>9. /\ Cardinality(rest) = Cardinality(logRows) - Cardinality(T)
      /\ Cardinality(rest) \in Nat /\ Cardinality(logRows) \in Nat /\ Cardinality(T) \in Nat
  <2>1. rest \in SUBSET logRows /\ logRows \in SUBSET logRows /\ logRows \cap T = T
    BY <1>2
  <2> QED BY <2>1, <1>2, RowsFinite, FS_Difference
<1>10. /\ Cardinality(logRows) <= Cap + cleaner[c].excess + added[c]
       /\ c \notin disturbed => Cap + cleaner[c].excess <= Cardinality(logRows)
  BY DEF Pluck, AuditIInv, WorkerOK
<1>11. IF Cardinality(logRows) <= cleaner[c].excess
       THEN T = logRows ELSE Cardinality(T) = cleaner[c].excess
  BY DEF Oldest
<1>12. Cardinality(rest) <= Cap + added[c]
  BY <1>0, <1>9, <1>10, <1>11
<1>13. ASSUME NEW r \in T, c \notin disturbed
       PROVE  Cardinality(LeftSince(c, r)') >= Cap
  <2>1. \A s \in rest : s.time >= r.time
    BY <1>2 DEF Oldest, AuditIInv, AuditTypeOK, AuditRow, LogTime
  <2>2. LeftSince(c, r)' = rest
    BY <1>4, <1>8, <2>1 DEF LeftSince
  <2>3. Cardinality(rest) >= Cap
    BY <1>0, <1>9, <1>10, <1>11, <1>13, AuditAssumption
  <2> QED BY <2>2, <2>3
<1>14. WorkerOK(c)'
  <2>1. added[c] <= lastId
    BY DEF AuditIInv, WorkerOK
  <2> QED BY <1>3, <1>4, <1>5, <1>8, <1>12, <1>13, <2>1 DEF WorkerOK
<1> QED BY <1>4, <1>6, <1>7, <1>14, CleanerLooks DEF AuditIInv, AuditTypeOK

LEMMA CleanupFailsKeeps ==
    ASSUME AuditIInv, NEW c \in Cleaner, CleanupFails(c)
    PROVE  AuditIInv'
<1>0. /\ cleaner[c] \in CleanerState /\ cleaner \in [Cleaner -> CleanerState]
      /\ added \in [Cleaner -> 0 .. MaxRows] /\ lastId \in Nat
  BY DEF AuditIInv, AuditTypeOK
<1>1. cleaner'[c] = Resting /\ cleaner' = [cleaner EXCEPT ![c] = cleaner'[c]]
  BY <1>0 DEF CleanupFails
<1>2. Resting \in CleanerState
  BY AuditAssumption DEF CleanerState, Resting
<1>3. UNCHANGED <<logKind, logRows, lastId, clock, horizon, caller, disturbed, added>>
      /\ errors' \in 0 .. MaxErrors
  BY AuditAssumption DEF CleanupFails, AuditIInv, AuditTypeOK
<1>4. WorkerOK(c)'
  <2>1. added[c] <= lastId
    BY DEF AuditIInv, WorkerOK
  <2>2. cleaner'[c].at = "idle" /\ cleaner'[c].ids = {}
    BY <1>1 DEF Resting
  <2> QED BY <1>3, <2>1, <2>2 DEF WorkerOK
<1>5. added' = [added EXCEPT ![c] = added'[c]]
  BY <1>0, <1>3
<1> QED BY <1>1, <1>2, <1>3, <1>4, <1>5, CleanerLooks

LEMMA AuditStep == AuditIInv /\ [AuditNext]_auditVars => AuditIInv'
<1> SUFFICES ASSUME AuditIInv, [AuditNext]_auditVars PROVE AuditIInv'
  OBVIOUS
<1>1. CASE UNCHANGED auditVars
  BY <1>1, TableUntouched DEF auditVars, AuditIInv, AuditTypeOK
<1>2. CASE \/ \E p \in Caller : StartCall(p) \/ WriteEvent(p) \/ WriteEventFails(p)
           \/ CreateAPIKeyAuditLog \/ TimeGoesBy
  BY <1>2, WritersKeep
<1>3. CASE DeleteKeyLogs
  BY <1>3, DeleteKeyLogsKeeps
<1>4. ASSUME NEW c \in Cleaner, DeleteExpired(c) \/ Trim(c) PROVE AuditIInv'
  BY <1>4, CleanersDelete
<1>5. ASSUME NEW c \in Cleaner, CountRows(c) PROVE AuditIInv'
  BY <1>5, CountRowsKeeps
<1>6. ASSUME NEW c \in Cleaner, Pluck(c) PROVE AuditIInv'
  BY <1>6, PluckKeeps
<1>7. ASSUME NEW c \in Cleaner, CleanupFails(c) PROVE AuditIInv'
  BY <1>7, CleanupFailsKeeps
<1> QED BY <1>1, <1>2, <1>3, <1>4, <1>5, <1>6, <1>7 DEF AuditNext

\* In every state that is reached, with or without fairness: types, ids of rows,
\* and what each worker has counted or selected.
THEOREM AuditInvariant == AuditInit /\ [][AuditNext]_auditVars => []AuditIInv
  BY AuditInitial, AuditStep, PTL

\* Trimming leaves nothing above the cap but what was written since the count,
\* and, unless others delete meanwhile, takes none of the newest rows
\* (CleanupOldAPIKeyData, CleanupOldExternalAPIAuditData).
THEOREM TrimsAreExact == AuditSpec => []TrimIsExact
<1>1. AuditIInv => TrimIsExact
  <2> SUFFICES ASSUME AuditIInv PROVE TrimIsExact
    OBVIOUS
  <2>1. TrimIsEnough
    BY DEF AuditIInv, WorkerOK, TrimIsEnough
  <2>2. NewestKept
    BY DEF AuditIInv, WorkerOK, NewestKept, LeftSince
  <2> QED BY <2>1, <2>2 DEF TrimIsExact
<1> QED BY <1>1, AuditInvariant, PTL DEF AuditSpec

-----------------------------------------------------------------------------
(* Reminders                                                               *)

\* It is the day of the item where its marker is, and within the window after
\* the reminder time.
Due(item, at, time) ==
    /\ LocalDay(at, item.zone) = item.day
    /\ InReminderWindow(LocalTick(at, item.zone), time)

ReminderIInv ==
    /\ ReminderTypeOK
    /\ \A p \in Poll : \A item \in poll[p].todo : Due(item, poll[p].at, poll[p].time)
    /\ \A e \in Planned \X Day :
          logOf[e] # NoLog =>
             Due([of |-> e[1], day |-> e[2], zone |-> logOf[e].zone], logOf[e].at, logOf[e].time)

\* isInReminderWindow, which wraps around midnight, is about the time since the
\* reminder time of the day or of the day before.
LEMMA WindowIsSince ==
    ASSUME NEW local \in 0 .. DayTicks - 1, NEW start \in 0 .. DayTicks - 1,
           InReminderWindow(local, start)
    PROVE  \/ local - start \in 0 .. Window - 1
           \/ local + DayTicks - start \in 0 .. Window - 1
<1> DEFINE sum == start + Window - 1
<1>1. DayTicks \in Nat \ {0} /\ Window \in 1 .. DayTicks /\ sum \in 0 .. 2 * DayTicks - 2
  BY ReminderAssumption
<1>2. sum < DayTicks => sum % DayTicks = sum
  BY <1>1
<1>3. sum >= DayTicks => sum % DayTicks = sum - DayTicks
  BY <1>1
<1>4. CASE sum < DayTicks
  BY <1>1, <1>2, <1>4 DEF InReminderWindow
<1>5. CASE sum >= DayTicks
  BY <1>1, <1>3, <1>5 DEF InReminderWindow
<1> QED BY <1>1, <1>4, <1>5

\* Division of the clock into days.
LEMMA DayAndTick ==
    ASSUME NEW now \in Nat, NEW zone \in Nat
    PROVE  /\ LocalTick(now, zone) \in 0 .. DayTicks - 1
           /\ LocalDay(now, zone) \in Nat
           /\ now + zone = LocalDay(now, zone) * DayTicks + LocalTick(now, zone)
  BY ReminderAssumption DEF LocalTick, LocalDay

LEMMA ReminderInitial == ReminderInit => ReminderIInv
<1> SUFFICES ASSUME ReminderInit PROVE ReminderIInv
  OBVIOUS
<1>1. 0 \in Tick
  BY ReminderAssumption DEF Tick
<1>2. NotPolling \in Polling
  BY <1>1, ReminderAssumption DEF NotPolling, Polling
<1>3. ReminderTypeOK
  BY <1>1, <1>2 DEF ReminderInit, ReminderTypeOK
<1>4. \A p \in Poll : poll[p].todo = {}
  BY DEF ReminderInit, NotPolling
<1> QED BY <1>3, <1>4 DEF ReminderIInv, ReminderInit

\* A step of a request that leaves the log alone.
LEMMA PollKeeps ==
    ASSUME ReminderIInv, NEW p \in Poll, NEW w \in Polling,
           poll' = [poll EXCEPT ![p] = w], UNCHANGED <<ticks, dayOf, zoneOf, dueTime, logOf>>,
           \A item \in w.todo : Due(item, w.at, w.time)
    PROVE  ReminderIInv'
<1>1. ReminderTypeOK'
  BY DEF ReminderIInv, ReminderTypeOK
<1>2. \A q \in Poll : poll'[q] = IF q = p THEN w ELSE poll[q]
  BY DEF ReminderIInv, ReminderTypeOK
<1>3. \A q \in Poll : \A item \in poll'[q].todo : Due(item, poll'[q].at, poll'[q].time)
  BY <1>2 DEF ReminderIInv
<1> QED BY <1>1, <1>3 DEF ReminderIInv

LEMMA ReadKeeps ==
    ASSUME ReminderIInv, NEW p \in Poll, ReadReminderTime(p) \/ EndPoll(p)
    PROVE  ReminderIInv'
<1>1. NotPolling \in Polling
  BY ReminderAssumption DEF NotPolling, Polling, Tick
<1>2. [NotPolling EXCEPT !.step = "time", !.time = dueTime] \in Polling
  BY <1>1 DEF NotPolling, Polling, ReminderIInv, ReminderTypeOK
<1>3. CASE ReadReminderTime(p)
  BY <1>2, <1>3, PollKeeps DEF ReadReminderTime, NotPolling
<1>4. CASE EndPoll(p)
  BY <1>1, <1>4, PollKeeps DEF EndPoll, NotPolling
<1> QED BY <1>3, <1>4

LEMMA SelectKeeps ==
    ASSUME ReminderIInv, NEW p \in Poll, SelectDue(p)
    PROVE  ReminderIInv'
<1> DEFINE chosen == {s \in Planned :
                        /\ LocalDay(ticks, zoneOf[s]) = dayOf[s]
                        /\ InReminderWindow(LocalTick(ticks, zoneOf[s]), poll[p].time)}
           todo == {[of |-> s, day |-> dayOf[s], zone |-> zoneOf[s]] : s \in chosen}
           w == [poll[p] EXCEPT !.step = "dispatch", !.at = ticks, !.todo = todo]
<1>1. poll[p] \in Polling /\ ticks \in Tick
  BY DEF ReminderIInv, ReminderTypeOK
<1>2. todo \subseteq DueItem
  BY DEF ReminderIInv, ReminderTypeOK, DueItem
<1> HIDE DEF todo
<1>3. w \in Polling /\ w.todo = todo /\ w.at = ticks /\ w.time = poll[p].time
  BY <1>1, <1>2 DEF Polling
<1>4. poll' = [poll EXCEPT ![p] = w]
  BY <1>1 DEF SelectDue, ReminderIInv, ReminderTypeOK, todo
<1>5. \A item \in todo : Due(item, ticks, poll[p].time)
  BY DEF todo, Due
<1>6. UNCHANGED <<ticks, dayOf, zoneOf, dueTime, logOf>>
  BY DEF SelectDue
<1> HIDE DEF w
<1>7. \A item \in w.todo : Due(item, w.at, w.time)
  BY <1>3, <1>5
<1> QED BY <1>3, <1>4, <1>6, <1>7, PollKeeps

LEMMA DispatchKeeps ==
    ASSUME ReminderIInv, NEW p \in Poll, NEW item, Dispatch(p, item)
    PROVE  ReminderIInv'
<1> DEFINE key == <<item.of, item.day>>
           row == [at |-> poll[p].at, time |-> poll[p].time, zone |-> item.zone]
<1>1. item \in poll[p].todo /\ poll[p] \in Polling
  BY DEF Dispatch, ReminderIInv, ReminderTypeOK
<1>2. item \in DueItem /\ Due(item, poll[p].at, poll[p].time)
  BY <1>1 DEF Polling, ReminderIInv
<1>3. key \in Planned \X Day /\ row \in Logged
  BY <1>1, <1>2 DEF DueItem, Polling, Logged
<1>4. logOf' = [logOf EXCEPT ![key] = row]
  BY DEF Dispatch
<1>5. ReminderTypeOK'
  BY <1>1, <1>3, <1>4 DEF Dispatch, ReminderIInv, ReminderTypeOK, Polling
<1>6. \A q \in Poll : \A i \in poll'[q].todo :
         i \in poll[q].todo /\ poll'[q].at = poll[q].at /\ poll'[q].time = poll[q].time
  BY DEF Dispatch, ReminderIInv, ReminderTypeOK, Polling
<1>7. \A e \in Planned \X Day : logOf'[e] = IF e = key THEN row ELSE logOf[e]
  BY <1>4 DEF ReminderIInv, ReminderTypeOK
<1>8. Due([of |-> key[1], day |-> key[2], zone |-> row.zone], row.at, row.time)
  BY <1>2 DEF Due
<1>9. ASSUME NEW e \in Planned \X Day, logOf'[e] # NoLog
      PROVE  Due([of |-> e[1], day |-> e[2], zone |-> logOf'[e].zone],
                 logOf'[e].at, logOf'[e].time)
  <2>1. CASE e = key
    BY <2>1, <1>7, <1>8
  <2>2. CASE e # key
    BY <2>2, <1>7, <1>9 DEF ReminderIInv
  <2> QED BY <2>1, <2>2
<1>10. \A q \in Poll : \A i \in poll'[q].todo : Due(i, poll'[q].at, poll'[q].time)
  BY <1>6 DEF ReminderIInv
<1> QED BY <1>5, <1>9, <1>10 DEF ReminderIInv

LEMMA ReminderStep == ReminderIInv /\ [ReminderNext]_reminderVars => ReminderIInv'
<1> SUFFICES ASSUME ReminderIInv, [ReminderNext]_reminderVars PROVE ReminderIInv'
  OBVIOUS
<1>1. ASSUME ReminderTypeOK', UNCHANGED <<logOf, poll>> PROVE ReminderIInv'
  BY <1>1 DEF ReminderIInv
<1>2. CASE UNCHANGED reminderVars
  BY <1>1, <1>2 DEF reminderVars, ReminderIInv, ReminderTypeOK
<1>3. ASSUME NEW p \in Poll, ReadReminderTime(p) \/ EndPoll(p) PROVE ReminderIInv'
  BY <1>3, ReadKeeps
<1>4. ASSUME NEW p \in Poll, SelectDue(p) PROVE ReminderIInv'
  BY <1>4, SelectKeeps
<1>5. ASSUME NEW p \in Poll, NEW item \in poll[p].todo, Dispatch(p, item) PROVE ReminderIInv'
  BY <1>5, DispatchKeeps
<1>6. ASSUME NEW t \in DueTime, SetUserReminderTime(t) PROVE ReminderIInv'
  BY <1>1, <1>6 DEF SetUserReminderTime, ReminderIInv, ReminderTypeOK
<1>7. ASSUME NEW s \in Planned, NEW d \in Day, NEW z \in Zone, Reschedule(s, d, z)
      PROVE ReminderIInv'
  BY <1>1, <1>7 DEF Reschedule, ReminderIInv, ReminderTypeOK
<1>8. CASE ClockTicks
  BY <1>1, <1>8 DEF ClockTicks, ReminderIInv, ReminderTypeOK
<1> QED BY <1>2, <1>3, <1>4, <1>5, <1>6, <1>7, <1>8 DEF ReminderNext

\* In every state that is reached: types, and the items that a poll has still to
\* log and those it has logged were due when it was served.
THEOREM ReminderInvariant == ReminderSpec => []ReminderIInv
  BY ReminderInitial, ReminderStep, PTL DEF ReminderSpec

\* A reminder is logged on the day of its item, where its marker is, and within
\* the window after the user's reminder time, also past midnight
\* (isInReminderWindow and the dispatch log).
THEOREM RemindersWhenDue == ReminderSpec => []LoggedWhenDue
<1>1. ReminderIInv => LoggedWhenDue
  <2> SUFFICES ASSUME ReminderIInv, NEW e \in Planned \X Day, logOf[e] # NoLog
               PROVE  /\ LocalDay(logOf[e].at, logOf[e].zone) = e[2]
                      /\ \E day \in {e[2], e[2] - 1} :
                            logOf[e].at + logOf[e].zone - (day * DayTicks + logOf[e].time)
                               \in 0 .. Window - 1
    BY DEF LoggedWhenDue, LoggedOnItsDay, LoggedInWindow
  <2> DEFINE at == logOf[e].at
             zone == logOf[e].zone
             time == logOf[e].time
             local == LocalTick(at, zone)
  <2>1. logOf[e] \in Logged
    BY DEF ReminderIInv, ReminderTypeOK
  <2>2. at \in Nat /\ zone \in Nat /\ time \in 0 .. DayTicks - 1
    <3>1. at \in Tick /\ zone \in Zone /\ time \in DueTime
      BY <2>1 DEF Logged
    <3>2. zone \in 0 .. DayTicks /\ time \in 0 .. DayTicks - 1
      BY <3>1, ReminderAssumption
    <3>3. at \in Nat
      BY <3>1 DEF Tick
    <3> QED BY <3>2, <3>3
  <2>3. LocalDay(at, zone) = e[2] /\ InReminderWindow(local, time)
    BY DEF ReminderIInv, Due
  <2> HIDE DEF at, zone, time, local
  <2>4. local \in 0 .. DayTicks - 1 /\ e[2] \in Nat /\ at + zone = e[2] * DayTicks + local
    BY <2>2, <2>3, DayAndTick DEF local
  <2>5. DayTicks \in Nat /\ Window \in Nat
    BY ReminderAssumption
  <2>6. e[2] * DayTicks \in Nat /\ (e[2] - 1) * DayTicks = e[2] * DayTicks - DayTicks
    BY <2>4, <2>5
  <2>7. CASE local - time \in 0 .. Window - 1
    <3>1. at + zone - (e[2] * DayTicks + time) = local - time
      BY <2>2, <2>4, <2>6
    <3> QED BY <2>3, <2>7, <3>1 DEF at, zone, time
  <2>8. CASE local + DayTicks - time \in 0 .. Window - 1
    <3>1. at + zone - ((e[2] - 1) * DayTicks + time) = local + DayTicks - time
      <4> DEFINE d == e[2] * DayTicks
                 b == (e[2] - 1) * DayTicks
      <4>1. d \in Nat /\ b = d - DayTicks /\ at + zone = d + local
        BY <2>4, <2>6
      <4> HIDE DEF d, b
      <4>2. at + zone - (b + time) = local + DayTicks - time
        BY <2>2, <2>4, <2>5, <4>1
      <4> QED BY <4>2 DEF b
    <3> QED BY <2>3, <2>8, <3>1 DEF at, zone, time
  <2> QED BY <2>2, <2>3, <2>4, <2>7, <2>8, WindowIsSince
<1> QED BY <1>1, ReminderInvariant, PTL

-----------------------------------------------------------------------------
(* The run of exports, logs and reminders                                  *)

\* Each behaviour of the run is one of every component, most of which rest: what
\* is proved of a component holds in the run.
LEMMA LogsRun ==
    LogsSpec => Spec /\ (AuditInit /\ [][AuditNext]_auditVars) /\ ReminderSpec
<1>1. LogsInit => Init /\ AuditInit /\ ReminderInit
  BY DEF LogsInit
<1>2. [LogsNext]_logsVars => [Next]_vars /\ [AuditNext]_auditVars /\ [ReminderNext]_reminderVars
  BY DEF LogsNext, logsVars
<1> QED BY <1>1, <1>2, PTL DEF LogsSpec, Spec, ReminderSpec

\* The types of exports, the logs and reminders, together.
THEOREM LogTypes == LogsSpec => []LogTypesOK
<1>1. TypeOK /\ AuditIInv /\ ReminderIInv => LogTypesOK
  BY DEF AuditIInv, ReminderIInv, LogTypesOK
<1> QED BY <1>1, LogsRun, ExportTypeCorrect, AuditInvariant, ReminderInvariant, PTL

=============================================================================
