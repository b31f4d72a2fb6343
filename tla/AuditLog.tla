------------------------------- MODULE AuditLog -------------------------------
(***************************************************************************)
(* The two audit logs and their retention (service/external_api_audit.go,  *)
(* service/api_key.go, service/api_key_cleanup.go).                        *)
(*                                                                         *)
(* Calls to other services and uses of API keys leave rows.  A worker per  *)
(* server process deletes rows past the retention time, counts the rest,   *)
(* selects the oldest above the cap and deletes those: four statements,    *)
(* with new rows, other workers and the deletion of keys in between.  An   *)
(* external call is dated when it starts and written when it ends, with a  *)
(* second try; a use of a key is dated when it is written.                 *)
(***************************************************************************)
EXTENDS Naturals, FiniteSets

CONSTANTS
    Caller,     \* requests that are served at the same time
    Cleaner,    \* the cleanup worker of each running server process
    MaxRows,    \* how many rows are ever written (bound)
    Cap,        \* [integrationauth].MaxAuditLogRows
    MaxErrors   \* how many calls of the database fail (bound)

ASSUME AuditAssumption ==
    /\ MaxRows \in Nat
    /\ Cap \in Nat \ {0}
    /\ MaxErrors \in Nat

LogTime == 0 .. MaxRows
\* ofKey: the row belongs to the API key that may be deleted.
AuditRow == [id : 1 .. MaxRows, time : LogTime, ofKey : BOOLEAN]

VARIABLES
    logKind,   \* which of the two logs this is
    logRows,   \* the table
    lastId,    \* its sequence
    clock,     \* now
    horizon,   \* rows of this time or before are past the retention time
    caller,    \* external calls: what is left to write, and when they started
    cleaner,   \* the workers, with their local variables
    errors,    \* calls of the database that have failed
    disturbed, \* workers whose count another deletion has overtaken (history)
    added      \* rows written since each worker has counted (history)

auditVars == <<logKind, logRows, lastId, clock, horizon, caller, cleaner,
               errors, disturbed, added>>

PendingCall == [tries : 0 .. 2, time : LogTime]
CleanerState == [at : {"idle", "count", "pluck", "trim"},
                 excess : 0 .. MaxRows, ids : SUBSET (1 .. MaxRows)]

AuditTypeOK ==
    /\ logKind \in {"external", "apikey"}
    /\ logRows \subseteq AuditRow
    /\ lastId \in 0 .. MaxRows
    /\ clock \in LogTime
    /\ horizon \in LogTime
    /\ caller \in [Caller -> PendingCall]
    /\ cleaner \in [Cleaner -> CleanerState]
    /\ errors \in 0 .. MaxErrors
    /\ disturbed \subseteq Cleaner
    /\ added \in [Cleaner -> 0 .. MaxRows]

Resting == [at |-> "idle", excess |-> 0, ids |-> {}]

AuditInit ==
    /\ logKind \in {"external", "apikey"}
    /\ logRows = {}
    /\ lastId = 0
    /\ clock = 0
    /\ horizon = 0
    /\ caller = [p \in Caller |-> [tries |-> 0, time |-> 0]]
    /\ cleaner = [c \in Cleaner |-> Resting]
    /\ errors = 0
    /\ disturbed = {}
    /\ added = [c \in Cleaner |-> 0]

Cleaning == {c \in Cleaner : cleaner[c].at # "idle"}

-----------------------------------------------------------------------------
(* Writing                                                                 *)

\* A row is inserted.
InsertLog(time, ofKey) ==
    /\ lastId < MaxRows
    /\ lastId' = lastId + 1
    /\ logRows' = logRows \cup {[id |-> lastId + 1, time |-> time, ofKey |-> ofKey]}
    /\ added' = [c \in Cleaner |-> IF c \in Cleaning THEN added[c] + 1 ELSE 0]

\* GetRequestWithExternalAPIAuditAndHeaders, up to the call.
StartCall(p) ==
    /\ logKind = "external" /\ caller[p].tries = 0
    /\ clock < MaxRows
    /\ clock' = clock + 1
    /\ caller' = [caller EXCEPT ![p] = [tries |-> 2, time |-> clock + 1]]
    /\ UNCHANGED <<logKind, logRows, lastId, horizon, cleaner, errors, disturbed, added>>

\* writeExternalAPIAuditEvent: the row is created, ...
WriteEvent(p) ==
    /\ caller[p].tries > 0
    /\ InsertLog(caller[p].time, FALSE)
    /\ caller' = [caller EXCEPT ![p].tries = 0]
    /\ UNCHANGED <<logKind, clock, horizon, cleaner, errors, disturbed>>

\* Mistake: every failure is worth another try.
WriteEventFailsForEver(p) ==
    /\ caller[p].tries > 0
    /\ errors < MaxErrors
    /\ errors' = errors + 1
    /\ caller' = [caller EXCEPT ![p].tries = @ + 1]
    /\ InsertLog(caller[p].time, FALSE) \/ UNCHANGED <<logRows, lastId, added>>
    /\ UNCHANGED <<logKind, clock, horizon, cleaner, disturbed>>

\* ... or the creation is reported as failed, whether or not there is a row,
\* and tried once more.
WriteEventFails(p) ==
    /\ caller[p].tries > 0
    /\ errors < MaxErrors
    /\ errors' = errors + 1
    /\ caller' = [caller EXCEPT ![p].tries = @ - 1]
    /\ InsertLog(caller[p].time, FALSE) \/ UNCHANGED <<logRows, lastId, added>>
    /\ UNCHANGED <<logKind, clock, horizon, cleaner, disturbed>>

\* CreateAPIKeyAuditLog, for a use of the key, of another or of none.
CreateAPIKeyAuditLog ==
    /\ logKind = "apikey"
    /\ clock < MaxRows
    /\ clock' = clock + 1
    /\ \E ofKey \in BOOLEAN : InsertLog(clock + 1, ofKey)
    /\ UNCHANGED <<logKind, horizon, caller, cleaner, errors, disturbed>>

\* DeleteAPIKey deletes the rows of the key.
DeleteKeyLogs ==
    /\ logKind = "apikey"
    /\ \E r \in logRows : r.ofKey
    /\ logRows' = {r \in logRows : ~r.ofKey}
    /\ disturbed' = Cleaning
    /\ UNCHANGED <<logKind, lastId, clock, horizon, caller, cleaner, errors, added>>

-----------------------------------------------------------------------------
(* Retention                                                               *)

TimeGoesBy ==
    /\ horizon < clock
    /\ horizon' = horizon + 1
    /\ UNCHANGED <<logKind, logRows, lastId, clock, caller, cleaner, errors,
                   disturbed, added>>

\* Other workers are overtaken by a deletion of c.
Overtaken(c, deleted) ==
    disturbed' = (IF logRows \cap deleted = {} THEN disturbed
                  ELSE disturbed \cup (Cleaning \ {c})) \ {c}

\* CleanupOldExternalAPIAuditData, CleanupOldAPIKeyData: the first statement.
DeleteExpired(c) ==
    LET expired == {r \in logRows : r.time <= horizon} IN
    /\ cleaner[c].at = "idle"
    /\ logRows' = logRows \ expired
    /\ cleaner' = [cleaner EXCEPT ![c].at = "count"]
    /\ Overtaken(c, expired)
    /\ added' = [added EXCEPT ![c] = 0]
    /\ UNCHANGED <<logKind, lastId, clock, horizon, caller, errors>>

\* Mistake: one row above the cap is not counted as excess.
CountRowsLeniently(c) ==
    LET n == Cardinality(logRows) IN
    /\ cleaner[c].at = "count"
    /\ cleaner' = [cleaner EXCEPT ![c] =
                     IF n > Cap + 1
                     THEN [Resting EXCEPT !.at = "pluck", !.excess = n - Cap]
                     ELSE Resting]
    /\ disturbed' = disturbed \ {c}
    /\ added' = [added EXCEPT ![c] = 0]
    /\ UNCHANGED <<logKind, logRows, lastId, clock, horizon, caller, errors>>

\* Mistake: one row of the excess is spared.
CountRowsOneLess(c) ==
    LET n == Cardinality(logRows) IN
    /\ cleaner[c].at = "count"
    /\ cleaner' = [cleaner EXCEPT ![c] =
                     IF n > Cap
                     THEN [Resting EXCEPT !.at = "pluck", !.excess = n - Cap - 1]
                     ELSE Resting]
    /\ disturbed' = disturbed \ {c}
    /\ added' = [added EXCEPT ![c] = 0]
    /\ UNCHANGED <<logKind, logRows, lastId, clock, horizon, caller, errors>>

CountRows(c) ==
    LET n == Cardinality(logRows) IN
    /\ cleaner[c].at = "count"
    /\ cleaner' = [cleaner EXCEPT ![c] =
                     IF n > Cap
                     THEN [Resting EXCEPT !.at = "pluck", !.excess = n - Cap]
                     ELSE Resting]
    /\ disturbed' = disturbed \ {c}
    /\ added' = [added EXCEPT ![c] = 0]
    /\ UNCHANGED <<logKind, logRows, lastId, clock, horizon, caller, errors>>

\* Mistake: the newest rows.
OldestLast(S, n) ==
    {T \in SUBSET S :
        /\ IF Cardinality(S) <= n THEN T = S ELSE Cardinality(T) = n
        /\ \A r \in T, s \in S \ T : r.time >= s.time}

\* The oldest rows, as many as there are above the cap; Limit(excess).
Oldest(S, n) ==
    {T \in SUBSET S :
        /\ IF Cardinality(S) <= n THEN T = S ELSE Cardinality(T) = n
        /\ \A r \in T, s \in S \ T : r.time <= s.time}

Pluck(c) ==
    /\ cleaner[c].at = "pluck"
    /\ \E T \in Oldest(logRows, cleaner[c].excess) :
          cleaner' = [cleaner EXCEPT ![c].at = IF T = {} THEN "idle" ELSE "trim",
                                     ![c].ids = {r.id : r \in T}]
    /\ UNCHANGED <<logKind, logRows, lastId, clock, horizon, caller, errors,
                   disturbed, added>>

Selected(c) == {r \in logRows : r.id \in cleaner[c].ids}

Trim(c) ==
    /\ cleaner[c].at = "trim"
    /\ logRows' = logRows \ Selected(c)
    /\ cleaner' = [cleaner EXCEPT ![c] = Resting]
    /\ Overtaken(c, Selected(c))
    /\ UNCHANGED <<logKind, lastId, clock, horizon, caller, errors, added>>

\* A statement fails: the worker waits for the next tick.
CleanupFails(c) ==
    /\ cleaner[c].at # "idle"
    /\ errors < MaxErrors
    /\ errors' = errors + 1
    /\ cleaner' = [cleaner EXCEPT ![c] = Resting]
    /\ UNCHANGED <<logKind, logRows, lastId, clock, horizon, caller, disturbed, added>>

AuditNext ==
    \/ \E p \in Caller : StartCall(p) \/ WriteEvent(p) \/ WriteEventFails(p)
    \/ CreateAPIKeyAuditLog \/ DeleteKeyLogs \/ TimeGoesBy
    \/ \E c \in Cleaner :
          DeleteExpired(c) \/ CountRows(c) \/ Pluck(c) \/ Trim(c) \/ CleanupFails(c)

\* The ticker of every worker goes on, and a run that has begun goes on.
Cleanup(c) == DeleteExpired(c) \/ CountRows(c) \/ Pluck(c) \/ Trim(c)

AuditSpec ==
    /\ AuditInit /\ [][AuditNext]_auditVars
    /\ \A c \in Cleaner : WF_auditVars(Cleanup(c))

-----------------------------------------------------------------------------
(* Properties                                                              *)

\* Trimming keeps the newest rows: whatever was written since the count, each
\* row that is about to go leaves at least Cap rows of its time or later, as
\* long as nothing else has deleted rows meanwhile.
NewestKept ==
    \A c \in Cleaner \ disturbed :
        cleaner[c].at = "trim" =>
            \A r \in Selected(c) :
                Cardinality({s \in logRows \ Selected(c) : s.time >= r.time}) >= Cap

\* Trimming is enough: what it leaves above the cap was written after the
\* count, even if several workers and deletions of keys go on at once.
TrimIsEnough ==
    \A c \in Cleaner :
        cleaner[c].at = "trim" =>
            Cardinality(logRows \ Selected(c)) <= Cap + added[c]

\* When no more rows are written, the log ends up within its cap.
CapHoldsInTheEnd == <>[](Cardinality(logRows) <= Cap)

\* A trim takes enough rows, and none that should stay.
TrimIsExact == TrimIsEnough /\ NewestKept

===============================================================================
