----------------------------- MODULE CalendarSync -----------------------------
(***************************************************************************)
(* Calendar synchronisation (service/calendar_sync_*.go,                   *)
(* service/calendar_connection_service.go,                                 *)
(* service/google_calendar_provider.go).                                   *)
(*                                                                         *)
(* A schedule is mirrored as an event in a person's Google calendar.  Four *)
(* kinds of process work on the same rows: the background worker, which    *)
(* claims jobs and runs them; the edit handler, which marks the link       *)
(* pending and enqueues a job; the manual sync and unsync handlers, which  *)
(* call the provider themselves; and the handler that disconnects a        *)
(* provider.  None of them holds a lock or a transaction between reading a *)
(* row and saving it, and the provider is called in between.               *)
(*                                                                         *)
(* One provider (Google, the only adapter the server registers), so a      *)
(* schedule has at most one link and a user at most one connection, and    *)
(* both are identified by their schedule and user.                         *)
(***************************************************************************)
EXTENDS Naturals, FiniteSets

CONSTANTS
    Schedule,     \* the schedules
    User,         \* the users of the relation that owns the schedules
    Worker,       \* the worker goroutine of each running server process
    Request,      \* the HTTP handlers that may run at the same time
    Event,        \* the event ids the provider may hand out (bound)
    None,         \* no event, no user, no job
    MaxAttempts,  \* CalendarSyncJob.MaxAttempts
    MaxVersion,   \* how often a schedule is edited (bound)
    BatchLimit,   \* jobs claimed at once
    Environment   \* what the surroundings may do, see EnvironmentKind

EnvironmentKind ==
    { "error",       \* the provider refuses a request
      "lost",        \* the provider obeys, the answer never arrives
      "reauth",      \* the provider or the token endpoint answers 401 or 403
      "refresh",     \* an access token expires and is refreshed
      "crash",       \* a process dies and is restarted
      "database",    \* the database fails the worker when it marks a link or a job
      "disconnect",  \* a user disconnects the provider
      "remove",      \* a schedule is removed
      "silent",      \* a schedule changes on a path that enqueues no job
      "overlap" }    \* a manual sync starts while jobs are outstanding

ASSUME CalendarAssumption ==
    /\ MaxAttempts \in Nat \ {0}
    /\ MaxVersion \in Nat
    /\ BatchLimit \in Nat \ {0}
    /\ None \notin Schedule \cup User \cup Event
    /\ Worker \cap Request = {}
    /\ Environment \subseteq EnvironmentKind

Process == Worker \cup Request

JobAction == {"create", "update", "delete"}
LinkStatus == {"pending", "synced", "failed", "disconnected"}
ConnectionStatus == {"active", "disconnected", "reauthorization_required"}
JobStatus == {"pending", "processing", "succeeded", "failed", "dead"}

\* The idempotency key "<action>:<schedule>:<link>:<schedule.UpdatedAt>".
JobKey == [action : JobAction, schedule : Schedule, version : 0 .. MaxVersion]

LinkRow == [status : LinkStatus \cup {"absent"}, event : Event \cup {None},
            connection : User \cup {None}]
JobRow == [status : JobStatus \cup {"absent"}, attempts : 0 .. MaxAttempts,
           due : BOOLEAN]
ScheduleRow == [live : BOOLEAN, version : 0 .. MaxVersion]
EventRow == [state : {"unused", "live", "gone"}, calendar : User \cup {None},
             schedule : Schedule \cup {None}, version : 0 .. MaxVersion]

NoLink == [status |-> "absent", event |-> None, connection |-> None]
NoJob == [status |-> "absent", attempts |-> 0, due |-> FALSE]
NoEvent == [state |-> "unused", calendar |-> None, schedule |-> None,
            version |-> 0]

VARIABLES
    schedule,    \* table schedules: live or soft-deleted, and its UpdatedAt
    connection,  \* table calendar_provider_connections: status, or "absent"
    link,        \* table schedule_calendar_sync_links
    job,         \* table calendar_sync_jobs, by idempotency key
    event,       \* the provider's calendars
    batch,       \* the claimed jobs a worker has not finished
    pc,          \* where each process is
    ctx          \* the local variables of each process

rows == <<schedule, connection, link, job>>
vars == <<schedule, connection, link, job, event, batch, pc, ctx>>

Label == {"idle", "upsert", "load", "call", "send", "reauth", "mark", "save",
          "finish", "enqueue", "insert", "list", "unlink"}

(***************************************************************************)
(* The local variables of a running process: the row it last read (row),   *)
(* the connection it was given and the status that copy holds (user,       *)
(* token), the event it works on, the version of the schedule it sends,    *)
(* the status it is about to give the link (to).  Variables a process no    *)
(* longer needs are reset.                                                 *)
(***************************************************************************)
Context ==
    [role : {"worker", "edit", "manual", "disconnect"},
     schedule : Schedule \cup {None}, user : User \cup {None},
     token : ConnectionStatus \cup {"absent"}, action : JobAction \cup {"auto"},
     event : Event \cup {None}, version : 0 .. MaxVersion,
     outcome : {"ok", "reconciled", "reauth", "error"},
     to : LinkStatus, row : LinkRow, key : JobKey \cup {None},
     todo : SUBSET Schedule]

Blank == [role |-> "manual", schedule |-> None, user |-> None,
          token |-> "absent", action |-> "auto", event |-> None,
          version |-> 0, outcome |-> "ok", to |-> "pending", row |-> NoLink,
          key |-> None, todo |-> {}]

TypeOK ==
    /\ schedule \in [Schedule -> ScheduleRow]
    /\ connection \in [User -> ConnectionStatus \cup {"absent"}]
    /\ link \in [Schedule -> LinkRow]
    /\ job \in [JobKey -> JobRow]
    /\ event \in [Event -> EventRow]
    /\ batch \in [Worker -> SUBSET JobKey]
    /\ pc \in [Process -> Label]
    /\ ctx \in [Process -> Context]

Init ==
    /\ schedule = [s \in Schedule |-> [live |-> TRUE, version |-> 0]]
    /\ connection = [u \in User |-> "absent"]
    /\ link = [s \in Schedule |-> NoLink]
    /\ job = [k \in JobKey |-> NoJob]
    /\ event = [e \in Event |-> NoEvent]
    /\ batch = [w \in Worker |-> {}]
    /\ pc = [p \in Process |-> "idle"]
    /\ ctx = [p \in Process |-> Blank]

-------------------------------------------------------------------------------
\* The transition tables of the two status fields.

CanTransitionLink(from, to) ==
    \/ from = to
    \/ from = "pending"
    \/ from = "synced"
    \/ from = "failed" /\ to # "synced"
    \/ from = "disconnected" /\ to # "synced"

CanTransitionConnection(from, to) ==
    \/ from = to
    \/ from = "active"
    \/ from = "reauthorization_required"
    \/ from = "disconnected" /\ to = "active"

\* What a process does next, keeping or dropping its local variables.
Goto(p, label) == pc' = [pc EXCEPT ![p] = label]
Return(p) == Goto(p, "idle") /\ ctx' = [ctx EXCEPT ![p] = Blank]

Unsettled(k) == job[k].status \in {"pending", "processing", "failed"}
UnsettledFor(s) == \E k \in JobKey : k.schedule = s /\ Unsettled(k)

-------------------------------------------------------------------------------
(***************************************************************************)
(* Marking a link.  Every Mark* method of the repository reads the row,    *)
(* checks the transition, changes the copy and saves the whole copy:       *)
(* MarkLink is the read and the check, SaveLink the save.                  *)
(***************************************************************************)

\* MarkLink is refused only on the way to "synced".  The worker drops the
\* error, and that of a database that fails it; the manual handler takes the
\* refusal for a failed sync and marks that.
MarkLink(p) ==
    LET c == ctx[p] IN
    /\ pc[p] = "mark"
    /\ \/ /\ CanTransitionLink(link[c.schedule].status, c.to)
          /\ ctx' = [ctx EXCEPT ![p].row = link[c.schedule]]
          /\ Goto(p, "save")
       \/ /\ ~CanTransitionLink(link[c.schedule].status, c.to)
          /\ c.role = "manual"
          /\ ctx' = [ctx EXCEPT ![p].to = "failed"]
          /\ UNCHANGED pc
       \/ /\ \/ ~CanTransitionLink(link[c.schedule].status, c.to)
             \/ "database" \in Environment
          /\ c.role = "worker"
          /\ Goto(p, "finish")
          /\ UNCHANGED ctx
    /\ UNCHANGED <<rows, event, batch>>

\* Mistake: a disconnected link keeps its event.
MarkedKeepingEvent(row, to, e) ==
    [row EXCEPT !.status = to, !.event = IF to = "synced" THEN e ELSE @]

\* Mistake: only a synced link keeps its event.
MarkedForgetting(row, to, e) ==
    [row EXCEPT !.status = to, !.event = IF to = "synced" THEN e ELSE None]

\* The row a Mark* method saves, from the copy it read.
Marked(row, to, e) ==
    [row EXCEPT !.status = to,
                !.event = CASE to = "synced" -> e
                            [] to = "disconnected" -> None
                            [] OTHER -> row.event]

\* The pending mark of the two handlers is not their last step.
AfterSave(c) ==
    CASE c.role = "worker" -> "finish"
      [] c.role = "edit" -> "insert"
      [] c.role = "disconnect" -> "unlink"
      [] OTHER -> "load"

SaveLink(p) ==
    LET c == ctx[p] IN
    /\ pc[p] = "save"
    /\ link' = [link EXCEPT ![c.schedule] = Marked(c.row, c.to, c.event)]
    /\ IF c.role = "manual" /\ c.to # "pending"
          THEN Return(p)
          ELSE /\ ctx' = [ctx EXCEPT ![p].row = NoLink]
               /\ Goto(p, AfterSave(c))
    /\ UNCHANGED <<schedule, connection, job, event, batch>>

-------------------------------------------------------------------------------
(***************************************************************************)
(* Calling the provider.  The caller passes a copy of the connection; when *)
(* its access token is about to expire the adapter refreshes it and saves  *)
(* that whole copy, the status it was read with included.                  *)
(***************************************************************************)

TokenStillValid(p) ==
    /\ pc[p] = "call"
    /\ Goto(p, "send")
    /\ UNCHANGED <<rows, event, batch, ctx>>

RefreshToken(p) ==
    /\ "refresh" \in Environment
    /\ pc[p] = "call"
    /\ connection' = [connection EXCEPT ![ctx[p].user] = ctx[p].token]
    /\ Goto(p, "send")
    /\ UNCHANGED <<schedule, link, job, event, batch, ctx>>

\* The status the caller gives the link for an outcome.  Only the worker
\* takes a deletion answered by "not found" for a success.
StatusFor(c, outcome) ==
    LET done == outcome = "ok" \/ (outcome = "reconciled" /\ c.role = "worker")
    IN  IF ~done THEN "failed"
        ELSE IF c.action = "delete" THEN "disconnected" ELSE "synced"

Answer(p, outcome, e) ==
    /\ ctx' = [ctx EXCEPT ![p].outcome = outcome, ![p].event = e,
                          ![p].to = StatusFor(ctx[p], outcome),
                          ![p].token = "absent", ![p].version = 0]
    /\ Goto(p, IF outcome = "reauth" THEN "reauth" ELSE "mark")
    /\ UNCHANGED <<rows, batch>>

\* Outcomes of a request the provider obeys: its answer may get lost.
Obeyed == {"ok"} \cup (IF "lost" \in Environment THEN {"error"} ELSE {})

\* An event is found only in the calendar of the connection that is used.
Found(c) == c.event # None /\ event[c.event].state = "live"
                           /\ event[c.event].calendar = c.user

CreateEvent(p) ==
    LET c == ctx[p] IN
    /\ pc[p] = "send" /\ c.action = "create"
    /\ \E e \in Event, outcome \in Obeyed :
          /\ event[e].state = "unused"
          /\ event' = [event EXCEPT ![e] =
                         [state |-> "live", calendar |-> c.user,
                          schedule |-> c.schedule, version |-> c.version]]
          /\ Answer(p, outcome, IF outcome = "ok" THEN e ELSE None)

UpdateEvent(p) ==
    LET c == ctx[p] IN
    /\ pc[p] = "send" /\ c.action = "update"
    /\ Found(c)
    /\ event' = [event EXCEPT ![c.event].version = c.version]
    /\ \E outcome \in Obeyed : Answer(p, outcome, c.event)

DeleteEvent(p) ==
    LET c == ctx[p] IN
    /\ pc[p] = "send" /\ c.action = "delete"
    /\ Found(c)
    /\ event' = [event EXCEPT ![c.event].state = "gone"]
    /\ \E outcome \in Obeyed : Answer(p, outcome, c.event)

\* An update or a deletion of an event the provider does not find.  It answers
\* 404, which the adapter reconciles for a deletion, or another status.
EventMissing(p) ==
    LET c == ctx[p] IN
    /\ pc[p] = "send" /\ c.action # "create"
    /\ ~Found(c)
    /\ \E outcome \in IF c.action = "delete" THEN {"reconciled", "error"}
                                             ELSE {"error"} :
          Answer(p, outcome, c.event)
    /\ UNCHANGED event

\* The provider refuses; it always does when it has no event left to give.
Refuse(p) ==
    /\ pc[p] = "send"
    /\ \/ "error" \in Environment
       \/ ctx[p].action = "create" /\ \A e \in Event : event[e].state # "unused"
    /\ Answer(p, "error", ctx[p].event)
    /\ UNCHANGED event

RefuseAuthorization(p) ==
    /\ "reauth" \in Environment
    /\ pc[p] = "send"
    /\ Answer(p, "reauth", ctx[p].event)
    /\ UNCHANGED event

MarkReauthorizationRequired(p) ==
    LET u == ctx[p].user IN
    /\ pc[p] = "reauth"
    /\ connection' =
         IF CanTransitionConnection(connection[u], "reauthorization_required")
            THEN [connection EXCEPT ![u] = "reauthorization_required"]
            ELSE connection
    /\ Goto(p, "mark")
    /\ UNCHANGED <<schedule, link, job, event, batch, ctx>>

CallProvider(p) ==
    \/ TokenStillValid(p)
    \/ RefreshToken(p)
    \/ CreateEvent(p)
    \/ UpdateEvent(p)
    \/ DeleteEvent(p)
    \/ EventMissing(p)
    \/ Refuse(p)
    \/ RefuseAuthorization(p)
    \/ MarkReauthorizationRequired(p)
    \/ MarkLink(p)
    \/ SaveLink(p)

-------------------------------------------------------------------------------
(***************************************************************************)
(* The worker.                                                             *)
(***************************************************************************)

\* Mistake: jobs in "processing" are claimed again, to recover those of a
\* crashed worker.
DueJobsReclaimed ==
    {k \in JobKey : \/ job[k].status \in {"pending", "failed"} /\ job[k].due
                    \/ job[k].status = "processing"}

DueJobs == {k \in JobKey : job[k].status \in {"pending", "failed"} /\ job[k].due}

\* One transaction over rows locked FOR UPDATE.
ClaimDueJobs(w) ==
    /\ pc[w] = "idle" /\ batch[w] = {}
    /\ \E claimed \in SUBSET DueJobs \ {{}} :
          /\ \/ claimed = DueJobs /\ Cardinality(claimed) <= BatchLimit
             \/ Cardinality(claimed) = BatchLimit
          /\ job' = [k \in JobKey |->
                       IF k \in claimed
                          THEN [status |-> "processing", due |-> FALSE,
                                attempts |-> job[k].attempts + 1]
                          ELSE job[k]]
          /\ batch' = [batch EXCEPT ![w] = claimed]
    /\ UNCHANGED <<schedule, connection, link, event, pc, ctx>>

\* Mistake: the content is that of the enqueued version.
ContentAtEnqueue(k) == k.version

\* What a job sends is read when it runs, not when it was enqueued.
Content(k) == schedule[k.schedule].version

\* The reads before the call: the link, its connection and the schedule.
StartJob(w, k) ==
    LET row == link[k.schedule]
        found == k.action = "delete" \/ schedule[k.schedule].live
    IN
    /\ pc[w] = "idle" /\ k \in batch[w]
    /\ ctx' = [ctx EXCEPT ![w] =
                 [Blank EXCEPT !.role = "worker", !.schedule = k.schedule,
                               !.key = k, !.action = k.action,
                               !.event = row.event, !.user = row.connection,
                               !.token = connection[row.connection],
                               !.version = Content(k),
                               !.outcome = IF found THEN "ok" ELSE "error"]]
    /\ Goto(w, IF found THEN "call" ELSE "finish")
    /\ UNCHANGED <<rows, event, batch>>

\* Mistake: one attempt too many.
FinishedOneMore(row, outcome) ==
    [row EXCEPT !.status = IF outcome \in {"ok", "reconciled"} THEN "succeeded"
                           ELSE IF row.attempts > MaxAttempts THEN "dead" ELSE "failed"]

\* Mistake: an error path returns without marking the job.
FinishedUnmarked(row, outcome) ==
    [row EXCEPT !.status = IF outcome = "error" THEN @ ELSE "succeeded"]

\* MarkSucceeded and MarkFailed of the job queue.
Finished(row, outcome) ==
    [row EXCEPT !.status = IF outcome \in {"ok", "reconciled"} THEN "succeeded"
                           ELSE IF row.attempts >= MaxAttempts THEN "dead" ELSE "failed"]

FinishJob(w) ==
    LET k == ctx[w].key IN
    /\ pc[w] = "finish"
    /\ job' = [job EXCEPT ![k] = Finished(job[k], ctx[w].outcome)]
    /\ batch' = [batch EXCEPT ![w] = @ \ {k}]
    /\ Return(w)
    /\ UNCHANGED <<schedule, connection, link, event>>

\* MarkSucceeded or MarkFailed returns an error of the database, which
\* RunCalendarSyncWorkerBatch only logs before it goes on to the next job.
FinishFails(w) ==
    /\ "database" \in Environment
    /\ pc[w] = "finish"
    /\ batch' = [batch EXCEPT ![w] = @ \ {ctx[w].key}]
    /\ Return(w)
    /\ UNCHANGED <<rows, event>>

\* calendarSyncRetryBackoff: next_attempt_at of a failed job comes.
BackoffElapses(k) ==
    /\ job[k].status = "failed" /\ ~job[k].due
    /\ job' = [job EXCEPT ![k].due = TRUE]
    /\ UNCHANGED <<schedule, connection, link, event, batch, pc, ctx>>

WorkerStep(w) ==
    \/ ClaimDueJobs(w)
    \/ \E k \in JobKey : StartJob(w, k)
    \/ CallProvider(w)
    \/ FinishJob(w) \/ FinishFails(w)

-------------------------------------------------------------------------------
(***************************************************************************)
(* Editing and removing a schedule.                                        *)
(***************************************************************************)

\* Mistake: the key does not depend on the version.
KeyOfAnyVersion(action, s, found) ==
    [action |-> action, schedule |-> s, version |-> 0]

\* enqueueCalendarSyncMutation asks for no job when its GetById fails on a
\* removed schedule, for a link that is disconnected, and for the deletion of
\* an event that was never created.
NothingToSync(action, found, row) ==
    \/ ~found.live
    \/ row.status \in {"absent", "disconnected"}
    \/ action = "delete" /\ row.event = None

\* An update of an event that was never created becomes a creation.
ActionFor(action, row) ==
    IF action = "update" /\ row.event = None THEN "create" ELSE action

\* buildCalendarJobKey.
KeyOf(action, s, found) ==
    [action |-> action, schedule |-> s, version |-> found.version]

\* The jobs a change of a schedule asks for, given the rows that are read.
Mutation(action, s, found, row) ==
    IF NothingToSync(action, found, row)
       THEN {}
       ELSE {KeyOf(ActionFor(action, row), s, found)}

\* Mistake: a job that is there already is overwritten.
EnqueuedAgain(keys) ==
    [k \in JobKey |->
       IF k \in keys THEN [status |-> "pending", attempts |-> 0, due |-> TRUE]
                     ELSE job[k]]

\* Enqueue: FirstOrCreate on the idempotency key.
Enqueued(keys) ==
    [k \in JobKey |->
       IF k \in keys /\ job[k].status = "absent"
          THEN [status |-> "pending", attempts |-> 0, due |-> TRUE]
          ELSE job[k]]

EditSchedule(r, s) ==
    /\ pc[r] = "idle" /\ schedule[s].live
    /\ schedule[s].version < MaxVersion
    /\ schedule' = [schedule EXCEPT ![s].version = @ + 1]
    /\ ctx' = [ctx EXCEPT ![r] = [Blank EXCEPT !.role = "edit", !.schedule = s]]
    /\ Goto(r, "enqueue")
    /\ UNCHANGED <<connection, link, job, event, batch>>

\* The integration API and the status update save the row and stop there.
TouchSchedule(s) ==
    /\ "silent" \in Environment
    /\ schedule[s].live /\ schedule[s].version < MaxVersion
    /\ schedule' = [schedule EXCEPT ![s].version = @ + 1]
    /\ UNCHANGED <<connection, link, job, event, batch, pc, ctx>>

LoadMutation(r) ==
    LET s == ctx[r].schedule
        keys == Mutation("update", s, schedule[s], link[s])
    IN
    /\ pc[r] = "enqueue"
    /\ \/ /\ keys = {}
          /\ Return(r)
       \/ \E k \in keys :
             /\ ctx' = [ctx EXCEPT ![r].key = k]
             /\ Goto(r, "mark")
    /\ UNCHANGED <<rows, event, batch>>

InsertJob(r) ==
    /\ pc[r] = "insert"
    /\ job' = Enqueued({ctx[r].key})
    /\ Return(r)
    /\ UNCHANGED <<schedule, connection, link, event, batch>>

\* One transaction: the soft delete, then the mutation it asks for.
RemoveSchedule(s) ==
    LET removed == [schedule[s] EXCEPT !.live = FALSE] IN
    /\ "remove" \in Environment
    /\ schedule[s].live
    /\ schedule' = [schedule EXCEPT ![s] = removed]
    /\ job' = Enqueued(Mutation("delete", s, removed, link[s]))
    /\ UNCHANGED <<connection, link, event, batch, pc, ctx>>

-------------------------------------------------------------------------------
(***************************************************************************)
(* Manual sync, retry and unsync of one schedule.                          *)
(***************************************************************************)

\* The active connection of the partner, otherwise of the user.
PreferredConnection(u) ==
    LET active == {v \in User : connection[v] = "active"} IN
    IF active \ {u} # {} THEN active \ {u} ELSE active

BeginManualSync(r, s, u, requested) ==
    /\ pc[r] = "idle" /\ schedule[s].live
    /\ "overlap" \in Environment \/ ~UnsettledFor(s)
    /\ \E v \in PreferredConnection(u) :
          ctx' = [ctx EXCEPT ![r] =
                    [Blank EXCEPT !.schedule = s, !.user = v,
                                  !.token = connection[v],
                                  !.action = requested]]
    /\ Goto(r, "upsert")
    /\ UNCHANGED <<rows, event, batch>>

\* UpsertLink changes an existing row only in memory.
UpsertLink(r) ==
    LET c == ctx[r]
        old == link[c.schedule]
        e == IF old.connection = c.user THEN old.event ELSE None
        action == IF c.action = "delete" THEN "delete"
                  ELSE IF e = None THEN "create" ELSE "update"
    IN
    /\ pc[r] = "upsert"
    /\ link' = IF old.status = "absent"
                  THEN [link EXCEPT ![c.schedule] =
                          [status |-> "pending", event |-> None,
                           connection |-> c.user]]
                  ELSE link
    /\ ctx' = [ctx EXCEPT ![r].action = action, ![r].event = e,
                          ![r].to = IF action = "delete" THEN "disconnected"
                                                         ELSE "pending"]
    /\ Goto(r, IF action = "delete" /\ e # None THEN "call" ELSE "mark")
    /\ UNCHANGED <<schedule, connection, job, event, batch>>

LoadSchedule(r) ==
    LET found == schedule[ctx[r].schedule] IN
    /\ pc[r] = "load"
    /\ \/ /\ found.live
          /\ ctx' = [ctx EXCEPT ![r].version = found.version]
          /\ Goto(r, "call")
       \/ /\ ~found.live
          /\ Return(r)
    /\ UNCHANGED <<rows, event, batch>>

-------------------------------------------------------------------------------
(***************************************************************************)
(* Connecting and disconnecting the provider.                              *)
(***************************************************************************)

\* The OAuth callback: UpsertAuthorizedConnection.
ConnectProvider(u) ==
    /\ connection' = [connection EXCEPT ![u] = "active"]
    /\ UNCHANGED <<schedule, link, job, event, batch, pc, ctx>>

DisconnectProvider(r, u) ==
    /\ "disconnect" \in Environment
    /\ pc[r] = "idle" /\ connection[u] # "absent"
    /\ connection' = [connection EXCEPT ![u] = "disconnected"]
    /\ ctx' = [ctx EXCEPT ![r] =
                 [Blank EXCEPT !.role = "disconnect", !.user = u,
                               !.to = "disconnected"]]
    /\ Goto(r, "list")
    /\ UNCHANGED <<schedule, link, job, event, batch>>

ListLinks(r) ==
    /\ pc[r] = "list"
    /\ ctx' = [ctx EXCEPT ![r].todo =
                 {s \in Schedule : link[s].connection = ctx[r].user}]
    /\ Goto(r, "unlink")
    /\ UNCHANGED <<rows, event, batch>>

NextLink(r) ==
    /\ pc[r] = "unlink"
    /\ \/ /\ ctx[r].todo = {}
          /\ Return(r)
       \/ \E s \in ctx[r].todo :
             /\ ctx' = [ctx EXCEPT ![r].todo = @ \ {s}, ![r].schedule = s]
             /\ Goto(r, "mark")
    /\ UNCHANGED <<rows, event, batch>>

RequestStep(r) ==
    \/ CallProvider(r)
    \/ LoadMutation(r)
    \/ InsertJob(r)
    \/ UpsertLink(r)
    \/ LoadSchedule(r)
    \/ ListLinks(r)
    \/ NextLink(r)

\* A process dies where it is: its local variables are gone, its rows stay.
Crash(p) ==
    /\ "crash" \in Environment
    /\ \/ pc[p] # "idle"
       \/ p \in Worker /\ batch[p] # {}
    /\ Return(p)
    /\ batch' = [w \in Worker |-> IF w = p THEN {} ELSE batch[w]]
    /\ UNCHANGED <<rows, event>>

Next ==
    \/ \E w \in Worker : WorkerStep(w)
    \/ \E k \in JobKey : BackoffElapses(k)
    \/ \E r \in Request : RequestStep(r)
    \/ \E r \in Request, s \in Schedule : EditSchedule(r, s)
    \/ \E r \in Request, s \in Schedule, u \in User :
          \E requested \in {"auto", "delete"} : BeginManualSync(r, s, u, requested)
    \/ \E r \in Request, u \in User : DisconnectProvider(r, u)
    \/ \E s \in Schedule : RemoveSchedule(s) \/ TouchSchedule(s)
    \/ \E u \in User : ConnectProvider(u)
    \/ \E p \in Process : Crash(p)

Spec == Init /\ [][Next]_vars

(***************************************************************************)
(* Fairness: the worker goroutine loops for ever, every provider request   *)
(* has a client timeout, and time passes.  Nothing is assumed of users.    *)
(***************************************************************************)
Fairness ==
    /\ \A w \in Worker : WF_vars(WorkerStep(w))
    /\ \A k \in JobKey : WF_vars(BackoffElapses(k))

FairSpec == Spec /\ Fairness

-------------------------------------------------------------------------------
(***************************************************************************)
(* Properties.                                                             *)
(***************************************************************************)

\* The attempts of a job fit its status in every order of claims, retries,
\* crashes and restarts: a waiting job has an attempt left, a dead one none.
AttemptBudget ==
    \A k \in JobKey :
        /\ job[k].status \in {"absent", "pending"} => job[k].attempts = 0
        /\ job[k].status = "failed" => job[k].attempts \in 1 .. MaxAttempts - 1
        /\ job[k].status = "dead" => job[k].attempts = MaxAttempts
        /\ job[k].status \in {"processing", "succeeded"}
              => job[k].attempts \in 1 .. MaxAttempts

\* ClaimDueJobs hands a job to one worker at a time, and a worker that still
\* holds a job finds it in "processing": nobody else retries or finishes it.
ClaimExclusive ==
    \A w \in Worker : \A k \in batch[w] :
        /\ job[k].status = "processing"
        /\ \A v \in Worker \ {w} : k \notin batch[v]

\* Where no worker dies and the database saves what the worker makes of a job,
\* none is stranded in "processing", where ClaimDueJobs never looks: every path
\* of processCalendarSyncJob, errors included, ends with the job marked.
NoStrandedJob ==
    Environment \cap {"crash", "database"} = {} =>
        \A k \in JobKey :
            job[k].status = "processing" => \E w \in Worker : k \in batch[w]

\* Whole rows are saved from copies read earlier, by several processes; still
\* a synced link always names an event and a disconnected one never does.
LinkNamesEvent ==
    \A s \in Schedule :
        /\ link[s].status = "synced" => link[s].event # None
        /\ link[s].status \in {"absent", "disconnected"} => link[s].event = None

\* A succeeded or dead job never changes again, whatever is enqueued or
\* answered late.
SettledJobsStay ==
    [][\A k \in JobKey :
          job[k].status \in {"succeeded", "dead"} => job'[k] = job[k]]_vars

\* Assumptions on the surroundings under which the design keeps its promise:
\* requests come one at a time, manual syncs wait for the queue, nobody
\* disconnects the provider under a running job, no process dies half-way, no
\* mark of the worker fails and no edit bypasses the queue.
Sequential ==
    /\ Environment \cap {"overlap", "disconnect", "crash", "silent", "database"} = {}
    /\ \A q, r \in Request : q = r

\* Also the provider obeys, and there is one person's calendar.
Quiet ==
    /\ Sequential
    /\ Environment \cap {"error", "lost", "reauth"} = {}
    /\ \A u, v \in User : u = v

Settled(s) ==
    /\ schedule[s].live
    /\ \A r \in Request : pc[r] = "idle"
    /\ ~UnsettledFor(s)

\* Once everything has settled, an event shown as synced has the content of
\* its schedule: retries that outlive a later edit do not bring back the older
\* content, and an edit made during a sync is not forgotten.
SyncedIsFresh ==
    Sequential =>
        \A s \in Schedule :
            Settled(s) /\ link[s].status = "synced"
                => event[link[s].event].version = schedule[s].version

\* A link shown as pending has somebody working on it: nothing is left in
\* "pending" with no job and no request to move it on.
PendingHasWork ==
    Sequential =>
        \A s \in Schedule : Settled(s) => link[s].status # "pending"

\* No event is created twice or lost sight of: each one in the calendar is
\* the one its schedule's link names, or is about to be.
EventsHaveLinks ==
    Quiet =>
        \A e \in Event :
            event[e].state = "live" =>
                \/ link[event[e].schedule].event = e
                \/ \E p \in Process :
                      /\ pc[p] \in {"mark", "save"}
                      /\ ctx[p].schedule = event[e].schedule
                      /\ ctx[p].event = e /\ ctx[p].to = "synced"

\* Every job is decided in the end, however often it is retried, and whatever
\* the handlers do to its link and schedule in the meantime; its run has no
\* crashes and no database that fails the worker, for both strand a job.
JobsSettle ==
    \A k \in JobKey :
        job[k].status # "absent" ~> job[k].status \in {"succeeded", "dead"}

\* What the tests of the transition tables say of a persisted connection:
\* "disconnected" never becomes "reauthorization_required".
ConnectionStatusAsTested ==
    [][\A u \in User :
          connection[u] = "disconnected"
             => connection'[u] # "reauthorization_required"]_vars

-------------------------------------------------------------------------------
(***************************************************************************)
(* The queue implements the life cycle of JobLifecycle: "pending" and      *)
(* "failed" are both waiting, for the first try and for the next one.      *)
(***************************************************************************)

Phase(k) ==
    IF job[k].status \in {"pending", "failed"} THEN "waiting"
    ELSE IF job[k].status = "processing" THEN "running" ELSE job[k].status

Lifecycle == INSTANCE JobLifecycle WITH
    Job <- JobKey,
    Budget <- MaxAttempts,
    phase <- [k \in JobKey |-> Phase(k)],
    tries <- [k \in JobKey |-> job[k].attempts]

\* Whatever workers, handlers, retries and crashes do to the job table, each
\* job goes through the life cycle that JobLifecycle allows.
JobsFollowLifecycle == Lifecycle!Spec

-------------------------------------------------------------------------------
(***************************************************************************)
(* The inductive invariant.  The safety invariants above need to know that *)
(* the rows a process is working on exist: a link is there before a job    *)
(* names it, and has a connection; and a process that is about to mark a   *)
(* link as synced has an event to store in it.                             *)
(***************************************************************************)

Present(s) == link[s].status # "absent"

LinkRows ==
    \A s \in Schedule : IF Present(s) THEN link[s].connection \in User
                                      ELSE link[s] = NoLink

JobsHaveLinks ==
    \A k \in JobKey : job[k].status # "absent" => Present(k.schedule)

LocalsOK(p) ==
    LET c == ctx[p] IN
    pc[p] # "idle" =>
        /\ c.role = "worker" <=> p \in Worker
        /\ c.role = "worker" =>
              pc[p] \in {"call", "send", "reauth", "mark", "save", "finish"}
        /\ c.role = "edit" =>
              /\ pc[p] \in {"enqueue", "mark", "save", "insert"}
              /\ c.to = "pending"
        /\ c.role = "disconnect" =>
              /\ pc[p] \in {"list", "unlink", "mark", "save"}
              /\ c.to = "disconnected"
        /\ c.role = "manual" =>
              pc[p] \in {"upsert", "load", "call", "send", "reauth", "mark", "save"}
        /\ c.role # "edit" => c.user \in User
        /\ pc[p] \notin {"list", "unlink"} => c.schedule \in Schedule
        /\ pc[p] \notin {"list", "unlink", "upsert", "enqueue"}
              => Present(c.schedule)
        /\ pc[p] = "save" => c.row.status # "absent" /\ c.row.connection \in User
        /\ c.role = "worker" =>
              c.key \in batch[p] /\ c.key.schedule = c.schedule
        /\ c.role = "edit" /\ pc[p] # "enqueue" =>
              c.key \in JobKey /\ c.key.schedule = c.schedule
        /\ \A s \in c.todo : Present(s)
        /\ c.to = "synced" /\ pc[p] \in {"reauth", "mark", "save"}
              => c.event # None

IInv ==
    /\ TypeOK
    /\ AttemptBudget
    /\ ClaimExclusive
    /\ LinkNamesEvent
    /\ LinkRows
    /\ JobsHaveLinks
    /\ \A p \in Process : LocalsOK(p)

===============================================================================
