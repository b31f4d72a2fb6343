-------------------------- MODULE CalendarSyncProofs --------------------------
(***************************************************************************)
(* Proofs about CalendarSync, for all sets of schedules, users, workers,   *)
(* handlers and events and every number of attempts.                       *)
(***************************************************************************)
EXTENDS CalendarSync, TLAPS

USE CalendarAssumption

-------------------------------------------------------------------------------
(***************************************************************************)
(* What the rows and the locals look like after one step.                  *)
(***************************************************************************)

\* Every context a step builds is well typed.
LEMMA BlankTyped == Blank \in Context
BY DEF Blank, Context, NoLink, LinkRow, LinkStatus, JobAction

\* A row that a Mark* method saves is a row that names an event exactly when
\* its status says so.
LEMMA MarkedRow ==
    ASSUME NEW row \in LinkRow, NEW to \in LinkStatus,
           NEW e \in Event \cup {None}
    PROVE  /\ Marked(row, to, e) \in LinkRow
           /\ Marked(row, to, e).status = to
           /\ Marked(row, to, e).connection = row.connection
           /\ to = "synced" => Marked(row, to, e).event = e
           /\ to = "disconnected" => Marked(row, to, e).event = None
BY DEF Marked, LinkRow, LinkStatus

\* A process that a step leaves alone keeps well-formed locals, as long as
\* links stay present and its own batch is untouched.
LEMMA OthersKeepLocals ==
    ASSUME NEW q \in Process, TypeOK, LocalsOK(q),
           pc'[q] = pc[q], ctx'[q] = ctx[q],
           q \in Worker => batch'[q] = batch[q],
           \A s \in Schedule : Present(s) => Present(s)'
    PROVE  LocalsOK(q)'
<1> SUFFICES ASSUME pc[q] # "idle" PROVE LocalsOK(q)'
  BY DEF LocalsOK
<1> ctx[q] \in Context
  BY DEF TypeOK
<1>1. ctx[q].todo \subseteq Schedule
  BY DEF Context
<1>2. ctx[q].role = "worker" => batch'[q] = batch[q]
  BY DEF LocalsOK
<1> QED
  BY <1>1, <1>2 DEF LocalsOK

\* A step that moves one process to a label, gives it new locals, and may
\* change schedules, connections and events.
LEMMA ProcessStep ==
    ASSUME IInv, NEW p \in Process, NEW l \in Label, NEW c \in Context,
           UNCHANGED <<link, job, batch>>,
           schedule' \in [Schedule -> ScheduleRow],
           connection' \in [User -> ConnectionStatus \cup {"absent"}],
           event' \in [Event -> EventRow],
           pc' = [pc EXCEPT ![p] = l], ctx' = [ctx EXCEPT ![p] = c],
           LocalsOK(p)'
    PROVE  IInv'
<1> USE DEF IInv
<1>1. TypeOK'
  BY DEF TypeOK
<1>2. AttemptBudget' /\ LinkNamesEvent' /\ LinkRows' /\ JobsHaveLinks'
  BY DEF AttemptBudget, LinkNamesEvent, LinkRows, JobsHaveLinks, Present
<1>3. ClaimExclusive'
  BY DEF ClaimExclusive
<1>4. ASSUME NEW q \in Process PROVE LocalsOK(q)'
  <2>1. CASE q = p
    BY <2>1
  <2>2. CASE q # p
    <3>1. pc'[q] = pc[q] /\ ctx'[q] = ctx[q]
      BY <2>2 DEF TypeOK
    <3> QED
      BY <3>1, OthersKeepLocals DEF Present
  <2> QED
    BY <2>1, <2>2
<1> QED
  BY <1>1, <1>2, <1>3, <1>4

\* A step that only moves one process and gives it new locals.
LEMMA LocalStep ==
    ASSUME IInv, NEW p \in Process, NEW l \in Label, NEW c \in Context,
           UNCHANGED <<rows, event, batch>>,
           pc' = [pc EXCEPT ![p] = l], ctx' = [ctx EXCEPT ![p] = c],
           LocalsOK(p)'
    PROVE  IInv'
BY ProcessStep DEF IInv, TypeOK, rows

\* A step that returns a process to "idle" and changes nothing else.
LEMMA ReturnStep ==
    ASSUME IInv, NEW p \in Process, UNCHANGED <<rows, event, batch>>, Return(p)
    PROVE  IInv'
<1>1. pc'[p] = "idle"
  BY DEF Return, Goto, IInv, TypeOK
<1>2. LocalsOK(p)'
  BY <1>1 DEF LocalsOK
<1>3. "idle" \in Label
  BY DEF Label
<1> QED
  BY <1>2, <1>3, LocalStep, BlankTyped DEF Return, Goto

\* A step of one process that also changes its link: the row it writes is
\* well formed, and only the link of one schedule changes.
LEMMA LinkStep ==
    ASSUME IInv, NEW p \in Process, NEW l \in Label, NEW c \in Context,
           NEW s \in Schedule, NEW row \in LinkRow,
           row.status # "absent", row.connection \in User,
           row.status = "synced" => row.event # None,
           row.status = "disconnected" => row.event = None,
           UNCHANGED <<schedule, connection, job, event, batch>>,
           link' = [link EXCEPT ![s] = row],
           pc' = [pc EXCEPT ![p] = l], ctx' = [ctx EXCEPT ![p] = c],
           LocalsOK(p)'
    PROVE  IInv'
<1> USE DEF IInv
<1>1. TypeOK'
  BY DEF TypeOK
<1>2. \A t \in Schedule : link'[t] = IF t = s THEN row ELSE link[t]
  BY DEF TypeOK
<1>3. \A t \in Schedule : Present(t) => Present(t)'
  BY <1>2 DEF Present
<1>4. AttemptBudget' /\ ClaimExclusive'
  BY DEF AttemptBudget, ClaimExclusive
<1>5. LinkNamesEvent' /\ LinkRows'
  BY <1>2 DEF LinkNamesEvent, LinkRows, Present
<1>6. JobsHaveLinks'
  BY <1>3 DEF JobsHaveLinks, JobKey
<1>7. ASSUME NEW q \in Process PROVE LocalsOK(q)'
  <2>1. CASE q = p
    BY <2>1
  <2>2. CASE q # p
    <3>1. pc'[q] = pc[q] /\ ctx'[q] = ctx[q]
      BY <2>2 DEF TypeOK
    <3> QED
      BY <1>3, <3>1, OthersKeepLocals
  <2> QED
    BY <2>1, <2>2
<1> QED
  BY <1>1, <1>4, <1>5, <1>6, <1>7

\* A step that leaves links, jobs, batches and processes alone.
LEMMA OutsideStep ==
    ASSUME IInv, TypeOK', UNCHANGED <<link, job, batch, pc, ctx>>
    PROVE  IInv'
<1> USE DEF IInv
<1>1. AttemptBudget' /\ LinkNamesEvent' /\ LinkRows' /\ JobsHaveLinks'
  BY DEF AttemptBudget, LinkNamesEvent, LinkRows, JobsHaveLinks, Present
<1>2. ClaimExclusive'
  BY DEF ClaimExclusive
<1>3. ASSUME NEW q \in Process PROVE LocalsOK(q)'
  BY OthersKeepLocals DEF Present
<1> QED
  BY <1>1, <1>2, <1>3

-------------------------------------------------------------------------------
(***************************************************************************)
(* Marking links and calling the provider.                                 *)
(***************************************************************************)

\* What the locals of a running process give a step to work with.
LEMMA Running ==
    ASSUME IInv, NEW p \in Process, pc[p] # "idle"
    PROVE  ctx[p] \in Context /\ LocalsOK(p) /\ pc[p] \in Label
BY DEF IInv, TypeOK

\* The new value of a process's label and locals.
LEMMA Moved ==
    ASSUME TypeOK, NEW p \in Process, NEW l, NEW c,
           pc' = [pc EXCEPT ![p] = l], ctx' = [ctx EXCEPT ![p] = c]
    PROVE  pc'[p] = l /\ ctx'[p] = c
BY DEF TypeOK

\* MarkLink keeps the invariant: the row it reads is present, and a refused
\* mark leads on to "failed" or to the end of the job.
LEMMA MarkLinkKeeps ==
    ASSUME IInv, NEW p \in Process, MarkLink(p)
    PROVE  IInv'
<1> DEFINE c == ctx[p]
<1>1. /\ pc[p] = "mark" /\ c \in Context /\ LocalsOK(p)
      /\ c.schedule \in Schedule /\ Present(c.schedule)
  BY Running DEF MarkLink, LocalsOK
<1>2. /\ link[c.schedule] \in LinkRow
      /\ link[c.schedule].status # "absent"
      /\ link[c.schedule].connection \in User
  BY <1>1 DEF IInv, TypeOK, LinkRows, Present
<1>3. CASE /\ ctx' = [ctx EXCEPT ![p].row = link[c.schedule]]
           /\ Goto(p, "save")
           /\ UNCHANGED <<rows, event, batch>>
  <2> DEFINE d == [c EXCEPT !.row = link[c.schedule]]
  <2>1. d \in Context /\ "save" \in Label
    BY <1>1, <1>2 DEF Context, Label
  <2>2. ctx' = [ctx EXCEPT ![p] = d] /\ pc' = [pc EXCEPT ![p] = "save"]
    BY <1>3, <1>1 DEF Goto, IInv, TypeOK
  <2>3. pc'[p] = "save" /\ ctx'[p] = d
    BY <2>2, Moved DEF IInv
  <2>4. LocalsOK(p)'
    BY <1>1, <1>2, <1>3, <2>3 DEF LocalsOK, Context, rows, Present
  <2> QED
    BY <1>3, <2>1, <2>2, <2>4, LocalStep
<1>4. CASE /\ c.role = "manual"
           /\ ctx' = [ctx EXCEPT ![p].to = "failed"]
           /\ UNCHANGED pc
           /\ UNCHANGED <<rows, event, batch>>
  <2> DEFINE d == [c EXCEPT !.to = "failed"]
  <2>1. d \in Context /\ "mark" \in Label
    BY <1>1 DEF Context, Label, LinkStatus
  <2>2. ctx' = [ctx EXCEPT ![p] = d] /\ pc' = [pc EXCEPT ![p] = "mark"]
    BY <1>4, <1>1 DEF IInv, TypeOK
  <2>3. pc'[p] = "mark" /\ ctx'[p] = d
    BY <2>2, Moved DEF IInv
  <2>4. LocalsOK(p)'
    BY <1>1, <1>4, <2>3 DEF LocalsOK, Context, rows, Present
  <2> QED
    BY <1>4, <2>1, <2>2, <2>4, LocalStep
<1>5. CASE /\ c.role = "worker"
           /\ Goto(p, "finish")
           /\ UNCHANGED ctx
           /\ UNCHANGED <<rows, event, batch>>
  <2>1. ctx' = [ctx EXCEPT ![p] = c] /\ pc' = [pc EXCEPT ![p] = "finish"]
    BY <1>5 DEF Goto, IInv, TypeOK
  <2>2. pc'[p] = "finish" /\ ctx'[p] = c
    BY <2>1, Moved DEF IInv
  <2>3. LocalsOK(p)' /\ "finish" \in Label
    BY <1>1, <1>5, <2>2 DEF LocalsOK, rows, Present, Label
  <2> QED
    BY <1>1, <1>5, <2>1, <2>3, LocalStep
<1> QED
  BY <1>3, <1>4, <1>5 DEF MarkLink

\* SaveLink keeps the invariant: the row it writes names an event exactly as
\* its status requires, however old the copy it was made from.
LEMMA SaveLinkKeeps ==
    ASSUME IInv, NEW p \in Process, SaveLink(p)
    PROVE  IInv'
<1> DEFINE c == ctx[p]
           row == Marked(c.row, c.to, c.event)
<1>1. /\ pc[p] = "save" /\ c \in Context /\ LocalsOK(p)
      /\ c.schedule \in Schedule /\ Present(c.schedule)
      /\ c.row.status # "absent" /\ c.row.connection \in User
      /\ c.to = "synced" => c.event # None
  BY Running DEF SaveLink, LocalsOK
<1>2. /\ c.row \in LinkRow /\ c.to \in LinkStatus
      /\ c.event \in Event \cup {None}
  BY <1>1 DEF Context
<1>3. /\ row \in LinkRow /\ row.status # "absent" /\ row.connection \in User
      /\ row.status = "synced" => row.event # None
      /\ row.status = "disconnected" => row.event = None
  <2>1. /\ row \in LinkRow
        /\ row.status = c.to /\ row.connection = c.row.connection
        /\ c.to = "synced" => row.event = c.event
        /\ c.to = "disconnected" => row.event = None
    BY <1>2, MarkedRow
  <2> HIDE DEF row
  <2> QED
    BY <1>1, <1>2, <2>1 DEF LinkStatus
<1>4. /\ UNCHANGED <<schedule, connection, job, event, batch>>
      /\ link' = [link EXCEPT ![c.schedule] = row]
  BY DEF SaveLink
<1>5. link'[c.schedule].status # "absent"
  BY <1>1, <1>3, <1>4 DEF IInv, TypeOK
<1>6. \A s \in Schedule : Present(s) => Present(s)'
  BY <1>1, <1>3, <1>4 DEF Present, IInv, TypeOK
<1>7. CASE Return(p)
  <2>1. LocalsOK(p)' /\ "idle" \in Label
    BY <1>7 DEF LocalsOK, Return, Goto, IInv, TypeOK, Label
  <2> HIDE DEF row
  <2> QED
    BY <1>1, <1>3, <1>4, <1>7, <2>1, LinkStep, BlankTyped DEF Return, Goto
<1>8. CASE /\ ~(c.role = "manual" /\ c.to # "pending")
           /\ ctx' = [ctx EXCEPT ![p].row = NoLink]
           /\ Goto(p, AfterSave(c))
  <2> DEFINE d == [c EXCEPT !.row = NoLink]
             l == AfterSave(c)
  <2>1. /\ c.role = "worker" => l = "finish"
        /\ c.role = "edit" => l = "insert"
        /\ c.role = "disconnect" => l = "unlink"
        /\ c.role = "manual" => l = "load"
        /\ c.role \in {"worker", "edit", "disconnect", "manual"}
    BY <1>1 DEF AfterSave, Context
  <2> HIDE DEF l
  <2>2. d \in Context /\ l \in Label
    BY <1>1, <2>1 DEF Context, Label, NoLink, LinkRow, LinkStatus
  <2>3. ctx' = [ctx EXCEPT ![p] = d] /\ pc' = [pc EXCEPT ![p] = l]
    BY <1>1, <1>8 DEF Goto, IInv, TypeOK, l
  <2>4. pc'[p] = l /\ ctx'[p] = d
    BY <2>3, Moved DEF IInv
  <2>5. \A s \in d.todo : Present(s)'
    BY <1>1, <1>6 DEF LocalsOK, Context
  <2>6. LocalsOK(p)'
    BY <1>1, <1>4, <1>5, <2>1, <2>4, <2>5 DEF LocalsOK, Context, Present
  <2> HIDE DEF row
  <2> QED
    BY <1>1, <1>3, <1>4, <2>2, <2>3, <2>6, LinkStep
<1> QED
  BY <1>7, <1>8 DEF SaveLink

\* The status an outcome leads to; only a request that was obeyed and was
\* no deletion leads to "synced".
LEMMA StatusForOutcome ==
    ASSUME NEW c, NEW outcome
    PROVE  /\ StatusFor(c, outcome) \in LinkStatus
           /\ StatusFor(c, outcome) = "synced"
                => outcome \in {"ok", "reconciled"} /\ c.action # "delete"
BY DEF StatusFor, LinkStatus

\* An answer of the provider keeps the invariant if an event comes with
\* every answer that makes the link synced.
LEMMA AnswerKeeps ==
    ASSUME IInv, NEW p \in Process, pc[p] = "send",
           NEW outcome \in {"ok", "reconciled", "reauth", "error"},
           NEW e \in Event \cup {None},
           outcome \in {"ok", "reconciled"} /\ ctx[p].action # "delete"
              => e # None,
           event' \in [Event -> EventRow],
           Answer(p, outcome, e)
    PROVE  IInv'
<1> DEFINE c == ctx[p]
           to == StatusFor(c, outcome)
           d == [c EXCEPT !.outcome = outcome, !.event = e, !.to = to,
                          !.token = "absent", !.version = 0]
           l == IF outcome = "reauth" THEN "reauth" ELSE "mark"
<1>1. /\ c \in Context /\ LocalsOK(p) /\ c.schedule \in Schedule
      /\ Present(c.schedule) /\ c.role \in {"worker", "manual"}
      /\ c.user \in User
  BY Running DEF LocalsOK, Context
<1>2. to \in LinkStatus /\ (to = "synced" => e # None)
  BY StatusForOutcome
<1>3. ctx' = [ctx EXCEPT ![p] = d] /\ pc' = [pc EXCEPT ![p] = l]
  BY DEF Answer, Goto, IInv, TypeOK
<1> HIDE DEF to
<1>4. d \in Context /\ l \in Label
  <2>1. 0 \in 0 .. MaxVersion
    BY DEF CalendarAssumption
  <2> HIDE DEF c
  <2> QED
    BY <1>1, <1>2, <2>1 DEF Context, Label
<1>5. pc'[p] = l /\ ctx'[p] = d
  BY <1>3, Moved DEF IInv
<1>6. UNCHANGED <<schedule, connection, link, job, batch>>
  BY DEF Answer, rows
<1>7. LocalsOK(p)'
  BY <1>1, <1>2, <1>5, <1>6 DEF LocalsOK, Context, Present
<1> QED
  BY <1>3, <1>4, <1>6, <1>7, ProcessStep DEF IInv, TypeOK

\* Every request to the provider keeps the invariant: creations and updates
\* that succeed carry an event.
LEMMA RequestKeeps ==
    ASSUME IInv, NEW p \in Process,
           \/ CreateEvent(p)
           \/ UpdateEvent(p)
           \/ DeleteEvent(p)
           \/ EventMissing(p)
           \/ Refuse(p)
           \/ RefuseAuthorization(p)
    PROVE  IInv'
<1> DEFINE c == ctx[p]
<1>1. /\ pc[p] = "send" /\ c \in Context /\ LocalsOK(p)
      /\ c.schedule \in Schedule /\ c.user \in User
      /\ c.event \in Event \cup {None} /\ c.version \in 0 .. MaxVersion
  <2>1. pc[p] = "send"
    BY DEF CreateEvent, UpdateEvent, DeleteEvent, EventMissing, Refuse,
           RefuseAuthorization
  <2> QED
    BY <2>1, Running DEF LocalsOK, Context
<1>2. Obeyed \subseteq {"ok", "error"}
  BY DEF Obeyed
<1>3. event \in [Event -> EventRow]
  BY DEF IInv, TypeOK
<1>4. CASE CreateEvent(p)
  <2>1. PICK e \in Event, outcome \in Obeyed :
          /\ event' = [event EXCEPT ![e] =
                         [state |-> "live", calendar |-> c.user,
                          schedule |-> c.schedule, version |-> c.version]]
          /\ Answer(p, outcome, IF outcome = "ok" THEN e ELSE None)
    BY <1>4 DEF CreateEvent
  <2>2. event' \in [Event -> EventRow]
    BY <1>1, <1>3, <2>1 DEF EventRow
  <2>3. e # None
    BY DEF CalendarAssumption
  <2> QED
    BY <1>1, <1>2, <2>1, <2>2, <2>3, AnswerKeeps
<1>5. CASE UpdateEvent(p)
  <2>1. PICK outcome \in Obeyed : Answer(p, outcome, c.event)
    BY <1>5 DEF UpdateEvent
  <2>2. c.event # None /\ event' = [event EXCEPT ![c.event].version = c.version]
    BY <1>5 DEF UpdateEvent, Found
  <2>3. event' \in [Event -> EventRow]
    BY <1>1, <1>3, <2>2 DEF EventRow
  <2> QED
    BY <1>1, <1>2, <2>1, <2>2, <2>3, AnswerKeeps
<1>6. CASE DeleteEvent(p)
  <2>1. PICK outcome \in Obeyed : Answer(p, outcome, c.event)
    BY <1>6 DEF DeleteEvent
  <2>2. c.event # None /\ event' = [event EXCEPT ![c.event].state = "gone"]
    BY <1>6 DEF DeleteEvent, Found
  <2>3. event' \in [Event -> EventRow]
    BY <1>1, <1>3, <2>2 DEF EventRow
  <2> QED
    BY <1>1, <1>2, <2>1, <2>2, <2>3, AnswerKeeps
<1>7. CASE EventMissing(p)
  <2>1. PICK outcome \in {"reconciled", "error"} :
          /\ outcome = "reconciled" => c.action = "delete"
          /\ Answer(p, outcome, c.event)
    BY <1>7 DEF EventMissing
  <2>2. event' \in [Event -> EventRow]
    BY <1>3, <1>7 DEF EventMissing
  <2> QED
    BY <1>1, <2>1, <2>2, AnswerKeeps
<1>8. CASE Refuse(p)
  BY <1>1, <1>3, <1>8, AnswerKeeps DEF Refuse
<1>9. CASE RefuseAuthorization(p)
  BY <1>1, <1>3, <1>9, AnswerKeeps DEF RefuseAuthorization
<1> QED
  BY <1>4, <1>5, <1>6, <1>7, <1>8, <1>9

\* The steps around a request keep the invariant: the token is still valid or
\* is refreshed, and a refused authorisation marks the connection.
LEMMA ConnectionKeeps ==
    ASSUME IInv, NEW p \in Process,
           \/ TokenStillValid(p)
           \/ RefreshToken(p)
           \/ MarkReauthorizationRequired(p)
    PROVE  IInv'
<1> DEFINE c == ctx[p]
           l == IF pc[p] = "call" THEN "send" ELSE "mark"
<1>1. /\ pc[p] \in {"call", "reauth"}
      /\ UNCHANGED <<schedule, link, job, event, batch, ctx>>
      /\ pc' = [pc EXCEPT ![p] = l]
  BY DEF TokenStillValid, RefreshToken, MarkReauthorizationRequired, Goto, rows
<1>2. /\ c \in Context /\ LocalsOK(p) /\ c.schedule \in Schedule
      /\ Present(c.schedule) /\ c.user \in User
      /\ c.token \in ConnectionStatus \cup {"absent"}
  BY <1>1, Running DEF LocalsOK, Context
<1>3. l \in Label /\ ctx' = [ctx EXCEPT ![p] = c]
  BY <1>1 DEF Label, IInv, TypeOK
<1>4. connection' \in [User -> ConnectionStatus \cup {"absent"}]
  BY <1>2 DEF TokenStillValid, RefreshToken, MarkReauthorizationRequired,
              rows, ConnectionStatus, IInv, TypeOK
<1>5. LocalsOK(p)'
  <2>1. pc'[p] = l /\ ctx'[p] = c
    BY <1>1, <1>3, Moved DEF IInv
  <2>2. c.to = "synced" /\ l = "mark" => c.event # None
    BY <1>1, <1>2 DEF LocalsOK
  <2> QED
    BY <1>1, <1>2, <2>1, <2>2 DEF LocalsOK, Context, Present
<1> HIDE DEF l
<1> QED
  BY <1>1, <1>2, <1>3, <1>4, <1>5, ProcessStep DEF IInv, TypeOK

\* Calling the provider keeps the invariant.
LEMMA CallKeeps ==
    ASSUME IInv, NEW p \in Process, CallProvider(p)
    PROVE  IInv'
BY ConnectionKeeps, RequestKeeps, MarkLinkKeeps, SaveLinkKeeps DEF CallProvider

-------------------------------------------------------------------------------
(***************************************************************************)
(* The worker.                                                             *)
(***************************************************************************)

\* A claimed job has an attempt left, and no other worker holds it.
LEMMA ClaimKeeps ==
    ASSUME IInv, NEW w \in Worker, ClaimDueJobs(w)
    PROVE  IInv'
<1> USE DEF IInv
<1>1. PICK claimed \in SUBSET DueJobs :
        /\ job' = [k \in JobKey |->
                     IF k \in claimed
                        THEN [status |-> "processing", due |-> FALSE,
                              attempts |-> job[k].attempts + 1]
                        ELSE job[k]]
        /\ batch' = [batch EXCEPT ![w] = claimed]
  BY DEF ClaimDueJobs
<1>2. /\ pc[w] = "idle"
      /\ UNCHANGED <<schedule, connection, link, event, pc, ctx>>
  BY DEF ClaimDueJobs
<1>3. \A k \in claimed : /\ k \in JobKey
                         /\ job[k].status \in {"pending", "failed"}
                         /\ job[k].attempts \in 0 .. MaxAttempts - 1
  BY DEF DueJobs, AttemptBudget, CalendarAssumption
<1>4. \A k \in JobKey :
        job[k] \in JobRow /\ job'[k] \in JobRow
  BY <1>1, <1>3 DEF TypeOK, JobRow, JobStatus, CalendarAssumption
<1>5. \A v \in Worker : batch'[v] = IF v = w THEN claimed ELSE batch[v]
  BY <1>1 DEF TypeOK
<1>6. TypeOK'
  BY <1>1, <1>2, <1>3, <1>4, <1>5 DEF TypeOK
<1>7. AttemptBudget'
  BY <1>1, <1>3, <1>4 DEF AttemptBudget, JobRow, CalendarAssumption
<1>8. ClaimExclusive'
  BY <1>1, <1>3, <1>5 DEF ClaimExclusive, TypeOK
<1>9. LinkNamesEvent' /\ LinkRows'
  BY <1>2 DEF LinkNamesEvent, LinkRows, Present
<1>10. JobsHaveLinks'
  BY <1>1, <1>2, <1>3 DEF JobsHaveLinks, Present
<1>11. ASSUME NEW q \in Process PROVE LocalsOK(q)'
  <2>1. CASE q = w
    BY <1>2, <2>1 DEF LocalsOK
  <2>2. CASE q # w
    BY <1>2, <1>5, <2>2, OthersKeepLocals DEF Present
  <2> QED
    BY <2>1, <2>2
<1> QED
  BY <1>6, <1>7, <1>8, <1>9, <1>10, <1>11

\* The locals of a worker that starts a job.
StartLocals(k, e, u, t, v, o) ==
    [Blank EXCEPT !.role = "worker", !.schedule = k.schedule, !.key = k,
                  !.action = k.action, !.event = e, !.user = u, !.token = t,
                  !.version = v, !.outcome = o]

\* They are well typed, and say what the invariant asks of a worker.
LEMMA StartContext ==
    ASSUME NEW k \in JobKey, NEW e \in Event \cup {None}, NEW u \in User,
           NEW t \in ConnectionStatus \cup {"absent"}, NEW v \in 0 .. MaxVersion,
           NEW o \in {"ok", "error"}
    PROVE  LET d == StartLocals(k, e, u, t, v, o)
           IN  /\ d \in Context
               /\ d.role = "worker" /\ d.schedule = k.schedule /\ d.key = k
               /\ d.user = u /\ d.to = "pending" /\ d.todo = {}
<1>1. k.schedule \in Schedule /\ k.action \in JobAction
  BY DEF JobKey
<1>2. NoLink \in LinkRow
  BY DEF NoLink, LinkRow
<1> QED
  BY <1>1, <1>2 DEF StartLocals, Blank, Context, LinkStatus

\* A worker starts a job it holds: the link is there, and has a connection.
LEMMA StartKeeps ==
    ASSUME IInv, NEW w \in Worker, NEW k \in JobKey, StartJob(w, k)
    PROVE  IInv'
<1> USE DEF IInv
<1> DEFINE row == link[k.schedule]
           found == k.action = "delete" \/ schedule[k.schedule].live
           d == StartLocals(k, row.event, row.connection,
                            connection[row.connection],
                            schedule[k.schedule].version,
                            IF found THEN "ok" ELSE "error")
           l == IF found THEN "call" ELSE "finish"
<1>1. /\ k \in batch[w] /\ w \in Process
      /\ UNCHANGED <<rows, event, batch>>
      /\ ctx' = [ctx EXCEPT ![w] = d] /\ pc' = [pc EXCEPT ![w] = l]
  BY DEF StartJob, StartLocals, Content, Goto, Process
<1>2. k.schedule \in Schedule /\ k.action \in JobAction
  BY DEF JobKey
<1>3. row \in LinkRow /\ Present(k.schedule) /\ row.connection \in User
  <2>1. Present(k.schedule)
    BY <1>1 DEF ClaimExclusive, JobsHaveLinks
  <2> QED
    BY <1>2, <2>1 DEF TypeOK, LinkRows
<1>4. /\ d \in Context
      /\ d.role = "worker" /\ d.schedule = k.schedule /\ d.key = k
      /\ d.user \in User /\ d.to = "pending" /\ d.todo = {}
  <2>1. /\ row.event \in Event \cup {None}
        /\ connection[row.connection] \in ConnectionStatus \cup {"absent"}
        /\ schedule[k.schedule].version \in 0 .. MaxVersion
        /\ (IF found THEN "ok" ELSE "error") \in {"ok", "error"}
    BY <1>2, <1>3 DEF TypeOK, LinkRow, ScheduleRow
  <2> HIDE DEF found, row
  <2> QED
    BY <1>3, <2>1, StartContext
<1>5. pc'[w] = l /\ ctx'[w] = d /\ l \in {"call", "finish"}
  BY <1>1, Moved
<1> HIDE DEF d, l
<1>6. LocalsOK(w)' /\ l \in Label
  BY <1>1, <1>2, <1>3, <1>4, <1>5 DEF LocalsOK, Present, rows, Label
<1> QED
  BY <1>1, <1>4, <1>6, LocalStep

\* What MarkSucceeded and MarkFailed leave in a job that was being processed.
LEMMA FinishedRow ==
    ASSUME NEW row \in JobRow, NEW outcome, row.attempts \in 1 .. MaxAttempts
    PROVE  LET new == Finished(row, outcome)
           IN  /\ new \in JobRow
               /\ new.attempts = row.attempts
               /\ \/ new.status = "succeeded"
                  \/ new.status = "dead" /\ row.attempts = MaxAttempts
                  \/ new.status = "failed" /\ row.attempts < MaxAttempts
<1> DEFINE s == Finished(row, outcome).status
<1>1. Finished(row, outcome) = [row EXCEPT !.status = s]
  BY DEF Finished, JobRow
<1>2. \/ s = "succeeded"
      \/ s = "dead" /\ row.attempts >= MaxAttempts
      \/ s = "failed" /\ ~(row.attempts >= MaxAttempts)
  BY DEF Finished, JobRow
<1> HIDE DEF s
<1> QED
  BY <1>1, <1>2 DEF JobRow, JobStatus, CalendarAssumption

\* A worker decides the job it works on, which is nobody else's.
LEMMA FinishKeeps ==
    ASSUME IInv, NEW w \in Worker, FinishJob(w)
    PROVE  IInv'
<1> USE DEF IInv
<1> DEFINE k == ctx[w].key
           new == Finished(job[k], ctx[w].outcome)
<1>1. /\ pc[w] = "finish" /\ w \in Process
      /\ job' = [job EXCEPT ![k] = new]
      /\ batch' = [batch EXCEPT ![w] = @ \ {k}]
      /\ pc' = [pc EXCEPT ![w] = "idle"] /\ ctx' = [ctx EXCEPT ![w] = Blank]
      /\ UNCHANGED <<schedule, connection, link, event>>
  BY DEF FinishJob, Return, Goto, Process
<1>2. k \in batch[w] /\ k \in JobKey /\ job[k].status = "processing"
  BY <1>1, Running DEF LocalsOK, ClaimExclusive, TypeOK
<1>3. job[k] \in JobRow /\ job[k].attempts \in 1 .. MaxAttempts
  BY <1>2 DEF TypeOK, AttemptBudget
<1>4. /\ new \in JobRow /\ new.attempts = job[k].attempts
      /\ \/ new.status = "succeeded"
         \/ new.status = "dead" /\ job[k].attempts = MaxAttempts
         \/ new.status = "failed" /\ job[k].attempts < MaxAttempts
  BY <1>3, FinishedRow
<1> HIDE DEF new, k
<1>5. \A j \in JobKey : job'[j] = IF j = k THEN new ELSE job[j]
  BY <1>1 DEF TypeOK
<1>6. \A v \in Worker : batch'[v] = IF v = w THEN batch[w] \ {k} ELSE batch[v]
  BY <1>1 DEF TypeOK
<1>7. TypeOK'
  <2>1. "idle" \in Label
    BY DEF Label
  <2> QED
    BY <1>1, <1>2, <1>4, <2>1, BlankTyped DEF TypeOK
<1>8. AttemptBudget'
  BY <1>3, <1>4, <1>5 DEF AttemptBudget, CalendarAssumption
<1>9. ClaimExclusive'
  BY <1>2, <1>5, <1>6 DEF ClaimExclusive, TypeOK
<1>10. LinkNamesEvent' /\ LinkRows'
  BY <1>1 DEF LinkNamesEvent, LinkRows, Present
<1>11. JobsHaveLinks'
  BY <1>1, <1>2, <1>5 DEF JobsHaveLinks, Present
<1>12. ASSUME NEW q \in Process PROVE LocalsOK(q)'
  <2>1. CASE q = w
    BY <1>1, <2>1 DEF LocalsOK, TypeOK
  <2>2. CASE q # w
    <3>1. pc'[q] = pc[q] /\ ctx'[q] = ctx[q]
      BY <1>1, <2>2 DEF TypeOK
    <3> QED
      BY <1>1, <1>6, <2>2, <3>1, OthersKeepLocals DEF Present
  <2> QED
    BY <2>1, <2>2
<1> QED
  BY <1>7, <1>8, <1>9, <1>10, <1>11, <1>12

\* A step that changes jobs, and processes only to let them return, keeps the
\* invariant if the new rows respect the budget, have links, and are still
\* processing when a worker holds them.
LEMMA JobStep ==
    ASSUME IInv, UNCHANGED <<schedule, connection, link, event, batch>>,
           pc' \in [Process -> Label], ctx' \in [Process -> Context],
           job' \in [JobKey -> JobRow], AttemptBudget', JobsHaveLinks',
           \A k \in JobKey : job[k].status = "processing"
                                => job'[k].status = "processing",
           \A p \in Process : \/ pc'[p] = "idle"
                              \/ pc'[p] = pc[p] /\ ctx'[p] = ctx[p]
    PROVE  IInv'
<1> USE DEF IInv
<1>1. TypeOK'
  BY DEF TypeOK
<1>2. LinkNamesEvent' /\ LinkRows'
  BY DEF LinkNamesEvent, LinkRows, Present
<1>3. ClaimExclusive'
  BY DEF ClaimExclusive, TypeOK
<1>4. ASSUME NEW q \in Process PROVE LocalsOK(q)'
  <2>1. CASE pc'[q] = "idle"
    BY <2>1 DEF LocalsOK
  <2>2. CASE pc'[q] = pc[q] /\ ctx'[q] = ctx[q]
    BY <2>2, OthersKeepLocals DEF Present
  <2> QED
    BY <2>1, <2>2
<1> QED
  BY <1>1, <1>2, <1>3, <1>4

\* The next attempt of a failed job becomes due.
LEMMA BackoffKeeps ==
    ASSUME IInv, NEW k \in JobKey, BackoffElapses(k)
    PROVE  IInv'
<1> USE DEF IInv
<1>1. /\ UNCHANGED <<schedule, connection, link, event, batch, pc, ctx>>
      /\ job' = [job EXCEPT ![k].due = TRUE]
  BY DEF BackoffElapses
<1>2. job \in [JobKey -> JobRow] /\ job' \in [JobKey -> JobRow]
  <2>1. job \in [JobKey -> JobRow]
    BY DEF TypeOK
  <2>2. [job[k] EXCEPT !.due = TRUE] \in JobRow
    BY <2>1 DEF JobRow
  <2> QED
    BY <1>1, <2>1, <2>2
<1>3. \A j \in JobKey : /\ job'[j].status = job[j].status
                        /\ job'[j].attempts = job[j].attempts
  BY <1>1, <1>2 DEF JobRow
<1>4. AttemptBudget' /\ JobsHaveLinks'
  BY <1>1, <1>3 DEF AttemptBudget, JobsHaveLinks, Present
<1>5. pc' \in [Process -> Label] /\ ctx' \in [Process -> Context]
  BY <1>1 DEF TypeOK
<1> QED
  BY <1>1, <1>2, <1>3, <1>4, <1>5, JobStep

\* A worker lets go of a job it could not decide.
LEMMA FinishFailsKeeps ==
    ASSUME IInv, NEW w \in Worker, FinishFails(w)
    PROVE  IInv'
<1> USE DEF IInv
<1> DEFINE k == ctx[w].key
<1>1. /\ w \in Process
      /\ batch' = [batch EXCEPT ![w] = @ \ {k}]
      /\ pc' = [pc EXCEPT ![w] = "idle"] /\ ctx' = [ctx EXCEPT ![w] = Blank]
      /\ UNCHANGED <<schedule, connection, link, job, event>>
  BY DEF FinishFails, Return, Goto, Process, rows
<1>2. \A v \in Worker : batch'[v] = IF v = w THEN batch[w] \ {k} ELSE batch[v]
  BY <1>1 DEF TypeOK
<1>3. TypeOK'
  <2>1. "idle" \in Label
    BY DEF Label
  <2>2. batch' \in [Worker -> SUBSET JobKey]
    BY <1>1 DEF TypeOK
  <2> QED
    BY <1>1, <2>1, <2>2, BlankTyped DEF TypeOK
<1>4. AttemptBudget' /\ LinkNamesEvent' /\ LinkRows' /\ JobsHaveLinks'
  BY <1>1 DEF AttemptBudget, LinkNamesEvent, LinkRows, JobsHaveLinks, Present
<1>5. ClaimExclusive'
  BY <1>1, <1>2 DEF ClaimExclusive
<1>6. ASSUME NEW q \in Process PROVE LocalsOK(q)'
  <2>1. CASE q = w
    BY <1>1, <2>1 DEF LocalsOK, TypeOK
  <2>2. CASE q # w
    <3>1. pc'[q] = pc[q] /\ ctx'[q] = ctx[q]
      BY <1>1, <2>2 DEF TypeOK
    <3> QED
      BY <1>1, <1>2, <2>2, <3>1, OthersKeepLocals DEF Present
  <2> QED
    BY <2>1, <2>2
<1> QED
  BY <1>3, <1>4, <1>5, <1>6

\* Every step of a worker keeps the invariant.
LEMMA WorkerKeeps ==
    ASSUME IInv, NEW w \in Worker, WorkerStep(w)
    PROVE  IInv'
BY ClaimKeeps, StartKeeps, CallKeeps, FinishKeeps, FinishFailsKeeps DEF WorkerStep, Process

-------------------------------------------------------------------------------
(***************************************************************************)
(* The handlers.                                                           *)
(***************************************************************************)

\* A mutation is only asked for a live schedule with a link, under a key of
\* that schedule.
LEMMA MutationKeys ==
    ASSUME NEW action \in {"update", "delete"}, NEW s \in Schedule,
           NEW found \in ScheduleRow, NEW row \in LinkRow
    PROVE  \A k \in Mutation(action, s, found, row) :
              k \in JobKey /\ k.schedule = s /\ found.live
                           /\ row.status # "absent"
BY DEF Mutation, NothingToSync, ActionFor, KeyOf, JobKey, JobAction, ScheduleRow

\* The edit of a schedule keeps the invariant.
LEMMA EditKeeps ==
    ASSUME IInv, NEW r \in Request, NEW s \in Schedule, EditSchedule(r, s)
    PROVE  IInv'
<1> DEFINE d == [Blank EXCEPT !.role = "edit", !.schedule = s]
<1>1. /\ r \in Process /\ schedule[s].version < MaxVersion
      /\ schedule' = [schedule EXCEPT ![s].version = @ + 1]
      /\ ctx' = [ctx EXCEPT ![r] = d] /\ pc' = [pc EXCEPT ![r] = "enqueue"]
      /\ UNCHANGED <<connection, link, job, event, batch>>
  BY DEF EditSchedule, Goto, Process
<1>2. schedule' \in [Schedule -> ScheduleRow]
  <2>1. schedule \in [Schedule -> ScheduleRow]
    BY DEF IInv, TypeOK
  <2>2. [schedule[s] EXCEPT !.version = @ + 1] \in ScheduleRow
    BY <1>1, <2>1 DEF ScheduleRow, CalendarAssumption
  <2> QED
    BY <1>1, <2>1, <2>2
<1>3. /\ d \in Context /\ "enqueue" \in Label
      /\ d.role = "edit" /\ d.schedule = s /\ d.key = None /\ d.todo = {}
      /\ d.to = "pending"
  BY BlankTyped DEF Blank, Context, Label
<1>4. pc'[r] = "enqueue" /\ ctx'[r] = d
  BY <1>1, Moved DEF IInv
<1> HIDE DEF d
<1>5. LocalsOK(r)'
  BY <1>1, <1>3, <1>4 DEF LocalsOK, CalendarAssumption
<1> QED
  BY <1>1, <1>2, <1>3, <1>5, ProcessStep DEF IInv, TypeOK

\* A silent change of a schedule keeps the invariant.
LEMMA TouchKeeps ==
    ASSUME IInv, NEW s \in Schedule, TouchSchedule(s)
    PROVE  IInv'
<1>1. schedule \in [Schedule -> ScheduleRow]
  BY DEF IInv, TypeOK
<1>2. [schedule[s] EXCEPT !.version = @ + 1] \in ScheduleRow
  BY <1>1 DEF TouchSchedule, ScheduleRow, CalendarAssumption
<1>3. schedule' \in [Schedule -> ScheduleRow]
  BY <1>1, <1>2 DEF TouchSchedule
<1>4. TypeOK'
  BY <1>3 DEF IInv, TypeOK, TouchSchedule
<1> QED
  BY <1>4, OutsideStep DEF TouchSchedule

\* Removing a schedule changes no job: the mutation it asks for no longer
\* finds the schedule.
LEMMA RemoveAsksNothing ==
    ASSUME TypeOK, NEW s \in Schedule, RemoveSchedule(s)
    PROVE  job' = job
<1>1. Mutation("delete", s, [schedule[s] EXCEPT !.live = FALSE], link[s]) = {}
  BY DEF Mutation, NothingToSync, TypeOK, ScheduleRow
<1>2. job' = Enqueued({})
  BY <1>1 DEF RemoveSchedule
<1> QED
  BY <1>2 DEF Enqueued, TypeOK

\* Removing a schedule keeps the invariant.
LEMMA RemoveKeeps ==
    ASSUME IInv, NEW s \in Schedule, RemoveSchedule(s)
    PROVE  IInv'
<1>1. schedule \in [Schedule -> ScheduleRow]
  BY DEF IInv, TypeOK
<1>2. [schedule[s] EXCEPT !.live = FALSE] \in ScheduleRow
  BY <1>1 DEF ScheduleRow
<1>3. schedule' \in [Schedule -> ScheduleRow]
  BY <1>1, <1>2 DEF RemoveSchedule
<1>4. /\ UNCHANGED <<connection, link, event, batch, pc, ctx>>
      /\ UNCHANGED job
  BY RemoveAsksNothing DEF IInv, RemoveSchedule
<1>5. TypeOK'
  BY <1>3, <1>4 DEF IInv, TypeOK
<1> QED
  BY <1>4, <1>5, OutsideStep

\* The mutation of an edit is loaded: its key names the link's schedule.
LEMMA LoadMutationKeeps ==
    ASSUME IInv, NEW r \in Request, LoadMutation(r)
    PROVE  IInv'
<1> DEFINE c == ctx[r]
           s == c.schedule
           keys == Mutation("update", s, schedule[s], link[s])
<1>1. /\ r \in Process /\ pc[r] = "enqueue" /\ c \in Context /\ LocalsOK(r)
      /\ UNCHANGED <<rows, event, batch>>
  BY Running DEF LoadMutation, Process
<1>2. s \in Schedule /\ c.role = "edit"
  BY <1>1 DEF LocalsOK, Context
<1>3. CASE Return(r)
  BY <1>1, <1>3, ReturnStep
<1>4. ASSUME NEW k \in keys, ctx' = [ctx EXCEPT ![r].key = k], Goto(r, "mark")
      PROVE  IInv'
  <2> DEFINE d == [c EXCEPT !.key = k]
  <2>1. k \in JobKey /\ k.schedule = s /\ Present(s)
    BY <1>2, MutationKeys DEF IInv, TypeOK, Present
  <2> HIDE DEF keys
  <2>2. d \in Context /\ "mark" \in Label
    BY <1>1, <2>1 DEF Context, Label
  <2>3. ctx' = [ctx EXCEPT ![r] = d] /\ pc' = [pc EXCEPT ![r] = "mark"]
    BY <1>1, <1>4 DEF Goto, IInv, TypeOK
  <2>4. pc'[r] = "mark" /\ ctx'[r] = d
    BY <1>1, <2>3, Moved DEF IInv
  <2>5. c.to = "pending"
    BY <1>1, <1>2 DEF LocalsOK
  <2>6. LocalsOK(r)'
    BY <1>1, <1>2, <2>1, <2>4, <2>5 DEF LocalsOK, Context, Present, rows
  <2> QED
    BY <1>1, <2>2, <2>3, <2>6, LocalStep
<1> QED
  BY <1>3, <1>4 DEF LoadMutation

\* A job is inserted: a new one has its whole budget, and a link.
LEMMA InsertKeeps ==
    ASSUME IInv, NEW r \in Request, InsertJob(r)
    PROVE  IInv'
<1> USE DEF IInv
<1> DEFINE k == ctx[r].key
<1>1. /\ r \in Process /\ pc[r] = "insert" /\ job' = Enqueued({k})
      /\ pc' = [pc EXCEPT ![r] = "idle"] /\ ctx' = [ctx EXCEPT ![r] = Blank]
      /\ UNCHANGED <<schedule, connection, link, event, batch>>
  BY DEF InsertJob, Return, Goto, Process
<1>2. Present(k.schedule)
  <2>1. ctx[r] \in Context /\ LocalsOK(r) /\ ctx[r].role = "edit"
    BY <1>1, Running DEF LocalsOK, Context
  <2> QED
    BY <1>1, <2>1 DEF LocalsOK, Context, CalendarAssumption, JobKey
<1> HIDE DEF k
<1>3. \A j \in JobKey :
        /\ job[j] \in JobRow
        /\ job'[j] = IF j = k /\ job[j].status = "absent"
                        THEN [status |-> "pending", attempts |-> 0, due |-> TRUE]
                        ELSE job[j]
  BY <1>1 DEF Enqueued, TypeOK
<1>4. job' \in [JobKey -> JobRow]
  <2>1. [status |-> "pending", attempts |-> 0, due |-> TRUE] \in JobRow
    BY DEF JobRow, JobStatus, CalendarAssumption
  <2> QED
    BY <1>1, <1>3, <2>1 DEF Enqueued
<1>5. AttemptBudget'
  BY <1>3 DEF AttemptBudget
<1>6. JobsHaveLinks'
  BY <1>1, <1>2, <1>3 DEF JobsHaveLinks, Present
<1>7. pc' \in [Process -> Label] /\ ctx' \in [Process -> Context]
  BY <1>1, BlankTyped DEF TypeOK, Label
<1>8. \A p \in Process : \/ pc'[p] = "idle"
                         \/ pc'[p] = pc[p] /\ ctx'[p] = ctx[p]
  BY <1>1 DEF TypeOK
<1>9. \A j \in JobKey : job[j].status = "processing"
                           => job'[j].status = "processing"
  BY <1>3
<1> QED
  BY <1>1, <1>4, <1>5, <1>6, <1>7, <1>8, <1>9, JobStep

\* A manual sync or unsync begins.
LEMMA BeginKeeps ==
    ASSUME IInv, NEW r \in Request, NEW s \in Schedule, NEW u \in User,
           NEW requested \in {"auto", "delete"}, BeginManualSync(r, s, u, requested)
    PROVE  IInv'
<1>1. PICK v \in PreferredConnection(u) :
        ctx' = [ctx EXCEPT ![r] = [Blank EXCEPT !.schedule = s, !.user = v,
                                                !.token = connection[v],
                                                !.action = requested]]
  BY DEF BeginManualSync
<1> DEFINE d == [Blank EXCEPT !.schedule = s, !.user = v,
                              !.token = connection[v], !.action = requested]
<1>2. /\ r \in Process /\ pc' = [pc EXCEPT ![r] = "upsert"]
      /\ UNCHANGED <<rows, event, batch>>
  BY DEF BeginManualSync, Goto, Process
<1>3. v \in User /\ connection[v] \in ConnectionStatus \cup {"absent"}
  BY DEF PreferredConnection, IInv, TypeOK
<1>4. /\ d \in Context /\ "upsert" \in Label
      /\ d.role = "manual" /\ d.schedule = s /\ d.key = None /\ d.todo = {}
      /\ d.user = v /\ d.to = "pending"
  BY <1>3, BlankTyped DEF Blank, Context, Label, JobAction
<1>5. pc'[r] = "upsert" /\ ctx'[r] = d
  BY <1>1, <1>2, Moved DEF IInv
<1> HIDE DEF d
<1>6. LocalsOK(r)'
  BY <1>2, <1>3, <1>4, <1>5 DEF LocalsOK, CalendarAssumption
<1> QED
  BY <1>1, <1>2, <1>4, <1>6, LocalStep DEF d

\* UpsertLink keeps the invariant: a new link is pending and has a connection.
LEMMA UpsertKeeps ==
    ASSUME IInv, NEW r \in Request, UpsertLink(r)
    PROVE  IInv'
<1> DEFINE c == ctx[r]
           old == link[c.schedule]
           e == IF old.connection = c.user THEN old.event ELSE None
           action == IF c.action = "delete" THEN "delete"
                     ELSE IF e = None THEN "create" ELSE "update"
           to == IF action = "delete" THEN "disconnected" ELSE "pending"
           d == [c EXCEPT !.action = action, !.event = e, !.to = to]
           l == IF action = "delete" /\ e # None THEN "call" ELSE "mark"
           new == [status |-> "pending", event |-> None, connection |-> c.user]
<1>1. /\ r \in Process /\ pc[r] = "upsert" /\ c \in Context /\ LocalsOK(r)
      /\ UNCHANGED <<schedule, connection, job, event, batch>>
      /\ link' = IF old.status = "absent" THEN [link EXCEPT ![c.schedule] = new]
                                          ELSE link
  BY Running DEF UpsertLink, Process
<1>2. /\ c.schedule \in Schedule /\ c.user \in User /\ c.role = "manual"
  BY <1>1 DEF LocalsOK, Context
<1>3. old \in LinkRow
  BY <1>2 DEF IInv, TypeOK
<1>4. ctx' = [ctx EXCEPT ![r] = d] /\ pc' = [pc EXCEPT ![r] = l]
  BY <1>1 DEF UpsertLink, Goto, IInv, TypeOK
<1>5. d \in Context /\ l \in Label
  <2>1. /\ e \in Event \cup {None} /\ action \in JobAction /\ to \in LinkStatus
    BY <1>3 DEF LinkRow, JobAction, LinkStatus
  <2> HIDE DEF c, e, action, to
  <2> QED
    BY <1>1, <2>1 DEF Context, Label
<1>6. l \in {"call", "mark"}
  OBVIOUS
<1>7. /\ d.role = "manual" /\ d.user = c.user /\ d.schedule = c.schedule
      /\ d.key = c.key /\ d.todo = c.todo /\ d.to # "synced"
  BY <1>1, <1>2 DEF Context
<1> HIDE DEF l, d
<1>10. pc'[r] = l /\ ctx'[r] = d
  BY <1>1, <1>4, Moved DEF IInv
<1>8. CASE old.status = "absent"
  <2>1. link' = [link EXCEPT ![c.schedule] = new]
    BY <1>1, <1>8
  <2>2. new \in LinkRow /\ new.status = "pending" /\ new.connection \in User
    BY <1>2 DEF LinkRow, LinkStatus
  <2>3. \A s \in Schedule :
          link'[s] = IF s = c.schedule THEN new ELSE link[s]
    BY <1>2, <2>1 DEF IInv, TypeOK
  <2> HIDE DEF new
  <2>4. LocalsOK(r)'
    BY <1>1, <1>2, <1>6, <1>7, <1>10, <2>2, <2>3
       DEF LocalsOK, Present, Context, CalendarAssumption
  <2> QED
    BY <1>1, <1>2, <1>4, <1>5, <2>1, <2>2, <2>4, LinkStep
<1>9. CASE old.status # "absent"
  <2>1. UNCHANGED link
    BY <1>1, <1>9
  <2>2. LocalsOK(r)'
    BY <1>1, <1>2, <1>6, <1>7, <1>10, <1>9, <2>1
       DEF LocalsOK, Present, Context, CalendarAssumption
  <2> QED
    BY <1>1, <1>4, <1>5, <2>1, <2>2, LocalStep DEF rows
<1> QED
  BY <1>8, <1>9

\* The manual handler reads the schedule it sends.
LEMMA LoadScheduleKeeps ==
    ASSUME IInv, NEW r \in Request, LoadSchedule(r)
    PROVE  IInv'
<1> DEFINE c == ctx[r]
           found == schedule[c.schedule]
           d == [c EXCEPT !.version = found.version]
<1>1. /\ r \in Process /\ pc[r] = "load" /\ c \in Context /\ LocalsOK(r)
      /\ UNCHANGED <<rows, event, batch>>
  BY Running DEF LoadSchedule, Process
<1>2. c.schedule \in Schedule /\ c.role = "manual"
  BY <1>1 DEF LocalsOK, Context
<1>3. CASE Return(r)
  BY <1>1, <1>3, ReturnStep
<1>4. CASE /\ ctx' = [ctx EXCEPT ![r].version = found.version]
           /\ Goto(r, "call")
  <2>1. d \in Context /\ "call" \in Label
    <3>1. found.version \in 0 .. MaxVersion
      BY <1>2 DEF IInv, TypeOK, ScheduleRow
    <3> QED
      BY <1>1, <3>1 DEF Context, Label
  <2>2. ctx' = [ctx EXCEPT ![r] = d] /\ pc' = [pc EXCEPT ![r] = "call"]
    BY <1>1, <1>4 DEF Goto, IInv, TypeOK
  <2>3. pc'[r] = "call" /\ ctx'[r] = d
    BY <1>1, <2>2, Moved DEF IInv
  <2>4. LocalsOK(r)'
    BY <1>1, <1>2, <2>3 DEF LocalsOK, Context, Present, rows
  <2> QED
    BY <1>1, <2>1, <2>2, <2>4, LocalStep
<1> QED
  BY <1>3, <1>4 DEF LoadSchedule

\* A provider is connected.
LEMMA ConnectKeeps ==
    ASSUME IInv, NEW u \in User, ConnectProvider(u)
    PROVE  IInv'
<1>1. TypeOK'
  BY DEF IInv, TypeOK, ConnectProvider, ConnectionStatus
<1> QED
  BY <1>1, OutsideStep DEF ConnectProvider

\* A provider is disconnected; its links are still to be marked.
LEMMA DisconnectKeeps ==
    ASSUME IInv, NEW r \in Request, NEW u \in User, DisconnectProvider(r, u)
    PROVE  IInv'
<1> DEFINE d == [Blank EXCEPT !.role = "disconnect", !.user = u,
                              !.to = "disconnected"]
<1>1. /\ r \in Process
      /\ connection' = [connection EXCEPT ![u] = "disconnected"]
      /\ ctx' = [ctx EXCEPT ![r] = d] /\ pc' = [pc EXCEPT ![r] = "list"]
      /\ UNCHANGED <<schedule, link, job, event, batch>>
  BY DEF DisconnectProvider, Goto, Process
<1>2. connection' \in [User -> ConnectionStatus \cup {"absent"}]
  BY <1>1 DEF IInv, TypeOK, ConnectionStatus
<1>3. /\ d \in Context /\ "list" \in Label
      /\ d.role = "disconnect" /\ d.user = u /\ d.todo = {}
      /\ d.to = "disconnected"
  BY BlankTyped DEF Blank, Context, Label, LinkStatus
<1>4. pc'[r] = "list" /\ ctx'[r] = d
  BY <1>1, Moved DEF IInv
<1> HIDE DEF d
<1>5. LocalsOK(r)'
  BY <1>1, <1>3, <1>4 DEF LocalsOK, CalendarAssumption
<1> QED
  BY <1>1, <1>2, <1>3, <1>5, ProcessStep DEF IInv, TypeOK

\* The links of the disconnected provider are listed: all of them exist.
LEMMA ListKeeps ==
    ASSUME IInv, NEW r \in Request, ListLinks(r)
    PROVE  IInv'
<1> DEFINE c == ctx[r]
           todo == {s \in Schedule : link[s].connection = c.user}
           d == [c EXCEPT !.todo = todo]
<1>1. /\ r \in Process /\ pc[r] = "list" /\ c \in Context /\ LocalsOK(r)
      /\ UNCHANGED <<rows, event, batch>>
  BY Running DEF ListLinks, Process
<1>2. c.role = "disconnect" /\ c.user \in User /\ c.to = "disconnected"
  BY <1>1 DEF LocalsOK, Context
<1>3. \A s \in todo : Present(s)
  BY <1>2 DEF IInv, LinkRows, Present, NoLink, CalendarAssumption
<1> HIDE DEF todo
<1>4. d \in Context /\ "unlink" \in Label
  <2>1. todo \subseteq Schedule
    BY DEF todo
  <2> QED
    BY <1>1, <2>1 DEF Context, Label
<1>5. ctx' = [ctx EXCEPT ![r] = d] /\ pc' = [pc EXCEPT ![r] = "unlink"]
  BY <1>1 DEF ListLinks, Goto, IInv, TypeOK, todo
<1>6. pc'[r] = "unlink" /\ ctx'[r] = d
  BY <1>1, <1>5, Moved DEF IInv
<1>7. d.todo = todo /\ d.role = "disconnect" /\ d.user = c.user
      /\ d.to = "disconnected"
  BY <1>1, <1>2 DEF Context
<1> HIDE DEF d
<1>8. LocalsOK(r)'
  BY <1>1, <1>2, <1>3, <1>6, <1>7 DEF LocalsOK, Present, rows, CalendarAssumption
<1> QED
  BY <1>1, <1>4, <1>5, <1>8, LocalStep

\* The next of those links is taken up.
LEMMA NextLinkKeeps ==
    ASSUME IInv, NEW r \in Request, NextLink(r)
    PROVE  IInv'
<1> DEFINE c == ctx[r]
<1>1. /\ r \in Process /\ pc[r] = "unlink" /\ c \in Context /\ LocalsOK(r)
      /\ UNCHANGED <<rows, event, batch>>
  BY Running DEF NextLink, Process
<1>2. /\ c.role = "disconnect" /\ c.user \in User /\ c.to = "disconnected"
      /\ c.todo \subseteq Schedule /\ \A s \in c.todo : Present(s)
  BY <1>1 DEF LocalsOK, Context
<1>3. CASE Return(r)
  BY <1>1, <1>3, ReturnStep
<1>4. ASSUME NEW s \in c.todo,
             ctx' = [ctx EXCEPT ![r].todo = @ \ {s}, ![r].schedule = s],
             Goto(r, "mark")
      PROVE  IInv'
  <2> DEFINE d == [c EXCEPT !.todo = @ \ {s}, !.schedule = s]
  <2>1. d \in Context /\ "mark" \in Label
    BY <1>1, <1>2 DEF Context, Label
  <2>2. ctx' = [ctx EXCEPT ![r] = d] /\ pc' = [pc EXCEPT ![r] = "mark"]
    BY <1>1, <1>4 DEF Goto, IInv, TypeOK
  <2>3. pc'[r] = "mark" /\ ctx'[r] = d
    BY <1>1, <2>2, Moved DEF IInv
  <2>4. LocalsOK(r)'
    BY <1>1, <1>2, <2>3
       DEF LocalsOK, Context, Present, rows, CalendarAssumption
  <2> QED
    BY <1>1, <2>1, <2>2, <2>4, LocalStep
<1> QED
  BY <1>3, <1>4 DEF NextLink

\* A process dies: what it held in memory is gone, its rows stay.
LEMMA CrashKeeps ==
    ASSUME IInv, NEW p \in Process, Crash(p)
    PROVE  IInv'
<1> USE DEF IInv
<1>1. /\ UNCHANGED <<schedule, connection, link, job, event>>
      /\ pc' = [pc EXCEPT ![p] = "idle"] /\ ctx' = [ctx EXCEPT ![p] = Blank]
      /\ batch' = [w \in Worker |-> IF w = p THEN {} ELSE batch[w]]
  BY DEF Crash, Return, Goto, rows
<1>2. TypeOK'
  BY <1>1, BlankTyped DEF TypeOK, Label
<1>3. AttemptBudget' /\ LinkNamesEvent' /\ LinkRows' /\ JobsHaveLinks'
  BY <1>1 DEF AttemptBudget, LinkNamesEvent, LinkRows, JobsHaveLinks, Present
<1>4. ClaimExclusive'
  BY <1>1 DEF ClaimExclusive, TypeOK
<1>5. ASSUME NEW q \in Process PROVE LocalsOK(q)'
  <2>1. CASE q = p
    BY <1>1, <2>1 DEF LocalsOK, TypeOK
  <2>2. CASE q # p
    <3>1. /\ pc'[q] = pc[q] /\ ctx'[q] = ctx[q]
          /\ q \in Worker => batch'[q] = batch[q]
      BY <1>1, <2>2 DEF TypeOK
    <3> QED
      BY <1>1, <3>1, OthersKeepLocals DEF Present
  <2> QED
    BY <2>1, <2>2
<1> QED
  BY <1>2, <1>3, <1>4, <1>5

\* Every step of a running handler keeps the invariant.
LEMMA RequestStepKeeps ==
    ASSUME IInv, NEW r \in Request, RequestStep(r)
    PROVE  IInv'
BY CallKeeps, LoadMutationKeeps, InsertKeeps, UpsertKeeps, LoadScheduleKeeps,
   ListKeeps, NextLinkKeeps DEF RequestStep, Process

-------------------------------------------------------------------------------
(***************************************************************************)
(* The invariants of the specification.                                    *)
(***************************************************************************)

\* At the start nothing is connected, linked, queued or running.
LEMMA InitInvariant == Init => IInv
<1> SUFFICES ASSUME Init PROVE IInv
  OBVIOUS
<1>1. TypeOK
  <2>1. Blank \in Context
    BY BlankTyped
  <2>2. NoLink \in LinkRow /\ NoJob \in JobRow /\ NoEvent \in EventRow
    BY DEF NoLink, LinkRow, NoJob, JobRow, NoEvent, EventRow, CalendarAssumption
  <2> QED
    BY <2>1, <2>2 DEF Init, TypeOK, ScheduleRow, Label, CalendarAssumption
<1>2. AttemptBudget /\ JobsHaveLinks
  BY DEF Init, AttemptBudget, JobsHaveLinks, NoJob
<1>3. ClaimExclusive
  BY DEF Init, ClaimExclusive
<1>4. LinkNamesEvent /\ LinkRows
  BY DEF Init, LinkNamesEvent, LinkRows, Present, NoLink
<1>5. \A p \in Process : LocalsOK(p)
  BY DEF Init, LocalsOK
<1> QED
  BY <1>1, <1>2, <1>3, <1>4, <1>5 DEF IInv

\* Every step of the system keeps the invariant.
LEMMA NextInvariant == IInv /\ [Next]_vars => IInv'
<1> SUFFICES ASSUME IInv, [Next]_vars PROVE IInv'
  OBVIOUS
<1>1. ASSUME NEW w \in Worker, WorkerStep(w) PROVE IInv'
  BY <1>1, WorkerKeeps
<1>2. ASSUME NEW k \in JobKey, BackoffElapses(k) PROVE IInv'
  BY <1>2, BackoffKeeps
<1>3. ASSUME NEW r \in Request, RequestStep(r) PROVE IInv'
  BY <1>3, RequestStepKeeps
<1>4. ASSUME NEW r \in Request, NEW s \in Schedule, EditSchedule(r, s)
      PROVE IInv'
  BY <1>4, EditKeeps
<1>5. ASSUME NEW r \in Request, NEW s \in Schedule, NEW u \in User,
             NEW requested \in {"auto", "delete"},
             BeginManualSync(r, s, u, requested)
      PROVE IInv'
  BY <1>5, BeginKeeps
<1>6. ASSUME NEW r \in Request, NEW u \in User, DisconnectProvider(r, u)
      PROVE IInv'
  BY <1>6, DisconnectKeeps
<1>7. ASSUME NEW s \in Schedule, RemoveSchedule(s) \/ TouchSchedule(s)
      PROVE IInv'
  BY <1>7, RemoveKeeps, TouchKeeps
<1>8. ASSUME NEW u \in User, ConnectProvider(u) PROVE IInv'
  BY <1>8, ConnectKeeps
<1>9. ASSUME NEW p \in Process, Crash(p) PROVE IInv'
  BY <1>9, CrashKeeps
<1>10. CASE UNCHANGED vars
  <2>1. UNCHANGED <<schedule, connection, link, job, event, batch, pc, ctx>>
    BY <1>10 DEF vars
  <2>2. TypeOK'
    BY <2>1 DEF IInv, TypeOK
  <2> QED
    BY <2>1, <2>2, OutsideStep
<1> QED
  BY <1>1, <1>2, <1>3, <1>4, <1>5, <1>6, <1>7, <1>8, <1>9, <1>10 DEF Next

\* The inductive invariant holds in every reachable state, for any number of
\* schedules, users, workers, handlers, events and attempts.
THEOREM Invariant == Spec => []IInv
BY InitInvariant, NextInvariant, PTL DEF Spec

\* Every row and every local variable keeps its type, whatever stale copies
\* are saved back.
THEOREM TypeCorrect == Spec => []TypeOK
<1>1. IInv => TypeOK
  BY DEF IInv
<1> QED
  BY <1>1, Invariant, PTL

\* The job queue never lets a job exceed its attempts, nor lets it wait for an
\* attempt it does not have.
THEOREM AttemptsBounded == Spec => []AttemptBudget
<1>1. IInv => AttemptBudget
  BY DEF IInv
<1> QED
  BY <1>1, Invariant, PTL

\* No two workers ever hold the same job, with any number of workers.
THEOREM ClaimsExclusive == Spec => []ClaimExclusive
<1>1. IInv => ClaimExclusive
  BY DEF IInv
<1> QED
  BY <1>1, Invariant, PTL

\* A synced link names an event and a disconnected link none, although rows
\* are saved from stale copies.
THEOREM LinksNameEvents == Spec => []LinkNamesEvent
<1>1. IInv => LinkNamesEvent
  BY DEF IInv
<1> QED
  BY <1>1, Invariant, PTL

-------------------------------------------------------------------------------
(***************************************************************************)
(* The job table.                                                          *)
(***************************************************************************)

\* The steps that touch the job table or what workers hold of it.
LEMMA JobChanges ==
    ASSUME IInv, [Next]_vars
    PROVE  \/ UNCHANGED <<job, batch>>
           \/ UNCHANGED job /\ Environment \cap {"crash", "database"} # {}
           \/ \E w \in Worker : ClaimDueJobs(w) \/ FinishJob(w)
           \/ \E k \in JobKey : BackoffElapses(k)
           \/ \E r \in Request : InsertJob(r)
<1> DEFINE goal == \/ UNCHANGED <<job, batch>>
                   \/ UNCHANGED job /\ Environment \cap {"crash", "database"} # {}
                   \/ \E w \in Worker : ClaimDueJobs(w) \/ FinishJob(w)
                   \/ \E k \in JobKey : BackoffElapses(k)
                   \/ \E r \in Request : InsertJob(r)
<1>1. ASSUME NEW p \in Process, CallProvider(p) PROVE UNCHANGED <<job, batch>>
  BY <1>1 DEF CallProvider, TokenStillValid, RefreshToken, CreateEvent,
              UpdateEvent, DeleteEvent, EventMissing, Refuse,
              RefuseAuthorization, MarkReauthorizationRequired, MarkLink,
              SaveLink, Answer, rows
<1>2. ASSUME NEW w \in Worker, WorkerStep(w) PROVE goal
  BY <1>1, <1>2 DEF WorkerStep, StartJob, FinishFails, rows, Process
<1>3. ASSUME NEW r \in Request, RequestStep(r) PROVE goal
  BY <1>1, <1>3 DEF RequestStep, LoadMutation, UpsertLink, LoadSchedule,
                    ListLinks, NextLink, rows, Process
<1>4. ASSUME NEW s \in Schedule, RemoveSchedule(s) PROVE goal
  BY <1>4, RemoveAsksNothing DEF IInv, RemoveSchedule
<1>5. ASSUME NEW r \in Request, NEW s \in Schedule, EditSchedule(r, s)
      PROVE goal
  BY <1>5 DEF EditSchedule
<1>6. ASSUME NEW r \in Request, NEW s \in Schedule, NEW u \in User,
             NEW requested \in {"auto", "delete"},
             BeginManualSync(r, s, u, requested)
      PROVE goal
  BY <1>6 DEF BeginManualSync, rows
<1>7. ASSUME NEW r \in Request, NEW u \in User, DisconnectProvider(r, u)
      PROVE goal
  BY <1>7 DEF DisconnectProvider
<1>8. ASSUME NEW s \in Schedule, TouchSchedule(s) PROVE goal
  BY <1>8 DEF TouchSchedule
<1>9. ASSUME NEW u \in User, ConnectProvider(u) PROVE goal
  BY <1>9 DEF ConnectProvider
<1>10. ASSUME NEW p \in Process, Crash(p) PROVE goal
  BY <1>10 DEF Crash, rows
<1>11. ASSUME NEW k \in JobKey, BackoffElapses(k) PROVE goal
  BY <1>11
<1>12. CASE UNCHANGED vars
  BY <1>12 DEF vars
<1> QED
  BY <1>2, <1>3, <1>4, <1>5, <1>6, <1>7, <1>8, <1>9, <1>10, <1>11, <1>12
     DEF Next

\* What a claim does to each job.
LEMMA Claimed ==
    ASSUME IInv, NEW w \in Worker, ClaimDueJobs(w)
    PROVE  \E claimed \in SUBSET JobKey :
             /\ batch' = [batch EXCEPT ![w] = claimed]
             /\ batch[w] = {}
             /\ \A k \in claimed :
                   /\ job[k].status \in {"pending", "failed"}
                   /\ job[k].attempts \in 0 .. MaxAttempts - 1
                   /\ job'[k].status = "processing"
                   /\ job'[k].attempts = job[k].attempts + 1
             /\ \A k \in JobKey \ claimed : job'[k] = job[k]
<1>1. PICK claimed \in SUBSET DueJobs :
        /\ job' = [k \in JobKey |->
                     IF k \in claimed
                        THEN [status |-> "processing", due |-> FALSE,
                              attempts |-> job[k].attempts + 1]
                        ELSE job[k]]
        /\ batch' = [batch EXCEPT ![w] = claimed]
        /\ batch[w] = {}
  BY DEF ClaimDueJobs
<1>2. claimed \subseteq JobKey
  BY DEF DueJobs
<1>3. \A k \in claimed :
        /\ job[k].status \in {"pending", "failed"}
        /\ job[k].attempts \in 0 .. MaxAttempts - 1
  BY DEF DueJobs, IInv, AttemptBudget, CalendarAssumption
<1>4. \A k \in claimed : /\ job'[k].status = "processing"
                         /\ job'[k].attempts = job[k].attempts + 1
  BY <1>1, <1>2
<1>5. \A k \in JobKey \ claimed : job'[k] = job[k]
  BY <1>1
<1> QED
  BY <1>1, <1>2, <1>3, <1>4, <1>5

\* What finishing does to each job: the worker's own is decided.
LEMMA Decided ==
    ASSUME IInv, NEW w \in Worker, FinishJob(w)
    PROVE  \E k \in batch[w] :
             /\ k \in JobKey
             /\ batch' = [batch EXCEPT ![w] = @ \ {k}]
             /\ job[k].status = "processing"
             /\ job'[k].attempts = job[k].attempts
             /\ \/ job'[k].status = "succeeded"
                \/ job'[k].status = "dead" /\ job[k].attempts = MaxAttempts
                \/ job'[k].status = "failed" /\ job[k].attempts < MaxAttempts
             /\ \A j \in JobKey \ {k} : job'[j] = job[j]
<1> DEFINE k == ctx[w].key
           new == Finished(job[k], ctx[w].outcome)
<1>1. /\ pc[w] = "finish" /\ w \in Process
      /\ job' = [job EXCEPT ![k] = new]
      /\ batch' = [batch EXCEPT ![w] = @ \ {k}]
  BY DEF FinishJob, Process
<1>2. k \in batch[w] /\ k \in JobKey /\ job[k].status = "processing"
  BY <1>1, Running DEF LocalsOK, IInv, ClaimExclusive, TypeOK
<1>3. job[k] \in JobRow /\ job[k].attempts \in 1 .. MaxAttempts
  BY <1>2 DEF IInv, TypeOK, AttemptBudget
<1>4. /\ new.attempts = job[k].attempts
      /\ \/ new.status = "succeeded"
         \/ new.status = "dead" /\ job[k].attempts = MaxAttempts
         \/ new.status = "failed" /\ job[k].attempts < MaxAttempts
  BY <1>3, FinishedRow
<1> HIDE DEF new, k
<1>5. job'[k] = new /\ \A j \in JobKey \ {k} : job'[j] = job[j]
  BY <1>1, <1>2 DEF IInv, TypeOK
<1> QED
  BY <1>1, <1>2, <1>4, <1>5

\* What an insertion does to each job: at most one that was not there is new.
LEMMA Inserted ==
    ASSUME IInv, NEW r \in Request, InsertJob(r)
    PROVE  /\ UNCHANGED batch
           /\ \E k \in JobKey :
                /\ \A j \in JobKey \ {k} : job'[j] = job[j]
                /\ \/ job'[k] = job[k]
                   \/ /\ job[k].status = "absent" /\ job[k].attempts = 0
                      /\ job'[k].status = "pending" /\ job'[k].attempts = 0
<1> DEFINE k == ctx[r].key
<1>1. /\ r \in Process /\ pc[r] = "insert" /\ job' = Enqueued({k})
      /\ UNCHANGED batch
  BY DEF InsertJob, Process
<1>2. k \in JobKey
  <2>1. ctx[r] \in Context /\ LocalsOK(r)
    BY <1>1, Running
  <2> QED
    BY <1>1, <2>1 DEF LocalsOK, Context, CalendarAssumption
<1> HIDE DEF k
<1> QED
  BY <1>1, <1>2 DEF Enqueued, IInv, AttemptBudget

\* What a backoff does to each job.
LEMMA Waited ==
    ASSUME IInv, NEW k \in JobKey, BackoffElapses(k)
    PROVE  /\ UNCHANGED batch
           /\ job[k].status = "failed"
           /\ \A j \in JobKey \ {k} : job'[j] = job[j]
           /\ job'[k].status = job[k].status
           /\ job'[k].attempts = job[k].attempts
BY DEF BackoffElapses, IInv, TypeOK, JobRow

\* Whatever workers and handlers do, a succeeded or dead job stays as it is.
THEOREM SettledStay == Spec => SettledJobsStay
<1> DEFINE Stay == \A k \in JobKey : job[k].status \in {"succeeded", "dead"}
                                        => job'[k] = job[k]
<1>1. IInv /\ [Next]_vars => Stay
  <2> SUFFICES ASSUME IInv, [Next]_vars PROVE Stay
    OBVIOUS
  <2>1. CASE \E w \in Worker : ClaimDueJobs(w)
    BY <2>1, Claimed
  <2>2. CASE \E w \in Worker : FinishJob(w)
    BY <2>2, Decided
  <2>3. CASE \E k \in JobKey : BackoffElapses(k)
    BY <2>3, Waited
  <2>4. CASE \E r \in Request : InsertJob(r)
    BY <2>4, Inserted
  <2> QED
    BY <2>1, <2>2, <2>3, <2>4, JobChanges
<1> QED
  BY <1>1, Invariant, PTL DEF Spec, SettledJobsStay

\* Without crashes, and where the database does not fail a worker that decides a
\* job, a job in "processing" is always held by a worker that will decide it.
THEOREM NoneStranded == Spec => []NoStrandedJob
<1>1. Init => NoStrandedJob
  BY DEF Init, NoStrandedJob, NoJob
<1>2. IInv /\ NoStrandedJob /\ [Next]_vars => NoStrandedJob'
  <2> SUFFICES ASSUME IInv, NoStrandedJob, [Next]_vars,
                      Environment \cap {"crash", "database"} = {},
                      NEW j \in JobKey, job'[j].status = "processing"
               PROVE  \E w \in Worker : j \in batch'[w]
    BY DEF NoStrandedJob
  <2> USE DEF NoStrandedJob, IInv, TypeOK
  <2>1. ASSUME NEW w \in Worker, ClaimDueJobs(w)
        PROVE  \E v \in Worker : j \in batch'[v]
    BY <2>1, Claimed
  <2>2. ASSUME NEW w \in Worker, FinishJob(w)
        PROVE  \E v \in Worker : j \in batch'[v]
    BY <2>2, Decided
  <2>3. ASSUME NEW k \in JobKey, BackoffElapses(k)
        PROVE  \E v \in Worker : j \in batch'[v]
    BY <2>3, Waited
  <2>4. ASSUME NEW r \in Request, InsertJob(r)
        PROVE  \E v \in Worker : j \in batch'[v]
    BY <2>4, Inserted
  <2>5. CASE UNCHANGED <<job, batch>>
    BY <2>5
  <2> QED
    BY <2>1, <2>2, <2>3, <2>4, <2>5, JobChanges
<1> QED
  BY <1>1, <1>2, Invariant, PTL DEF Spec

-------------------------------------------------------------------------------
(***************************************************************************)
(* The refinement.                                                         *)
(***************************************************************************)

\* Every step of the system is a step of the life cycle, or leaves it alone.
LEMMA LifecycleStep ==
    ASSUME IInv, [Next]_vars
    PROVE  [Lifecycle!Next]_(Lifecycle!lifecycle)
<1> DEFINE phase == [k \in JobKey |-> Phase(k)]
           tries == [k \in JobKey |-> job[k].attempts]
<1>1. ASSUME NEW w \in Worker, ClaimDueJobs(w) PROVE Lifecycle!Next
  <2>1. PICK claimed \in SUBSET JobKey :
          /\ \A k \in claimed :
                /\ job[k].status \in {"pending", "failed"}
                /\ job[k].attempts \in 0 .. MaxAttempts - 1
                /\ job'[k].status = "processing"
                /\ job'[k].attempts = job[k].attempts + 1
          /\ \A k \in JobKey \ claimed : job'[k] = job[k]
    BY <1>1, Claimed
  <2>2. Lifecycle!Start(claimed)
    BY <2>1 DEF Lifecycle!Start, Phase, CalendarAssumption
  <2> QED
    BY <2>2 DEF Lifecycle!Next
<1>2. ASSUME NEW w \in Worker, FinishJob(w) PROVE Lifecycle!Next
  <2>1. PICK k \in JobKey :
          /\ job[k].status = "processing"
          /\ job'[k].attempts = job[k].attempts
          /\ \/ job'[k].status = "succeeded"
             \/ job'[k].status = "dead" /\ job[k].attempts = MaxAttempts
             \/ job'[k].status = "failed" /\ job[k].attempts < MaxAttempts
          /\ \A j \in JobKey \ {k} : job'[j] = job[j]
    BY <1>2, Decided
  <2> DEFINE outcome == Phase(k)'
  <2>2. /\ outcome \in {"succeeded", "waiting", "dead"}
        /\ Lifecycle!Decide(k, outcome)
    BY <2>1 DEF Lifecycle!Decide, Phase
  <2> QED
    BY <2>2 DEF Lifecycle!Next
<1>3. ASSUME NEW k \in JobKey, BackoffElapses(k)
      PROVE  UNCHANGED Lifecycle!lifecycle
  BY <1>3, Waited DEF Lifecycle!lifecycle, Phase
<1>4. ASSUME NEW r \in Request, InsertJob(r)
      PROVE  Lifecycle!Next \/ UNCHANGED Lifecycle!lifecycle
  <2>1. PICK k \in JobKey :
          /\ \A j \in JobKey \ {k} : job'[j] = job[j]
          /\ \/ job'[k] = job[k]
             \/ /\ job[k].status = "absent" /\ job[k].attempts = 0
                /\ job'[k].status = "pending" /\ job'[k].attempts = 0
    BY <1>4, Inserted
  <2>2. CASE job'[k] = job[k]
    BY <2>1, <2>2 DEF Lifecycle!lifecycle, Phase
  <2>3. CASE job'[k] # job[k]
    <3>1. Lifecycle!Submit({k})
      BY <2>1, <2>3 DEF Lifecycle!Submit, Phase
    <3> QED
      BY <3>1 DEF Lifecycle!Next
  <2> QED
    BY <2>2, <2>3
<1>5. CASE UNCHANGED job
  BY <1>5 DEF Lifecycle!lifecycle, Phase
<1> QED
  BY <1>1, <1>2, <1>3, <1>4, <1>5, JobChanges

\* The job queue, with its batches, retries, crashes and concurrent handlers,
\* implements the life cycle that JobLifecycle promises.
THEOREM QueueImplementsLifecycle == Spec => JobsFollowLifecycle
<1>1. Init => Lifecycle!Init
  BY DEF Init, Lifecycle!Init, Phase, NoJob
<1>2. IInv /\ [Next]_vars => [Lifecycle!Next]_(Lifecycle!lifecycle)
  BY LifecycleStep
<1> QED
  BY <1>1, <1>2, Invariant, PTL DEF Spec, JobsFollowLifecycle, Lifecycle!Spec

-------------------------------------------------------------------------------
(***************************************************************************)
(* A link that is shown as pending is never forgotten, for any number of   *)
(* schedules, users, workers, events and attempts.                         *)
(***************************************************************************)

\* A request that will mark the link of s, or insert a job that will.
Handled(s) == \E r \in Request : pc[r] \notin {"idle", "enqueue"} /\ ctx[r].schedule = s

\* A job that will mark the link of s, since it has not passed that point.
Queued(s) ==
    \E k \in JobKey :
        /\ k.schedule = s /\ Unsettled(k)
        /\ \A w \in Worker : pc[w] = "finish" => ctx[w].key # k

\* A request that has edited a schedule has a key that no job has had.
KeyIsNew(r) ==
    LET c == ctx[r] IN
    pc[r] # "idle" /\ c.role = "edit" =>
        /\ \A k \in JobKey : job[k].status # "absent" /\ k.schedule = c.schedule
                               => k.version < schedule[c.schedule].version
        /\ pc[r] # "enqueue" => c.key.version = schedule[c.schedule].version

WorkInv ==
    /\ \A s \in Schedule : schedule[s].live /\ link[s].status = "pending"
                              => Handled(s) \/ Queued(s)
    /\ \A w \in Worker : pc[w] \in {"reauth", "mark", "save"} => ctx[w].to # "pending"
    /\ \A k \in JobKey : job[k].status # "absent"
                            => k.version <= schedule[k.schedule].version
    /\ \A r \in Request : KeyIsNew(r)
    /\ \A r \in Request : pc[r] # "idle" => ctx[r].role # "disconnect"

SequentialWork == Sequential => WorkInv

LEMMA WorkInitial == Init => WorkInv
<1> SUFFICES ASSUME Init PROVE WorkInv
  OBVIOUS
<1>1. (\A s \in Schedule : link[s].status = "absent") /\ (\A k \in JobKey : job[k].status = "absent")
  BY DEF Init, NoLink, NoJob
<1>2. \A p \in Worker \cup Request : pc[p] = "idle"
  BY DEF Init, Process
<1> QED BY <1>1, <1>2 DEF WorkInv, KeyIsNew

-------------------------------------------------------------------------------
(***************************************************************************)
(* Steps between the start of a request or a job and its last save.        *)
(***************************************************************************)

\* What no step of process p touches.
OthersWait(p) == \A q \in Process \ {p} : pc'[q] = pc[q] /\ ctx'[q] = ctx[q]

\* What a process keeps until its last step.
SameTask(p) ==
    /\ ctx'[p].role = ctx[p].role
    /\ ctx'[p].schedule = ctx[p].schedule
    /\ ctx'[p].key = ctx[p].key

\* What process p is working on.
LEMMA Task ==
    ASSUME IInv, NEW p \in Process, pc[p] # "idle"
    PROVE  /\ ctx[p].role = "worker" <=> p \in Worker
           /\ p \in Worker => /\ ctx[p].key \in batch[p]
                              /\ ctx[p].key.schedule = ctx[p].schedule
           /\ ctx[p].role \in {"worker", "edit", "manual", "disconnect"}
           /\ p \notin Request <=> p \in Worker
<1>1. ctx[p] \in Context /\ LocalsOK(p)
  BY Running
<1>2. (p \notin Request <=> p \in Worker) /\ ctx[p].role \in {"worker", "edit", "manual", "disconnect"}
  BY <1>1, CalendarAssumption DEF Process, Context
<1>3. (ctx[p].role = "worker" <=> p \in Worker)
  BY <1>1 DEF LocalsOK
<1>4. ctx[p].role = "worker" => /\ ctx[p].key \in batch[p]
                                /\ ctx[p].key.schedule = ctx[p].schedule
  BY <1>1 DEF LocalsOK
<1> QED BY <1>2, <1>3, <1>4

\* A step that neither starts nor ends anything keeps the invariant if a worker
\* that has nothing left to mark leaves no pending link.
LEMMA WorkGoesOn ==
    ASSUME IInv, WorkInv, NEW p \in Process, OthersWait(p), SameTask(p),
           UNCHANGED <<schedule, link, job>>,
           pc[p] \notin {"idle", "enqueue"}, pc'[p] \notin {"idle", "enqueue"},
           pc'[p] = "finish" => link[ctx[p].schedule].status # "pending",
           p \in Worker /\ pc'[p] \in {"reauth", "mark", "save"} => ctx'[p].to # "pending"
    PROVE  WorkInv'
<1>1. ASSUME NEW s \in Schedule, schedule'[s].live, link'[s].status = "pending"
      PROVE  Handled(s)' \/ Queued(s)'
  <2>1. CASE Handled(s)
    <3>1. PICK r \in Request : pc[r] \notin {"idle", "enqueue"} /\ ctx[r].schedule = s
      BY <2>1 DEF Handled
    <3>2. pc'[r] \notin {"idle", "enqueue"} /\ ctx'[r].schedule = s
      BY <3>1 DEF OthersWait, SameTask, Process
    <3> QED BY <3>2 DEF Handled
  <2>2. CASE Queued(s)
    <3>1. PICK k \in JobKey :
             k.schedule = s /\ Unsettled(k) /\ \A w \in Worker : pc[w] = "finish" => ctx[w].key # k
      BY <2>2 DEF Queued
    <3>2. p \in Worker /\ pc'[p] = "finish" => ctx'[p].key # k
      BY <1>1, <3>1, Task DEF SameTask
    <3>3. \A w \in Worker : pc'[w] = "finish" => ctx'[w].key # k
      BY <3>1, <3>2 DEF OthersWait, Process
    <3> QED BY <3>1, <3>3 DEF Queued, Unsettled
  <2> QED BY <1>1, <2>1, <2>2 DEF WorkInv
<1>2. \A w \in Worker : pc'[w] \in {"reauth", "mark", "save"} => ctx'[w].to # "pending"
  BY DEF WorkInv, OthersWait, Process
<1>3. \A k \in JobKey : job'[k].status # "absent" => k.version <= schedule'[k.schedule].version
  BY DEF WorkInv
<1>4. \A r \in Request : KeyIsNew(r)'
  BY DEF WorkInv, OthersWait, SameTask, Process, KeyIsNew
<1>5. \A r \in Request : pc'[r] # "idle" => ctx'[r].role # "disconnect"
  BY DEF WorkInv, OthersWait, SameTask, Process
<1> QED BY <1>1, <1>2, <1>3, <1>4, <1>5 DEF WorkInv

\* An answer of the provider decides on a status that is not "pending".
LEMMA AnswerGoesOn ==
    ASSUME IInv, WorkInv, NEW p \in Process, pc[p] = "send", NEW outcome, NEW e,
           Answer(p, outcome, e)
    PROVE  WorkInv'
<1>1. ctx \in [Process -> Context] /\ pc \in [Process -> Label]
  BY DEF IInv, TypeOK
<1>2. PICK c \in Context : c = ctx[p]
  BY <1>1
<1>3. PICK to \in {"failed", "disconnected", "synced"} : to = StatusFor(c, outcome)
  BY DEF StatusFor
<1> DEFINE d == [c EXCEPT !.outcome = outcome, !.event = e, !.to = to,
                          !.token = "absent", !.version = 0]
<1>4. ctx' = [ctx EXCEPT ![p] = d]
  BY <1>1, <1>2, <1>3 DEF Answer
<1>5. PICK l \in {"reauth", "mark"} : pc' = [pc EXCEPT ![p] = l]
  BY DEF Answer, Goto
<1>6. d.role = c.role /\ d.schedule = c.schedule /\ d.key = c.key /\ d.to = to
  BY DEF Context
<1> HIDE DEF d
<1>7. pc'[p] = l /\ ctx'[p] = d /\ OthersWait(p)
  BY <1>1, <1>4, <1>5 DEF OthersWait
<1>8. SameTask(p)
  BY <1>2, <1>6, <1>7 DEF SameTask
<1>9. UNCHANGED <<schedule, link, job>>
  BY DEF Answer, rows
<1>10. pc[p] \notin {"idle", "enqueue"} /\ pc'[p] \notin {"idle", "enqueue", "finish"}
       /\ ctx'[p].to # "pending"
  BY <1>6, <1>7
<1> QED BY <1>7, <1>8, <1>9, <1>10, WorkGoesOn

\* A refused mark is not that of a pending link.
LEMMA MarkGoesOn ==
    ASSUME IInv, WorkInv, Sequential, NEW p \in Process, MarkLink(p)
    PROVE  WorkInv'
<1>1. ctx \in [Process -> Context] /\ pc \in [Process -> Label] /\ pc[p] = "mark"
      /\ UNCHANGED <<schedule, link, job>>
  BY DEF IInv, TypeOK, MarkLink, rows
<1>2. PICK c \in Context : c = ctx[p]
  BY <1>1
<1>3. p \in Worker => c.to # "pending"
  BY <1>1, <1>2 DEF WorkInv
<1>4. CASE ctx' = [ctx EXCEPT ![p].row = link[c.schedule]] /\ Goto(p, "save")
  <2> DEFINE d == [c EXCEPT !.row = link[c.schedule]]
  <2>1. ctx' = [ctx EXCEPT ![p] = d]
    BY <1>1, <1>2, <1>4
  <2>2. d.role = c.role /\ d.schedule = c.schedule /\ d.key = c.key /\ d.to = c.to
    BY DEF Context
  <2> HIDE DEF d
  <2>3. pc'[p] = "save" /\ ctx'[p] = d /\ OthersWait(p)
    BY <1>1, <1>4, <2>1 DEF OthersWait, Goto
  <2>4. SameTask(p) /\ pc[p] \notin {"idle", "enqueue"}
        /\ pc'[p] \notin {"idle", "enqueue", "finish"}
        /\ (p \in Worker => ctx'[p].to # "pending")
    BY <1>1, <1>2, <1>3, <2>2, <2>3 DEF SameTask
  <2> QED BY <1>1, <2>3, <2>4, WorkGoesOn
<1>5. CASE c.role = "manual" /\ ctx' = [ctx EXCEPT ![p].to = "failed"] /\ UNCHANGED pc
  <2> DEFINE d == [c EXCEPT !.to = "failed"]
  <2>1. ctx' = [ctx EXCEPT ![p] = d]
    BY <1>1, <1>2, <1>5
  <2>2. d.role = c.role /\ d.schedule = c.schedule /\ d.key = c.key /\ d.to = "failed"
    BY DEF Context
  <2> HIDE DEF d
  <2>3. pc'[p] = "mark" /\ ctx'[p] = d /\ OthersWait(p)
    BY <1>1, <1>5, <2>1 DEF OthersWait
  <2>4. SameTask(p) /\ pc[p] \notin {"idle", "enqueue"}
        /\ pc'[p] \notin {"idle", "enqueue", "finish"} /\ ctx'[p].to # "pending"
    BY <1>1, <1>2, <2>2, <2>3 DEF SameTask
  <2> QED BY <1>1, <2>3, <2>4, WorkGoesOn
<1>6. CASE /\ ~CanTransitionLink(link[c.schedule].status, c.to)
           /\ Goto(p, "finish") /\ UNCHANGED ctx
  <2>1. pc'[p] = "finish" /\ OthersWait(p) /\ SameTask(p)
        /\ pc[p] \notin {"idle", "enqueue"} /\ pc'[p] \notin {"idle", "enqueue", "reauth", "mark", "save"}
    BY <1>1, <1>6 DEF OthersWait, SameTask, Goto
  <2>2. link[ctx[p].schedule].status # "pending"
    BY <1>2, <1>6 DEF CanTransitionLink
  <2> QED BY <1>1, <2>1, <2>2, WorkGoesOn
<1> QED BY <1>2, <1>4, <1>5, <1>6 DEF MarkLink, Sequential

\* Every call of the provider, and the marks that follow, but for their saves.
LEMMA CallGoesOn ==
    ASSUME IInv, WorkInv, Sequential, NEW p \in Process, CallProvider(p), ~SaveLink(p)
    PROVE  WorkInv'
<1>1. ctx \in [Process -> Context] /\ pc \in [Process -> Label]
  BY DEF IInv, TypeOK
<1>2. CASE TokenStillValid(p) \/ RefreshToken(p)
  <2>1. pc[p] = "call" /\ pc'[p] = "send" /\ OthersWait(p) /\ SameTask(p)
        /\ UNCHANGED <<schedule, link, job>>
    BY <1>1, <1>2 DEF TokenStillValid, RefreshToken, OthersWait, SameTask, Goto, rows
  <2> QED BY <2>1, WorkGoesOn
<1>3. CASE MarkReauthorizationRequired(p)
  <2>1. pc[p] = "reauth" /\ pc'[p] = "mark" /\ OthersWait(p) /\ SameTask(p)
        /\ ctx' = ctx /\ UNCHANGED <<schedule, link, job>>
    BY <1>1, <1>3 DEF MarkReauthorizationRequired, OthersWait, SameTask, Goto
  <2>2. p \in Worker => ctx'[p].to # "pending"
    BY <2>1 DEF WorkInv
  <2> QED BY <2>1, <2>2, WorkGoesOn
<1>4. ASSUME \/ CreateEvent(p) \/ UpdateEvent(p) \/ DeleteEvent(p) \/ EventMissing(p)
             \/ Refuse(p) \/ RefuseAuthorization(p)
      PROVE  WorkInv'
  <2>1. pc[p] = "send" /\ \E outcome, e : Answer(p, outcome, e)
    BY <1>4 DEF CreateEvent, UpdateEvent, DeleteEvent, EventMissing, Refuse,
                RefuseAuthorization
  <2> QED BY <2>1, AnswerGoesOn
<1>5. CASE MarkLink(p)
  BY <1>5, MarkGoesOn
<1> QED BY <1>2, <1>3, <1>4, <1>5 DEF CallProvider

\* The link gets a status that is not pending, or the request goes on.
LEMMA SaveGoesOn ==
    ASSUME IInv, WorkInv, NEW p \in Process, SaveLink(p)
    PROVE  WorkInv'
<1>1. /\ ctx \in [Process -> Context] /\ pc \in [Process -> Label] /\ pc[p] = "save"
      /\ link \in [Schedule -> LinkRow] /\ UNCHANGED <<schedule, job>>
  BY DEF IInv, TypeOK, SaveLink
<1>2. PICK c \in Context : c = ctx[p]
  BY <1>1
<1>3. /\ c.schedule \in Schedule /\ c.row \in LinkRow
      /\ c.role \in {"worker", "edit", "manual", "disconnect"}
      /\ (c.role = "worker" <=> p \in Worker)
      /\ c.role = "edit" => c.to = "pending"
      /\ p \in Request => c.role # "disconnect"
      /\ p \in Worker => c.to # "pending" /\ c.key.schedule = c.schedule
      /\ p \in Worker <=> p \notin Request
  BY <1>1, <1>2, Running, Task DEF LocalsOK, Context, WorkInv
<1>4. /\ \A s \in Schedule \ {c.schedule} : link'[s] = link[s]
      /\ link'[c.schedule].status = c.to
  <2>1. link' = [link EXCEPT ![c.schedule] = Marked(c.row, c.to, c.event)]
    BY <1>2 DEF SaveLink
  <2>2. Marked(c.row, c.to, c.event).status = c.to
    BY <1>3, MarkedRow DEF Context
  <2> QED BY <1>1, <1>3, <2>1, <2>2
<1>5. /\ OthersWait(p)
      /\ \/ c.role = "manual" /\ c.to # "pending" /\ pc'[p] = "idle"
         \/ /\ ~(c.role = "manual" /\ c.to # "pending")
            /\ pc'[p] = AfterSave(c) /\ SameTask(p)
  <2>1. CASE c.role = "manual" /\ c.to # "pending"
    BY <1>1, <1>2, <2>1 DEF SaveLink, Return, Goto, OthersWait
  <2>2. CASE ~(c.role = "manual" /\ c.to # "pending")
    <3> DEFINE d == [c EXCEPT !.row = NoLink]
    <3>1. ctx' = [ctx EXCEPT ![p] = d] /\ pc' = [pc EXCEPT ![p] = AfterSave(c)]
      BY <1>1, <1>2, <2>2 DEF SaveLink, Goto
    <3>2. d.role = c.role /\ d.schedule = c.schedule /\ d.key = c.key
      BY DEF Context
    <3> HIDE DEF d
    <3> QED BY <1>1, <1>2, <2>2, <3>1, <3>2 DEF OthersWait, SameTask
  <2> QED BY <2>1, <2>2
<1>6. /\ p \in Worker => pc'[p] = "finish" /\ SameTask(p)
      /\ p \in Request => \/ pc'[p] = "idle" /\ c.to # "pending"
                          \/ pc'[p] \in {"insert", "load"} /\ SameTask(p)
  BY <1>3, <1>5 DEF AfterSave
<1>7. ASSUME NEW s \in Schedule, schedule'[s].live, link'[s].status = "pending"
      PROVE  Handled(s)' \/ Queued(s)'
  <2>1. CASE s = c.schedule
    <3>1. p \in Request /\ pc'[p] \in {"insert", "load"} /\ ctx'[p].schedule = s
      BY <1>2, <1>3, <1>4, <1>6, <1>7, <2>1 DEF SameTask
    <3> QED BY <3>1 DEF Handled
  <2>2. CASE s # c.schedule /\ Handled(s)
    <3>1. PICK r \in Request : pc[r] \notin {"idle", "enqueue"} /\ ctx[r].schedule = s
      BY <2>2 DEF Handled
    <3>2. r # p
      BY <1>2, <2>2, <3>1
    <3> QED BY <1>5, <3>1, <3>2 DEF Handled, OthersWait, Process
  <2>3. CASE s # c.schedule /\ Queued(s)
    <3>1. PICK k \in JobKey :
             k.schedule = s /\ Unsettled(k) /\ \A w \in Worker : pc[w] = "finish" => ctx[w].key # k
      BY <2>3 DEF Queued
    <3>2. p \in Worker => ctx'[p].key # k
      BY <1>2, <1>3, <1>6, <2>3, <3>1 DEF SameTask
    <3>3. \A w \in Worker : pc'[w] = "finish" => ctx'[w].key # k
      BY <1>5, <3>1, <3>2 DEF OthersWait, Process
    <3> QED BY <1>1, <3>1, <3>3 DEF Queued, Unsettled
  <2> QED BY <1>1, <1>4, <1>7, <2>1, <2>2, <2>3 DEF WorkInv
<1>8. \A w \in Worker : pc'[w] \in {"reauth", "mark", "save"} => ctx'[w].to # "pending"
  BY <1>5, <1>6 DEF WorkInv, OthersWait, Process
<1>9. \A k \in JobKey : job'[k].status # "absent" => k.version <= schedule'[k.schedule].version
  BY <1>1 DEF WorkInv
<1>10. ASSUME NEW r \in Request
       PROVE  KeyIsNew(r)' /\ (pc'[r] # "idle" => ctx'[r].role # "disconnect")
  <2>1. KeyIsNew(r) /\ (pc[r] # "idle" => ctx[r].role # "disconnect") /\ r \in Process
    BY DEF WorkInv, Process
  <2>2. CASE r # p
    BY <1>1, <1>5, <2>1, <2>2 DEF OthersWait, KeyIsNew
  <2>3. CASE r = p
    BY <1>1, <1>6, <2>1, <2>3 DEF SameTask, KeyIsNew
  <2> QED BY <2>2, <2>3
<1> QED BY <1>7, <1>8, <1>9, <1>10 DEF WorkInv

-------------------------------------------------------------------------------
(***************************************************************************)
(* The job queue.                                                          *)
(***************************************************************************)

\* A step that starts or ends no request keeps the invariant if a job that is
\* the reason for a pending link is so afterwards.
LEMMA QueueGoesOn ==
    ASSUME IInv, WorkInv,
           UNCHANGED <<schedule, link>>,
           \A r \in Request : pc'[r] = pc[r] /\ ctx'[r] = ctx[r],
           \A w \in Worker : pc'[w] \in {"reauth", "mark", "save"} => ctx'[w].to # "pending",
           \A k \in JobKey : job'[k].status # "absent" => job[k].status # "absent",
           \A k \in JobKey :
              /\ schedule[k.schedule].live /\ Unsettled(k)
              /\ \A w \in Worker : pc[w] = "finish" => ctx[w].key # k
              => /\ Unsettled(k)'
                 /\ \A w \in Worker : pc'[w] = "finish" => ctx'[w].key # k
    PROVE  WorkInv'
<1>1. ASSUME NEW s \in Schedule, schedule'[s].live, link'[s].status = "pending"
      PROVE  Handled(s)' \/ Queued(s)'
  <2>1. CASE Handled(s)
    BY <2>1 DEF Handled
  <2>2. CASE Queued(s)
    <3>1. PICK k \in JobKey :
             k.schedule = s /\ Unsettled(k) /\ \A w \in Worker : pc[w] = "finish" => ctx[w].key # k
      BY <2>2 DEF Queued
    <3>2. Unsettled(k)' /\ \A w \in Worker : pc'[w] = "finish" => ctx'[w].key # k
      BY <1>1, <3>1
    <3> QED BY <3>1, <3>2 DEF Queued
  <2> QED BY <1>1, <2>1, <2>2 DEF WorkInv
<1>2. \A r \in Request : KeyIsNew(r)'
  BY DEF WorkInv, KeyIsNew
<1>3. \A k \in JobKey : job'[k].status # "absent" => k.version <= schedule'[k.schedule].version
  BY DEF WorkInv
<1>4. \A r \in Request : pc'[r] # "idle" => ctx'[r].role # "disconnect"
  BY DEF WorkInv
<1> QED BY <1>1, <1>2, <1>3, <1>4 DEF WorkInv

LEMMA WorkerGoesOn ==
    ASSUME IInv, WorkInv, Sequential, NEW w \in Worker, WorkerStep(w)
    PROVE  WorkInv'
<1>0. /\ ctx \in [Process -> Context] /\ pc \in [Process -> Label] /\ w \in Process
      /\ job \in [JobKey -> JobRow]
      /\ \A r \in Request : r # w /\ r \in Process
      /\ \A v \in Worker : v \in Process
  BY CalendarAssumption DEF IInv, TypeOK, Process
<1>1. CASE ClaimDueJobs(w)
  <2>1. PICK claimed \in SUBSET DueJobs :
           job' = [k \in JobKey |->
                     IF k \in claimed
                        THEN [status |-> "processing", due |-> FALSE,
                              attempts |-> job[k].attempts + 1]
                        ELSE job[k]]
    BY <1>1 DEF ClaimDueJobs
  <2>2. UNCHANGED <<schedule, link, pc, ctx>>
    BY <1>1 DEF ClaimDueJobs
  <2>3. \A k \in JobKey : /\ job'[k].status # "absent" => job[k].status # "absent"
                          /\ Unsettled(k) => Unsettled(k)'
    BY <2>1 DEF DueJobs, Unsettled
  <2> QED BY <2>2, <2>3, QueueGoesOn DEF WorkInv
<1>2. ASSUME NEW j \in JobKey, StartJob(w, j) PROVE WorkInv'
  <2>1. /\ UNCHANGED <<schedule, link, job>>
        /\ \A q \in Process \ {w} : pc'[q] = pc[q] /\ ctx'[q] = ctx[q]
        /\ pc'[w] \in {"call", "finish"} /\ ctx'[w].key = j
        /\ pc'[w] = "finish" => ~schedule[j.schedule].live
    BY <1>0, <1>2 DEF StartJob, rows, Goto, Blank
  <2>2. \A k \in JobKey :
           /\ schedule[k.schedule].live /\ Unsettled(k)
           /\ \A v \in Worker : pc[v] = "finish" => ctx[v].key # k
           => /\ Unsettled(k)'
              /\ \A v \in Worker : pc'[v] = "finish" => ctx'[v].key # k
    BY <1>0, <2>1 DEF Unsettled
  <2>3. \A v \in Worker : pc'[v] \in {"reauth", "mark", "save"} => ctx'[v].to # "pending"
    BY <1>0, <2>1 DEF WorkInv
  <2> QED BY <1>0, <2>1, <2>2, <2>3, QueueGoesOn
<1>3. CASE CallProvider(w) /\ ~SaveLink(w)
  BY <1>0, <1>3, CallGoesOn
<1>4. CASE SaveLink(w)
  BY <1>0, <1>4, SaveGoesOn
<1>5. CASE FinishJob(w)
  <2>1. PICK j : j = ctx[w].key
    OBVIOUS
  <2>2. /\ pc[w] = "finish" /\ UNCHANGED <<schedule, link>>
        /\ job' = [job EXCEPT ![j] = Finished(job[j], ctx[w].outcome)]
        /\ \A q \in Process \ {w} : pc'[q] = pc[q] /\ ctx'[q] = ctx[q]
        /\ pc'[w] = "idle"
    BY <1>0, <1>5, <2>1 DEF FinishJob, Return, Goto
  <2>3. j \in JobKey /\ job[j].status # "absent"
    BY <1>0, <2>1, <2>2, Task DEF IInv, TypeOK, ClaimExclusive
  <2>4. \A k \in JobKey \ {j} : job'[k] = job[k]
    BY <1>0, <2>2
  <2>5. \A k \in JobKey :
           /\ schedule[k.schedule].live /\ Unsettled(k)
           /\ \A v \in Worker : pc[v] = "finish" => ctx[v].key # k
           => /\ Unsettled(k)'
              /\ \A v \in Worker : pc'[v] = "finish" => ctx'[v].key # k
    BY <1>0, <2>1, <2>2, <2>4 DEF Unsettled
  <2>6. \A v \in Worker : pc'[v] \in {"reauth", "mark", "save"} => ctx'[v].to # "pending"
    BY <1>0, <2>2 DEF WorkInv
  <2>7. \A k \in JobKey : job'[k].status # "absent" => job[k].status # "absent"
    BY <2>3, <2>4
  <2> QED BY <1>0, <2>2, <2>5, <2>6, <2>7, QueueGoesOn
<1>6. ~FinishFails(w)
  BY DEF FinishFails, Sequential
<1> QED BY <1>1, <1>2, <1>3, <1>4, <1>5, <1>6 DEF WorkerStep

LEMMA BackoffGoesOn ==
    ASSUME IInv, WorkInv, NEW j \in JobKey, BackoffElapses(j)
    PROVE  WorkInv'
<1>1. UNCHANGED <<schedule, link, pc, ctx>> /\ job' = [job EXCEPT ![j].due = TRUE]
  BY DEF BackoffElapses
<1>2. \A k \in JobKey : job'[k].status = job[k].status
  BY <1>1 DEF IInv, TypeOK, JobRow
<1> QED BY <1>1, <1>2, QueueGoesOn DEF WorkInv, Unsettled

-------------------------------------------------------------------------------
(***************************************************************************)
(* Requests: they come one at a time.                                      *)
(***************************************************************************)

\* A step of the only request: the jobs that are there stay, and for each link
\* that is or becomes pending the request goes on or there is a job.
LEMMA OnlyRequestGoesOn ==
    ASSUME IInv, WorkInv, Sequential, NEW r \in Request, OthersWait(r),
           \A k \in JobKey : job[k].status # "absent" => job'[k] = job[k],
           \A k \in JobKey : job'[k].status # "absent"
                                => k.version <= schedule'[k.schedule].version,
           \A s \in Schedule :
              schedule'[s].live /\ link'[s].status = "pending"
                 => \/ Handled(s)' \/ Queued(s)'
                    \/ schedule[s].live /\ link[s].status = "pending" /\ ~Handled(s),
           KeyIsNew(r)', pc'[r] # "idle" => ctx'[r].role # "disconnect"
    PROVE  WorkInv'
<1>0. (\A q \in Request : q = r) /\ (\A w \in Worker : w \in Process \ {r})
  BY CalendarAssumption DEF Sequential, Process
<1>1. ASSUME NEW s \in Schedule, schedule'[s].live, link'[s].status = "pending"
      PROVE  Handled(s)' \/ Queued(s)'
  <2>1. SUFFICES ASSUME Queued(s) PROVE Queued(s)'
    BY <1>1 DEF WorkInv
  <2>2. PICK k \in JobKey :
           k.schedule = s /\ Unsettled(k) /\ \A w \in Worker : pc[w] = "finish" => ctx[w].key # k
    BY <2>1 DEF Queued
  <2>3. Unsettled(k)' /\ \A w \in Worker : pc'[w] = "finish" => ctx'[w].key # k
    BY <1>0, <2>2 DEF OthersWait, Unsettled
  <2> QED BY <2>2, <2>3 DEF Queued
<1>2. \A w \in Worker : pc'[w] \in {"reauth", "mark", "save"} => ctx'[w].to # "pending"
  BY <1>0 DEF WorkInv, OthersWait
<1> QED BY <1>0, <1>1, <1>2 DEF WorkInv

LEMMA EditGoesOn ==
    ASSUME IInv, WorkInv, Sequential, NEW r \in Request, NEW s \in Schedule, EditSchedule(r, s)
    PROVE  WorkInv'
<1>1. /\ ctx \in [Process -> Context] /\ pc \in [Process -> Label] /\ r \in Process
      /\ schedule \in [Schedule -> ScheduleRow]
  BY DEF IInv, TypeOK, Process
<1>2. /\ pc[r] = "idle" /\ schedule' = [schedule EXCEPT ![s].version = @ + 1]
      /\ UNCHANGED <<link, job>> /\ OthersWait(r)
      /\ pc'[r] = "enqueue" /\ ctx'[r].role = "edit" /\ ctx'[r].schedule = s
  BY <1>1 DEF EditSchedule, Goto, OthersWait, Blank
<1>3. /\ \A t \in Schedule : schedule'[t].live = schedule[t].live
      /\ \A t \in Schedule \ {s} : schedule'[t] = schedule[t]
      /\ schedule'[s].version = schedule[s].version + 1
      /\ schedule[s].version \in Nat
  BY <1>1, <1>2, CalendarAssumption DEF ScheduleRow
<1>4. \A k \in JobKey : job[k].status # "absent"
                          => /\ k.version <= schedule[k.schedule].version
                             /\ k.version \in Nat /\ k.schedule \in Schedule
  BY CalendarAssumption DEF WorkInv, JobKey
<1>5. \A k \in JobKey : job'[k].status # "absent"
                          => /\ k.version <= schedule'[k.schedule].version
                             /\ k.schedule = s => k.version < schedule'[s].version
  BY <1>2, <1>3, <1>4
<1>6. KeyIsNew(r)' /\ (pc'[r] # "idle" => ctx'[r].role # "disconnect")
  BY <1>2, <1>5 DEF KeyIsNew
<1>7. \A t \in Schedule : ~Handled(t)
  BY <1>2 DEF Handled, Sequential
<1> QED BY <1>2, <1>3, <1>5, <1>6, <1>7, OnlyRequestGoesOn

LEMMA BeginGoesOn ==
    ASSUME IInv, WorkInv, Sequential, NEW r \in Request, NEW s \in Schedule, NEW u \in User,
           NEW requested \in {"auto", "delete"}, BeginManualSync(r, s, u, requested)
    PROVE  WorkInv'
<1>1. ctx \in [Process -> Context] /\ pc \in [Process -> Label] /\ r \in Process
  BY DEF IInv, TypeOK, Process
<1>2. /\ pc[r] = "idle" /\ UNCHANGED <<schedule, link, job>> /\ OthersWait(r)
      /\ pc'[r] = "upsert" /\ ctx'[r].role = "manual"
  BY <1>1 DEF BeginManualSync, Goto, OthersWait, Blank, rows
<1>3. KeyIsNew(r)' /\ (pc'[r] # "idle" => ctx'[r].role # "disconnect")
  BY <1>2 DEF KeyIsNew
<1>4. \A t \in Schedule : ~Handled(t)
  BY <1>2 DEF Handled, Sequential
<1>5. \A k \in JobKey : job'[k].status # "absent" => k.version <= schedule'[k.schedule].version
  BY <1>2 DEF WorkInv
<1> QED BY <1>2, <1>3, <1>4, <1>5, OnlyRequestGoesOn

LEMMA LoadMutationGoesOn ==
    ASSUME IInv, WorkInv, Sequential, NEW r \in Request, LoadMutation(r)
    PROVE  WorkInv'
<1>1. /\ ctx \in [Process -> Context] /\ pc \in [Process -> Label] /\ r \in Process
      /\ pc[r] = "enqueue" /\ UNCHANGED <<schedule, link, job>>
      /\ schedule \in [Schedule -> ScheduleRow]
  BY DEF IInv, TypeOK, Process, LoadMutation, rows
<1>2. PICK c \in Context : c = ctx[r]
  BY <1>1
<1>3. c.role = "edit" /\ KeyIsNew(r)
  BY <1>1, <1>2, Running DEF LocalsOK, WorkInv, Context, CalendarAssumption, Process
<1>4. \A t \in Schedule : ~Handled(t)
  BY <1>1 DEF Handled, Sequential
<1>5. \A k \in JobKey : job'[k].status # "absent" => k.version <= schedule'[k.schedule].version
  BY <1>1 DEF WorkInv
<1>6. CASE Return(r)
  <2>1. pc'[r] = "idle" /\ OthersWait(r)
    BY <1>1, <1>6 DEF Return, Goto, OthersWait
  <2> QED BY <1>1, <1>4, <1>5, <2>1, OnlyRequestGoesOn DEF KeyIsNew
<1>7. ASSUME NEW k \in Mutation("update", c.schedule, schedule[c.schedule], link[c.schedule]),
             ctx' = [ctx EXCEPT ![r].key = k], Goto(r, "mark")
      PROVE  WorkInv'
  <2> DEFINE d == [c EXCEPT !.key = k]
  <2>1. ctx' = [ctx EXCEPT ![r] = d]
    BY <1>1, <1>2, <1>7
  <2>2. d.role = "edit" /\ d.schedule = c.schedule /\ d.key = k
    BY <1>3 DEF Context
  <2> HIDE DEF d
  <2>3. pc'[r] = "mark" /\ ctx'[r] = d /\ OthersWait(r)
    BY <1>1, <1>7, <2>1 DEF Goto, OthersWait
  <2>4. k.version = schedule[c.schedule].version
    BY <1>7 DEF Mutation, KeyOf
  <2>5. KeyIsNew(r)' /\ (pc'[r] # "idle" => ctx'[r].role # "disconnect")
    BY <1>1, <1>2, <1>3, <2>2, <2>3, <2>4 DEF KeyIsNew
  <2> QED BY <1>1, <1>4, <1>5, <2>3, <2>5, OnlyRequestGoesOn
<1> QED BY <1>2, <1>6, <1>7 DEF LoadMutation

\* The job that is inserted is new, and waits.
LEMMA InsertGoesOn ==
    ASSUME IInv, WorkInv, Sequential, NEW r \in Request, InsertJob(r)
    PROVE  WorkInv'
<1>1. /\ ctx \in [Process -> Context] /\ pc \in [Process -> Label] /\ r \in Process
      /\ pc[r] = "insert" /\ UNCHANGED <<schedule, link>>
      /\ pc'[r] = "idle" /\ OthersWait(r)
  BY DEF IInv, TypeOK, Process, InsertJob, Return, Goto, OthersWait
<1>2. PICK c \in Context : c = ctx[r]
  BY <1>1
<1>3. c.role = "edit" /\ c.key \in JobKey /\ c.key.schedule = c.schedule /\ KeyIsNew(r)
      /\ c.schedule \in Schedule
  BY <1>1, <1>2, Running DEF LocalsOK, WorkInv, Context, CalendarAssumption, Process
<1>4. PICK k \in JobKey : k = c.key
  BY <1>3
<1>5. /\ k.version = schedule[k.schedule].version /\ k.version \in Nat
      /\ job[k].status = "absent"
  BY <1>1, <1>2, <1>3, <1>4, CalendarAssumption DEF KeyIsNew, JobKey
<1>6. /\ job'[k].status = "pending" /\ \A j \in JobKey \ {k} : job'[j] = job[j]
  BY <1>2, <1>4, <1>5 DEF InsertJob, Enqueued
<1>7. \A j \in JobKey : job'[j].status # "absent" => j.version <= schedule'[j.schedule].version
  BY <1>1, <1>5, <1>6 DEF WorkInv
<1>8. Queued(c.schedule)'
  <2>1. \A w \in Worker : pc'[w] = "finish" => ctx'[w].key # k
    <3>1. ASSUME NEW w \in Worker, pc'[w] = "finish", ctx'[w].key = k PROVE FALSE
      <4>1. pc[w] = "finish" /\ ctx[w].key = k /\ w \in Process
        BY <3>1, CalendarAssumption, <1>1 DEF OthersWait, Process
      <4>2. job[k].status = "processing"
        BY <4>1, <3>1, Task DEF IInv, ClaimExclusive
      <4> QED BY <4>2, <1>5
    <3> QED BY <3>1
  <2> QED BY <1>3, <1>4, <1>6, <2>1 DEF Queued, Unsettled
<1>9. ASSUME NEW s \in Schedule, schedule'[s].live, link'[s].status = "pending"
      PROVE  \/ Handled(s)' \/ Queued(s)'
             \/ schedule[s].live /\ link[s].status = "pending" /\ ~Handled(s)
  <2>1. Handled(s) => s = c.schedule
    BY <1>2 DEF Handled, Sequential
  <2> QED BY <1>1, <1>8, <1>9, <2>1
<1>10. KeyIsNew(r)'
  BY <1>1 DEF KeyIsNew
<1>11. \A j \in JobKey : job[j].status # "absent" => job'[j] = job[j]
  BY <1>5, <1>6
<1> QED BY <1>1, <1>7, <1>9, <1>10, <1>11, OnlyRequestGoesOn

LEMMA UpsertGoesOn ==
    ASSUME IInv, WorkInv, Sequential, NEW r \in Request, UpsertLink(r)
    PROVE  WorkInv'
<1>1. /\ ctx \in [Process -> Context] /\ pc \in [Process -> Label] /\ r \in Process
      /\ pc[r] = "upsert" /\ UNCHANGED <<schedule, job>> /\ link \in [Schedule -> LinkRow]
  BY DEF IInv, TypeOK, Process, UpsertLink
<1>2. PICK c \in Context : c = ctx[r]
  BY <1>1
<1>3. c.role = "manual" /\ c.schedule \in Schedule
  BY <1>1, <1>2, Running DEF LocalsOK, Context, CalendarAssumption, Process
<1>4. PICK action, e, to :
         ctx' = [ctx EXCEPT ![r].action = action, ![r].event = e, ![r].to = to]
  BY DEF UpsertLink
<1> DEFINE d == [c EXCEPT !.action = action, !.event = e, !.to = to]
<1>5. ctx' = [ctx EXCEPT ![r] = d]
  BY <1>1, <1>2, <1>4
<1>6. d.role = "manual" /\ d.schedule = c.schedule
  BY <1>3 DEF Context
<1> HIDE DEF d
<1>7. ctx'[r] = d /\ pc'[r] \in {"call", "mark"} /\ OthersWait(r)
  BY <1>1, <1>5 DEF UpsertLink, Goto, OthersWait
<1>8. \A s \in Schedule \ {c.schedule} : link'[s] = link[s]
  BY <1>1, <1>2 DEF UpsertLink
<1>9. Handled(c.schedule)'
  BY <1>6, <1>7 DEF Handled
<1>10. ASSUME NEW s \in Schedule, schedule'[s].live, link'[s].status = "pending"
       PROVE  \/ Handled(s)' \/ Queued(s)'
              \/ schedule[s].live /\ link[s].status = "pending" /\ ~Handled(s)
  <2>1. Handled(s) => s = c.schedule
    BY <1>2 DEF Handled, Sequential
  <2> QED BY <1>1, <1>8, <1>9, <1>10, <2>1
<1>11. KeyIsNew(r)' /\ (pc'[r] # "idle" => ctx'[r].role # "disconnect")
  BY <1>6, <1>7 DEF KeyIsNew
<1>12. \A k \in JobKey : job'[k].status # "absent" => k.version <= schedule'[k.schedule].version
  BY <1>1 DEF WorkInv
<1> QED BY <1>1, <1>7, <1>10, <1>11, <1>12, OnlyRequestGoesOn

LEMMA LoadScheduleGoesOn ==
    ASSUME IInv, WorkInv, Sequential, NEW r \in Request, LoadSchedule(r)
    PROVE  WorkInv'
<1>1. /\ ctx \in [Process -> Context] /\ pc \in [Process -> Label] /\ r \in Process
      /\ pc[r] = "load" /\ UNCHANGED <<schedule, link, job>>
  BY DEF IInv, TypeOK, Process, LoadSchedule, rows
<1>2. PICK c \in Context : c = ctx[r]
  BY <1>1
<1>3. CASE schedule[c.schedule].live
  <2> DEFINE d == [c EXCEPT !.version = schedule[c.schedule].version]
  <2>1. ctx' = [ctx EXCEPT ![r] = d]
    BY <1>1, <1>2, <1>3 DEF LoadSchedule
  <2>2. d.role = c.role /\ d.schedule = c.schedule /\ d.key = c.key
    BY DEF Context
  <2> HIDE DEF d
  <2>3. ctx'[r] = d /\ pc'[r] = "call" /\ OthersWait(r) /\ SameTask(r)
    BY <1>1, <1>2, <1>3, <2>1, <2>2 DEF LoadSchedule, Goto, OthersWait, SameTask
  <2> QED BY <1>1, <2>3, WorkGoesOn
<1>4. CASE ~schedule[c.schedule].live
  <2>1. pc'[r] = "idle" /\ OthersWait(r)
    BY <1>1, <1>2, <1>4 DEF LoadSchedule, Return, Goto, OthersWait
  <2>2. ASSUME NEW s \in Schedule, schedule'[s].live, link'[s].status = "pending"
        PROVE  \/ Handled(s)' \/ Queued(s)'
               \/ schedule[s].live /\ link[s].status = "pending" /\ ~Handled(s)
    <3>1. Handled(s) => s = c.schedule
      BY <1>2 DEF Handled, Sequential
    <3> QED BY <1>1, <1>4, <2>2, <3>1
  <2>3. KeyIsNew(r)'
    BY <2>1 DEF KeyIsNew
  <2>4. \A k \in JobKey : job'[k].status # "absent" => k.version <= schedule'[k.schedule].version
    BY <1>1 DEF WorkInv
  <2> QED BY <1>1, <2>1, <2>2, <2>3, <2>4, OnlyRequestGoesOn
<1> QED BY <1>3, <1>4

\* Nobody disconnects the provider.
LEMMA NoListing ==
    ASSUME IInv, WorkInv, NEW r \in Request, ListLinks(r) \/ NextLink(r)
    PROVE  FALSE
<1>1. r \in Process /\ pc[r] \in {"list", "unlink"}
  BY DEF Process, ListLinks, NextLink
<1>2. ctx[r].role = "disconnect"
  BY <1>1, Running DEF LocalsOK, Context
<1> QED BY <1>1, <1>2 DEF WorkInv

LEMMA RequestGoesOn ==
    ASSUME IInv, WorkInv, Sequential, NEW r \in Request, RequestStep(r)
    PROVE  WorkInv'
<1>1. r \in Process
  BY DEF Process
<1> QED BY <1>1, CallGoesOn, SaveGoesOn, LoadMutationGoesOn, InsertGoesOn, UpsertGoesOn,
           LoadScheduleGoesOn, NoListing DEF RequestStep

-------------------------------------------------------------------------------

LEMMA RemoveGoesOn ==
    ASSUME IInv, WorkInv, NEW s \in Schedule, RemoveSchedule(s)
    PROVE  WorkInv'
<1>1. UNCHANGED <<link, job, pc, ctx>> /\ schedule \in [Schedule -> ScheduleRow]
  BY RemoveAsksNothing DEF IInv, TypeOK, RemoveSchedule
<1>2. \A t \in Schedule : /\ schedule'[t].version = schedule[t].version
                          /\ schedule'[t].live => schedule[t].live
  BY <1>1 DEF RemoveSchedule, ScheduleRow
<1>3. \A t \in Schedule : /\ Handled(t) => Handled(t)'
                          /\ Queued(t) => Queued(t)'
  BY <1>1 DEF Handled, Queued, Unsettled
<1>4. \A k \in JobKey : k.schedule \in Schedule
  BY DEF JobKey
<1>5. \A r \in Request : KeyIsNew(r)'
  <2>1. SUFFICES ASSUME NEW r \in Request, pc[r] # "idle", ctx[r].role = "edit", KeyIsNew(r)
                 PROVE  KeyIsNew(r)'
    BY <1>1 DEF WorkInv, KeyIsNew
  <2>2. ctx[r].schedule \in Schedule
    BY <2>1, Running DEF LocalsOK, Process
  <2> QED BY <1>1, <1>2, <2>1, <2>2 DEF KeyIsNew
<1> QED BY <1>1, <1>2, <1>3, <1>4, <1>5 DEF WorkInv

\* What reads none of the variables that the invariant is about.
LEMMA WorkUntouched ==
    ASSUME WorkInv, UNCHANGED <<schedule, link, job, pc, ctx>>
    PROVE  WorkInv'
BY DEF WorkInv, Handled, Queued, Unsettled, KeyIsNew

LEMMA PendingWorkStep ==
    ASSUME IInv, SequentialWork, [Next]_vars
    PROVE  SequentialWork'
<1> SUFFICES ASSUME Sequential, WorkInv PROVE WorkInv'
  BY DEF SequentialWork, Sequential
<1>1. ASSUME NEW w \in Worker, WorkerStep(w) PROVE WorkInv'
  BY <1>1, WorkerGoesOn
<1>2. ASSUME NEW k \in JobKey, BackoffElapses(k) PROVE WorkInv'
  BY <1>2, BackoffGoesOn
<1>3. ASSUME NEW r \in Request, RequestStep(r) PROVE WorkInv'
  BY <1>3, RequestGoesOn
<1>4. ASSUME NEW r \in Request, NEW s \in Schedule, EditSchedule(r, s) PROVE WorkInv'
  BY <1>4, EditGoesOn
<1>5. ASSUME NEW r \in Request, NEW s \in Schedule, NEW u \in User,
             NEW requested \in {"auto", "delete"}, BeginManualSync(r, s, u, requested)
      PROVE  WorkInv'
  BY <1>5, BeginGoesOn
<1>6. ASSUME NEW s \in Schedule, RemoveSchedule(s) PROVE WorkInv'
  BY <1>6, RemoveGoesOn
<1>7. ASSUME NEW u \in User, ConnectProvider(u) PROVE WorkInv'
  BY <1>7, WorkUntouched DEF ConnectProvider
<1>8. /\ \A r \in Request, u \in User : ~DisconnectProvider(r, u)
      /\ \A s \in Schedule : ~TouchSchedule(s)
      /\ \A p \in Process : ~Crash(p)
  BY DEF Sequential, DisconnectProvider, TouchSchedule, Crash
<1>9. CASE UNCHANGED vars
  BY <1>9, WorkUntouched DEF vars
<1> QED BY <1>1, <1>2, <1>3, <1>4, <1>5, <1>6, <1>7, <1>8, <1>9 DEF Next

\* With requests that come one at a time, a link that is shown as pending has a
\* request or a job that has yet to mark it, however many workers run, and no
\* edit finds its job there already (calendar_sync_worker.go, calendar_sync_workflow.go).
THEOREM WorkInvariant == Spec => []SequentialWork
<1>1. Init => SequentialWork
  BY WorkInitial DEF SequentialWork
<1>2. IInv /\ SequentialWork /\ [Next]_vars => SequentialWork'
  BY PendingWorkStep
<1> QED BY <1>1, <1>2, Invariant, PTL DEF Spec

\* Nothing is left in "pending" with no job and no request to move it on.
THEOREM NothingForgotten == Spec => []PendingHasWork
<1>1. SequentialWork => PendingHasWork
  BY DEF SequentialWork, WorkInv, PendingHasWork, Settled, UnsettledFor, Handled, Queued
<1> QED BY <1>1, WorkInvariant, PTL

-------------------------------------------------------------------------------
(***************************************************************************)
(* Why what is synced is fresh, and why no event is lost. Three             *)
(* invariants for requests that come one at a time: the queue and the       *)
(* requests keep out of each other's way (OrderInv), whoever will still     *)
(* send something has the present content (FreshInv), and everybody         *)
(* agrees with the link on its event (QuietInv).                            *)
(***************************************************************************)

\* An event that a row or a process names was created for its schedule.
OwnedBy(e, s) ==
    e # None => /\ event[e].schedule = s /\ event[e].calendar \in User
                /\ event[e].state # "unused"

NamesOwn(p) ==
    pc[p] # "idle" =>
        /\ OwnedBy(ctx[p].event, ctx[p].schedule)
        /\ pc[p] = "save" => OwnedBy(ctx[p].row.event, ctx[p].schedule)

\* Nothing that runs, or is about to be inserted, deletes an event, but for a
\* manual sync.
WorkerSpares(w) ==
    pc[w] # "idle" =>
        /\ ctx[w].action # "delete"
        /\ pc[w] \in {"reauth", "mark", "save"} => ctx[w].to \in {"synced", "failed"}

EditConnected(r) ==
    pc[r] \in {"mark", "save", "insert"} /\ ctx[r].role = "edit" =>
        link[ctx[r].schedule].status # "disconnected"

Manual(r, s) == pc[r] # "idle" /\ ctx[r].role = "manual" /\ ctx[r].schedule = s

OrderInv ==
    /\ \A s \in Schedule : OwnedBy(link[s].event, s)
    /\ \A p \in Process : NamesOwn(p)
    /\ \A w \in Worker : WorkerSpares(w)
    /\ \A r \in Request : EditConnected(r)
    /\ \A s \in Schedule :
          UnsettledFor(s) => /\ link[s].status # "disconnected"
                             /\ \A r \in Request : ~Manual(r, s)

SequentialOrder == Sequential => OrderInv

\* Work on s that has not read its content yet.
RunsFor(w, s) ==
    pc[w] \in {"call", "send", "reauth", "mark", "save"} /\ ctx[w].schedule = s

Awaits(s) ==
    \/ \E r \in Request : pc[r] # "idle" /\ ctx[r].schedule = s
    \/ \E k \in JobKey :
          /\ k.schedule = s /\ Unsettled(k)
          /\ \A w \in Worker : pc[w] # "idle" => ctx[w].key # k

\* What p sends, or has sent, is the content of s.
Current(p, s) ==
    /\ pc[p] \in {"call", "send"} /\ ctx[p].action # "delete"
          => ctx[p].version = schedule[s].version
    /\ pc[p] \in {"reauth", "mark", "save"} /\ ctx[p].to = "synced"
          => event[ctx[p].event].version = schedule[s].version

FreshRow(s) ==
    link[s].status = "synced" => event[link[s].event].version = schedule[s].version

FreshFor(s) ==
    schedule[s].live =>
        /\ \A r \in Request : Manual(r, s) => Current(r, s)
        /\ ~Awaits(s) => /\ \A w \in Worker : RunsFor(w, s) => Current(w, s)
                         /\ (\A w \in Worker : ~RunsFor(w, s)) => FreshRow(s)

OneWorker == \A v, w \in Worker : v = w
FreshInv == \A s \in Schedule : FreshFor(s)
SequentialFresh == Sequential /\ OneWorker => FreshInv

\* The provider has no event left to give.
Full == \A e \in Event : event[e].state # "unused"

Leaving(s) ==
    \E r \in Request : Manual(r, s) /\ pc[r] \in {"mark", "save"}
                          /\ ctx[r].to = "disconnected"

LinkLives(s) ==
    /\ link[s].event # None =>
          event[link[s].event].state = IF Leaving(s) THEN "gone" ELSE "live"
    /\ link[s].event = None /\ link[s].status \notin {"absent", "disconnected"}
          => Full \/ ~schedule[s].live \/ \E r \in Request : Manual(r, s)

\* A creation is asked for only when the provider would refuse it.
Serves(action, s) ==
    IF action = "create" THEN Full /\ link[s].event = None
                         ELSE link[s].event # None

WorkerAgrees(w) ==
    LET c == ctx[w] IN
    pc[w] \in {"call", "send", "reauth", "mark", "save"} =>
        /\ pc[w] # "reauth" /\ c.action = c.key.action
        /\ c.event = link[c.schedule].event
        /\ pc[w] = "save" => c.row.event = link[c.schedule].event

EditAgrees(r) ==
    LET c == ctx[r] IN
    pc[r] \in {"mark", "save", "insert"} /\ c.role = "edit" =>
        /\ Serves(c.key.action, c.schedule)
        /\ pc[r] = "save" => c.row.event = link[c.schedule].event

ManualAgrees(r) ==
    LET c == ctx[r] l == link[c.schedule] IN
    pc[r] \notin {"idle", "upsert"} /\ c.role = "manual" =>
        /\ pc[r] # "reauth"
        /\ pc[r] \in {"load", "call", "send"} \/ c.to = "pending" =>
              /\ c.event = l.event
              /\ c.action = "create" <=> c.event = None
              /\ c.action = "delete" => pc[r] \in {"call", "send"}
              /\ pc[r] \in {"load", "call", "send"} /\ c.action # "delete" => l.status = "pending"
        /\ pc[r] \in {"mark", "save"} /\ c.to = "synced" =>
              /\ l.event \in {None, c.event} /\ event[c.event].state = "live"
              /\ pc[r] = "mark" => l.status = "pending"
        /\ pc[r] \in {"mark", "save"} /\ c.to = "failed" => Full /\ l.event = None
        /\ pc[r] = "save" => c.row.event = l.event

Accounted(e) ==
    event[e].state = "live" =>
        /\ event[e].schedule \in Schedule
        /\ \/ link[event[e].schedule].event = e
           \/ \E p \in Process : /\ pc[p] \in {"mark", "save"}
                                 /\ ctx[p].schedule = event[e].schedule
                                 /\ ctx[p].event = e /\ ctx[p].to = "synced"

QuietInv ==
    /\ \A s \in Schedule : LinkLives(s)
    /\ \A k \in JobKey : Unsettled(k) => Serves(k.action, k.schedule)
    /\ \A w \in Worker : WorkerAgrees(w)
    /\ \A r \in Request : EditAgrees(r) /\ ManualAgrees(r)
    /\ \A e \in Event : Accounted(e)

QuietAgreement == Quiet => QuietInv

-------------------------------------------------------------------------------
(***************************************************************************)
(* What each step does to the rows and to the locals of its process.       *)
(***************************************************************************)

SameWork(p) ==
    /\ SameTask(p)
    /\ ctx'[p].action = ctx[p].action /\ ctx'[p].user = ctx[p].user

MarkDone(p) ==
    /\ pc[p] = "mark" /\ OthersWait(p)
    /\ UNCHANGED <<schedule, connection, link, job, event, batch>>
    /\ SameWork(p) /\ ctx'[p].event = ctx[p].event
    /\ \/ pc'[p] = "save" /\ ctx'[p].to = ctx[p].to
          /\ ctx'[p].row = link[ctx[p].schedule]
       \/ pc'[p] = "mark" /\ ctx'[p].to = "failed" /\ ctx[p].role = "manual"
          /\ ~CanTransitionLink(link[ctx[p].schedule].status, ctx[p].to)
       \/ pc'[p] = "finish" /\ ctx'[p].to = ctx[p].to /\ ctx[p].role = "worker"
          /\ \/ ~CanTransitionLink(link[ctx[p].schedule].status, ctx[p].to)
             \/ "database" \in Environment

LEMMA MarkDoes ==
    ASSUME IInv, NEW p \in Process, MarkLink(p)
    PROVE  MarkDone(p)
<1>1. ctx \in [Process -> Context] /\ pc \in [Process -> Label] /\ pc[p] = "mark"
      /\ UNCHANGED <<schedule, connection, link, job, event, batch>>
  BY DEF IInv, TypeOK, MarkLink, rows
<1>2. PICK c \in Context : c = ctx[p]
  BY <1>1
<1>3. CASE /\ ctx' = [ctx EXCEPT ![p].row = link[c.schedule]] /\ Goto(p, "save")
  <2> DEFINE d == [c EXCEPT !.row = link[c.schedule]]
  <2>1. ctx' = [ctx EXCEPT ![p] = d]
    BY <1>1, <1>2, <1>3
  <2>2. /\ d.role = c.role /\ d.schedule = c.schedule /\ d.key = c.key /\ d.to = c.to
        /\ d.action = c.action /\ d.user = c.user /\ d.event = c.event
        /\ d.row = link[c.schedule]
    BY DEF Context
  <2> HIDE DEF d
  <2>3. pc'[p] = "save" /\ ctx'[p] = d /\ OthersWait(p)
    BY <1>1, <1>3, <2>1 DEF OthersWait, Goto
  <2> QED BY <1>1, <1>2, <2>2, <2>3 DEF MarkDone, SameWork, SameTask
<1>4. CASE /\ ~CanTransitionLink(link[c.schedule].status, c.to) /\ c.role = "manual"
           /\ ctx' = [ctx EXCEPT ![p].to = "failed"] /\ UNCHANGED pc
  <2> DEFINE d == [c EXCEPT !.to = "failed"]
  <2>1. ctx' = [ctx EXCEPT ![p] = d]
    BY <1>1, <1>2, <1>4
  <2>2. /\ d.role = c.role /\ d.schedule = c.schedule /\ d.key = c.key /\ d.to = "failed"
        /\ d.action = c.action /\ d.user = c.user /\ d.event = c.event
    BY DEF Context
  <2> HIDE DEF d
  <2>3. pc'[p] = "mark" /\ ctx'[p] = d /\ OthersWait(p)
    BY <1>1, <1>4, <2>1 DEF OthersWait
  <2> QED BY <1>1, <1>2, <1>4, <2>2, <2>3 DEF MarkDone, SameWork, SameTask
<1>5. CASE /\ \/ ~CanTransitionLink(link[c.schedule].status, c.to)
              \/ "database" \in Environment
           /\ c.role = "worker" /\ Goto(p, "finish") /\ UNCHANGED ctx
  BY <1>1, <1>2, <1>5 DEF MarkDone, OthersWait, SameWork, SameTask, Goto
<1> QED BY <1>2, <1>3, <1>4, <1>5 DEF MarkLink

SaveDone(p) ==
    LET c == ctx[p] row == link'[ctx[p].schedule] IN
    /\ pc[p] = "save" /\ OthersWait(p) /\ c.schedule \in Schedule
    /\ UNCHANGED <<schedule, connection, job, event, batch>>
    /\ \A s \in Schedule \ {c.schedule} : link'[s] = link[s]
    /\ row.status = c.to
    /\ c.to = "synced" => row.event = c.event
    /\ c.to = "disconnected" => row.event = None
    /\ c.to \notin {"synced", "disconnected"} => row.event = c.row.event
    /\ \/ c.role = "manual" /\ c.to # "pending" /\ pc'[p] = "idle"
       \/ /\ ~(c.role = "manual" /\ c.to # "pending")
          /\ pc'[p] = AfterSave(c) /\ SameWork(p)
          /\ ctx'[p].event = c.event /\ ctx'[p].to = c.to

LEMMA SaveDoes ==
    ASSUME IInv, NEW p \in Process, SaveLink(p)
    PROVE  SaveDone(p)
<1>1. /\ ctx \in [Process -> Context] /\ pc \in [Process -> Label] /\ pc[p] = "save"
      /\ link \in [Schedule -> LinkRow]
      /\ UNCHANGED <<schedule, connection, job, event, batch>>
  BY DEF IInv, TypeOK, SaveLink
<1>2. PICK c \in Context : c = ctx[p]
  BY <1>1
<1>3. c.schedule \in Schedule /\ c.row \in LinkRow
  BY <1>1, <1>2, Running DEF LocalsOK, Context
<1>4. /\ \A s \in Schedule \ {c.schedule} : link'[s] = link[s]
      /\ link'[c.schedule] = Marked(c.row, c.to, c.event)
  BY <1>1, <1>2, <1>3 DEF SaveLink
<1>5. /\ Marked(c.row, c.to, c.event).status = c.to
      /\ c.to = "synced" => Marked(c.row, c.to, c.event).event = c.event
      /\ c.to = "disconnected" => Marked(c.row, c.to, c.event).event = None
      /\ c.to \notin {"synced", "disconnected"} => Marked(c.row, c.to, c.event).event = c.row.event
  BY <1>3 DEF Marked, LinkRow, Context
<1>6. OthersWait(p) /\
      \/ c.role = "manual" /\ c.to # "pending" /\ pc'[p] = "idle"
      \/ /\ ~(c.role = "manual" /\ c.to # "pending")
         /\ pc'[p] = AfterSave(c) /\ SameWork(p)
         /\ ctx'[p].event = c.event /\ ctx'[p].to = c.to
  <2>1. CASE c.role = "manual" /\ c.to # "pending"
    BY <1>1, <1>2, <2>1 DEF SaveLink, Return, Goto, OthersWait
  <2>2. CASE ~(c.role = "manual" /\ c.to # "pending")
    <3> DEFINE d == [c EXCEPT !.row = NoLink]
    <3>1. ctx' = [ctx EXCEPT ![p] = d] /\ pc' = [pc EXCEPT ![p] = AfterSave(c)]
      BY <1>1, <1>2, <2>2 DEF SaveLink, Goto
    <3>2. /\ d.role = c.role /\ d.schedule = c.schedule /\ d.key = c.key /\ d.to = c.to
          /\ d.action = c.action /\ d.user = c.user /\ d.event = c.event
      BY DEF Context
    <3> HIDE DEF d
    <3> QED BY <1>1, <1>2, <2>2, <3>1, <3>2 DEF OthersWait, SameWork, SameTask
  <2> QED BY <2>1, <2>2
<1> HIDE DEF Marked
<1> QED BY <1>1, <1>2, <1>3, <1>4, <1>5, <1>6 DEF SaveDone

\* The steps around a request to the provider.
AroundDone(p) ==
    /\ \/ pc[p] = "call" /\ pc'[p] = "send"
       \/ pc[p] = "reauth" /\ pc'[p] = "mark"
    /\ OthersWait(p) /\ UNCHANGED <<schedule, link, job, event, batch, ctx>>

LEMMA AroundDoes ==
    ASSUME IInv, NEW p \in Process,
           TokenStillValid(p) \/ RefreshToken(p) \/ MarkReauthorizationRequired(p)
    PROVE  AroundDone(p)
<1>1. pc \in [Process -> Label]
  BY DEF IInv, TypeOK
<1> QED BY <1>1 DEF TokenStillValid, RefreshToken, MarkReauthorizationRequired, OthersWait,
                    Goto, rows, AroundDone

\* The answer of the provider.
LEMMA AnswerDoes ==
    ASSUME IInv, NEW p \in Process, pc[p] = "send", NEW outcome, NEW e,
           Answer(p, outcome, e)
    PROVE  /\ pc'[p] = (IF outcome = "reauth" THEN "reauth" ELSE "mark")
           /\ OthersWait(p) /\ UNCHANGED <<schedule, connection, link, job, batch>>
           /\ SameWork(p) /\ ctx'[p].event = e
           /\ ctx'[p].to = StatusFor(ctx[p], outcome)
<1>1. ctx \in [Process -> Context] /\ pc \in [Process -> Label]
  BY DEF IInv, TypeOK
<1>2. PICK c \in Context : c = ctx[p]
  BY <1>1
<1>3. PICK to : to = StatusFor(c, outcome)
  OBVIOUS
<1> DEFINE d == [c EXCEPT !.outcome = outcome, !.event = e, !.to = to,
                          !.token = "absent", !.version = 0]
<1>4. ctx' = [ctx EXCEPT ![p] = d]
  BY <1>1, <1>2, <1>3 DEF Answer
<1>5. PICK l : l = (IF outcome = "reauth" THEN "reauth" ELSE "mark")
  OBVIOUS
<1>6. pc' = [pc EXCEPT ![p] = l]
  BY <1>5 DEF Answer, Goto
<1>7. /\ d.role = c.role /\ d.schedule = c.schedule /\ d.key = c.key /\ d.to = to
      /\ d.action = c.action /\ d.user = c.user /\ d.event = e
  BY DEF Context
<1> HIDE DEF d
<1>8. pc'[p] = l /\ ctx'[p] = d /\ OthersWait(p)
  BY <1>1, <1>4, <1>6 DEF OthersWait
<1>9. UNCHANGED <<schedule, connection, link, job, batch>>
  BY DEF Answer, rows
<1> QED BY <1>2, <1>3, <1>5, <1>7, <1>8, <1>9 DEF SameWork, SameTask

\* A request to the provider creates an event, changes or removes the one it
\* was given, or changes none.
SendDone(p) ==
    LET c == ctx[p] d == ctx'[p] IN
    /\ pc[p] = "send" /\ OthersWait(p) /\ SameWork(p)
    /\ UNCHANGED <<schedule, connection, link, job, batch>>
    /\ pc'[p] \in {"mark", "reauth"}
    /\ pc'[p] = "reauth" => d.to = "failed" /\ "reauth" \in Environment
    /\ \/ /\ c.action = "create"
          /\ \E e \in Event :
                /\ event[e].state = "unused"
                /\ event'[e].state = "live" /\ event'[e].schedule = c.schedule
                /\ event'[e].calendar = c.user /\ event'[e].version = c.version
                /\ \A o \in Event \ {e} : event'[o] = event[o]
                /\ \/ d.to = "synced" /\ d.event = e
                   \/ d.to = "failed" /\ d.event = None /\ "lost" \in Environment
       \/ /\ c.action = "update" /\ Found(c) /\ d.event = c.event
          /\ \A e \in Event :
                /\ event'[e].state = event[e].state
                /\ event'[e].schedule = event[e].schedule
                /\ event'[e].calendar = event[e].calendar
                /\ e # c.event => event'[e] = event[e]
          /\ event'[c.event].version = c.version
          /\ d.to \in {"synced", "failed"}
          /\ d.to = "failed" => "lost" \in Environment
       \/ /\ c.action = "delete" /\ Found(c) /\ d.event = c.event
          /\ \A e \in Event \ {c.event} : event'[e] = event[e]
          /\ event'[c.event].state = "gone"
          /\ event'[c.event].schedule = event[c.event].schedule
          /\ event'[c.event].calendar = event[c.event].calendar
          /\ d.to \in {"disconnected", "failed"}
          /\ d.to = "failed" => "lost" \in Environment
       \/ /\ event' = event /\ d.event = c.event
          /\ d.to \in {"failed", "disconnected"}
          /\ d.to = "disconnected" => c.action = "delete"
          /\ \/ c.action # "create" /\ ~Found(c)
             \/ c.action = "create" /\ Full
             \/ Environment \cap {"error", "reauth"} # {}

LEMMA SendDoes ==
    ASSUME IInv, NEW p \in Process,
           \/ CreateEvent(p) \/ UpdateEvent(p) \/ DeleteEvent(p) \/ EventMissing(p)
           \/ Refuse(p) \/ RefuseAuthorization(p)
    PROVE  SendDone(p)
<1>1. event \in [Event -> EventRow]
  BY DEF IInv, TypeOK
<1>2. pc[p] = "send"
  BY DEF CreateEvent, UpdateEvent, DeleteEvent, EventMissing, Refuse, RefuseAuthorization
<1>3. PICK c \in Context : c = ctx[p]
  BY <1>2, Running
<1>4. "lost" \in Environment \/ Obeyed = {"ok"}
  BY DEF Obeyed
<1>o. Obeyed \subseteq {"ok", "error"}
  BY DEF Obeyed
<1>s. /\ StatusFor(c, "ok") = (IF c.action = "delete" THEN "disconnected" ELSE "synced")
      /\ StatusFor(c, "error") = "failed" /\ StatusFor(c, "reauth") = "failed"
      /\ StatusFor(c, "reconciled") \in {"failed", IF c.action = "delete" THEN "disconnected" ELSE "synced"}
  BY DEF StatusFor
<1>5. CASE CreateEvent(p)
  <2>1. PICK e \in Event : \E outcome \in Obeyed :
          /\ event[e].state = "unused" /\ c.action = "create"
          /\ event' = [event EXCEPT ![e] =
                         [state |-> "live", calendar |-> c.user,
                          schedule |-> c.schedule, version |-> c.version]]
          /\ Answer(p, outcome, IF outcome = "ok" THEN e ELSE None)
    BY <1>3, <1>5 DEF CreateEvent
  <2>2. PICK outcome \in Obeyed : Answer(p, outcome, IF outcome = "ok" THEN e ELSE None)
    BY <2>1
  <2>3. /\ event'[e].state = "live" /\ event'[e].schedule = c.schedule
        /\ event'[e].calendar = c.user /\ event'[e].version = c.version
        /\ \A o \in Event \ {e} : event'[o] = event[o]
    BY <1>1, <2>1
  <2>4. /\ pc'[p] = "mark" /\ OthersWait(p) /\ UNCHANGED <<schedule, connection, link, job, batch>>
        /\ SameWork(p) /\ ctx'[p].event = (IF outcome = "ok" THEN e ELSE None)
        /\ ctx'[p].to = StatusFor(c, outcome)
    BY <1>2, <1>3, <1>o, <2>2, AnswerDoes
  <2> QED BY <1>2, <1>3, <1>4, <1>o, <1>s, <2>1, <2>3, <2>4 DEF SendDone
<1>6. CASE UpdateEvent(p)
  <2>1. /\ c.action = "update" /\ Found(c)
        /\ event' = [event EXCEPT ![c.event].version = c.version]
        /\ c.event \in Event
    BY <1>3, <1>6 DEF UpdateEvent, Found, Context
  <2>2. PICK outcome \in Obeyed : Answer(p, outcome, c.event)
    BY <1>3, <1>6 DEF UpdateEvent
  <2>3. /\ \A e \in Event :
             /\ event'[e].state = event[e].state
             /\ event'[e].schedule = event[e].schedule
             /\ event'[e].calendar = event[e].calendar
             /\ e # c.event => event'[e] = event[e]
        /\ event'[c.event].version = c.version
    BY <1>1, <2>1 DEF EventRow
  <2>4. /\ pc'[p] = "mark" /\ OthersWait(p) /\ UNCHANGED <<schedule, connection, link, job, batch>>
        /\ SameWork(p) /\ ctx'[p].event = c.event
        /\ ctx'[p].to = StatusFor(c, outcome)
    BY <1>2, <1>3, <1>o, <2>2, AnswerDoes
  <2> QED BY <1>2, <1>3, <1>4, <1>o, <1>s, <2>1, <2>3, <2>4 DEF SendDone
<1>7. CASE DeleteEvent(p)
  <2>1. /\ c.action = "delete" /\ Found(c)
        /\ event' = [event EXCEPT ![c.event].state = "gone"]
        /\ c.event \in Event
    BY <1>3, <1>7 DEF DeleteEvent, Found, Context
  <2>2. PICK outcome \in Obeyed : Answer(p, outcome, c.event)
    BY <1>3, <1>7 DEF DeleteEvent
  <2>3. /\ \A e \in Event \ {c.event} : event'[e] = event[e]
        /\ event'[c.event].state = "gone"
        /\ event'[c.event].schedule = event[c.event].schedule
        /\ event'[c.event].calendar = event[c.event].calendar
    BY <1>1, <2>1 DEF EventRow
  <2>4. /\ pc'[p] = "mark" /\ OthersWait(p) /\ UNCHANGED <<schedule, connection, link, job, batch>>
        /\ SameWork(p) /\ ctx'[p].event = c.event
        /\ ctx'[p].to = StatusFor(c, outcome)
    BY <1>2, <1>3, <1>o, <2>2, AnswerDoes
  <2> QED BY <1>2, <1>3, <1>4, <1>o, <1>s, <2>1, <2>3, <2>4 DEF SendDone
<1>8. CASE EventMissing(p)
  <2>1. c.action # "create" /\ ~Found(c) /\ event' = event
    BY <1>3, <1>8 DEF EventMissing
  <2>2. PICK outcome \in {"reconciled", "error"} :
          /\ outcome = "reconciled" => c.action = "delete"
          /\ Answer(p, outcome, c.event)
    BY <1>3, <1>8 DEF EventMissing
  <2>3. /\ pc'[p] = "mark" /\ OthersWait(p) /\ UNCHANGED <<schedule, connection, link, job, batch>>
        /\ SameWork(p) /\ ctx'[p].event = c.event
        /\ ctx'[p].to = StatusFor(c, outcome)
    BY <1>2, <1>3, <2>2, AnswerDoes
  <2> QED BY <1>2, <1>3, <1>s, <2>1, <2>2, <2>3 DEF SendDone
<1>9. CASE Refuse(p)
  <2>1. /\ event' = event /\ Answer(p, "error", c.event)
        /\ "error" \notin Environment => c.action = "create" /\ Full
    BY <1>3, <1>9 DEF Refuse, Full
  <2>2. /\ pc'[p] = "mark" /\ OthersWait(p) /\ UNCHANGED <<schedule, connection, link, job, batch>>
        /\ SameWork(p) /\ ctx'[p].event = c.event
        /\ ctx'[p].to = StatusFor(c, "error")
    BY <1>2, <1>3, <2>1, AnswerDoes
  <2> QED BY <1>2, <1>3, <1>s, <2>1, <2>2 DEF SendDone
<1>10. CASE RefuseAuthorization(p)
  <2>1. event' = event /\ Answer(p, "reauth", c.event) /\ "reauth" \in Environment
    BY <1>3, <1>10 DEF RefuseAuthorization
  <2>2. /\ pc'[p] = "reauth" /\ OthersWait(p) /\ UNCHANGED <<schedule, connection, link, job, batch>>
        /\ SameWork(p) /\ ctx'[p].event = c.event
        /\ ctx'[p].to = StatusFor(c, "reauth")
    BY <1>2, <1>3, <2>1, AnswerDoes
  <2> QED BY <1>2, <1>3, <1>s, <2>1, <2>2 DEF SendDone
<1> QED BY <1>5, <1>6, <1>7, <1>8, <1>9, <1>10

-------------------------------------------------------------------------------
\* Claims, delays that elapse, connections and removals: nobody moves, and no
\* job appears or is decided.
Rest ==
    /\ UNCHANGED <<link, event, pc, ctx>>
    /\ \A k \in JobKey : /\ Unsettled(k)' <=> Unsettled(k)
                         /\ job'[k].status = "absent" <=> job[k].status = "absent"
    /\ \A s \in Schedule : /\ schedule'[s].version = schedule[s].version
                           /\ schedule'[s].live => schedule[s].live

LEMMA RestDoes ==
    ASSUME IInv,
           \/ \E w \in Worker : ClaimDueJobs(w)
           \/ \E k \in JobKey : BackoffElapses(k)
           \/ \E u \in User : ConnectProvider(u)
           \/ \E s \in Schedule : RemoveSchedule(s)
           \/ UNCHANGED vars
    PROVE  Rest
<1>0. TypeOK
  BY DEF IInv
<1>1. ASSUME NEW w \in Worker, ClaimDueJobs(w) PROVE Rest
  <2>1. PICK claimed \in SUBSET DueJobs :
           job' = [k \in JobKey |->
                     IF k \in claimed
                        THEN [status |-> "processing", due |-> FALSE,
                              attempts |-> job[k].attempts + 1]
                        ELSE job[k]]
    BY <1>1 DEF ClaimDueJobs
  <2>2. UNCHANGED <<schedule, link, event, pc, ctx>>
    BY <1>1 DEF ClaimDueJobs
  <2>3. \A k \in JobKey : /\ job'[k].status = "absent" <=> job[k].status = "absent"
                          /\ Unsettled(k) <=> Unsettled(k)'
    BY <2>1 DEF DueJobs, Unsettled
  <2> QED BY <2>2, <2>3 DEF Rest
<1>2. ASSUME NEW j \in JobKey, BackoffElapses(j) PROVE Rest
  <2>1. UNCHANGED <<schedule, link, event, pc, ctx>>
        /\ job' = [job EXCEPT ![j].due = TRUE]
    BY <1>2 DEF BackoffElapses
  <2>2. \A k \in JobKey : job'[k].status = job[k].status
    BY <1>0, <2>1 DEF TypeOK, JobRow
  <2> QED BY <2>1, <2>2 DEF Rest, Unsettled
<1>3. ASSUME NEW u \in User, ConnectProvider(u) PROVE Rest
  BY <1>3 DEF ConnectProvider, Rest, Unsettled
<1>4. ASSUME NEW s \in Schedule, RemoveSchedule(s) PROVE Rest
  <2>1. UNCHANGED <<link, event, job, pc, ctx>>
    BY <1>0, <1>4, RemoveAsksNothing DEF RemoveSchedule
  <2>2. \A t \in Schedule : /\ schedule'[t].version = schedule[t].version
                            /\ schedule'[t].live => schedule[t].live
    BY <1>0, <1>4 DEF RemoveSchedule, ScheduleRow, TypeOK
  <2> QED BY <2>1, <2>2 DEF Rest, Unsettled
<1>5. CASE UNCHANGED vars
  BY <1>5 DEF vars, Rest, Unsettled
<1> QED BY <1>1, <1>2, <1>3, <1>4, <1>5

StartDone(w, k) ==
    LET s == k.schedule d == ctx'[w] IN
    /\ pc[w] = "idle" /\ k \in batch[w] /\ OthersWait(w) /\ s \in Schedule
    /\ UNCHANGED <<schedule, connection, link, job, event, batch>>
    /\ d.role = "worker" /\ d.schedule = s /\ d.key = k /\ d.action = k.action
    /\ d.event = link[s].event /\ d.to = "pending"
    /\ d.version = schedule[s].version
    /\ pc'[w] = IF k.action = "delete" \/ schedule[s].live THEN "call" ELSE "finish"

LEMMA StartDoes ==
    ASSUME IInv, NEW w \in Worker, NEW k \in JobKey, StartJob(w, k)
    PROVE  StartDone(w, k)
<1> DEFINE row == link[k.schedule]
           found == k.action = "delete" \/ schedule[k.schedule].live
           d == StartLocals(k, row.event, row.connection,
                            connection[row.connection],
                            schedule[k.schedule].version,
                            IF found THEN "ok" ELSE "error")
           l == IF found THEN "call" ELSE "finish"
<1>1. /\ pc[w] = "idle" /\ k \in batch[w] /\ w \in Process
      /\ UNCHANGED <<schedule, connection, link, job, event, batch>>
      /\ ctx' = [ctx EXCEPT ![w] = d] /\ pc' = [pc EXCEPT ![w] = l]
  BY DEF StartJob, StartLocals, Content, Goto, Process, rows
<1>2. k.schedule \in Schedule
  BY DEF JobKey
<1>3. /\ d.role = "worker" /\ d.schedule = k.schedule /\ d.key = k /\ d.action = k.action
      /\ d.event = row.event /\ d.to = "pending" /\ d.version = schedule[k.schedule].version
  BY DEF StartLocals, Blank
<1> HIDE DEF d
<1>4. pc'[w] = l /\ ctx'[w] = d /\ OthersWait(w)
  BY <1>1 DEF IInv, TypeOK, OthersWait
<1> QED BY <1>1, <1>2, <1>3, <1>4 DEF StartDone

FinishDone(w) ==
    LET k == ctx[w].key IN
    /\ pc[w] = "finish" /\ pc'[w] = "idle" /\ OthersWait(w) /\ k \in JobKey
    /\ UNCHANGED <<schedule, connection, link, event>>
    /\ \A j \in JobKey \ {k} : job'[j] = job[j]
    /\ Unsettled(k) /\ job'[k].status \in {"succeeded", "dead", "failed"}

LEMMA FinishDoes ==
    ASSUME IInv, NEW w \in Worker, FinishJob(w)
    PROVE  FinishDone(w)
<1>0. TypeOK /\ w \in Process
  BY DEF IInv, Process
<1>1. PICK k : k = ctx[w].key
  OBVIOUS
<1>2. /\ pc[w] = "finish" /\ UNCHANGED <<schedule, connection, link, event>>
      /\ job' = [job EXCEPT ![k] = Finished(job[k], ctx[w].outcome)]
      /\ pc'[w] = "idle" /\ OthersWait(w)
  BY <1>0, <1>1 DEF FinishJob, Return, Goto, TypeOK, OthersWait
<1>3. k \in batch[w] /\ k \in JobKey
  BY <1>0, <1>1, <1>2, Task DEF TypeOK
<1>4. job[k].status = "processing"
  BY <1>3 DEF IInv, ClaimExclusive
<1>5. job'[k].status \in {"succeeded", "dead", "failed"}
  BY <1>0, <1>2, <1>3 DEF Finished, TypeOK, JobRow
<1>6. \A j \in JobKey \ {k} : job'[j] = job[j]
  BY <1>0, <1>2 DEF TypeOK
<1> HIDE DEF Finished
<1> QED BY <1>1, <1>2, <1>3, <1>4, <1>5, <1>6 DEF FinishDone, Unsettled

-------------------------------------------------------------------------------
\* The edit of a schedule, and the job it asks for.
EditDone(r, s) ==
    LET d == ctx'[r] IN
    /\ pc[r] = "idle" /\ pc'[r] = "enqueue" /\ OthersWait(r)
    /\ d.role = "edit" /\ d.schedule = s /\ d.event = None
    /\ UNCHANGED <<connection, link, job, event>>
    /\ \A t \in Schedule : schedule'[t].live = schedule[t].live
    /\ \A t \in Schedule \ {s} : schedule'[t] = schedule[t]

LEMMA EditDoes ==
    ASSUME IInv, NEW r \in Request, NEW s \in Schedule, EditSchedule(r, s)
    PROVE  EditDone(r, s)
<1>1. /\ ctx \in [Process -> Context] /\ pc \in [Process -> Label] /\ r \in Process
      /\ schedule \in [Schedule -> ScheduleRow]
  BY DEF IInv, TypeOK, Process
<1>2. /\ pc[r] = "idle" /\ schedule' = [schedule EXCEPT ![s].version = @ + 1]
      /\ UNCHANGED <<connection, link, job, event>> /\ OthersWait(r)
      /\ pc'[r] = "enqueue" /\ ctx'[r].role = "edit" /\ ctx'[r].schedule = s
      /\ ctx'[r].event = None
  BY <1>1 DEF EditSchedule, Goto, OthersWait, Blank
<1>3. /\ \A t \in Schedule : schedule'[t].live = schedule[t].live
      /\ \A t \in Schedule \ {s} : schedule'[t] = schedule[t]
  BY <1>1, <1>2 DEF ScheduleRow
<1> QED BY <1>2, <1>3 DEF EditDone

LoadMutationDone(r) ==
    LET c == ctx[r] d == ctx'[r] l == link[c.schedule] IN
    /\ pc[r] = "enqueue" /\ c.role = "edit" /\ c.schedule \in Schedule /\ OthersWait(r)
    /\ UNCHANGED <<schedule, connection, link, job, event>>
    /\ \/ /\ pc'[r] = "idle"
          /\ ~schedule[c.schedule].live \/ l.status \in {"absent", "disconnected"}
       \/ /\ pc'[r] = "mark" /\ d.role = "edit" /\ d.schedule = c.schedule
          /\ d.event = c.event /\ d.to = "pending"
          /\ schedule[c.schedule].live /\ l.status \notin {"absent", "disconnected"}
          /\ d.key.action = (IF l.event = None THEN "create" ELSE "update")

LEMMA LoadMutationDoes ==
    ASSUME IInv, NEW r \in Request, LoadMutation(r)
    PROVE  LoadMutationDone(r)
<1>1. /\ ctx \in [Process -> Context] /\ pc \in [Process -> Label] /\ r \in Process
      /\ pc[r] = "enqueue" /\ UNCHANGED <<schedule, connection, link, job, event>>
  BY DEF IInv, TypeOK, Process, LoadMutation, rows
<1>2. PICK c \in Context : c = ctx[r]
  BY <1>1
<1>3. c.role = "edit" /\ c.to = "pending" /\ c.schedule \in Schedule
  BY <1>1, <1>2, Running DEF LocalsOK, Context, CalendarAssumption, Process
<1> DEFINE keys == Mutation("update", c.schedule, schedule[c.schedule], link[c.schedule])
<1>4. CASE keys = {} /\ Return(r)
  <2>1. pc'[r] = "idle" /\ OthersWait(r)
    BY <1>1, <1>4 DEF Return, Goto, OthersWait
  <2>2. ~schedule[c.schedule].live \/ link[c.schedule].status \in {"absent", "disconnected"}
    BY <1>4 DEF Mutation, NothingToSync
  <2> QED BY <1>1, <1>2, <1>3, <2>1, <2>2 DEF LoadMutationDone
<1>5. ASSUME NEW k \in keys, ctx' = [ctx EXCEPT ![r].key = k], Goto(r, "mark")
      PROVE  LoadMutationDone(r)
  <2> DEFINE d == [c EXCEPT !.key = k]
  <2>1. ctx' = [ctx EXCEPT ![r] = d]
    BY <1>1, <1>2, <1>5
  <2>2. /\ d.role = "edit" /\ d.schedule = c.schedule /\ d.key = k
        /\ d.to = "pending" /\ d.event = c.event
    BY <1>3 DEF Context
  <2> HIDE DEF d
  <2>3. pc'[r] = "mark" /\ ctx'[r] = d /\ OthersWait(r)
    BY <1>1, <1>5, <2>1 DEF Goto, OthersWait
  <2>4. /\ schedule[c.schedule].live /\ link[c.schedule].status \notin {"absent", "disconnected"}
        /\ k.action = (IF link[c.schedule].event = None THEN "create" ELSE "update")
    BY <1>5 DEF Mutation, NothingToSync, KeyOf, ActionFor
  <2> QED BY <1>1, <1>2, <1>3, <2>2, <2>3, <2>4 DEF LoadMutationDone
<1> QED BY <1>2, <1>4, <1>5 DEF LoadMutation

InsertDone(r) ==
    LET k == ctx[r].key IN
    /\ pc[r] = "insert" /\ pc'[r] = "idle" /\ OthersWait(r) /\ ctx[r].role = "edit"
    /\ UNCHANGED <<schedule, connection, link, event>>
    /\ k \in JobKey /\ k.schedule = ctx[r].schedule
    /\ job[k].status = "absent" /\ job'[k].status = "pending"
    /\ \A j \in JobKey \ {k} : job'[j] = job[j]

LEMMA InsertDoes ==
    ASSUME IInv, WorkInv, NEW r \in Request, InsertJob(r)
    PROVE  InsertDone(r)
<1>1. /\ ctx \in [Process -> Context] /\ pc \in [Process -> Label] /\ r \in Process
      /\ pc[r] = "insert" /\ UNCHANGED <<schedule, connection, link, event>>
      /\ pc'[r] = "idle" /\ OthersWait(r)
  BY DEF IInv, TypeOK, Process, InsertJob, Return, Goto, OthersWait
<1>2. PICK c \in Context : c = ctx[r]
  BY <1>1
<1>3. c.role = "edit" /\ c.key \in JobKey /\ c.key.schedule = c.schedule /\ KeyIsNew(r)
  BY <1>1, <1>2, Running DEF LocalsOK, WorkInv, Context, CalendarAssumption, Process
<1>4. PICK k \in JobKey : k = c.key
  BY <1>3
<1>5. job[k].status = "absent"
  BY <1>1, <1>2, <1>3, <1>4, CalendarAssumption DEF KeyIsNew, JobKey
<1>6. job'[k].status = "pending" /\ \A j \in JobKey \ {k} : job'[j] = job[j]
  BY <1>2, <1>4, <1>5 DEF InsertJob, Enqueued
<1> QED BY <1>1, <1>2, <1>3, <1>4, <1>5, <1>6 DEF InsertDone

-------------------------------------------------------------------------------
\* The steps of a manual sync before it calls the provider.
BeginDone(r, s) ==
    LET d == ctx'[r] IN
    /\ pc[r] = "idle" /\ pc'[r] = "upsert" /\ OthersWait(r)
    /\ d.role = "manual" /\ d.schedule = s /\ d.event = None
    /\ UNCHANGED <<schedule, connection, link, job, event>>
    /\ ~UnsettledFor(s)

LEMMA BeginDoes ==
    ASSUME IInv, Sequential, NEW r \in Request, NEW s \in Schedule, NEW u \in User,
           NEW requested \in {"auto", "delete"}, BeginManualSync(r, s, u, requested)
    PROVE  BeginDone(r, s)
<1>1. ctx \in [Process -> Context] /\ pc \in [Process -> Label] /\ r \in Process
  BY DEF IInv, TypeOK, Process
<1> QED BY <1>1 DEF BeginManualSync, Goto, OthersWait, Blank, rows, BeginDone, Sequential

UpsertDone(r) ==
    LET c == ctx[r] d == ctx'[r] s == ctx[r].schedule IN
    /\ pc[r] = "upsert" /\ OthersWait(r) /\ c.role = "manual" /\ s \in Schedule
    /\ UNCHANGED <<schedule, connection, job, event>>
    /\ d.role = "manual" /\ d.schedule = s
    /\ \A t \in Schedule \ {s} : link'[t] = link[t]
    /\ IF link[s].status = "absent"
          THEN link'[s].status = "pending" /\ link'[s].event = None
          ELSE link' = link
    /\ d.event = IF link[s].connection = c.user THEN link[s].event ELSE None
    /\ d.action = IF c.action = "delete" THEN "delete"
                  ELSE IF d.event = None THEN "create" ELSE "update"
    /\ d.to = IF d.action = "delete" THEN "disconnected" ELSE "pending"
    /\ pc'[r] = IF d.action = "delete" /\ d.event # None THEN "call" ELSE "mark"

LEMMA UpsertDoes ==
    ASSUME IInv, NEW r \in Request, UpsertLink(r)
    PROVE  UpsertDone(r)
<1>1. /\ ctx \in [Process -> Context] /\ pc \in [Process -> Label] /\ r \in Process
      /\ pc[r] = "upsert" /\ UNCHANGED <<schedule, connection, job, event>>
      /\ link \in [Schedule -> LinkRow]
  BY DEF IInv, TypeOK, Process, UpsertLink
<1>2. PICK c \in Context : c = ctx[r]
  BY <1>1
<1>3. c.role = "manual" /\ c.schedule \in Schedule
  BY <1>1, <1>2, Running DEF LocalsOK, Context, CalendarAssumption, Process
<1>4. PICK e : e = IF link[c.schedule].connection = c.user
                      THEN link[c.schedule].event ELSE None
  OBVIOUS
<1>5. PICK action : action = IF c.action = "delete" THEN "delete"
                             ELSE IF e = None THEN "create" ELSE "update"
  OBVIOUS
<1>6. PICK to : to = IF action = "delete" THEN "disconnected" ELSE "pending"
  OBVIOUS
<1> DEFINE d == [c EXCEPT !.action = action, !.event = e, !.to = to]
<1>7. ctx' = [ctx EXCEPT ![r] = d]
  BY <1>1, <1>2, <1>4, <1>5, <1>6 DEF UpsertLink
<1>8. /\ d.role = "manual" /\ d.schedule = c.schedule
      /\ d.action = action /\ d.event = e /\ d.to = to
  BY <1>3 DEF Context
<1> HIDE DEF d
<1>9. /\ ctx'[r] = d /\ OthersWait(r)
      /\ pc'[r] = IF action = "delete" /\ e # None THEN "call" ELSE "mark"
  BY <1>1, <1>2, <1>4, <1>5, <1>7 DEF UpsertLink, Goto, OthersWait
<1>10. /\ \A t \in Schedule \ {c.schedule} : link'[t] = link[t]
       /\ IF link[c.schedule].status = "absent"
             THEN link'[c.schedule].status = "pending" /\ link'[c.schedule].event = None
             ELSE link' = link
  BY <1>1, <1>2, <1>3 DEF UpsertLink
<1> QED BY <1>1, <1>2, <1>3, <1>4, <1>5, <1>6, <1>8, <1>9, <1>10 DEF UpsertDone

LoadScheduleDone(r) ==
    LET c == ctx[r] d == ctx'[r] IN
    /\ pc[r] = "load" /\ OthersWait(r) /\ c.schedule \in Schedule /\ c.role = "manual"
    /\ UNCHANGED <<schedule, connection, link, job, event>>
    /\ IF schedule[c.schedule].live
          THEN /\ pc'[r] = "call" /\ SameWork(r) /\ d.event = c.event /\ d.to = c.to
               /\ d.version = schedule[c.schedule].version
          ELSE pc'[r] = "idle"

LEMMA LoadScheduleDoes ==
    ASSUME IInv, NEW r \in Request, LoadSchedule(r)
    PROVE  LoadScheduleDone(r)
<1>1. /\ ctx \in [Process -> Context] /\ pc \in [Process -> Label] /\ r \in Process
      /\ pc[r] = "load" /\ UNCHANGED <<schedule, connection, link, job, event>>
  BY DEF IInv, TypeOK, Process, LoadSchedule, rows
<1>2. PICK c \in Context : c = ctx[r]
  BY <1>1
<1>s. c.schedule \in Schedule /\ c.role = "manual"
  BY <1>1, <1>2, Running DEF LocalsOK, Context, CalendarAssumption, Process
<1>3. CASE schedule[c.schedule].live
  <2> DEFINE d == [c EXCEPT !.version = schedule[c.schedule].version]
  <2>1. ctx' = [ctx EXCEPT ![r] = d]
    BY <1>1, <1>2, <1>3 DEF LoadSchedule
  <2>2. /\ d.role = c.role /\ d.schedule = c.schedule /\ d.key = c.key /\ d.to = c.to
        /\ d.action = c.action /\ d.user = c.user /\ d.event = c.event
        /\ d.version = schedule[c.schedule].version
    BY DEF Context
  <2> HIDE DEF d
  <2>3. ctx'[r] = d /\ pc'[r] = "call" /\ OthersWait(r)
    BY <1>1, <1>2, <1>3, <2>1 DEF LoadSchedule, Goto, OthersWait
  <2> QED BY <1>1, <1>2, <1>s, <1>3, <2>2, <2>3 DEF LoadScheduleDone, SameWork, SameTask
<1>4. CASE ~schedule[c.schedule].live
  <2>1. pc'[r] = "idle" /\ OthersWait(r)
    BY <1>1, <1>2, <1>4 DEF LoadSchedule, Return, Goto, OthersWait
  <2> QED BY <1>1, <1>2, <1>s, <1>4, <2>1 DEF LoadScheduleDone
<1> QED BY <1>3, <1>4

-------------------------------------------------------------------------------
\* Where requests come one at a time and nobody disconnects, crashes or edits
\* silently, these are all the steps there are.
LEMMA StepShapes ==
    ASSUME IInv, WorkInv, Sequential, [Next]_vars
    PROVE  \/ Rest
           \/ \E p \in Process : MarkDone(p) \/ SaveDone(p) \/ AroundDone(p) \/ SendDone(p)
           \/ \E w \in Worker, k \in JobKey : StartDone(w, k)
           \/ \E w \in Worker : FinishDone(w)
           \/ \E r \in Request, s \in Schedule : EditDone(r, s) \/ BeginDone(r, s)
           \/ \E r \in Request : \/ LoadMutationDone(r) \/ InsertDone(r)
                                 \/ UpsertDone(r) \/ LoadScheduleDone(r)
<1> DEFINE Calls == \E p \in Process : MarkDone(p) \/ SaveDone(p) \/ AroundDone(p) \/ SendDone(p)
<1>0. ASSUME NEW p \in Process, CallProvider(p) PROVE Calls
  BY <1>0, MarkDoes, SaveDoes, AroundDoes, SendDoes DEF CallProvider
<1>1. ASSUME NEW w \in Worker, WorkerStep(w)
      PROVE  \/ Rest \/ Calls \/ FinishDone(w) \/ \E k \in JobKey : StartDone(w, k)
  <2>1. w \in Process
    BY DEF Process
  <2>2. ~FinishFails(w)
    BY DEF FinishFails, Sequential
  <2> QED BY <1>0, <1>1, <2>1, <2>2, RestDoes, StartDoes, FinishDoes DEF WorkerStep
<1>2. ASSUME NEW r \in Request, RequestStep(r)
      PROVE  \/ Calls \/ LoadMutationDone(r) \/ InsertDone(r)
             \/ UpsertDone(r) \/ LoadScheduleDone(r)
  <2>1. r \in Process
    BY DEF Process
  <2> QED BY <1>0, <1>2, <2>1, LoadMutationDoes, InsertDoes, UpsertDoes, LoadScheduleDoes,
             NoListing DEF RequestStep
<1>3. /\ \A r \in Request, u \in User : ~DisconnectProvider(r, u)
      /\ \A s \in Schedule : ~TouchSchedule(s)
      /\ \A p \in Process : ~Crash(p)
  BY DEF Sequential, DisconnectProvider, TouchSchedule, Crash
<1> HIDE DEF Calls
<1>4. CASE UNCHANGED vars
  BY <1>4, RestDoes
<1>5. ASSUME NEW k \in JobKey, BackoffElapses(k) PROVE Rest
  BY <1>5, RestDoes
<1>6. ASSUME NEW s \in Schedule, RemoveSchedule(s) PROVE Rest
  BY <1>6, RestDoes
<1>7. ASSUME NEW u \in User, ConnectProvider(u) PROVE Rest
  BY <1>7, RestDoes
<1>8. ASSUME NEW r \in Request, NEW s \in Schedule, EditSchedule(r, s) PROVE EditDone(r, s)
  BY <1>8, EditDoes
<1>9. ASSUME NEW r \in Request, NEW s \in Schedule, NEW u \in User,
             NEW requested \in {"auto", "delete"}, BeginManualSync(r, s, u, requested)
      PROVE  BeginDone(r, s)
  BY <1>9, BeginDoes
<1> USE DEF Calls
<1> QED BY <1>1, <1>2, <1>3, <1>4, <1>5, <1>6, <1>7, <1>8, <1>9 DEF Next

-------------------------------------------------------------------------------
(***************************************************************************)
(* No job ever deletes an event.                                           *)
(***************************************************************************)

\* An edit asks for a creation or an update.
Spares(r) ==
    pc[r] \in {"mark", "save", "insert"} /\ ctx[r].role = "edit" => ctx[r].key.action # "delete"

\* What the removal does, not what it is meant for: the deletion it asks for is
\* looked up after the soft delete, finds no schedule, and is dropped.
DeletionsDropped ==
    \A k \in JobKey : k.action = "delete" => job[k].status = "absent"

NoDeletes == DeletionsDropped /\ \A r \in Request : Spares(r)

\* A step of p that keeps its task asks for nothing new.
LEMMA SparesOn ==
    ASSUME IInv, NEW p \in Process, NEW r \in Request, Spares(r), OthersWait(p),
           r = p => \/ pc'[p] \notin {"mark", "save", "insert"} \/ ctx'[p].role # "edit"
                    \/ SameTask(p) /\ pc[p] \in {"mark", "save", "insert"}
    PROVE  Spares(r)'
BY DEF Spares, OthersWait, SameTask, Process

LEMMA CallSpares ==
    ASSUME IInv, NEW p \in Process, CallProvider(p), NEW r \in Request, Spares(r)
    PROVE  Spares(r)'
<1>0. ctx[p].role = "edit" => pc[p] \in {"idle", "enqueue", "mark", "save", "insert"}
  BY DEF IInv, LocalsOK
<1>1. ASSUME MarkDone(p) PROVE Spares(r)'
  BY <1>1, SparesOn DEF MarkDone, SameWork
<1>2. ASSUME SaveDone(p) PROVE Spares(r)'
  BY <1>2, SparesOn DEF SaveDone, SameWork
<1>3. ASSUME AroundDone(p) PROVE Spares(r)'
  BY <1>0, <1>3, SparesOn DEF AroundDone
<1>4. ASSUME SendDone(p) PROVE Spares(r)'
  <2>1. /\ pc[p] = "send" /\ OthersWait(p) /\ ctx'[p].role = ctx[p].role
    BY <1>4 DEF SendDone, SameWork, SameTask
  <2> QED BY <1>0, <2>1, SparesOn
<1> QED BY <1>1, <1>2, <1>3, <1>4, MarkDoes, SaveDoes, AroundDoes, SendDoes DEF CallProvider

LEMMA RequestSpares ==
    ASSUME IInv, NEW q \in Request, RequestStep(q), NEW r \in Request, Spares(r)
    PROVE  Spares(r)'
<1>0. q \in Process /\ ctx \in [Process -> Context] /\ pc \in [Process -> Label]
  BY DEF Process, IInv, TypeOK
<1>1. CASE LoadMutation(q)
  <2>1. LoadMutationDone(q)
    BY <1>1, LoadMutationDoes
  <2>2. ctx'[q].key.action # "delete" \/ pc'[q] = "idle"
    BY <2>1 DEF LoadMutationDone
  <2>3. OthersWait(q)
    BY <2>1 DEF LoadMutationDone
  <2> QED BY <1>0, <2>2, <2>3 DEF Spares, OthersWait, Process
<1>2. CASE InsertJob(q)
  <2>1. pc'[q] = "idle" /\ OthersWait(q)
    BY <1>0, <1>2 DEF InsertJob, Return, Goto, OthersWait
  <2> QED BY <1>0, <2>1, SparesOn
<1>3. CASE UpsertLink(q)
  <2>1. OthersWait(q) /\ ctx'[q].role = "manual"
    BY <1>3, UpsertDoes DEF UpsertDone
  <2> QED BY <1>0, <2>1, SparesOn
<1>4. CASE LoadSchedule(q)
  <2>1. OthersWait(q) /\ pc'[q] \in {"call", "idle"}
    BY <1>4, LoadScheduleDoes DEF LoadScheduleDone
  <2> QED BY <1>0, <2>1, SparesOn
<1>5. CASE ListLinks(q)
  <2>1. OthersWait(q) /\ pc'[q] = "unlink"
    BY <1>0, <1>5 DEF ListLinks, Goto, OthersWait
  <2> QED BY <1>0, <2>1, SparesOn
<1>6. CASE NextLink(q)
  <2>1. pc[q] = "unlink" /\ LocalsOK(q)
    BY <1>0, <1>6, Running DEF NextLink
  <2>2. ctx[q].role = "disconnect"
    BY <1>0, <2>1 DEF LocalsOK, Context
  <2>3. /\ OthersWait(q)
        /\ pc'[q] = "idle" \/ (pc'[q] = "mark" /\ ctx'[q].role = ctx[q].role)
    <3>1. CASE Return(q)
      BY <1>0, <3>1 DEF Return, Goto, OthersWait
    <3>2. ASSUME NEW s, ctx' = [ctx EXCEPT ![q].todo = @ \ {s}, ![q].schedule = s],
                 Goto(q, "mark")
          PROVE  OthersWait(q) /\ pc'[q] = "mark" /\ ctx'[q].role = ctx[q].role
      BY <1>0, <3>2 DEF Goto, OthersWait, Context
    <3> QED BY <1>6, <3>1, <3>2 DEF NextLink
  <2> QED BY <1>0, <2>2, <2>3, SparesOn
<1> QED BY <1>0, <1>1, <1>2, <1>3, <1>4, <1>5, <1>6, CallSpares DEF RequestStep

LEMMA NoDeletesStep ==
    ASSUME IInv, NoDeletes, [Next]_vars
    PROVE  NoDeletes'
<1>0. /\ ctx \in [Process -> Context] /\ pc \in [Process -> Label]
      /\ \A q \in Request \cup Worker : q \in Process
  BY DEF IInv, TypeOK, Process
<1>1. DeletionsDropped'
  <2>1. ASSUME NEW w \in Worker, ClaimDueJobs(w) PROVE DeletionsDropped'
    BY <2>1, Claimed DEF NoDeletes, DeletionsDropped
  <2>2. ASSUME NEW w \in Worker, FinishJob(w) PROVE DeletionsDropped'
    BY <2>2, Decided DEF NoDeletes, DeletionsDropped
  <2>3. ASSUME NEW k \in JobKey, BackoffElapses(k) PROVE DeletionsDropped'
    BY <2>3, Waited DEF NoDeletes, DeletionsDropped
  <2>4. ASSUME NEW r \in Request, InsertJob(r) PROVE DeletionsDropped'
    <3>1. pc[r] = "insert" /\ job' = Enqueued({ctx[r].key}) /\ LocalsOK(r) /\ ctx[r] \in Context
      BY <1>0, <2>4, Running DEF InsertJob
    <3>2. ctx[r].role = "edit"
      BY <1>0, <3>1, CalendarAssumption DEF LocalsOK, Context
    <3>3. ctx[r].key.action # "delete"
      BY <3>1, <3>2 DEF NoDeletes, Spares
    <3> QED BY <3>1, <3>3 DEF Enqueued, NoDeletes, DeletionsDropped
  <2> QED BY <2>1, <2>2, <2>3, <2>4, JobChanges DEF NoDeletes, DeletionsDropped
<1>2. ASSUME NEW r \in Request PROVE Spares(r)'
  <2>0. Spares(r)
    BY DEF NoDeletes
  <2>1. ASSUME UNCHANGED <<pc, ctx>> PROVE Spares(r)'
    BY <2>0, <2>1 DEF Spares
  <2>2. ASSUME NEW w \in Worker, WorkerStep(w) PROVE Spares(r)'
    <3>1. w # r /\ w \in Process
      BY <1>0, CalendarAssumption
    <3>2. ASSUME NEW k \in JobKey, StartJob(w, k) PROVE Spares(r)'
      BY <2>0, <3>1, <3>2, SparesOn, StartDoes DEF StartDone
    <3>3. ASSUME FinishJob(w) PROVE Spares(r)'
      BY <2>0, <3>1, <3>3, SparesOn, FinishDoes DEF FinishDone
    <3>4. ASSUME ClaimDueJobs(w) PROVE Spares(r)'
      BY <2>1, <3>4 DEF ClaimDueJobs
    <3>5. ASSUME FinishFails(w) PROVE Spares(r)'
      <4>1. OthersWait(w)
        BY <1>0, <3>5 DEF FinishFails, Return, Goto, OthersWait
      <4> QED BY <2>0, <3>1, <4>1, SparesOn
    <3> QED BY <2>0, <2>2, <3>1, <3>2, <3>3, <3>4, <3>5, CallSpares DEF WorkerStep
  <2>3. ASSUME NEW q \in Request, NEW s \in Schedule, EditSchedule(q, s) PROVE Spares(r)'
    BY <1>0, <2>0, <2>3, SparesOn, EditDoes DEF EditDone
  <2>4. ASSUME NEW q \in Request, NEW s \in Schedule, NEW u \in User,
               NEW requested \in {"auto", "delete"}, BeginManualSync(q, s, u, requested)
        PROVE  Spares(r)'
    <3>1. OthersWait(q) /\ pc'[q] = "upsert"
      BY <1>0, <2>4 DEF BeginManualSync, Goto, OthersWait
    <3> QED BY <1>0, <2>0, <3>1, SparesOn
  <2>5. ASSUME NEW q \in Request, NEW u \in User, DisconnectProvider(q, u) PROVE Spares(r)'
    <3>1. OthersWait(q) /\ pc'[q] = "list"
      BY <1>0, <2>5 DEF DisconnectProvider, Goto, OthersWait
    <3> QED BY <1>0, <2>0, <3>1, SparesOn
  <2>6. ASSUME NEW p \in Process, Crash(p) PROVE Spares(r)'
    <3>1. OthersWait(p) /\ pc'[p] = "idle"
      BY <1>0, <2>6 DEF Crash, Return, Goto, OthersWait
    <3> QED BY <1>0, <2>0, <3>1, SparesOn
  <2>7. ASSUME NEW k \in JobKey, BackoffElapses(k) PROVE Spares(r)'
    BY <2>1, <2>7 DEF BackoffElapses
  <2>8. ASSUME NEW s \in Schedule, RemoveSchedule(s) \/ TouchSchedule(s) PROVE Spares(r)'
    BY <2>1, <2>8 DEF RemoveSchedule, TouchSchedule
  <2>9. ASSUME NEW u \in User, ConnectProvider(u) PROVE Spares(r)'
    BY <2>1, <2>9 DEF ConnectProvider
  <2>10. CASE UNCHANGED vars
    BY <2>1, <2>10 DEF vars
  <2> QED BY <2>0, <2>2, <2>3, <2>4, <2>5, <2>6, <2>7, <2>8, <2>9, <2>10, RequestSpares DEF Next
<1> QED BY <1>1, <1>2 DEF NoDeletes

\* No deletion is queued, and no request that is about to insert a job or mark a
\* link for an edit asks for one (enqueueCalendarSyncMutation).
THEOREM DeletesSpared == Spec => []NoDeletes
<1>1. Init => NoDeletes
  BY DEF Init, NoDeletes, DeletionsDropped, Spares, NoJob, Process
<1>2. IInv /\ NoDeletes /\ [Next]_vars => NoDeletes'
  BY NoDeletesStep
<1> QED BY <1>1, <1>2, Invariant, PTL DEF Spec

-------------------------------------------------------------------------------
(***************************************************************************)
(* Requests that come one at a time keep out of the way of the queue.      *)
(***************************************************************************)

\* Events that were created stay what they were created for.
EventsStay ==
    \A e \in Event : event[e].state # "unused" =>
        /\ event'[e].state # "unused" /\ event'[e].schedule = event[e].schedule
        /\ event'[e].calendar = event[e].calendar

\* A step of p after which OrderInv holds again.
OrderStep(p) ==
    /\ OthersWait(p) /\ EventsStay
    /\ NamesOwn(p)' /\ (p \in Worker => WorkerSpares(p)') /\ (p \in Request => EditConnected(p)')
    /\ \A s \in Schedule : UnsettledFor(s)' =>
          \/ UnsettledFor(s)
          \/ p \in Request /\ ~Manual(p, s)' /\ link'[s].status # "disconnected"
    /\ \A s \in Schedule : p \in Request /\ Manual(p, s)' => Manual(p, s) \/ ~UnsettledFor(s)
    /\ \A s \in Schedule :
          \/ link'[s] = link[s]
          \/ /\ OwnedBy(link'[s].event, s)
             /\ link'[s].status = "disconnected" => p \in Request /\ ~UnsettledFor(s)

\* What is owned stays owned.
LEMMA OwnedStays ==
    ASSUME EventsStay, NEW s, NEW e \in Event \cup {None}, OwnedBy(e, s)
    PROVE  OwnedBy(e, s)'
BY DEF EventsStay, OwnedBy

LEMMA OrderOn ==
    ASSUME IInv, IInv', Sequential, OrderInv, NEW p \in Process, OrderStep(p)
    PROVE  OrderInv'
<1>0. /\ \A r, q \in Request : r = q
      /\ Process = Worker \cup Request /\ Worker \cap Request = {}
  BY CalendarAssumption DEF Sequential, Process
<1>1. ASSUME NEW s \in Schedule PROVE OwnedBy(link[s].event, s)'
  <2>1. PICK e \in Event \cup {None} : e = link'[s].event
    BY DEF IInv, TypeOK, LinkRow
  <2>2. OwnedBy(e, s)
    BY <2>1 DEF OrderStep, OrderInv
  <2>3. OwnedBy(e, s)'
    BY <2>2, OwnedStays DEF OrderStep
  <2> QED BY <2>1, <2>3 DEF OwnedBy
<1>2. ASSUME NEW q \in Process PROVE NamesOwn(q)'
  <2>1. SUFFICES ASSUME q # p, pc[q] # "idle" PROVE NamesOwn(q)'
    BY DEF OrderStep, NamesOwn, OthersWait
  <2>2. /\ NamesOwn(q) /\ pc'[q] = pc[q] /\ ctx'[q] = ctx[q] /\ ctx[q] \in Context
    BY <2>1, Running DEF OrderInv, OrderStep, OthersWait
  <2>3. PICK e \in Event \cup {None}, f \in Event \cup {None} :
           e = ctx[q].event /\ f = ctx[q].row.event
    BY <2>2 DEF Context, LinkRow
  <2>s. PICK s : s = ctx[q].schedule
    OBVIOUS
  <2>4. /\ OwnedBy(e, s) => OwnedBy(e, s)'
        /\ OwnedBy(f, s) => OwnedBy(f, s)'
    BY OwnedStays DEF OrderStep
  <2> QED BY <2>1, <2>2, <2>3, <2>s, <2>4 DEF NamesOwn, OwnedBy
<1>3. ASSUME NEW w \in Worker PROVE WorkerSpares(w)'
  BY <1>0 DEF OrderInv, OrderStep, WorkerSpares, OthersWait
<1>4. ASSUME NEW r \in Request PROVE EditConnected(r)'
  <2>1. SUFFICES ASSUME r # p, EditConnected(r),
                        pc[r] \in {"mark", "save", "insert"}, ctx[r].role = "edit",
                        pc'[r] = pc[r], ctx'[r] = ctx[r]
                 PROVE  link'[ctx[r].schedule].status # "disconnected"
    BY <1>0 DEF OrderInv, OrderStep, OthersWait, EditConnected
  <2>2. p \notin Request /\ ctx[r].schedule \in Schedule
    BY <1>0, <2>1, Running DEF LocalsOK
  <2> QED BY <2>1, <2>2 DEF OrderStep, EditConnected
<1>5. ASSUME NEW s \in Schedule, UnsettledFor(s)'
      PROVE  link'[s].status # "disconnected" /\ \A r \in Request : ~Manual(r, s)'
  <2>1. CASE p \in Request /\ ~Manual(p, s)' /\ link'[s].status # "disconnected"
    BY <1>0, <2>1
  <2>2. CASE UnsettledFor(s)
    <3>1. link[s].status # "disconnected" /\ \A r \in Request : ~Manual(r, s)
      BY <2>2 DEF OrderInv
    <3>2. link'[s].status # "disconnected"
      BY <2>2, <3>1 DEF OrderStep
    <3>3. ASSUME NEW r \in Request PROVE ~Manual(r, s)'
      <4>1. CASE r = p
        BY <2>2, <3>1, <4>1 DEF OrderStep
      <4>2. CASE r # p
        BY <1>0, <3>1, <4>2 DEF OrderStep, OthersWait, Manual
      <4> QED BY <4>1, <4>2
    <3> QED BY <3>2, <3>3
  <2> QED BY <1>5, <2>1, <2>2 DEF OrderStep
<1> QED BY <1>1, <1>2, <1>3, <1>4, <1>5 DEF OrderInv

LEMMA OrderRests ==
    ASSUME OrderInv, Rest
    PROVE  OrderInv'
<1>1. /\ \A e, s : OwnedBy(e, s) <=> OwnedBy(e, s)'
      /\ \A r, s : Manual(r, s) <=> Manual(r, s)'
      /\ \A s \in Schedule : UnsettledFor(s)' <=> UnsettledFor(s)
  BY DEF Rest, OwnedBy, Manual, UnsettledFor
<1>2. /\ \A s \in Schedule : OwnedBy(link[s].event, s)'
      /\ \A p \in Process : NamesOwn(p)'
  BY DEF Rest, OrderInv, OwnedBy, NamesOwn
<1>3. /\ \A w \in Worker : WorkerSpares(w)'
      /\ \A r \in Request : EditConnected(r)'
  BY DEF Rest, OrderInv, WorkerSpares, EditConnected
<1> QED BY <1>1, <1>2, <1>3 DEF Rest, OrderInv

LEMMA OrderShapes ==
    ASSUME IInv, IInv', WorkInv, Sequential, NoDeletes, OrderInv, NEW p \in Process,
           MarkDone(p) \/ SaveDone(p) \/ AroundDone(p) \/ SendDone(p)
    PROVE  OrderInv'
<1>0. /\ pc[p] # "idle" /\ ctx[p] \in Context /\ LocalsOK(p)
      /\ Process = Worker \cup Request /\ Worker \cap Request = {}
      /\ pc[p] \in {"mark", "save", "call", "reauth", "send"}
  BY Running, CalendarAssumption DEF MarkDone, SaveDone, AroundDone, SendDone, Process
<1>1. /\ ctx[p].schedule \in Schedule /\ NamesOwn(p)
      /\ ctx[p].role = "worker" <=> p \in Worker
      /\ ctx[p].role \in {"worker", "edit", "manual"}
      /\ p \in Worker => WorkerSpares(p)
      /\ p \in Request => EditConnected(p)
  BY <1>0 DEF OrderInv, WorkInv, LocalsOK, Context
<1>u. job' = job => \A s \in Schedule : UnsettledFor(s)' => UnsettledFor(s)
  BY DEF UnsettledFor, Unsettled
<1>m. pc[p] # "idle" /\ SameTask(p) => \A s \in Schedule : Manual(p, s)' => Manual(p, s)
  BY DEF Manual, SameTask
<1>2. CASE MarkDone(p)
  <2>1. /\ OthersWait(p) /\ UNCHANGED <<link, job, event>> /\ SameTask(p) /\ SameWork(p)
        /\ ctx'[p].event = ctx[p].event
        /\ pc'[p] = "save" => ctx'[p].row = link[ctx[p].schedule]
        /\ pc[p] = "mark" /\ pc'[p] \in {"save", "mark", "finish"}
        /\ ctx'[p].to = ctx[p].to \/ ctx'[p].to = "failed"
    BY <1>2 DEF MarkDone, SameWork
  <2>2. EventsStay
    BY <2>1 DEF EventsStay
  <2>3. NamesOwn(p)'
    BY <1>0, <1>1, <2>1 DEF NamesOwn, OwnedBy, OrderInv, SameTask
  <2>4. p \in Worker => WorkerSpares(p)'
    BY <1>0, <1>1, <2>1 DEF WorkerSpares, SameWork
  <2>5. p \in Request => EditConnected(p)'
    BY <1>1, <2>1 DEF EditConnected, SameTask
  <2>6. OrderStep(p)
    BY <1>0, <1>u, <1>m, <2>1, <2>2, <2>3, <2>4, <2>5 DEF OrderStep
  <2> QED BY <2>6, OrderOn
<1>3. CASE SaveDone(p)
  <2> DEFINE c == ctx[p]  s == ctx[p].schedule
  <2>1. /\ pc[p] = "save" /\ OthersWait(p) /\ UNCHANGED <<job, event>>
        /\ \A t \in Schedule \ {s} : link'[t] = link[t]
        /\ link'[s].status = c.to /\ link'[s].event \in {c.event, None, c.row.event}
        /\ \/ pc'[p] = "idle"
           \/ /\ pc'[p] = AfterSave(c) /\ SameTask(p) /\ SameWork(p) /\ ctx'[p].event = c.event
    BY <1>3 DEF SaveDone, SameWork
  <2>2. EventsStay
    BY <2>1 DEF EventsStay
  <2>3. pc'[p] \in {"idle", "finish", "insert", "load"}
    BY <1>1, <2>1 DEF AfterSave
  <2>4. NamesOwn(p)'
    BY <1>1, <2>1, <2>3 DEF NamesOwn, OwnedBy, SameTask
  <2>5. p \in Worker => WorkerSpares(p)'
    BY <1>0, <1>1, <2>1, <2>3 DEF WorkerSpares, SameWork
  <2>6. c.role = "edit" => c.to = "pending"
    BY <1>0 DEF LocalsOK
  <2>7. p \in Request => EditConnected(p)'
    BY <1>1, <2>1, <2>6 DEF EditConnected, SameTask
  <2>8. OwnedBy(link'[s].event, s)
    BY <1>0, <1>1, <2>1 DEF NamesOwn, OwnedBy
  <2>9. link'[s].status = "disconnected" => p \in Request /\ ~UnsettledFor(s)
    <3>1. SUFFICES ASSUME c.to = "disconnected" PROVE p \in Request /\ ~UnsettledFor(s)
      BY <2>1
    <3>2. c.role = "manual" /\ p \in Request
      BY <1>0, <1>1, <2>1, <2>6, <3>1 DEF WorkerSpares
    <3> QED BY <1>0, <1>1, <3>2 DEF OrderInv, Manual
  <2> HIDE DEF c, s
  <2>10. OrderStep(p)
    BY <1>0, <1>u, <1>m, <2>1, <2>2, <2>4, <2>5, <2>7, <2>8, <2>9 DEF OrderStep, Manual
  <2> QED BY <2>10, OrderOn
<1>4. CASE AroundDone(p)
  <2>1. /\ OthersWait(p) /\ UNCHANGED <<link, job, event, ctx>>
        /\ pc[p] \in {"call", "reauth"} /\ pc'[p] \in {"send", "mark"}
        /\ pc'[p] = "mark" => pc[p] = "reauth"
    BY <1>4 DEF AroundDone
  <2>2. EventsStay /\ SameTask(p)
    BY <2>1 DEF EventsStay, SameTask
  <2>3. NamesOwn(p)'
    BY <1>0, <1>1, <2>1 DEF NamesOwn, OwnedBy
  <2>4. p \in Worker => WorkerSpares(p)'
    BY <1>0, <1>1, <2>1 DEF WorkerSpares
  <2>5. p \in Request => EditConnected(p)'
    BY <1>0, <1>1, <2>1 DEF EditConnected, LocalsOK
  <2>6. OrderStep(p)
    BY <1>0, <1>u, <1>m, <2>1, <2>2, <2>3, <2>4, <2>5 DEF OrderStep
  <2> QED BY <2>6, OrderOn
<1>5. CASE SendDone(p)
  <2> DEFINE c == ctx[p]  d == ctx'[p]
  <2>1. /\ pc[p] = "send" /\ OthersWait(p) /\ SameWork(p) /\ SameTask(p)
        /\ UNCHANGED <<link, job>> /\ pc'[p] \in {"mark", "reauth"}
        /\ c.role # "edit" /\ c.user \in User
    BY <1>0, <1>5 DEF SendDone, SameWork, LocalsOK
  <2>2. /\ EventsStay
        /\ \/ d.event \in {c.event, None}
           \/ /\ d.event \in Event /\ event'[d.event].state # "unused"
              /\ event'[d.event].schedule = c.schedule /\ event'[d.event].calendar = c.user
        /\ d.to \in {"synced", "failed"} \/ c.action = "delete"
    BY <1>5 DEF SendDone, EventsStay
  <2>3. NamesOwn(p)'
    <3>1. c.event # None =>
             /\ event'[c.event].schedule = c.schedule
             /\ event'[c.event].calendar \in User /\ event'[c.event].state # "unused"
      BY <1>0, <1>1, <2>2 DEF Context, NamesOwn, OwnedBy, EventsStay
    <3>2. d.event # None =>
             /\ event'[d.event].schedule = c.schedule
             /\ event'[d.event].calendar \in User /\ event'[d.event].state # "unused"
      BY <2>1, <2>2, <3>1
    <3> QED BY <2>1, <3>2 DEF NamesOwn, OwnedBy, SameTask
  <2>4. p \in Worker => WorkerSpares(p)'
    BY <1>0, <1>1, <2>1, <2>2 DEF WorkerSpares, SameWork
  <2>5. p \in Request => EditConnected(p)'
    BY <1>0, <2>1 DEF EditConnected, SameTask
  <2> HIDE DEF c, d
  <2>6. OrderStep(p)
    BY <1>0, <1>u, <1>m, <2>1, <2>2, <2>3, <2>4, <2>5 DEF OrderStep
  <2> QED BY <2>6, OrderOn
<1> QED BY <1>2, <1>3, <1>4, <1>5

LEMMA OrderStarts ==
    ASSUME IInv, IInv', Sequential, NoDeletes, OrderInv, NEW w \in Worker,
           \/ \E k \in JobKey : StartDone(w, k)
           \/ FinishDone(w)
    PROVE  OrderInv'
<1>0. w \in Process /\ w \notin Request
  BY CalendarAssumption DEF Process
<1>1. ASSUME NEW k \in JobKey, StartDone(w, k) PROVE OrderInv'
  <2>1. /\ OthersWait(w) /\ UNCHANGED <<link, job, event>> /\ k.schedule \in Schedule
        /\ ctx'[w].schedule = k.schedule /\ ctx'[w].event = link[k.schedule].event
        /\ ctx'[w].action = k.action /\ pc'[w] \in {"call", "finish"} /\ k \in batch[w]
    BY <1>1 DEF StartDone
  <2>2. EventsStay /\ \A s \in Schedule : UnsettledFor(s)' => UnsettledFor(s)
    BY <2>1 DEF EventsStay, UnsettledFor, Unsettled
  <2>3. NamesOwn(w)'
    BY <2>1 DEF NamesOwn, OwnedBy, OrderInv
  <2>4. k.action # "delete"
    BY <2>1 DEF IInv, ClaimExclusive, NoDeletes, DeletionsDropped
  <2>5. WorkerSpares(w)'
    BY <2>1, <2>4 DEF WorkerSpares
  <2>6. OrderStep(w)
    BY <1>0, <2>1, <2>2, <2>3, <2>5 DEF OrderStep
  <2> QED BY <1>0, <2>6, OrderOn
<1>2. ASSUME FinishDone(w) PROVE OrderInv'
  <2>1. /\ pc'[w] = "idle" /\ OthersWait(w) /\ UNCHANGED <<link, event>>
        /\ \A j \in JobKey \ {ctx[w].key} : job'[j] = job[j]
        /\ Unsettled(ctx[w].key)
    BY <1>2 DEF FinishDone
  <2>2. EventsStay /\ \A s \in Schedule : UnsettledFor(s)' => UnsettledFor(s)
    BY <2>1 DEF EventsStay, UnsettledFor, Unsettled
  <2>3. NamesOwn(w)' /\ WorkerSpares(w)'
    BY <2>1 DEF NamesOwn, WorkerSpares
  <2>4. OrderStep(w)
    BY <1>0, <2>1, <2>2, <2>3 DEF OrderStep
  <2> QED BY <1>0, <2>4, OrderOn
<1> QED BY <1>1, <1>2

LEMMA OrderEdits ==
    ASSUME IInv, IInv', Sequential, OrderInv, NEW r \in Request,
           \/ \E s \in Schedule : EditDone(r, s) \/ BeginDone(r, s)
           \/ LoadMutationDone(r) \/ LoadScheduleDone(r)
    PROVE  OrderInv'
<1>0. r \in Process /\ r \notin Worker
  BY CalendarAssumption DEF Process
<1>1. /\ OthersWait(r) /\ UNCHANGED <<link, job, event>>
      /\ EventsStay /\ \A s \in Schedule : UnsettledFor(s)' => UnsettledFor(s)
  BY DEF EditDone, BeginDone, LoadMutationDone, LoadScheduleDone, EventsStay,
         UnsettledFor, Unsettled
<1>2. ASSUME NEW s \in Schedule, EditDone(r, s) PROVE OrderStep(r)
  BY <1>0, <1>1, <1>2 DEF EditDone, OrderStep, NamesOwn, OwnedBy, EditConnected, Manual
<1>3. ASSUME NEW s \in Schedule, BeginDone(r, s) PROVE OrderStep(r)
  BY <1>0, <1>1, <1>3 DEF BeginDone, OrderStep, NamesOwn, OwnedBy, EditConnected, Manual
<1>4. ASSUME LoadMutationDone(r) PROVE OrderStep(r)
  <2>1. pc[r] # "idle" /\ NamesOwn(r)
    BY <1>0, <1>4 DEF LoadMutationDone, OrderInv
  <2>2. pc'[r] = "idle" \/ (/\ pc'[r] = "mark" /\ ctx'[r].role = "edit"
                            /\ ctx'[r].schedule = ctx[r].schedule /\ ctx'[r].event = ctx[r].event
                            /\ link[ctx[r].schedule].status # "disconnected")
    BY <1>4 DEF LoadMutationDone
  <2> QED BY <1>0, <1>1, <2>1, <2>2 DEF OrderStep, NamesOwn, OwnedBy, EditConnected, Manual
<1>5. ASSUME LoadScheduleDone(r) PROVE OrderStep(r)
  <2>1. pc[r] # "idle" /\ NamesOwn(r)
    BY <1>0, <1>5 DEF LoadScheduleDone, OrderInv
  <2>2. pc'[r] = "idle" \/ (/\ pc'[r] = "call" /\ ctx'[r].role = ctx[r].role
                            /\ ctx'[r].schedule = ctx[r].schedule /\ ctx'[r].event = ctx[r].event)
    BY <1>5 DEF LoadScheduleDone, SameWork, SameTask
  <2> QED BY <1>0, <1>1, <2>1, <2>2 DEF OrderStep, NamesOwn, OwnedBy, EditConnected, Manual
<1> QED BY <1>0, <1>2, <1>3, <1>4, <1>5, OrderOn

LEMMA OrderInserts ==
    ASSUME IInv, IInv', Sequential, OrderInv, NEW r \in Request, InsertDone(r) \/ UpsertDone(r)
    PROVE  OrderInv'
<1>0. r \in Process /\ r \notin Worker
  BY CalendarAssumption DEF Process
<1>1. ASSUME InsertDone(r) PROVE OrderStep(r)
  <2>1. /\ OthersWait(r) /\ UNCHANGED <<link, event>> /\ pc'[r] = "idle" /\ EventsStay
        /\ link[ctx[r].schedule].status # "disconnected"
        /\ \A j \in JobKey \ {ctx[r].key} : job'[j] = job[j]
        /\ ctx[r].key.schedule = ctx[r].schedule
    BY <1>0, <1>1 DEF InsertDone, EventsStay, OrderInv, EditConnected
  <2>2. \A s \in Schedule \ {ctx[r].schedule} : UnsettledFor(s)' => UnsettledFor(s)
    BY <2>1 DEF UnsettledFor, Unsettled
  <2> QED BY <1>0, <2>1, <2>2 DEF OrderStep, NamesOwn, EditConnected, Manual
<1>2. ASSUME UpsertDone(r) PROVE OrderStep(r)
  <2>1. /\ OthersWait(r) /\ UNCHANGED <<job, event>> /\ EventsStay /\ pc[r] # "idle"
        /\ ctx[r].role = "manual" /\ ctx[r].schedule \in Schedule
        /\ ctx'[r].role = "manual" /\ ctx'[r].schedule = ctx[r].schedule
        /\ ctx'[r].event \in {link[ctx[r].schedule].event, None}
        /\ pc'[r] \in {"call", "mark"}
        /\ \A t \in Schedule : \/ link'[t] = link[t]
                               \/ link'[t].status = "pending" /\ link'[t].event = None
    BY <1>2 DEF UpsertDone, EventsStay
  <2>2. \A s \in Schedule : UnsettledFor(s)' => UnsettledFor(s)
    BY <2>1 DEF UnsettledFor, Unsettled
  <2>3. OwnedBy(link[ctx[r].schedule].event, ctx[r].schedule)
    BY <2>1 DEF OrderInv
  <2>4. NamesOwn(r)'
    BY <2>1, <2>3 DEF NamesOwn, OwnedBy
  <2> QED BY <1>0, <2>1, <2>2, <2>4 DEF OrderStep, OwnedBy, EditConnected, Manual
<1> QED BY <1>0, <1>1, <1>2, OrderOn

LEMMA OrderNext ==
    ASSUME IInv, IInv', WorkInv, Sequential, NoDeletes, OrderInv, [Next]_vars
    PROVE  OrderInv'
BY StepShapes, OrderRests, OrderShapes, OrderStarts, OrderEdits, OrderInserts

\* With requests that come one at a time, a job in the queue keeps the link it
\* is for connected and manual syncs of it away, and every row and every process
\* names only events of its own schedule (calendar_sync_workflow.go).
THEOREM OrderInvariant == Spec => []SequentialOrder
<1>1. Init => OrderInv
  <2>1. SUFFICES ASSUME Init PROVE OrderInv
    OBVIOUS
  <2>2. /\ \A s \in Schedule : link[s].event = None
        /\ \A k \in JobKey : job[k].status = "absent"
        /\ \A p \in Worker \cup Request : pc[p] = "idle"
        /\ \A p \in Process : pc[p] = "idle"
    BY <2>1 DEF Init, NoLink, NoJob, Process
  <2> QED BY <2>2 DEF OrderInv, OwnedBy, NamesOwn, WorkerSpares, EditConnected, UnsettledFor,
                      Unsettled
<1>2. IInv /\ IInv' /\ SequentialWork /\ NoDeletes /\ SequentialOrder /\ [Next]_vars
        => SequentialOrder'
  BY OrderNext DEF SequentialOrder, SequentialWork, Sequential
<1>3. Init => SequentialOrder
  BY <1>1 DEF SequentialOrder
<1> QED BY <1>2, <1>3, Invariant, WorkInvariant, DeletesSpared, PTL DEF Spec

-------------------------------------------------------------------------------
(***************************************************************************)
(* With one worker, an event shown as synced has the content of its        *)
(* schedule.                                                               *)
(***************************************************************************)

\* A step of a process that works on s does nothing to t.
LEMMA FreshElsewhere ==
    ASSUME IInv, IInv', OrderInv, NEW p \in Process, OthersWait(p), NEW s,
           NEW t \in Schedule, t # s,
           pc[p] # "idle" => ctx[p].schedule = s, pc'[p] # "idle" => ctx'[p].schedule = s,
           schedule'[t].version = schedule[t].version, schedule'[t].live => schedule[t].live,
           link'[t] = link[t],
           \A k \in JobKey : k.schedule = t => job'[k].status = job[k].status,
           \A e \in Event : OwnedBy(e, t) => event'[e] = event[e],
           FreshFor(t)
    PROVE  FreshFor(t)'
<1>0. Process = Worker \cup Request /\ Worker \cap Request = {}
  BY CalendarAssumption DEF Process
<1>1. /\ \A r \in Request : (pc[r] # "idle" /\ ctx[r].schedule = t)
                               <=> (pc'[r] # "idle" /\ ctx'[r].schedule = t)
      /\ \A q \in Process : /\ pc[q] # "idle" /\ ctx[q].schedule = t => q # p
                            /\ pc'[q] # "idle" /\ ctx'[q].schedule = t => q # p
      /\ \A q \in Process : q # p => pc'[q] = pc[q] /\ ctx'[q] = ctx[q]
  BY <1>0 DEF OthersWait
<1>2. Awaits(t)' <=> Awaits(t)
  <2>1. ASSUME NEW k \in JobKey, k.schedule = t, NEW w \in Worker
        PROVE  (pc[w] # "idle" => ctx[w].key # k) <=> (pc'[w] # "idle" => ctx'[w].key # k)
    <3>1. CASE w # p
      BY <1>0, <1>1, <3>1
    <3>2. CASE w = p
      BY <1>0, <2>1, <3>2, Task DEF IInv, LocalsOK
    <3> QED BY <3>1, <3>2
  <2>2. \A k \in JobKey : k.schedule = t => (Unsettled(k)' <=> Unsettled(k))
    BY DEF Unsettled
  <2> QED BY <1>1, <2>1, <2>2 DEF Awaits
<1>3. ASSUME NEW q \in Process, q # p, pc[q] # "idle", ctx[q].schedule = t, Current(q, t)
      PROVE  Current(q, t)'
  <2>1. pc'[q] = pc[q] /\ ctx'[q] = ctx[q]
    BY <1>1, <1>3
  <2>2. pc[q] \in {"reauth", "mark", "save"} /\ ctx[q].to = "synced" => ctx[q].event \in Event
    BY <1>3, Running DEF LocalsOK, Context
  <2>3. OwnedBy(ctx[q].event, t)
    BY <1>3 DEF OrderInv, NamesOwn
  <2>4. pc[q] \in {"reauth", "mark", "save"} /\ ctx[q].to = "synced"
           => event'[ctx[q].event] = event[ctx[q].event]
    BY <2>2, <2>3
  <2> QED BY <1>3, <2>1, <2>4 DEF Current
<1>4. FreshRow(t) => FreshRow(t)'
  <2>1. link[t].status = "synced" => link[t].event \in Event
    BY DEF IInv, TypeOK, LinkRow, LinkNamesEvent
  <2> QED BY <2>1 DEF OrderInv, FreshRow
<1>5. \A w \in Worker : RunsFor(w, t)' <=> RunsFor(w, t)
  BY <1>0, <1>1 DEF RunsFor
<1>6. ASSUME schedule'[t].live PROVE \A r \in Request : Manual(r, t)' => Current(r, t)'
  BY <1>0, <1>1, <1>3, <1>6 DEF FreshFor, Manual
<1>7. ASSUME schedule'[t].live, ~Awaits(t)'
      PROVE  /\ \A w \in Worker : RunsFor(w, t)' => Current(w, t)'
             /\ (\A w \in Worker : ~RunsFor(w, t)') => FreshRow(t)'
  BY <1>0, <1>1, <1>2, <1>3, <1>4, <1>5, <1>7 DEF FreshFor, RunsFor
<1> QED BY <1>6, <1>7 DEF FreshFor

\* What a worker runs is unsettled, so no manual sync of that schedule goes on
\* and its link is there and connected.
LEMMA RunningAlone ==
    ASSUME IInv, OrderInv, NEW w \in Worker, pc[w] # "idle"
    PROVE  /\ ctx[w].key \in JobKey /\ Unsettled(ctx[w].key)
           /\ ctx[w].schedule \in Schedule /\ ctx[w].key.schedule = ctx[w].schedule
           /\ \A r \in Request : ~Manual(r, ctx[w].schedule)
           /\ link[ctx[w].schedule].status \notin {"absent", "disconnected"}
<1>1. w \in Process
  BY DEF Process
<1>2. ctx[w].key \in batch[w] /\ ctx[w].key.schedule = ctx[w].schedule
  BY <1>1, Task
<1>3. ctx[w].key \in JobKey /\ job[ctx[w].key].status = "processing"
  BY <1>2 DEF IInv, TypeOK, ClaimExclusive
<1>4. ctx[w].schedule \in Schedule /\ Unsettled(ctx[w].key) /\ UnsettledFor(ctx[w].schedule)
  BY <1>2, <1>3 DEF JobKey, Unsettled, UnsettledFor
<1>5. link[ctx[w].schedule].status # "absent"
  BY <1>2, <1>3 DEF IInv, JobsHaveLinks, Present
<1> QED BY <1>2, <1>3, <1>4, <1>5 DEF OrderInv

LEMMA AwaitsOn ==
    ASSUME NEW p \in Process, OthersWait(p), SameTask(p), job' = job,
           pc[p] # "idle", pc'[p] # "idle", NEW s
    PROVE  Awaits(s)' <=> Awaits(s)
<1>1. \A q \in Process : /\ pc'[q] # "idle" <=> pc[q] # "idle"
                         /\ ctx'[q].schedule = ctx[q].schedule
                         /\ ctx'[q].key = ctx[q].key
  BY DEF OthersWait, SameTask
<1>2. /\ \A r \in Request : (pc[r] # "idle" /\ ctx[r].schedule = s)
                               <=> (pc'[r] # "idle" /\ ctx'[r].schedule = s)
      /\ \A w \in Worker, k \in JobKey : (pc[w] # "idle" => ctx[w].key # k)
                               <=> (pc'[w] # "idle" => ctx'[w].key # k)
  BY <1>1 DEF Process
<1> QED BY <1>2 DEF Awaits, Unsettled

LEMMA FreshMarks ==
    ASSUME IInv, Sequential, OneWorker, OrderInv, NEW p \in Process, MarkDone(p),
           NEW s \in Schedule, s = ctx[p].schedule, FreshFor(s)
    PROVE  FreshFor(s)'
<1>0. Process = Worker \cup Request /\ Worker \cap Request = {} /\ pc[p] = "mark"
  BY CalendarAssumption DEF Process, MarkDone
<1>1. /\ OthersWait(p) /\ SameTask(p) /\ UNCHANGED <<schedule, link, job, event>>
      /\ ctx'[p].event = ctx[p].event
      /\ pc'[p] \in {"save", "mark", "finish"}
      /\ ctx'[p].to = ctx[p].to \/ ctx'[p].to = "failed"
      /\ pc'[p] = "finish" => link[s].status # "synced"
  BY DEF MarkDone, SameWork, CanTransitionLink, Sequential
<1>2. \A q \in Process : Current(q, s) => Current(q, s)'
  BY <1>0, <1>1 DEF Current, OthersWait
<1>3. (Awaits(s)' <=> Awaits(s)) /\ (FreshRow(s)' <=> FreshRow(s))
  BY <1>0, <1>1, AwaitsOn DEF FreshRow
<1>4. \A r \in Request : Manual(r, s)' => Manual(r, s)
  BY <1>0, <1>1 DEF Manual, OthersWait, SameTask
<1>5. \A w \in Worker : \/ RunsFor(w, s)' <=> RunsFor(w, s)
                        \/ ~RunsFor(w, s)' /\ link[s].status # "synced"
  BY <1>0, <1>1 DEF RunsFor, OthersWait, SameTask
<1>6. link[s].status # "synced" => FreshRow(s)
  BY DEF FreshRow
<1> QED BY <1>0, <1>1, <1>2, <1>3, <1>4, <1>5, <1>6 DEF FreshFor

LEMMA FreshSaves ==
    ASSUME IInv, WorkInv, Sequential, OneWorker, OrderInv, NEW p \in Process, SaveDone(p),
           NEW s \in Schedule, s = ctx[p].schedule, FreshFor(s)
    PROVE  FreshFor(s)'
<1> DEFINE c == ctx[p]
<1>0. /\ Process = Worker \cup Request /\ Worker \cap Request = {} /\ pc[p] = "save"
      /\ \A r, q \in Request : r = q
  BY CalendarAssumption DEF Process, SaveDone, Sequential
<1>1. /\ OthersWait(p) /\ UNCHANGED <<schedule, job, event>>
      /\ link'[s].status = c.to
      /\ c.to = "synced" => link'[s].event = c.event
      /\ \/ c.role = "manual" /\ c.to # "pending" /\ pc'[p] = "idle"
         \/ /\ ~(c.role = "manual" /\ c.to # "pending")
            /\ pc'[p] = AfterSave(c) /\ SameTask(p)
  BY DEF SaveDone, SameWork
<1>2. /\ c.role = "worker" <=> p \in Worker
      /\ c.role \in {"worker", "edit", "manual"}
  BY <1>0, Task DEF WorkInv
<1>3. SUFFICES ASSUME schedule[s].live PROVE FreshFor(s)'
  BY <1>1 DEF FreshFor
<1>4. ASSUME Current(p, s), c.to = "synced" PROVE FreshRow(s)'
  BY <1>0, <1>1, <1>4 DEF Current, FreshRow
<1>5. c.to # "synced" => FreshRow(s)'
  BY <1>1 DEF FreshRow
<1>6. CASE p \in Worker
  <2>1. pc'[p] = "finish" /\ SameTask(p)
    BY <1>1, <1>2, <1>6 DEF AfterSave
  <2>2. Awaits(s)' <=> Awaits(s)
    BY <1>0, <1>1, <2>1, AwaitsOn
  <2>3. \A r \in Request : Manual(r, s)' => Manual(r, s) /\ Current(r, s)'
    BY <1>0, <1>1, <1>3, <1>6 DEF Manual, OthersWait, FreshFor, Current
  <2>4. ~Awaits(s) => Current(p, s)
    BY <1>0, <1>3, <1>6 DEF FreshFor, RunsFor
  <2>5. \A w \in Worker : ~RunsFor(w, s)'
    BY <1>6, <2>1 DEF OneWorker, RunsFor
  <2> QED BY <1>4, <1>5, <2>2, <2>3, <2>4, <2>5 DEF FreshFor
<1>7. CASE p \in Request /\ pc'[p] # "idle"
  <2>1. pc'[p] \in {"insert", "load"} /\ ctx'[p].schedule = s
    BY <1>0, <1>1, <1>2, <1>7 DEF AfterSave, SameTask
  <2>2. Awaits(s)'
    BY <1>7, <2>1 DEF Awaits
  <2>3. \A r \in Request : Current(r, s)'
    BY <1>0, <1>7, <2>1 DEF Current
  <2> QED BY <2>2, <2>3 DEF FreshFor
<1>8. CASE p \in Request /\ pc'[p] = "idle"
  <2>1. c.role = "manual"
    BY <1>0, <1>1, <1>2, <1>8 DEF AfterSave
  <2>2. Current(p, s) /\ Manual(p, s)
    BY <1>0, <1>3, <1>8, <2>1 DEF FreshFor, Manual
  <2>3. \A r \in Request : ~Manual(r, s)'
    BY <1>0, <1>8 DEF Manual
  <2>4. \A w \in Worker : ~RunsFor(w, s)'
    BY <1>0, <1>1, <1>8, <2>2, RunningAlone DEF RunsFor, OthersWait
  <2> QED BY <1>4, <1>5, <2>2, <2>3, <2>4 DEF FreshFor
<1> QED BY <1>0, <1>6, <1>7, <1>8

LEMMA FreshAround ==
    ASSUME IInv, NEW p \in Process, AroundDone(p),
           NEW s \in Schedule, s = ctx[p].schedule, FreshFor(s)
    PROVE  FreshFor(s)'
<1>0. /\ Process = Worker \cup Request
      /\ OthersWait(p) /\ UNCHANGED <<schedule, link, job, event, ctx>>
      /\ \/ pc[p] = "call" /\ pc'[p] = "send"
         \/ pc[p] = "reauth" /\ pc'[p] = "mark"
  BY DEF Process, AroundDone
<1>1. \A q \in Process : Current(q, s) <=> Current(q, s)'
  BY <1>0 DEF Current, OthersWait
<1>2. (Awaits(s)' <=> Awaits(s)) /\ (FreshRow(s)' <=> FreshRow(s))
  BY <1>0, AwaitsOn DEF FreshRow, SameTask
<1>3. /\ \A r \in Request : Manual(r, s)' <=> Manual(r, s)
      /\ \A w \in Worker : RunsFor(w, s)' <=> RunsFor(w, s)
  BY <1>0 DEF Manual, RunsFor, OthersWait
<1> QED BY <1>0, <1>1, <1>2, <1>3 DEF FreshFor

LEMMA FreshSends ==
    ASSUME IInv, Sequential, OneWorker, OrderInv, NEW p \in Process, SendDone(p),
           NEW s \in Schedule, s = ctx[p].schedule, FreshFor(s)
    PROVE  FreshFor(s)'
<1> DEFINE c == ctx[p]  d == ctx'[p]
<1>0. /\ Process = Worker \cup Request /\ Worker \cap Request = {} /\ pc[p] = "send"
      /\ \A r, q \in Request : r = q
      /\ OthersWait(p) /\ SameTask(p) /\ UNCHANGED <<schedule, link, job>>
      /\ pc'[p] \in {"mark", "reauth"}
  BY CalendarAssumption DEF Process, SendDone, Sequential, SameWork
<1>1. d.to = "synced" => c.action # "delete" /\ event'[d.event].version = c.version
  BY DEF SendDone
<1>2. SUFFICES ASSUME schedule[s].live PROVE FreshFor(s)'
  BY <1>0 DEF FreshFor
<1>3. Current(p, s) => Current(p, s)'
  BY <1>0, <1>1 DEF Current
<1>4. Awaits(s)' <=> Awaits(s)
  BY <1>0, AwaitsOn
<1>5. CASE p \in Worker
  <2>1. \A r \in Request : ~Manual(r, s)'
    BY <1>0, <1>5, RunningAlone DEF Manual, OthersWait
  <2>2. \A w \in Worker : w = p
    BY <1>5 DEF OneWorker
  <2>3. RunsFor(p, s) /\ RunsFor(p, s)'
    BY <1>0 DEF RunsFor, SameTask
  <2> QED BY <1>2, <1>3, <1>4, <1>5, <2>1, <2>2, <2>3 DEF FreshFor
<1>6. CASE p \in Request
  <2>1. Awaits(s)'
    BY <1>0, <1>6 DEF Awaits, SameTask
  <2>2. \A r \in Request : Manual(r, s)' => r = p /\ Manual(r, s)
    BY <1>0, <1>6 DEF Manual, SameTask
  <2> QED BY <1>2, <1>3, <2>1, <2>2 DEF FreshFor
<1> QED BY <1>0, <1>5, <1>6

LEMMA FreshStarts ==
    ASSUME IInv, IInv', OneWorker, OrderInv, NoDeletes, NEW w \in Worker, NEW k \in JobKey,
           StartDone(w, k), NEW s \in Schedule, s = k.schedule, FreshFor(s)
    PROVE  FreshFor(s)'
<1>0. /\ Process = Worker \cup Request /\ Worker \cap Request = {} /\ pc[w] = "idle"
      /\ OthersWait(w) /\ UNCHANGED <<schedule, link, job, event>>
      /\ ctx'[w].schedule = s /\ ctx'[w].to = "pending" /\ ctx'[w].version = schedule[s].version
      /\ \/ pc'[w] = "call"
         \/ pc'[w] = "finish" /\ ~schedule[s].live
  BY CalendarAssumption DEF Process, StartDone
<1>1. SUFFICES ASSUME schedule[s].live PROVE FreshFor(s)'
  BY <1>0 DEF FreshFor
<1>2. RunsFor(w, s)' /\ Current(w, s)' /\ \A v \in Worker : v = w
  BY <1>0, <1>1 DEF RunsFor, Current, OneWorker
<1>3. \A r \in Request : Manual(r, s)' => Manual(r, s) /\ (Current(r, s) => Current(r, s)')
  BY <1>0 DEF Manual, OthersWait, Current
<1> QED BY <1>1, <1>2, <1>3 DEF FreshFor

LEMMA FreshFinishes ==
    ASSUME IInv, OneWorker, OrderInv, NEW w \in Worker, FinishDone(w),
           NEW s \in Schedule, s = ctx[w].schedule, FreshFor(s)
    PROVE  FreshFor(s)'
<1>0. /\ Process = Worker \cup Request /\ Worker \cap Request = {} /\ pc[w] = "finish"
      /\ pc'[w] = "idle" /\ OthersWait(w) /\ UNCHANGED <<schedule, link, event>>
      /\ \A j \in JobKey \ {ctx[w].key} : job'[j] = job[j]
      /\ \A v \in Worker : v = w
  BY CalendarAssumption DEF Process, FinishDone, OneWorker
<1>1. SUFFICES ASSUME schedule[s].live PROVE FreshFor(s)'
  BY <1>0 DEF FreshFor
<1>2. \A r \in Request : Manual(r, s)' => Manual(r, s) /\ (Current(r, s) => Current(r, s)')
  BY <1>0 DEF Manual, OthersWait, Current
<1>3. Awaits(s) => Awaits(s)'
  <2>1. ASSUME NEW r \in Request, pc[r] # "idle", ctx[r].schedule = s PROVE Awaits(s)'
    BY <1>0, <2>1 DEF Awaits, OthersWait
  <2>2. ASSUME NEW k \in JobKey, k.schedule = s, Unsettled(k), ctx[w].key # k PROVE Awaits(s)'
    BY <1>0, <2>2 DEF Awaits, Unsettled
  <2> QED BY <1>0, <2>1, <2>2 DEF Awaits
<1>4. ~RunsFor(w, s) /\ ~RunsFor(w, s)' /\ (FreshRow(s) <=> FreshRow(s)')
  BY <1>0 DEF RunsFor, FreshRow
<1> QED BY <1>0, <1>1, <1>2, <1>3, <1>4 DEF FreshFor

\* While the request goes on, only its own calls matter.
LEMMA FreshRequest ==
    ASSUME Sequential, NEW r \in Request, NEW s \in Schedule,
           pc'[r] # "idle", ctx'[r].schedule = s, Manual(r, s)' => Current(r, s)'
    PROVE  FreshFor(s)'
<1>1. Awaits(s)' /\ \A q \in Request : q = r
  BY DEF Awaits, Sequential
<1> QED BY <1>1 DEF FreshFor

LEMMA FreshHandlers ==
    ASSUME IInv, Sequential, OrderInv, NEW r \in Request, NEW s \in Schedule,
           \/ EditDone(r, s) \/ BeginDone(r, s)
           \/ s = ctx[r].schedule /\ (LoadMutationDone(r) \/ UpsertDone(r) \/ LoadScheduleDone(r)),
           FreshFor(s)
    PROVE  FreshFor(s)'
<1>0. r \in Process /\ r \notin Worker
  BY CalendarAssumption DEF Process
<1>1. ASSUME EditDone(r, s) PROVE FreshFor(s)'
  BY <1>1, FreshRequest DEF EditDone, Manual
<1>2. ASSUME BeginDone(r, s) PROVE FreshFor(s)'
  BY <1>2, FreshRequest DEF BeginDone, Current
<1>3. ASSUME UpsertDone(r), s = ctx[r].schedule PROVE FreshFor(s)'
  <2>1. /\ ctx'[r].schedule = s /\ pc'[r] \in {"call", "mark"}
        /\ pc'[r] = "call" => ctx'[r].action = "delete"
        /\ pc'[r] = "mark" => ctx'[r].to # "synced"
    BY <1>3 DEF UpsertDone
  <2> QED BY <2>1, FreshRequest DEF Current
<1>4. ASSUME LoadScheduleDone(r), s = ctx[r].schedule PROVE FreshFor(s)'
  <2>1. CASE schedule[s].live
    <3>1. /\ ctx'[r].schedule = s /\ pc'[r] = "call" /\ schedule' = schedule
          /\ ctx'[r].version = schedule[s].version
      BY <1>4, <2>1 DEF LoadScheduleDone, SameWork, SameTask
    <3> QED BY <3>1, FreshRequest DEF Current
  <2>2. CASE ~schedule[s].live
    BY <1>4, <2>2 DEF LoadScheduleDone, FreshFor
  <2> QED BY <2>1, <2>2
<1>5. ASSUME LoadMutationDone(r), s = ctx[r].schedule PROVE FreshFor(s)'
  <2>1. CASE pc'[r] # "idle"
    <3>1. pc'[r] = "mark" /\ ctx'[r].schedule = s /\ ctx'[r].role = "edit"
      BY <1>5, <2>1 DEF LoadMutationDone
    <3> QED BY <3>1, FreshRequest DEF Manual
  <2>2. CASE pc'[r] = "idle" /\ schedule[s].live
    <3>1. /\ link[s].status \in {"absent", "disconnected"} /\ OthersWait(r)
          /\ UNCHANGED <<schedule, link>>
      BY <1>5, <2>2 DEF LoadMutationDone
    <3>2. \A w \in Worker : ~RunsFor(w, s)'
      BY <1>0, <3>1, RunningAlone DEF RunsFor, OthersWait, Process
    <3>3. FreshRow(s)' /\ \A q \in Request : ~Manual(q, s)'
      BY <2>2, <3>1 DEF FreshRow, Manual, Sequential
    <3> QED BY <3>2, <3>3 DEF FreshFor
  <2>3. CASE ~schedule[s].live
    BY <1>5, <2>3 DEF LoadMutationDone, FreshFor
  <2> QED BY <2>1, <2>2, <2>3
<1> QED BY <1>1, <1>2, <1>3, <1>4, <1>5

LEMMA FreshInserts ==
    ASSUME IInv, Sequential, NEW r \in Request, InsertDone(r),
           NEW s \in Schedule, s = ctx[r].schedule
    PROVE  FreshFor(s)'
<1>0. Process = Worker \cup Request /\ Worker \cap Request = {}
  BY CalendarAssumption DEF Process
<1>1. PICK k \in JobKey : k = ctx[r].key
  BY DEF InsertDone
<1>2. /\ k.schedule = s /\ job[k].status = "absent" /\ job'[k].status = "pending"
      /\ pc'[r] = "idle" /\ OthersWait(r)
  BY <1>1 DEF InsertDone
<1>3. \A w \in Worker : pc[w] # "idle" => ctx[w].key # k
  BY <1>0, <1>2, Task DEF IInv, ClaimExclusive
<1>4. Awaits(s)'
  BY <1>0, <1>2, <1>3 DEF Awaits, OthersWait, Unsettled
<1>5. \A q \in Request : ~Manual(q, s)'
  BY <1>2 DEF Manual, Sequential
<1> QED BY <1>4, <1>5 DEF FreshFor

-------------------------------------------------------------------------------
\* Only a request to the provider changes events, and only those of its own
\* schedule.
LEMMA SendElsewhere ==
    ASSUME IInv, OrderInv, NEW p \in Process, SendDone(p), NEW t, t # ctx[p].schedule,
           NEW e \in Event, OwnedBy(e, t)
    PROVE  event'[e] = event[e]
<1>1. event[e].state # "unused" /\ event[e].schedule = t
  BY CalendarAssumption DEF OwnedBy
<1>2. pc[p] # "idle" /\ OwnedBy(ctx[p].event, ctx[p].schedule) /\ ctx[p] \in Context
  BY Running DEF OrderInv, NamesOwn, SendDone
<1>3. ctx[p].event # e
  BY <1>1, <1>2, CalendarAssumption DEF OwnedBy
<1> QED BY <1>1, <1>3 DEF SendDone

\* Each step works on one schedule, which the lemmas above are about.
LEMMA FreshCalls ==
    ASSUME IInv, IInv', WorkInv, Sequential, OneWorker, OrderInv, FreshInv, NEW p \in Process,
           MarkDone(p) \/ SaveDone(p) \/ AroundDone(p) \/ SendDone(p)
    PROVE  FreshInv'
<1>0. /\ pc[p] # "idle" /\ OthersWait(p) /\ UNCHANGED <<schedule, job>>
      /\ pc'[p] # "idle" => ctx'[p].schedule = ctx[p].schedule
  BY DEF MarkDone, SaveDone, AroundDone, SendDone, SameWork, SameTask
<1>1. ctx[p].schedule \in Schedule
  BY <1>0, Running DEF MarkDone, SaveDone, AroundDone, SendDone, LocalsOK
<1>2. PICK s \in Schedule : s = ctx[p].schedule
  BY <1>1
<1>3. FreshFor(s)'
  BY <1>2, FreshMarks, FreshSaves, FreshAround, FreshSends DEF FreshInv
<1>4. ASSUME NEW t \in Schedule, t # s PROVE FreshFor(t)'
  <2>1. link'[t] = link[t]
    BY <1>2, <1>4 DEF MarkDone, SaveDone, AroundDone, SendDone
  <2>2. \A e \in Event : OwnedBy(e, t) => event'[e] = event[e]
    BY <1>2, <1>4, SendElsewhere DEF MarkDone, SaveDone, AroundDone
  <2> QED BY <1>0, <1>2, <1>4, <2>1, <2>2, FreshElsewhere DEF FreshInv
<1> QED BY <1>3, <1>4 DEF FreshInv

LEMMA FreshWorkers ==
    ASSUME IInv, IInv', OneWorker, OrderInv, NoDeletes, FreshInv, NEW w \in Worker,
           \/ \E k \in JobKey : StartDone(w, k)
           \/ FinishDone(w)
    PROVE  FreshInv'
<1>0. w \in Process
  BY DEF Process
<1>1. ASSUME NEW k \in JobKey, StartDone(w, k) PROVE FreshInv'
  <2>1. PICK s \in Schedule : s = k.schedule
    BY <1>1 DEF StartDone
  <2>2. FreshFor(s)'
    BY <1>1, <2>1, FreshStarts DEF FreshInv
  <2>3. ASSUME NEW t \in Schedule, t # s PROVE FreshFor(t)'
    <3>1. /\ OthersWait(w) /\ UNCHANGED <<schedule, link, job, event>>
          /\ pc[w] = "idle" /\ ctx'[w].schedule = s
      BY <1>1, <2>1 DEF StartDone
    <3> QED BY <1>0, <2>3, <3>1, FreshElsewhere DEF FreshInv
  <2> QED BY <2>2, <2>3 DEF FreshInv
<1>2. ASSUME FinishDone(w) PROVE FreshInv'
  <2>1. pc[w] # "idle" /\ ctx[w].schedule \in Schedule /\ ctx[w].key.schedule = ctx[w].schedule
    BY <1>2, RunningAlone DEF FinishDone
  <2>2. PICK s \in Schedule : s = ctx[w].schedule
    BY <2>1
  <2>3. FreshFor(s)'
    BY <1>2, <2>2, FreshFinishes DEF FreshInv
  <2>4. ASSUME NEW t \in Schedule, t # s PROVE FreshFor(t)'
    <3>1. /\ OthersWait(w) /\ UNCHANGED <<schedule, link, event>> /\ pc'[w] = "idle"
          /\ \A j \in JobKey : j.schedule = t => job'[j] = job[j]
      BY <1>2, <2>1, <2>2, <2>4 DEF FinishDone
    <3> QED BY <1>0, <2>2, <2>4, <3>1, FreshElsewhere DEF FreshInv
  <2> QED BY <2>3, <2>4 DEF FreshInv
<1> QED BY <1>1, <1>2

LEMMA FreshRequests ==
    ASSUME IInv, IInv', Sequential, OrderInv, FreshInv, NEW r \in Request,
           \/ \E s \in Schedule : EditDone(r, s) \/ BeginDone(r, s)
           \/ LoadMutationDone(r) \/ InsertDone(r) \/ UpsertDone(r) \/ LoadScheduleDone(r)
    PROVE  FreshInv'
<1>0. r \in Process
  BY DEF Process
<1>1. ASSUME NEW s \in Schedule, EditDone(r, s) \/ BeginDone(r, s) PROVE FreshInv'
  <2>1. FreshFor(s)'
    BY <1>1, FreshHandlers DEF FreshInv
  <2>2. ASSUME NEW t \in Schedule, t # s PROVE FreshFor(t)'
    <3>1. /\ OthersWait(r) /\ UNCHANGED <<link, job, event>>
          /\ pc[r] = "idle" /\ ctx'[r].schedule = s /\ schedule'[t] = schedule[t]
      BY <1>1, <2>2 DEF EditDone, BeginDone
    <3> QED BY <1>0, <2>2, <3>1, FreshElsewhere DEF FreshInv
  <2> QED BY <2>1, <2>2 DEF FreshInv
<1>2. ASSUME LoadMutationDone(r) \/ InsertDone(r) \/ UpsertDone(r) \/ LoadScheduleDone(r)
      PROVE FreshInv'
  <2>0. pc[r] \in {"enqueue", "insert", "upsert", "load"}
    BY <1>2 DEF LoadMutationDone, InsertDone, UpsertDone, LoadScheduleDone
  <2>1. ctx[r].schedule \in Schedule
    BY <1>0, <2>0, Running DEF LocalsOK
  <2>2. PICK s \in Schedule : s = ctx[r].schedule
    BY <2>1
  <2>3. FreshFor(s)'
    BY <1>2, <2>2, FreshHandlers, FreshInserts DEF FreshInv
  <2>4. ASSUME NEW t \in Schedule, t # s PROVE FreshFor(t)'
    <3>1. /\ OthersWait(r) /\ UNCHANGED <<schedule, event>> /\ link'[t] = link[t]
          /\ pc'[r] = "idle" \/ ctx'[r].schedule = s
          /\ \A j \in JobKey : j.schedule = t => job'[j] = job[j]
      BY <1>2, <2>2, <2>4 DEF LoadMutationDone, InsertDone, UpsertDone, LoadScheduleDone,
                              SameWork, SameTask
    <3> QED BY <1>0, <2>2, <2>4, <3>1, FreshElsewhere DEF FreshInv
  <2> QED BY <2>3, <2>4 DEF FreshInv
<1> QED BY <1>1, <1>2

LEMMA FreshRests ==
    ASSUME FreshInv, Rest
    PROVE  FreshInv'
<1>1. ASSUME NEW s \in Schedule PROVE FreshFor(s)'
  <2>1. /\ Awaits(s)' <=> Awaits(s)
        /\ FreshRow(s)' <=> FreshRow(s)
        /\ \A r \in Request : Manual(r, s)' <=> Manual(r, s)
        /\ \A w \in Worker : RunsFor(w, s)' <=> RunsFor(w, s)
        /\ \A p : Current(p, s)' <=> Current(p, s)
    BY DEF Rest, Awaits, FreshRow, Manual, RunsFor, Current
  <2>2. schedule'[s].live => schedule[s].live
    BY DEF Rest
  <2> QED BY <2>1, <2>2 DEF FreshInv, FreshFor
<1> QED BY <1>1 DEF FreshInv

LEMMA FreshNext ==
    ASSUME IInv, IInv', WorkInv, Sequential, OneWorker, NoDeletes, OrderInv, FreshInv,
           [Next]_vars
    PROVE  FreshInv'
BY StepShapes, FreshRests, FreshCalls, FreshWorkers, FreshRequests

\* With one worker, and requests that come one at a time, whoever will still
\* send something about a schedule has its present content, and if nobody will,
\* its event has (calendar_sync_worker.go, calendar_sync_workflow.go).
THEOREM FreshInvariant == Spec => []SequentialFresh
<1>1. Init => SequentialFresh
  <2>1. SUFFICES ASSUME Init PROVE FreshInv
    BY DEF SequentialFresh
  <2>2. /\ \A p \in Worker \cup Request : pc[p] = "idle"
        /\ \A s \in Schedule : link[s].status = "absent"
    BY <2>1 DEF Init, NoLink, Process
  <2> QED BY <2>2 DEF FreshInv, FreshFor, Manual, RunsFor, FreshRow
<1>2. IInv /\ IInv' /\ SequentialWork /\ NoDeletes /\ SequentialOrder /\ SequentialFresh
        /\ [Next]_vars => SequentialFresh'
  BY FreshNext DEF SequentialFresh, SequentialOrder, SequentialWork, Sequential, OneWorker
<1> QED BY <1>1, <1>2, Invariant, WorkInvariant, DeletesSpared, OrderInvariant, PTL DEF Spec

\* Where one server runs the worker and requests come one at a time, an event
\* shown as synced has the content of its schedule once nothing is left to do:
\* retries never bring back what an edit replaced, however many jobs there are.
THEOREM SyncsAreFresh ==
    ASSUME \A v, w \in Worker : v = w
    PROVE  Spec => []SyncedIsFresh
<1>1. IInv /\ SequentialOrder /\ SequentialFresh => SyncedIsFresh
  <2>1. SUFFICES ASSUME IInv, OrderInv, FreshInv, Sequential, NEW s \in Schedule,
                        Settled(s), link[s].status = "synced"
                 PROVE  event[link[s].event].version = schedule[s].version
    BY DEF SyncedIsFresh, SequentialOrder, SequentialFresh, OneWorker
  <2>2. ~Awaits(s)
    BY <2>1 DEF Settled, UnsettledFor, Awaits
  <2>3. \A w \in Worker : ~RunsFor(w, s)
    BY <2>1, RunningAlone DEF Settled, UnsettledFor, RunsFor
  <2> QED BY <2>1, <2>2, <2>3 DEF FreshInv, FreshFor, FreshRow, Settled
<1> QED BY <1>1, Invariant, OrderInvariant, FreshInvariant, PTL

-------------------------------------------------------------------------------
(***************************************************************************)
(* Where the provider obeys, no event is lost sight of.                    *)
(***************************************************************************)

\* A step of a worker, an edit, or the start of a manual sync: what links name
\* and what the calendar holds stay.
Calm(p) ==
    /\ OthersWait(p)
    /\ \A e \in Event : event'[e].state = event[e].state /\ event'[e].schedule = event[e].schedule
    /\ \A s \in Schedule : /\ link'[s].event = link[s].event
                           /\ schedule'[s].live => schedule[s].live
                           /\ \/ link'[s].status = link[s].status
                              \/ /\ \A r \in Request : ~Manual(r, s)
                                 /\ link[s].event = None => Full
    /\ \A k \in JobKey : Unsettled(k)' => Unsettled(k) \/ Serves(k.action, k.schedule)
    /\ p \in Request => /\ pc[p] = "idle" \/ ctx[p].role = "edit"
                        /\ pc'[p] \in {"mark", "save"} => ctx'[p].role = "edit"
                        /\ EditAgrees(p)' /\ ManualAgrees(p)'
    /\ p \in Worker => WorkerAgrees(p)'
    /\ pc[p] \in {"mark", "save"} /\ ctx[p].to = "synced" =>
          \/ link'[ctx[p].schedule].event = ctx[p].event
          \/ /\ pc'[p] \in {"mark", "save"} /\ ctx'[p].to = "synced"
             /\ ctx'[p].event = ctx[p].event /\ ctx'[p].schedule = ctx[p].schedule

LEMMA QuietCalm ==
    ASSUME IInv, IInv', Sequential, OrderInv, QuietInv, NEW p \in Process, Calm(p)
    PROVE  QuietInv'
<1>0. /\ Process = Worker \cup Request /\ Worker \cap Request = {}
      /\ \A r, q \in Request : r = q
      /\ \A q \in Process : q # p => pc'[q] = pc[q] /\ ctx'[q] = ctx[q]
  BY CalendarAssumption DEF Process, Sequential, Calm, OthersWait
<1>1. /\ Full' <=> Full
      /\ \A s \in Schedule : link'[s].event = link[s].event
      /\ \A a, s : s \in Schedule => (Serves(a, s)' <=> Serves(a, s))
  BY DEF Full, Calm, Serves
<1>2. \A k \in JobKey : Unsettled(k)' => Serves(k.action, k.schedule)'
  BY <1>1 DEF Calm, QuietInv, JobKey
<1>3. ASSUME NEW w \in Worker PROVE WorkerAgrees(w)'
  <2>1. CASE w = p
    BY <1>0, <2>1 DEF Calm
  <2>2. CASE w # p
    <3>1. pc[w] # "idle" => ctx[w].schedule \in Schedule
      BY RunningAlone
    <3> QED BY <1>0, <1>1, <2>2, <3>1 DEF QuietInv, WorkerAgrees
  <2> QED BY <2>1, <2>2
<1>4. ASSUME NEW r \in Request PROVE EditAgrees(r)' /\ ManualAgrees(r)'
  <2>1. CASE r = p
    BY <1>0, <2>1 DEF Calm
  <2>2. CASE r # p /\ pc[r] # "idle"
    <3>1. /\ pc'[r] = pc[r] /\ ctx'[r] = ctx[r] /\ EditAgrees(r) /\ ManualAgrees(r)
          /\ LocalsOK(r) /\ ctx[r] \in Context
      BY <1>0, <2>2, Running DEF QuietInv
    <3>2. ctx[r].role \in {"edit", "manual"} => ctx[r].schedule \in Schedule
      BY <2>2, <3>1 DEF LocalsOK
    <3>3. EditAgrees(r)'
      BY <1>1, <3>1, <3>2 DEF EditAgrees
    <3>4. ManualAgrees(r)'
      <4>1. SUFFICES ASSUME Manual(r, ctx[r].schedule) PROVE ManualAgrees(r)'
        BY <3>1 DEF ManualAgrees, Manual
      <4>2. PICK s \in Schedule : s = ctx[r].schedule
        BY <3>2, <4>1 DEF Manual
      <4>3. link'[s].status = link[s].status /\ link'[s].event = link[s].event
        BY <4>1, <4>2 DEF Calm
      <4>4. \A e \in Event : event'[e].state = event[e].state
        BY DEF Calm
      <4>5. pc[r] \in {"mark", "save"} /\ ctx[r].to = "synced" => ctx[r].event \in Event
        BY <3>1 DEF LocalsOK, Context
      <4> QED BY <1>1, <3>1, <4>2, <4>3, <4>4, <4>5 DEF ManualAgrees
    <3> QED BY <3>3, <3>4
  <2>3. CASE r # p /\ pc[r] = "idle"
    BY <1>0, <2>3 DEF EditAgrees, ManualAgrees
  <2> QED BY <2>1, <2>2, <2>3
<1>5. ASSUME NEW s \in Schedule PROVE LinkLives(s)'
  <2>1. Leaving(s)' <=> Leaving(s)
    BY <1>0 DEF Calm, Leaving, Manual
  <2>2. \A r \in Request : Manual(r, s) => Manual(r, s)'
    BY <1>0 DEF Calm, Manual
  <2>3. link[s].event # None => link[s].event \in Event
    BY DEF IInv, TypeOK, LinkRow
  <2>4. link'[s].event # None =>
            event'[link'[s].event].state = IF Leaving(s)' THEN "gone" ELSE "live"
    BY <1>1, <2>1, <2>3 DEF Calm, QuietInv, LinkLives
  <2>5. ASSUME link'[s].event = None, link'[s].status \notin {"absent", "disconnected"}
        PROVE  Full' \/ ~schedule'[s].live \/ \E r \in Request : Manual(r, s)'
    BY <1>1, <2>2, <2>5 DEF Calm, QuietInv, LinkLives
  <2> QED BY <2>4, <2>5 DEF LinkLives
<1>6. ASSUME NEW e \in Event PROVE Accounted(e)'
  <2>1. SUFFICES ASSUME event'[e].state = "live" PROVE Accounted(e)'
    BY DEF Accounted
  <2>2. /\ event[e].state = "live" /\ event'[e].schedule = event[e].schedule
        /\ event[e].schedule \in Schedule
    BY <2>1 DEF Calm, QuietInv, Accounted
  <2>3. CASE link[event[e].schedule].event = e
    BY <1>1, <2>2, <2>3 DEF Accounted
  <2>4. ASSUME NEW q \in Process, pc[q] \in {"mark", "save"},
               ctx[q].schedule = event[e].schedule, ctx[q].event = e, ctx[q].to = "synced"
        PROVE  \/ link'[event[e].schedule].event = e
               \/ /\ pc'[q] \in {"mark", "save"} /\ ctx'[q].schedule = event[e].schedule
                  /\ ctx'[q].event = e /\ ctx'[q].to = "synced"
    BY <1>0, <2>4 DEF Calm
  <2> QED BY <2>2, <2>3, <2>4 DEF QuietInv, Accounted
<1> QED BY <1>2, <1>3, <1>4, <1>5, <1>6 DEF QuietInv

\* A step of a manual sync of s: what other schedules have stays.
Moves(p, s) ==
    /\ p \in Request /\ Manual(p, s) /\ OthersWait(p) /\ UNCHANGED <<schedule, job>>
    /\ pc'[p] # "idle" => ctx'[p].role = "manual" /\ ctx'[p].schedule = s
    /\ \A t \in Schedule \ {s} : link'[t] = link[t]
    /\ \A e \in Event : \/ event'[e] = event[e]
                        \/ /\ event'[e].state # "unused" /\ event'[e].schedule = s
                           /\ event[e].state = "unused" \/ event[e].schedule = s
    /\ LinkLives(s)' /\ ManualAgrees(p)'
    /\ \A e \in Event : event'[e].state = "live" /\ event'[e].schedule = s =>
          \/ link'[s].event = e
          \/ /\ pc'[p] \in {"mark", "save"} /\ ctx'[p].schedule = s
             /\ ctx'[p].event = e /\ ctx'[p].to = "synced"

\* A manual sync of s has it for itself.
LEMMA ManualAlone ==
    ASSUME IInv, OrderInv, NEW r \in Request, NEW s \in Schedule, Manual(r, s)
    PROVE  /\ \A w \in Worker : pc[w] # "idle" => ctx[w].schedule # s
           /\ \A k \in JobKey : Unsettled(k) => k.schedule # s
<1>1. \A k \in JobKey : Unsettled(k) => k.schedule # s
  BY DEF OrderInv, UnsettledFor
<1> QED BY <1>1, RunningAlone

LEMMA QuietMoves ==
    ASSUME IInv, IInv', Sequential, OrderInv, QuietInv, NEW p \in Process, NEW s \in Schedule,
           Moves(p, s)
    PROVE  QuietInv'
<1>0. /\ Process = Worker \cup Request /\ Worker \cap Request = {}
      /\ p \in Request /\ Manual(p, s) /\ \A r \in Request : r = p
      /\ \A q \in Process : q # p => pc'[q] = pc[q] /\ ctx'[q] = ctx[q]
      /\ UNCHANGED <<schedule, job>>
  BY CalendarAssumption DEF Process, Sequential, Moves, OthersWait
<1>a. /\ \A w \in Worker : pc[w] # "idle" => ctx[w].schedule # s
      /\ \A k \in JobKey : Unsettled(k) => k.schedule # s
  BY <1>0, ManualAlone
<1>1. /\ Full => Full'
      /\ \A t \in Schedule \ {s} : link'[t] = link[t]
  BY DEF Full, Moves
<1>b. \A a, t : t \in Schedule \ {s} /\ Serves(a, t) => Serves(a, t)'
  BY <1>1 DEF Serves
<1>2. \A k \in JobKey : Unsettled(k)' => Serves(k.action, k.schedule)'
  BY <1>0, <1>a, <1>b DEF QuietInv, JobKey, Unsettled
<1>3. ASSUME NEW w \in Worker PROVE WorkerAgrees(w)'
  <2>1. /\ pc'[w] = pc[w] /\ ctx'[w] = ctx[w]
        /\ pc[w] # "idle" => ctx[w].schedule \in Schedule \ {s}
    BY <1>0, <1>a, RunningAlone
  <2> QED BY <1>1, <2>1 DEF QuietInv, WorkerAgrees
<1>4. ASSUME NEW r \in Request PROVE EditAgrees(r)' /\ ManualAgrees(r)'
  BY <1>0 DEF Moves, EditAgrees
<1>5. ASSUME NEW t \in Schedule PROVE LinkLives(t)'
  <2>1. CASE t = s
    BY <2>1 DEF Moves
  <2>2. CASE t # s
    <3>1. ~Leaving(t)' /\ ~Leaving(t) /\ \A r \in Request : ~Manual(r, t)
      BY <1>0, <2>2 DEF Moves, Leaving, Manual
    <3>2. link'[t] = link[t] /\ LinkLives(t)
      BY <1>1, <2>2 DEF QuietInv
    <3>3. link[t].event # None =>
             /\ link[t].event \in Event
             /\ event[link[t].event].state # "unused" /\ event[link[t].event].schedule = t
      BY DEF IInv, TypeOK, LinkRow, OrderInv, OwnedBy
    <3>4. link[t].event # None => event'[link[t].event] = event[link[t].event]
      BY <2>2, <3>3 DEF Moves
    <3> QED BY <1>0, <1>1, <3>1, <3>2, <3>4 DEF LinkLives
  <2> QED BY <2>1, <2>2
<1>6. ASSUME NEW e \in Event PROVE Accounted(e)'
  <2>1. CASE event'[e].schedule = s
    BY <1>0, <2>1 DEF Moves, Accounted
  <2>2. CASE event'[e].schedule # s
    <3>1. event'[e] = event[e] /\ Accounted(e)
      BY <2>2 DEF Moves, QuietInv
    <3>2. ASSUME NEW q \in Process, pc[q] \in {"mark", "save"}, ctx[q].schedule = event[e].schedule
          PROVE  pc'[q] = pc[q] /\ ctx'[q] = ctx[q]
      BY <1>0, <2>2, <3>1, <3>2 DEF Manual
    <3> QED BY <1>1, <2>2, <3>1, <3>2 DEF Accounted
  <2> QED BY <2>1, <2>2
<1> QED BY <1>2, <1>3, <1>4, <1>5, <1>6 DEF QuietInv

LEMMA QuietRests ==
    ASSUME QuietInv, Rest
    PROVE  QuietInv'
<1>1. /\ Full' <=> Full
      /\ \A a, s : Serves(a, s)' <=> Serves(a, s)
      /\ \A s : Leaving(s)' <=> Leaving(s)
      /\ \A r, s : Manual(r, s)' <=> Manual(r, s)
  BY DEF Rest, Full, Serves, Leaving, Manual
<1>2. \A s \in Schedule : LinkLives(s)'
  BY <1>1 DEF Rest, QuietInv, LinkLives
<1>3. /\ \A k \in JobKey : Unsettled(k)' => Serves(k.action, k.schedule)'
      /\ \A e \in Event : Accounted(e)'
  BY <1>1 DEF Rest, QuietInv, Accounted
<1>4. /\ \A w \in Worker : WorkerAgrees(w)'
      /\ \A r \in Request : EditAgrees(r)' /\ ManualAgrees(r)'
  BY <1>1 DEF Rest, QuietInv, WorkerAgrees, EditAgrees, ManualAgrees
<1> QED BY <1>2, <1>3, <1>4 DEF QuietInv

-------------------------------------------------------------------------------
\* With one calendar, an event that is in the calendar is found.
LEMMA QuietFound ==
    ASSUME IInv, OrderInv, Quiet, NEW p \in Process, pc[p] = "send",
           ctx[p].event # None, event[ctx[p].event].state = "live"
    PROVE  Found(ctx[p])
<1>1. /\ ctx[p].user \in User /\ event[ctx[p].event].calendar \in User
      /\ ctx[p] \in Context
  BY Running DEF LocalsOK, OrderInv, NamesOwn, OwnedBy
<1> QED BY <1>1 DEF Quiet, Found

\* The steps of a worker.
LEMMA WorkerCalls ==
    ASSUME IInv, WorkInv, Quiet, OrderInv, QuietInv, NEW w \in Worker,
           MarkDone(w) \/ SaveDone(w) \/ AroundDone(w) \/ SendDone(w)
    PROVE  Calm(w)
<1> DEFINE c == ctx[w]
<1>0. /\ Process = Worker \cup Request /\ Worker \cap Request = {}
      /\ w \in Process /\ w \notin Request /\ pc[w] # "idle"
      /\ pc[w] \in {"mark", "save", "call", "reauth", "send"} /\ c \in Context
  BY Running, CalendarAssumption DEF Process, MarkDone, SaveDone, AroundDone, SendDone
<1>1. /\ c.role = "worker" /\ WorkerAgrees(w) /\ WorkerSpares(w)
      /\ c.schedule \in Schedule
      /\ c.key \in JobKey /\ c.key.schedule = c.schedule
      /\ \A r \in Request : ~Manual(r, c.schedule)
      /\ Serves(c.key.action, c.schedule)
  BY <1>0, Task, RunningAlone DEF QuietInv, OrderInv
<1>2. CASE MarkDone(w)
  <2>1. /\ pc[w] = "mark" /\ OthersWait(w) /\ UNCHANGED <<schedule, link, job, event>> /\ SameWork(w)
        /\ ctx'[w].event = c.event /\ ctx'[w].to = c.to
        /\ \/ pc'[w] = "save" /\ ctx'[w].row = link[c.schedule]
           \/ pc'[w] = "finish"
    BY <1>1, <1>2 DEF MarkDone
  <2>2. WorkerAgrees(w)' /\ link[c.schedule].event = c.event
    BY <1>1, <2>1 DEF WorkerAgrees, SameWork, SameTask
  <2> HIDE DEF c
  <2> QED BY <1>0, <2>1, <2>2 DEF Calm, Unsettled, c
<1>3. CASE SaveDone(w)
  <2>1. /\ pc[w] = "save" /\ OthersWait(w) /\ UNCHANGED <<schedule, job, event>>
        /\ \A s \in Schedule \ {c.schedule} : link'[s] = link[s]
        /\ link'[c.schedule].event \in {c.event, c.row.event}
        /\ c.to = "synced" => link'[c.schedule].event = c.event
        /\ pc'[w] = "finish"
    BY <1>0, <1>1, <1>3 DEF SaveDone, AfterSave, WorkerSpares
  <2>2. link'[c.schedule].event = link[c.schedule].event /\ WorkerAgrees(w)'
    BY <1>1, <2>1 DEF WorkerAgrees
  <2>3. link[c.schedule].event = None => Full
    BY <1>1 DEF Serves
  <2> HIDE DEF c
  <2> QED BY <1>0, <1>1, <2>1, <2>2, <2>3 DEF Calm, Unsettled, c
<1>4. CASE AroundDone(w)
  <2>1. /\ pc[w] = "call" /\ pc'[w] = "send"
        /\ OthersWait(w) /\ UNCHANGED <<schedule, link, job, event, ctx>>
    BY <1>1, <1>4 DEF AroundDone, WorkerAgrees
  <2>2. WorkerAgrees(w)'
    BY <1>1, <2>1 DEF WorkerAgrees
  <2> QED BY <1>0, <2>1, <2>2 DEF Calm, Unsettled
<1>5. CASE SendDone(w)
  <2>1. /\ pc[w] = "send" /\ OthersWait(w) /\ SameWork(w)
        /\ UNCHANGED <<schedule, link, job>> /\ pc'[w] = "mark"
    BY <1>5 DEF SendDone, Quiet
  <2>2. /\ c.action # "delete" /\ c.action = c.key.action
        /\ c.action = "create" => Full
    BY <1>1, <2>1 DEF WorkerAgrees, WorkerSpares, Serves
  <2>3. /\ \A e \in Event : event'[e].state = event[e].state /\ event'[e].schedule = event[e].schedule
        /\ ctx'[w].event = c.event
    BY <1>5, <2>2 DEF SendDone, Full
  <2>4. WorkerAgrees(w)'
    BY <1>1, <2>1, <2>3 DEF WorkerAgrees, SameWork, SameTask
  <2> QED BY <1>0, <2>1, <2>3, <2>4 DEF Calm, Unsettled
<1> QED BY <1>2, <1>3, <1>4, <1>5

LEMMA WorkerTurns ==
    ASSUME IInv, QuietInv, NEW w \in Worker,
           \/ \E k \in JobKey : StartDone(w, k)
           \/ FinishDone(w)
    PROVE  Calm(w)
<1>0. w \notin Request
  BY CalendarAssumption
<1>1. ASSUME NEW k \in JobKey, StartDone(w, k) PROVE Calm(w)
  <2>1. /\ pc[w] = "idle" /\ pc'[w] \in {"call", "finish"} /\ OthersWait(w)
        /\ UNCHANGED <<schedule, link, job, event>>
        /\ ctx'[w].key = k /\ ctx'[w].action = k.action
        /\ ctx'[w].event = link[ctx'[w].schedule].event
    BY <1>1 DEF StartDone
  <2>2. WorkerAgrees(w)'
    BY <2>1 DEF WorkerAgrees
  <2> QED BY <1>0, <2>1, <2>2 DEF Calm, Unsettled
<1>2. ASSUME FinishDone(w) PROVE Calm(w)
  <2>1. /\ pc[w] = "finish" /\ pc'[w] = "idle" /\ OthersWait(w)
        /\ UNCHANGED <<schedule, link, event>>
        /\ \A k \in JobKey : Unsettled(k)' => Unsettled(k)
    BY <1>2 DEF FinishDone, Unsettled
  <2>2. WorkerAgrees(w)'
    BY <2>1 DEF WorkerAgrees
  <2> QED BY <1>0, <2>1, <2>2 DEF Calm
<1> QED BY <1>1, <1>2

\* The steps of an edit, and the first one of a manual sync.
LEMMA EditCalls ==
    ASSUME IInv, WorkInv, Quiet, OrderInv, QuietInv, NEW r \in Request, ctx[r].role = "edit",
           MarkDone(r) \/ SaveDone(r) \/ AroundDone(r) \/ SendDone(r)
    PROVE  Calm(r)
<1> DEFINE c == ctx[r]
<1>0. /\ r \in Process /\ r \notin Worker /\ pc[r] # "idle" /\ c \in Context /\ LocalsOK(r)
      /\ pc[r] \in {"mark", "save", "call", "reauth", "send"}
      /\ \A q \in Request : q = r
  BY Running, CalendarAssumption
     DEF Process, MarkDone, SaveDone, AroundDone, SendDone, Quiet, Sequential
<1>1. /\ pc[r] \in {"mark", "save"} /\ c.schedule \in Schedule /\ c.to = "pending"
      /\ EditAgrees(r)
  BY <1>0 DEF LocalsOK, QuietInv
<1>2. CASE MarkDone(r)
  <2>1. /\ pc[r] = "mark" /\ OthersWait(r) /\ UNCHANGED <<schedule, link, job, event>> /\ SameTask(r)
        /\ pc'[r] = "save" /\ ctx'[r].row = link[c.schedule]
    BY <1>2 DEF MarkDone, SameWork
  <2>2. EditAgrees(r)' /\ ManualAgrees(r)'
    BY <1>1, <2>1 DEF EditAgrees, ManualAgrees, SameTask, Serves, Full
  <2> QED BY <1>0, <1>1, <2>1, <2>2 DEF Calm, Unsettled, SameTask
<1>3. CASE SaveDone(r)
  <2>1. /\ pc[r] = "save" /\ OthersWait(r) /\ UNCHANGED <<schedule, job, event>>
        /\ \A s \in Schedule \ {c.schedule} : link'[s] = link[s]
        /\ link'[c.schedule].event = c.row.event
        /\ pc'[r] = "insert" /\ SameTask(r)
    BY <1>1, <1>3 DEF SaveDone, AfterSave, SameWork
  <2>2. /\ link'[c.schedule].event = link[c.schedule].event
        /\ link[c.schedule].event = None => Full
    BY <1>1, <2>1 DEF EditAgrees, Serves
  <2>3. EditAgrees(r)' /\ ManualAgrees(r)'
    BY <1>1, <2>1, <2>2 DEF EditAgrees, ManualAgrees, SameTask, Serves, Full
  <2>4. \A q \in Request : ~Manual(q, c.schedule)
    BY <1>0 DEF Manual
  <2> HIDE DEF c
  <2> QED BY <1>0, <1>1, <2>1, <2>2, <2>3, <2>4 DEF Calm, Unsettled, c
<1> QED BY <1>1, <1>2, <1>3 DEF AroundDone, SendDone

LEMMA EditTurns ==
    ASSUME IInv, WorkInv, Quiet, OrderInv, QuietInv, NEW r \in Request,
           \/ \E s \in Schedule : EditDone(r, s) \/ BeginDone(r, s)
           \/ LoadMutationDone(r) \/ InsertDone(r)
    PROVE  Calm(r)
<1>0. r \in Process /\ r \notin Worker /\ \A q \in Request : q = r
  BY CalendarAssumption DEF Process, Quiet, Sequential
<1>1. ASSUME NEW s \in Schedule, EditDone(r, s) PROVE Calm(r)
  <2>1. EditAgrees(r)' /\ ManualAgrees(r)'
    BY <1>1 DEF EditDone, EditAgrees, ManualAgrees
  <2> QED BY <1>0, <1>1, <2>1 DEF EditDone, Calm, Unsettled
<1>2. ASSUME NEW s \in Schedule, BeginDone(r, s) PROVE Calm(r)
  <2>1. EditAgrees(r)' /\ ManualAgrees(r)'
    BY <1>2 DEF BeginDone, EditAgrees, ManualAgrees
  <2> QED BY <1>0, <1>2, <2>1 DEF BeginDone, Calm, Unsettled
<1>3. ASSUME LoadMutationDone(r) PROVE Calm(r)
  <2>1. /\ pc[r] = "enqueue" /\ ctx[r].role = "edit" /\ OthersWait(r)
        /\ UNCHANGED <<schedule, link, job, event>>
    BY <1>3 DEF LoadMutationDone
  <2>2. CASE pc'[r] = "idle"
    BY <1>0, <2>1, <2>2 DEF Calm, Unsettled, EditAgrees, ManualAgrees
  <2>3. CASE pc'[r] # "idle"
    <3>1. PICK s \in Schedule : s = ctx[r].schedule
      BY <1>3 DEF LoadMutationDone
    <3>2. /\ pc'[r] = "mark" /\ ctx'[r].role = "edit" /\ ctx'[r].schedule = s
          /\ schedule[s].live /\ link[s].status \notin {"absent", "disconnected"}
          /\ ctx'[r].key.action = (IF link[s].event = None THEN "create" ELSE "update")
      BY <1>3, <2>3, <3>1 DEF LoadMutationDone
    <3>3. link[s].event = None => Full
      BY <1>0, <2>1, <3>2 DEF QuietInv, LinkLives, Manual
    <3>4. EditAgrees(r)' /\ ManualAgrees(r)'
      BY <2>1, <3>2, <3>3 DEF EditAgrees, ManualAgrees, Serves, Full
    <3> QED BY <1>0, <2>1, <3>2, <3>4 DEF Calm, Unsettled
  <2> QED BY <2>2, <2>3
<1>4. ASSUME InsertDone(r) PROVE Calm(r)
  <2>1. /\ pc[r] = "insert" /\ ctx[r].role = "edit" /\ OthersWait(r) /\ pc'[r] = "idle"
        /\ UNCHANGED <<schedule, link, event>> /\ ctx[r].key.schedule = ctx[r].schedule
        /\ \A k \in JobKey \ {ctx[r].key} : job'[k] = job[k]
    BY <1>4 DEF InsertDone
  <2>2. Serves(ctx[r].key.action, ctx[r].key.schedule)
    BY <2>1 DEF QuietInv, EditAgrees
  <2>3. \A k \in JobKey : Unsettled(k)' => Unsettled(k) \/ Serves(k.action, k.schedule)
    BY <2>1, <2>2 DEF Unsettled
  <2> QED BY <1>0, <2>1, <2>3 DEF Calm, EditAgrees, ManualAgrees
<1> QED BY <1>1, <1>2, <1>3, <1>4

-------------------------------------------------------------------------------
\* The events of a schedule that a manual sync has for itself: its link names
\* them, or the sync is about to.
LEMMA ManualKnows ==
    ASSUME IInv, Quiet, OrderInv, QuietInv, NEW r \in Request, NEW s \in Schedule, Manual(r, s),
           NEW e \in Event, event[e].state = "live", event[e].schedule = s
    PROVE  \/ link[s].event = e
           \/ pc[r] \in {"mark", "save"} /\ ctx[r].event = e /\ ctx[r].to = "synced"
<1>1. SUFFICES ASSUME NEW p \in Process, pc[p] \in {"mark", "save"}, ctx[p].schedule = s,
                      ctx[p].event = e, ctx[p].to = "synced"
               PROVE  p = r
  BY DEF QuietInv, Accounted
<1> QED BY <1>1, ManualAlone DEF Process, Quiet, Sequential

LEMMA ManualMarks ==
    ASSUME IInv, Quiet, OrderInv, QuietInv, NEW r \in Request, NEW s \in Schedule,
           Manual(r, s), MarkDone(r)
    PROVE  Moves(r, s)
<1>0. /\ pc[r] = "mark" /\ ctx[r].role = "manual" /\ ctx[r].schedule = s /\ ManualAgrees(r)
      /\ LinkLives(s) /\ \A q \in Request : q = r
      /\ OthersWait(r) /\ UNCHANGED <<schedule, link, job, event>> /\ SameWork(r) /\ SameTask(r)
      /\ ctx'[r].event = ctx[r].event
  BY DEF MarkDone, Manual, QuietInv, Quiet, Sequential, SameWork
<1>1. pc'[r] = "save" /\ ctx'[r].to = ctx[r].to /\ ctx'[r].row = link[s]
  <2>1. r \in Process /\ LocalsOK(r) /\ ctx[r] \in Context /\ Present(s) /\ link[s] \in LinkRow
    BY <1>0, Running DEF IInv, TypeOK, LocalsOK, Process
  <2>2. CanTransitionLink(link[s].status, ctx[r].to)
    BY <1>0, <2>1 DEF ManualAgrees, CanTransitionLink, Present, LinkRow, LinkStatus, Context
  <2> QED BY <1>0, <2>2 DEF MarkDone
<1>2. ManualAgrees(r)'
  BY <1>0, <1>1 DEF ManualAgrees, SameWork, SameTask, Full
<1>3. Leaving(s)' <=> Leaving(s)
  BY <1>0, <1>1 DEF Leaving, Manual, SameTask
<1>4. LinkLives(s)'
  BY <1>0, <1>1, <1>3 DEF LinkLives, Manual, SameTask, Full
<1>5. \A e \in Event : event'[e].state = "live" /\ event'[e].schedule = s =>
          \/ link'[s].event = e
          \/ /\ pc'[r] \in {"mark", "save"} /\ ctx'[r].schedule = s
             /\ ctx'[r].event = e /\ ctx'[r].to = "synced"
  BY <1>0, <1>1, ManualKnows DEF SameTask
<1> QED BY <1>0, <1>1, <1>2, <1>4, <1>5 DEF Moves, SameTask

LEMMA ManualSaves ==
    ASSUME IInv, Quiet, OrderInv, QuietInv, NEW r \in Request, NEW s \in Schedule,
           Manual(r, s), SaveDone(r)
    PROVE  Moves(r, s)
<1> DEFINE c == ctx[r]
<1>0. /\ pc[r] = "save" /\ c.role = "manual" /\ c.schedule = s /\ ManualAgrees(r)
      /\ LinkLives(s) /\ \A q \in Request : q = r
      /\ OthersWait(r) /\ UNCHANGED <<schedule, job, event>>
      /\ \A t \in Schedule \ {s} : link'[t] = link[t]
      /\ link'[s].status = c.to
      /\ c.to = "synced" => link'[s].event = c.event
      /\ c.to = "disconnected" => link'[s].event = None
      /\ c.to \notin {"synced", "disconnected"} => link'[s].event = c.row.event
  BY DEF SaveDone, Manual, QuietInv, Quiet, Sequential
<1>1. IF c.to = "pending"
         THEN pc'[r] = "load" /\ SameWork(r) /\ SameTask(r) /\ ctx'[r].event = c.event
         ELSE pc'[r] = "idle"
  BY <1>0 DEF SaveDone, AfterSave, SameWork
<1>2. LocalsOK(r) /\ c \in Context /\ r \in Process
  BY <1>0, Running DEF Process
<1>3. c.to \in {"pending", "synced", "failed", "disconnected"}
  BY <1>2 DEF Context, LinkStatus
<1>4. ~Leaving(s)' /\ (c.to = "disconnected" => Leaving(s))
  BY <1>0, <1>1 DEF Leaving, Manual
<1>5. CASE c.to = "pending"
  <2>1. link'[s].event = link[s].event /\ c.event = link[s].event /\ ~Leaving(s)
        /\ (c.action = "create" <=> c.event = None) /\ c.action # "delete"
    BY <1>0, <1>5 DEF ManualAgrees, Leaving
  <2>2. Manual(r, s)'
    BY <1>0, <1>1, <1>5 DEF Manual, SameTask
  <2>3. LinkLives(s)'
    BY <1>0, <1>4, <2>1, <2>2 DEF LinkLives
  <2>4. ManualAgrees(r)'
    BY <1>0, <1>1, <1>5, <2>1 DEF ManualAgrees, SameWork, SameTask
  <2>5. \A e \in Event : event'[e].state = "live" /\ event'[e].schedule = s => link'[s].event = e
    BY <1>0, <1>5, <2>1, ManualKnows
  <2> QED BY <1>0, <1>1, <1>5, <2>3, <2>4, <2>5 DEF Moves, SameTask
<1>6. CASE c.to = "synced"
  <2>1. /\ link'[s].event = c.event /\ c.event # None
        /\ link[s].event \in {None, c.event} /\ event[c.event].state = "live"
    BY <1>0, <1>2, <1>6 DEF ManualAgrees, LocalsOK
  <2>2. LinkLives(s)'
    BY <1>0, <1>4, <2>1 DEF LinkLives
  <2>3. ManualAgrees(r)'
    BY <1>1, <1>6 DEF ManualAgrees
  <2>4. \A e \in Event : event'[e].state = "live" /\ event'[e].schedule = s => link'[s].event = e
    BY <1>0, <2>1, ManualKnows, CalendarAssumption
  <2> QED BY <1>0, <1>1, <1>6, <2>2, <2>3, <2>4 DEF Moves
<1>7. CASE c.to = "failed"
  <2>1. link'[s].event = None /\ link[s].event = None /\ Full
    BY <1>0, <1>7 DEF ManualAgrees
  <2>2. LinkLives(s)'
    BY <1>0, <2>1 DEF LinkLives, Full
  <2>3. ManualAgrees(r)'
    BY <1>1, <1>7 DEF ManualAgrees
  <2>4. \A e \in Event : event'[e].state = "live" /\ event'[e].schedule = s => link'[s].event = e
    BY <1>0, <1>7, <2>1, ManualKnows
  <2> QED BY <1>0, <1>1, <1>7, <2>2, <2>3, <2>4 DEF Moves
<1>8. CASE c.to = "disconnected"
  <2>1. link'[s].event = None /\ Leaving(s)
    BY <1>0, <1>4, <1>8
  <2>2. LinkLives(s)'
    BY <1>0, <1>8, <2>1 DEF LinkLives
  <2>3. ManualAgrees(r)'
    BY <1>1, <1>8 DEF ManualAgrees
  <2>4. \A e \in Event : ~(event'[e].state = "live" /\ event'[e].schedule = s)
    <3>1. ASSUME NEW e \in Event, link[s].event = e PROVE event[e].state = "gone"
      BY <1>0, <2>1, <3>1, CalendarAssumption DEF LinkLives
    <3> QED BY <1>0, <1>8, <3>1, ManualKnows
  <2> QED BY <1>0, <1>1, <1>8, <2>2, <2>3, <2>4 DEF Moves
<1> QED BY <1>3, <1>5, <1>6, <1>7, <1>8

LEMMA ManualAround ==
    ASSUME IInv, Quiet, OrderInv, QuietInv, NEW r \in Request, NEW s \in Schedule,
           Manual(r, s), AroundDone(r)
    PROVE  Moves(r, s)
<1>0. /\ ctx[r].role = "manual" /\ ctx[r].schedule = s /\ ManualAgrees(r) /\ LinkLives(s)
      /\ \A q \in Request : q = r
      /\ OthersWait(r) /\ UNCHANGED <<schedule, link, job, event, ctx>>
      /\ pc[r] \in {"call", "reauth"} /\ (pc[r] = "call" => pc'[r] = "send")
  BY DEF AroundDone, Manual, QuietInv, Quiet, Sequential
<1>1. pc[r] = "call" /\ pc'[r] = "send"
  BY <1>0 DEF ManualAgrees
<1>2. ManualAgrees(r)'
  BY <1>0, <1>1 DEF ManualAgrees
<1>3. /\ Leaving(s)' <=> Leaving(s)
      /\ \A q \in Request : Manual(q, s)' <=> Manual(q, s)
  BY <1>0, <1>1 DEF Leaving, Manual
<1>4. LinkLives(s)'
  BY <1>0, <1>3 DEF LinkLives, Full
<1>5. \A e \in Event : event'[e].state = "live" /\ event'[e].schedule = s => link'[s].event = e
  BY <1>0, <1>1, ManualKnows
<1> QED BY <1>0, <1>1, <1>2, <1>4, <1>5 DEF Moves

LEMMA ManualSends ==
    ASSUME IInv, Quiet, OrderInv, QuietInv, NEW r \in Request, NEW s \in Schedule,
           Manual(r, s), SendDone(r)
    PROVE  Moves(r, s)
<1> DEFINE c == ctx[r]  d == ctx'[r]
<1>0. /\ pc[r] = "send" /\ c.role = "manual" /\ c.schedule = s /\ ManualAgrees(r)
      /\ LinkLives(s) /\ \A q \in Request : q = r
      /\ OthersWait(r) /\ UNCHANGED <<schedule, link, job>>
      /\ pc'[r] = "mark" /\ d.role = "manual" /\ d.schedule = s
      /\ Environment \cap {"error", "lost", "reauth"} = {}
  BY DEF SendDone, SameWork, SameTask, Manual, QuietInv, Quiet, Sequential
<1>1. /\ c.event = link[s].event
      /\ c.action = "create" <=> c.event = None
      /\ c.action # "delete" => link[s].status = "pending"
      /\ c.event \in Event \cup {None} /\ r \in Process
  BY <1>0, Running DEF ManualAgrees, Context, Process
<1>2. c.event # None =>
         /\ c.event \in Event /\ event[c.event].state = "live" /\ event[c.event].schedule = s
         /\ Found(c)
  <2>1. c.event # None => event[c.event].state = "live"
    BY <1>0, <1>1 DEF LinkLives, Leaving
  <2>2. c.event # None => event[c.event].schedule = s
    BY <1>1 DEF OrderInv, OwnedBy
  <2> QED BY <1>0, <1>1, <2>1, <2>2, QuietFound
<1>3. \A e \in Event : event[e].state = "live" /\ event[e].schedule = s => e = c.event
  BY <1>0, <1>1, ManualKnows
<1>4. Leaving(s)' <=> d.to = "disconnected"
  BY <1>0 DEF Leaving, Manual
<1>5. Manual(r, s)'
  BY <1>0 DEF Manual
<1> HIDE DEF c, d
<1>6. ASSUME c.action = "create", NEW e \in Event, event[e].state = "unused",
             event'[e].state = "live", event'[e].schedule = s,
             \A o \in Event \ {e} : event'[o] = event[o],
             d.to = "synced", d.event = e
      PROVE  Moves(r, s)
  <2>1. c.event = None /\ link[s].event = None /\ link[s].status = "pending"
    BY <1>1, <1>6
  <2>2. LinkLives(s)'
    BY <1>0, <1>5, <2>1 DEF LinkLives
  <2>3. ManualAgrees(r)'
    BY <1>0, <1>6, <2>1 DEF ManualAgrees, d
  <2>4. \A o \in Event : event'[o].state = "live" /\ event'[o].schedule = s => o = e
    BY <1>3, <1>6, <2>1, CalendarAssumption
  <2> QED BY <1>0, <1>6, <2>2, <2>3, <2>4 DEF Moves, d
<1>7. ASSUME c.action = "update", d.event = c.event, d.to = "synced",
             \A e \in Event : /\ event'[e].state = event[e].state
                              /\ event'[e].schedule = event[e].schedule
                              /\ e # c.event => event'[e] = event[e]
      PROVE  Moves(r, s)
  <2>1. c.event # None /\ link[s].event = c.event /\ link[s].status = "pending"
    BY <1>1, <1>7
  <2>2. event'[c.event].state = "live" /\ event'[c.event].schedule = s /\ c.event \in Event
    BY <1>2, <1>7, <2>1
  <2>3. LinkLives(s)'
    BY <1>0, <1>4, <1>7, <2>1, <2>2 DEF LinkLives
  <2>4. ManualAgrees(r)'
    BY <1>0, <1>7, <2>1, <2>2 DEF ManualAgrees, d
  <2>5. \A e \in Event : event'[e].state = "live" /\ event'[e].schedule = s => link'[s].event = e
    BY <1>0, <1>3, <1>7, <2>1
  <2>6. \A e \in Event : \/ event'[e] = event[e]
                         \/ /\ event'[e].state # "unused" /\ event'[e].schedule = s
                            /\ event[e].schedule = s
    BY <1>2, <1>7, <2>1, <2>2
  <2> QED BY <1>0, <2>3, <2>4, <2>5, <2>6 DEF Moves, d
<1>8. ASSUME c.action = "delete", c.event # None, d.event = c.event, d.to = "disconnected",
             \A e \in Event \ {c.event} : event'[e] = event[e],
             event'[c.event].state = "gone",
             event'[c.event].schedule = event[c.event].schedule
      PROVE  Moves(r, s)
  <2>1. link[s].event = c.event /\ c.event \in Event
    BY <1>1, <1>8
  <2>2. LinkLives(s)'
    BY <1>0, <1>4, <1>8, <2>1 DEF LinkLives
  <2>3. ManualAgrees(r)'
    BY <1>0, <1>8 DEF ManualAgrees, d
  <2>4. \A e \in Event : ~(event'[e].state = "live" /\ event'[e].schedule = s)
    BY <1>3, <1>8
  <2>5. \A e \in Event : \/ event'[e] = event[e]
                         \/ /\ event'[e].state # "unused" /\ event'[e].schedule = s
                            /\ event[e].schedule = s
    BY <1>2, <1>8
  <2> QED BY <1>0, <2>2, <2>3, <2>4, <2>5 DEF Moves, d
<1>9. ASSUME event' = event, d.event = c.event, d.to = "failed", c.action = "create", Full
      PROVE  Moves(r, s)
  <2>1. c.event = None /\ link[s].event = None
    BY <1>1, <1>9
  <2>2. LinkLives(s)'
    BY <1>0, <1>5, <2>1 DEF LinkLives
  <2>3. ManualAgrees(r)'
    BY <1>0, <1>9, <2>1 DEF ManualAgrees, d, Full
  <2>4. \A e \in Event : ~(event'[e].state = "live" /\ event'[e].schedule = s)
    BY <1>3, <1>9, <2>1, CalendarAssumption
  <2> QED BY <1>0, <1>9, <2>2, <2>3, <2>4 DEF Moves, d
<1>10. \/ /\ c.action = "create"
          /\ \E e \in Event : /\ event[e].state = "unused"
                              /\ event'[e].state = "live" /\ event'[e].schedule = s
                              /\ \A o \in Event \ {e} : event'[o] = event[o]
                              /\ d.to = "synced" /\ d.event = e
       \/ /\ c.action = "update" /\ d.event = c.event /\ d.to = "synced"
          /\ \A e \in Event : /\ event'[e].state = event[e].state
                              /\ event'[e].schedule = event[e].schedule
                              /\ e # c.event => event'[e] = event[e]
       \/ /\ c.action = "delete" /\ c.event # None /\ d.event = c.event /\ d.to = "disconnected"
          /\ \A e \in Event \ {c.event} : event'[e] = event[e]
          /\ event'[c.event].state = "gone"
          /\ event'[c.event].schedule = event[c.event].schedule
       \/ event' = event /\ d.event = c.event /\ d.to = "failed" /\ c.action = "create" /\ Full
  <2>1. SendDone(r) /\ (c.action # "create" => Found(c)) /\ (Found(c) => c.event # None)
        /\ c.schedule = s
    BY <1>0, <1>1, <1>2 DEF Found, c
  <2> QED BY <1>0, <2>1 DEF SendDone, c, d
<1> QED BY <1>6, <1>7, <1>8, <1>9, <1>10

\* With one calendar, the link is found to be the caller's own.
LEMMA ManualUpserts ==
    ASSUME IInv, Quiet, OrderInv, QuietInv, NEW r \in Request, NEW s \in Schedule,
           Manual(r, s), UpsertDone(r)
    PROVE  Moves(r, s)
<1> DEFINE c == ctx[r]  d == ctx'[r]
<1>0. /\ pc[r] = "upsert" /\ c.role = "manual" /\ c.schedule = s /\ LinkLives(s)
      /\ \A q \in Request : q = r
      /\ OthersWait(r) /\ UNCHANGED <<schedule, job, event>>
      /\ d.role = "manual" /\ d.schedule = s
      /\ \A t \in Schedule \ {s} : link'[t] = link[t]
      /\ IF link[s].status = "absent"
            THEN link'[s].status = "pending" /\ link'[s].event = None
            ELSE link' = link
      /\ d.event = IF link[s].connection = c.user THEN link[s].event ELSE None
      /\ d.action = IF c.action = "delete" THEN "delete"
                    ELSE IF d.event = None THEN "create" ELSE "update"
      /\ d.to = IF d.action = "delete" THEN "disconnected" ELSE "pending"
      /\ pc'[r] = IF d.action = "delete" /\ d.event # None THEN "call" ELSE "mark"
  BY DEF UpsertDone, Manual, QuietInv, Quiet, Sequential
<1>1. c.user \in User /\ (link[s].status # "absent" => link[s].connection = c.user)
  <2>1. LocalsOK(r) /\ r \in Process
    BY <1>0, Running DEF Process
  <2>2. c.user \in User
    BY <1>0, <2>1 DEF LocalsOK
  <2>3. link[s].status # "absent" => link[s].connection \in User
    BY DEF IInv, LinkRows, Present
  <2> QED BY <2>2, <2>3 DEF Quiet
<1>2. link[s].status = "absent" => link[s].event = None
  BY DEF IInv, LinkNamesEvent
<1>3. d.event = link[s].event /\ link'[s].event = link[s].event
  BY <1>0, <1>1, <1>2
<1>4. Manual(r, s)' /\ ~Leaving(s)
  BY <1>0 DEF Manual, Leaving
<1>5. Leaving(s)' => link[s].event = None
  BY <1>0, <1>3 DEF Leaving, Manual
<1>6. LinkLives(s)'
  BY <1>0, <1>3, <1>4, <1>5 DEF LinkLives
<1>7. d.action = "create" <=> (d.action # "delete" /\ d.event = None)
  BY <1>0
<1> HIDE DEF d
<1>8. ManualAgrees(r)'
  <2>1. CASE pc'[r] = "call"
    BY <1>0, <1>3, <1>7, <2>1 DEF ManualAgrees, d
  <2>2. CASE pc'[r] = "mark"
    BY <1>0, <1>3, <1>7, <2>2 DEF ManualAgrees, d
  <2> QED BY <1>0, <2>1, <2>2
<1>9. \A e \in Event : event'[e].state = "live" /\ event'[e].schedule = s => link'[s].event = e
  BY <1>0, <1>3, ManualKnows
<1> QED BY <1>0, <1>6, <1>8, <1>9 DEF Moves, Manual, d

LEMMA ManualLoads ==
    ASSUME IInv, Quiet, OrderInv, QuietInv, NEW r \in Request, NEW s \in Schedule,
           Manual(r, s), LoadScheduleDone(r)
    PROVE  Moves(r, s)
<1>0. /\ pc[r] = "load" /\ ctx[r].role = "manual" /\ ctx[r].schedule = s
      /\ LinkLives(s) /\ ManualAgrees(r)
      /\ \A q \in Request : q = r
      /\ OthersWait(r) /\ UNCHANGED <<schedule, link, job, event>>
      /\ IF schedule[s].live
            THEN /\ pc'[r] = "call" /\ SameWork(r) /\ SameTask(r) /\ ctx'[r].event = ctx[r].event
                 /\ ctx'[r].to = ctx[r].to
            ELSE pc'[r] = "idle"
  BY DEF LoadScheduleDone, Manual, QuietInv, Quiet, Sequential, SameWork
<1>1. ManualAgrees(r)'
  BY <1>0 DEF ManualAgrees, SameWork, SameTask
<1>2. ~Leaving(s) /\ ~Leaving(s)' /\ (schedule[s].live => Manual(r, s)')
  BY <1>0 DEF Leaving, Manual, SameTask
<1>3. LinkLives(s)'
  BY <1>0, <1>2 DEF LinkLives, Full
<1>4. \A e \in Event : event'[e].state = "live" /\ event'[e].schedule = s => link'[s].event = e
  BY <1>0, ManualKnows
<1> QED BY <1>0, <1>1, <1>3, <1>4 DEF Moves, SameTask

LEMMA QuietNext ==
    ASSUME IInv, IInv', WorkInv, Quiet, NoDeletes, OrderInv, QuietInv, [Next]_vars
    PROVE  QuietInv'
<1>0. Sequential /\ Process = Worker \cup Request
  BY DEF Quiet, Process
<1>1. ASSUME NEW p \in Process, MarkDone(p) \/ SaveDone(p) \/ AroundDone(p) \/ SendDone(p)
      PROVE  QuietInv'
  <2>1. pc[p] # "idle" /\ pc[p] \notin {"list", "unlink"}
    BY <1>1 DEF MarkDone, SaveDone, AroundDone, SendDone
  <2>2. CASE p \in Worker
    BY <1>0, <1>1, <2>2, WorkerCalls, QuietCalm
  <2>3. CASE p \in Request /\ ctx[p].role = "edit"
    BY <1>0, <1>1, <2>3, EditCalls, QuietCalm
  <2>4. CASE p \in Request /\ ctx[p].role # "edit"
    <3>1. /\ ctx[p].role \in {"worker", "edit", "manual", "disconnect"}
          /\ ctx[p].role # "worker" /\ ctx[p].role # "disconnect"
      BY <2>1, <2>4, Task, CalendarAssumption DEF WorkInv
    <3>2. ctx[p].schedule \in Schedule
      BY <2>1, Running DEF LocalsOK
    <3>3. PICK s \in Schedule : s = ctx[p].schedule
      BY <3>2
    <3>4. Manual(p, s)
      BY <2>1, <2>4, <3>1, <3>3 DEF Manual
    <3>5. Moves(p, s)
      BY <1>1, <2>4, <3>4, ManualMarks, ManualSaves, ManualAround, ManualSends
    <3> QED BY <1>0, <3>5, QuietMoves
  <2> QED BY <1>0, <2>2, <2>3, <2>4
<1>2. ASSUME NEW w \in Worker, FinishDone(w) \/ \E k \in JobKey : StartDone(w, k)
      PROVE  QuietInv'
  BY <1>0, <1>2, WorkerTurns, QuietCalm
<1>3. ASSUME NEW r \in Request,
             \/ \E s \in Schedule : EditDone(r, s) \/ BeginDone(r, s)
             \/ LoadMutationDone(r) \/ InsertDone(r)
      PROVE  QuietInv'
  BY <1>0, <1>3, EditTurns, QuietCalm
<1>4. ASSUME NEW r \in Request, UpsertDone(r) \/ LoadScheduleDone(r)
      PROVE  QuietInv'
  <2>1. PICK s \in Schedule : s = ctx[r].schedule
    BY <1>4 DEF UpsertDone, LoadScheduleDone
  <2>2. Manual(r, s)
    BY <1>4, <2>1 DEF Manual, UpsertDone, LoadScheduleDone
  <2>3. Moves(r, s)
    BY <1>4, <2>2, ManualUpserts, ManualLoads
  <2> QED BY <1>0, <2>3, QuietMoves
<1>5. ASSUME Rest PROVE QuietInv'
  BY <1>5, QuietRests
<1> QED BY <1>0, <1>1, <1>2, <1>3, <1>4, <1>5, StepShapes

\* Where the provider obeys and there is one calendar, the event a link names is
\* in the calendar, jobs, workers and requests agree with the link on it, and
\* whatever is in the calendar has such a link (calendar_sync_workflow.go,
\* calendar_sync_worker.go).
THEOREM QuietInvariant == Spec => []QuietAgreement
<1>1. Init => QuietAgreement
  <2>1. SUFFICES ASSUME Init PROVE QuietInv
    BY DEF QuietAgreement
  <2>2. /\ \A s \in Schedule : link[s].status = "absent" /\ link[s].event = None
        /\ \A k \in JobKey : job[k].status = "absent"
        /\ \A e \in Event : event[e].state = "unused"
        /\ \A p \in Worker \cup Request : pc[p] = "idle"
    BY <2>1 DEF Init, NoLink, NoJob, NoEvent, Process
  <2>3. /\ \A s \in Schedule : LinkLives(s)
        /\ \A k \in JobKey : ~Unsettled(k)
        /\ \A e \in Event : Accounted(e)
    BY <2>2 DEF LinkLives, Unsettled, Accounted
  <2>4. /\ \A w \in Worker : WorkerAgrees(w)
        /\ \A r \in Request : EditAgrees(r) /\ ManualAgrees(r)
    BY <2>2 DEF WorkerAgrees, EditAgrees, ManualAgrees
  <2> QED BY <2>3, <2>4 DEF QuietInv
<1>2. IInv /\ IInv' /\ SequentialWork /\ NoDeletes /\ SequentialOrder /\ QuietAgreement
        /\ [Next]_vars => QuietAgreement'
  BY QuietNext DEF QuietAgreement, SequentialOrder, SequentialWork, Sequential, Quiet
<1> QED BY <1>1, <1>2, Invariant, WorkInvariant, DeletesSpared, OrderInvariant, PTL DEF Spec

\* No event is created twice or lost sight of, for any number of workers: each
\* one in the calendar is the one its schedule's link names, or is about to be.
THEOREM EventsKeepLinks == Spec => []EventsHaveLinks
<1>1. QuietAgreement => EventsHaveLinks
  BY DEF QuietAgreement, QuietInv, Accounted, EventsHaveLinks
<1> QED BY <1>1, QuietInvariant, PTL

===============================================================================
