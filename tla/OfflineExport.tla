---------------------------- MODULE OfflineExport ----------------------------
(***************************************************************************)
(* Offline exports (service/offline_export_http.go).                       *)
(*                                                                         *)
(* A job is created by a handler, rendered by a goroutine of its own,      *)
(* polled and downloaded by other handlers, and dropped a day after it has *)
(* ended by whichever handler or goroutine cleans up next.  Jobs live in   *)
(* two maps under one mutex, so a critical section is one step.  A handler *)
(* copies a job out of the map, but the copy shares its slice of artifacts *)
(* with the map: a handler reads their status without the lock, while the  *)
(* goroutine may be writing it.                                            *)
(***************************************************************************)
EXTENDS Naturals, FiniteSets

CONSTANTS
    Format,      \* the formats a client may ask for
    Client,      \* clients, each with one request at a time
    MaxJobs,     \* how many jobs are created (bound)
    Environment  \* what the surroundings may do

ASSUME ExportAssumption ==
    /\ MaxJobs \in Nat
    /\ Environment \subseteq {"restart",   \* the server dies and starts again
                              "fails"}     \* rendering may fail

Job == 1 .. MaxJobs

FinalArtifact == {"succeeded", "failed"}
Terminal == {"succeeded", "failed", "partial_success"}
JobStatus == {"queued", "processing"} \cup Terminal
\* "none" is a format that was not asked for.
ArtifactStatus == {"none", "queued", "processing"} \cup FinalArtifact
\* What a handler may read: a status, or half of one and half of another.
SeenStatus == ArtifactStatus \cup {"torn", "unread"}

VARIABLES
    seq,       \* offlineExportSeq
    job,       \* offlineExportJobs: status, or "absent", and whether UpdatedAt
               \* is older than the retention
    artifact,  \* the artifact slice of each job, shared by all its copies
    payload,   \* offlineExportArtifacts
    run,       \* the goroutine that renders each job
    metric,    \* the counters of jobs created and ended
    client,    \* the request each client is in
    reply      \* the last answer of each client, until it asks for something else

maps == <<job, artifact, payload>>
vars == <<seq, job, artifact, payload, run, metric, client, reply>>

JobRow == [status : JobStatus \cup {"absent"}, old : BOOLEAN]
Runner == [pc : {"idle", "start", "next", "render"}, todo : SUBSET Format,
           good : BOOLEAN, bad : BOOLEAN]
Metric == [{"created"} \cup Terminal -> Nat]
Statuses == [Format -> SeenStatus]
Call == [pc : {"idle", "insert", "launch", "read", "check", "fetch"},
         job : 0 .. MaxJobs, formats : SUBSET Format,
         status : JobStatus \cup {"absent"}, seen : Statuses]
Reply == [kind : {"none", "status", "not found", "not ready", "content",
                  "unavailable"},
          job : 0 .. MaxJobs, status : JobStatus \cup {"absent"},
          seen : Statuses]

NoJob == [status |-> "absent", old |-> FALSE]
NoRunner == [pc |-> "idle", todo |-> {}, good |-> FALSE, bad |-> FALSE]
Unread == [f \in Format |-> "unread"]
NoCall == [pc |-> "idle", job |-> 0, formats |-> {}, status |-> "absent",
           seen |-> Unread]
NoReply == [kind |-> "none", job |-> 0, status |-> "absent", seen |-> Unread]

TypeOK ==
    /\ seq \in 0 .. MaxJobs
    /\ job \in [Job -> JobRow]
    /\ artifact \in [Job -> [Format -> ArtifactStatus]]
    /\ payload \in [Job -> SUBSET Format]
    /\ run \in [Job -> Runner]
    /\ metric \in Metric
    /\ client \in [Client -> Call]
    /\ reply \in [Client -> Reply]

Init ==
    /\ seq = 0
    /\ job = [j \in Job |-> NoJob]
    /\ artifact = [j \in Job |-> [f \in Format |-> "none"]]
    /\ payload = [j \in Job |-> {}]
    /\ run = [j \in Job |-> NoRunner]
    /\ metric = [m \in {"created"} \cup Terminal |-> 0]
    /\ client = [c \in Client |-> NoCall]
    /\ reply = [c \in Client |-> NoReply]

-------------------------------------------------------------------------------
(***************************************************************************)
(* Cleanup, part of creating and of ending a job.                          *)
(***************************************************************************)

\* Mistake: jobs that are still being rendered expire, too.
ExpiredWhileRunning(j) == job[j].status # "absent" /\ job[j].old

Expired(j) == job[j].status \in Terminal /\ job[j].old

KeptJobs == [j \in Job |-> IF Expired(j) THEN NoJob ELSE job[j]]
\* Mistake: payloads go as soon as their job has ended.
KeptPayloadsEnded ==
    [j \in Job |-> IF job[j].status \in Terminal THEN {} ELSE payload[j]]

KeptPayloads == [j \in Job |-> IF Expired(j) THEN {} ELSE payload[j]]

\* A day passes since the last update of a job.
Age(j) ==
    /\ job[j].status # "absent" /\ ~job[j].old
    /\ job' = [job EXCEPT ![j].old = TRUE]
    /\ UNCHANGED <<seq, artifact, payload, run, metric, client, reply>>

-------------------------------------------------------------------------------
(***************************************************************************)
(* Creating a job.                                                         *)
(***************************************************************************)

\* What normalizeExportFormats lets through.
Requested == SUBSET Format \ {{}}

Return(c, answer) ==
    /\ reply' = [reply EXCEPT ![c] = answer]
    /\ client' = [client EXCEPT ![c] = NoCall]

AllocateJob(c, formats) ==
    /\ client[c].pc = "idle" /\ seq < MaxJobs
    /\ seq' = seq + 1
    /\ client' = [client EXCEPT ![c] = [NoCall EXCEPT !.pc = "insert",
                                          !.job = seq + 1, !.formats = formats]]
    /\ reply' = [reply EXCEPT ![c] = NoReply]
    /\ UNCHANGED <<maps, run, metric>>

InsertJob(c) ==
    LET j == client[c].job IN
    /\ client[c].pc = "insert"
    /\ job' = [KeptJobs EXCEPT ![j] = [status |-> "queued", old |-> FALSE]]
    /\ payload' = [KeptPayloads EXCEPT ![j] = {}]
    /\ artifact' = [artifact EXCEPT ![j] =
                      [f \in Format |-> IF f \in client[c].formats
                                           THEN "queued" ELSE "none"]]
    /\ client' = [client EXCEPT ![c].pc = "launch"]
    /\ UNCHANGED <<seq, run, metric, reply>>

\* Mistake: the job is answered but no goroutine is started for it.
LaunchJobForgotten(c) ==
    /\ client[c].pc = "launch"
    /\ metric' = [metric EXCEPT !["created"] = @ + 1]
    /\ client' = [client EXCEPT ![c].pc = "read", ![c].formats = {},
                                ![c].status = "queued"]
    /\ UNCHANGED <<seq, maps, run, reply>>

\* The goroutine starts, and the copy made at the insertion is answered.
LaunchJob(c) ==
    LET j == client[c].job IN
    /\ client[c].pc = "launch"
    /\ run' = [run EXCEPT ![j].pc = "start"]
    /\ metric' = [metric EXCEPT !["created"] = @ + 1]
    /\ client' = [client EXCEPT ![c].pc = "read", ![c].formats = {},
                                ![c].status = "queued"]
    /\ UNCHANGED <<seq, maps, reply>>

-------------------------------------------------------------------------------
(***************************************************************************)
(* Rendering a job: runOfflineExportJob.                                   *)
(***************************************************************************)

Present(j) == job[j].status # "absent"

StartRun(j) ==
    /\ run[j].pc = "start"
    /\ IF Present(j)
          THEN /\ job' = [job EXCEPT ![j] = [status |-> "processing", old |-> FALSE]]
               /\ run' = [run EXCEPT ![j].pc = "next", ![j].todo =
                            {f \in Format : artifact[j][f] # "none"}]
          ELSE /\ run' = [run EXCEPT ![j] = NoRunner]
               /\ UNCHANGED job
    /\ UNCHANGED <<seq, artifact, payload, metric, client, reply>>

\* A job that has left the map has no artifacts to mark.
MarkArtifact(j, f) ==
    /\ run[j].pc = "next" /\ f \in run[j].todo
    /\ run' = [run EXCEPT ![j].pc = "render", ![j].todo = run[j].todo \ {f}]
    /\ IF Present(j)
          THEN /\ artifact' = [artifact EXCEPT ![j][f] = "processing"]
               /\ job' = [job EXCEPT ![j].old = FALSE]
          ELSE UNCHANGED <<job, artifact>>
    /\ UNCHANGED <<seq, payload, metric, client, reply>>

Stored(stored, f, outcome) ==
    IF outcome = "succeeded" THEN stored \cup {f} ELSE stored

\* The artifact a goroutine is rendering is the one it has marked.
Rendering(j, f) == run[j].pc = "render" /\ artifact[j][f] = "processing"

StoreArtifact(j, f, outcome) ==
    /\ Rendering(j, f)
    /\ outcome = "failed" => "fails" \in Environment
    /\ run' = [run EXCEPT ![j].pc = "next",
                          ![j].good = run[j].good \/ outcome = "succeeded",
                          ![j].bad = run[j].bad \/ outcome = "failed"]
    /\ IF Present(j)
          THEN /\ artifact' = [artifact EXCEPT ![j][f] = outcome]
               /\ payload' = [payload EXCEPT ![j] = Stored(payload[j], f, outcome)]
               /\ job' = [job EXCEPT ![j].old = FALSE]
          ELSE UNCHANGED maps
    /\ UNCHANGED <<seq, metric, client, reply>>

\* Mistake: one failure fails the whole job.
SummaryAnyFailure(good, bad) == IF bad THEN "failed" ELSE "succeeded"

Summary(good, bad) ==
    IF good /\ bad THEN "partial_success"
    ELSE IF bad THEN "failed" ELSE "succeeded"

\* Mistake: the job ends when its last format is taken up, not rendered.
FinishRunEarly(j) ==
    LET status == Summary(run[j].good, run[j].bad) IN
    /\ run[j].pc \in {"next", "render"} /\ run[j].todo = {}
    /\ job' = [KeptJobs EXCEPT ![j] = [status |-> status, old |-> FALSE]]
    /\ payload' = KeptPayloads
    /\ metric' = [metric EXCEPT ![status] = @ + 1]
    /\ run' = IF run[j].pc = "next" THEN [run EXCEPT ![j] = NoRunner] ELSE run
    /\ UNCHANGED <<seq, artifact, client, reply>>

\* Cleanup runs before the ended job is put back, so it does not see it.
FinishRun(j) ==
    LET status == Summary(run[j].good, run[j].bad) IN
    /\ run[j].pc = "next" /\ run[j].todo = {}
    /\ job' = [KeptJobs EXCEPT ![j] = [status |-> status, old |-> FALSE]]
    /\ payload' = KeptPayloads
    /\ metric' = [metric EXCEPT ![status] = @ + 1]
    /\ run' = [run EXCEPT ![j] = NoRunner]
    /\ UNCHANGED <<seq, artifact, client, reply>>

RunStep(j) ==
    \/ StartRun(j)
    \/ \E f \in Format : MarkArtifact(j, f)
    \/ \E f \in Format, outcome \in FinalArtifact : StoreArtifact(j, f, outcome)
    \/ FinishRun(j)

-------------------------------------------------------------------------------
(***************************************************************************)
(* Polling and downloading.                                                *)
(***************************************************************************)

\* Without the lock, a status that is being written may be read half-way.
Writing(j, f) == Rendering(j, f) \/ (run[j].pc = "next" /\ f \in run[j].todo)
Readable(j, f) ==
    {artifact[j][f]} \cup (IF Writing(j, f) THEN {"torn"} ELSE {})

\* getOfflineExportJob, the first step of both handlers.
CopyJob(c, j, next) ==
    /\ client[c].pc = "idle"
    /\ \/ /\ Present(j)
          /\ client' = [client EXCEPT ![c] =
               [NoCall EXCEPT !.pc = next, !.job = j, !.status = job[j].status]]
          /\ reply' = [reply EXCEPT ![c] = IF @.job = j THEN @ ELSE NoReply]
       \/ /\ ~Present(j)
          /\ Return(c, [NoReply EXCEPT !.kind = "not found", !.job = j])
    /\ UNCHANGED <<seq, maps, run, metric>>

GetStatus(c, j) == CopyJob(c, j, "read")
GetArtifact(c, j) == CopyJob(c, j, "check")

\* The encoder reads one artifact of the copy after the other.
ReadArtifact(c) ==
    /\ client[c].pc = "read"
    /\ \E f \in Format :
          /\ client[c].seen[f] = "unread"
          /\ \E seen \in Readable(client[c].job, f) :
                client' = [client EXCEPT ![c].seen[f] = seen]
    /\ UNCHANGED <<seq, maps, run, metric, reply>>

AnswerStatus(c) ==
    /\ client[c].pc = "read"
    /\ \A f \in Format : client[c].seen[f] # "unread"
    /\ Return(c, [kind |-> "status", job |-> client[c].job,
                  status |-> client[c].status, seen |-> client[c].seen])
    /\ UNCHANGED <<seq, maps, run, metric>>

\* A format that was not asked for is not found, either.
CheckArtifact(c, f) ==
    LET j == client[c].job IN
    /\ client[c].pc = "check"
    /\ \E seen \in Readable(j, f) :
          \/ /\ seen = "succeeded"
             /\ client' = [client EXCEPT ![c].pc = "fetch", ![c].formats = {f}]
             /\ UNCHANGED reply
          \/ /\ seen # "succeeded"
             /\ Return(c, [NoReply EXCEPT !.job = j, !.kind =
                             IF seen = "none" THEN "not found" ELSE "not ready"])
    /\ UNCHANGED <<seq, maps, run, metric>>

FetchPayload(c) ==
    LET j == client[c].job IN
    /\ client[c].pc = "fetch"
    /\ Return(c, [NoReply EXCEPT !.job = j, !.kind =
                    IF client[c].formats \subseteq payload[j]
                       THEN "content" ELSE "unavailable"])
    /\ UNCHANGED <<seq, maps, run, metric>>

RequestStep(c) ==
    \/ InsertJob(c)
    \/ LaunchJob(c)
    \/ ReadArtifact(c)
    \/ AnswerStatus(c)
    \/ \E f \in Format : CheckArtifact(c, f)
    \/ FetchPayload(c)

\* Everything is in memory, the sequence number included; clients remember
\* the answers they had.
Restart ==
    /\ "restart" \in Environment
    /\ seq' = 0
    /\ job' = [j \in Job |-> NoJob]
    /\ artifact' = [j \in Job |-> [f \in Format |-> "none"]]
    /\ payload' = [j \in Job |-> {}]
    /\ run' = [j \in Job |-> NoRunner]
    /\ metric' = [m \in {"created"} \cup Terminal |-> 0]
    /\ client' = [c \in Client |-> NoCall]
    /\ UNCHANGED reply

Next ==
    \/ \E c \in Client, formats \in Requested : AllocateJob(c, formats)
    \/ \E c \in Client, j \in Job : GetStatus(c, j) \/ GetArtifact(c, j)
    \/ \E c \in Client : RequestStep(c)
    \/ \E j \in Job : RunStep(j) \/ Age(j)
    \/ Restart

Spec == Init /\ [][Next]_vars

\* The Go scheduler runs every goroutine, rendering always ends, and so does
\* the handling of a request.
FairSpec ==
    /\ Spec
    /\ \A j \in Job : WF_vars(RunStep(j))
    /\ \A c \in Client : WF_vars(RequestStep(c))

-------------------------------------------------------------------------------
(***************************************************************************)
(* Properties.                                                             *)
(***************************************************************************)

Ended(j) == job[j].status \in Terminal

\* The formats of a job that have come to an outcome.
With(j, outcome) == {f \in Format : artifact[j][f] = outcome}

\* An artifact shown as succeeded can be downloaded as long as its job is
\* there, whatever cleanups ran in between: the status of an artifact and its
\* payload are in two maps (runOfflineExportJob, cleanup).
ReadyHasPayload ==
    \A j \in Job : Present(j) => payload[j] = With(j, "succeeded")

\* A job that is being rendered is not dropped, even when it has been there
\* for longer than the retention: cleanup and the goroutine share the map, and
\* the goroutine writes back a job without an id if it is gone.
RunningIsKept ==
    \A j \in Job : run[j].pc # "idle" => Present(j) /\ ~Ended(j)

\* A new job takes an id that no job has, payloads left behind included: the
\* number is taken before the lock.
NewJobsAreNew ==
    \A c \in Client : client[c].pc = "insert" =>
        LET j == client[c].job IN
        /\ ~Present(j) /\ payload[j] = {} /\ run[j].pc = "idle"
        /\ \A d \in Client \ {c} :
              client[d].pc # "idle" => client[d].job # j

\* A status answer whose job has ended shows final artifacts, none read while
\* it was written, and they are the outcome the job claims: the artifacts are
\* read after the copy, without the lock.
FinalReplies ==
    \A c \in Client :
        LET r == reply[c] IN
        r.kind = "status" /\ r.status \in Terminal =>
            /\ \A f \in Format : r.seen[f] \in {"none"} \cup FinalArtifact
            /\ r.status = "failed" => \A f \in Format : r.seen[f] # "succeeded"
            /\ r.status = "succeeded" => \A f \in Format : r.seen[f] # "failed"
            /\ r.status = "partial_success" => FinalArtifact \subseteq {r.seen[f] : f \in Format}

\* What was shown of a job may be followed by.
MayFollow(before, after) ==
    CASE before \in Terminal -> after = before
      [] before = "processing" -> after # "queued"
      [] OTHER -> TRUE

\* Polling twice never shows a job, or one of its artifacts, going back, and
\* what was final stays as it was.
RepliesMoveOn ==
    [][\A c \in Client :
          LET r == reply[c] s == reply'[c] IN
          r.kind = "status" /\ s.kind = "status" /\ r.job = s.job =>
              /\ MayFollow(r.status, s.status)
              /\ \A f \in Format : MayFollow(r.seen[f], s.seen[f])]_vars

\* A download that found its artifact ready fails only if the job has expired
\* meanwhile: status and payload are read under two locks.
FetchFinds ==
    [][\A c \in Client :
          client[c].pc = "fetch" /\ reply'[c] # reply[c] =>
              \/ reply'[c].kind = "content"
              \/ ~Present(client[c].job)]_vars

\* A job leaves the map only a day after it has ended (unless the server dies).
EndedIsKept ==
    [][\A j \in Job : Present(j) /\ ~Present(j)' => Ended(j) /\ job[j].old]_vars

\* Every accepted job ends, or is lost with the server.
JobsEnd ==
    \A j \in Job : Present(j) /\ ~Ended(j) ~> Ended(j) \/ ~Present(j)

-------------------------------------------------------------------------------
(***************************************************************************)
(* Inductive invariant.                                                    *)
(***************************************************************************)

\* Ids that have not been given out.
FreshIds ==
    \A j \in Job : j > seq =>
        ~Present(j) /\ payload[j] = {} /\ run[j].pc = "idle"

\* The handler that creates a job, up to the start of its goroutine.
CreationOK(c) ==
    LET j == client[c].job IN
    /\ client[c].pc # "idle" => j \in 1 .. seq
    /\ client[c].pc = "launch" =>
          /\ job[j].status = "queued" /\ run[j].pc = "idle"
          /\ \A d \in Client \ {c} : client[d].pc = "launch" => client[d].job # j

\* Where a goroutine is, its job and its artifacts agree.
RunOK(j) ==
    /\ run[j].pc = "idle" => run[j] = NoRunner
    /\ run[j].pc = "start" =>
          job[j].status = "queued" /\ run[j] = [NoRunner EXCEPT !.pc = "start"]
    /\ run[j].pc \in {"next", "render"} =>
          /\ job[j].status = "processing"
          /\ run[j].todo = With(j, "queued")
          /\ run[j].good = (With(j, "succeeded") # {})
          /\ run[j].bad = (With(j, "failed") # {})
    /\ run[j].pc = "next" => With(j, "processing") = {}
    /\ run[j].pc = "render" => \E f \in Format : With(j, "processing") = {f}

\* A queued job's artifacts are queued.
QueuedOK(j) ==
    job[j].status = "queued" =>
        \A f \in Format : artifact[j][f] \in {"none", "queued"}

\* The artifacts of a job are final and sum up to a status.
SettledAs(j, status) ==
    /\ \A f \in Format : artifact[j][f] \in {"none"} \cup FinalArtifact
    /\ status = Summary(With(j, "succeeded") # {}, With(j, "failed") # {})

\* A handler that copied an ended job reads artifacts nobody writes any more,
\* and one that found an artifact ready has found it ready for good.
HandlerOK(c) ==
    LET j == client[c].job IN
    /\ client[c].pc = "read" /\ client[c].status \in Terminal =>
          /\ Ended(j) \/ ~Present(j)
          /\ SettledAs(j, client[c].status)
          /\ \A f \in Format : client[c].seen[f] \in {"unread", artifact[j][f]}
    /\ client[c].pc = "fetch" => client[c].formats \subseteq With(j, "succeeded")

IInv ==
    /\ TypeOK
    /\ ReadyHasPayload
    /\ RunningIsKept
    /\ NewJobsAreNew
    /\ FinalReplies
    /\ FreshIds
    /\ \A c \in Client : CreationOK(c) /\ HandlerOK(c)
    /\ \A j \in Job : RunOK(j) /\ QueuedOK(j)
    /\ \A j \in Job : Ended(j) => SettledAs(j, job[j].status)

\* What a client has been told, or is being told, of a job may be followed by
\* what the job is now.  Holds as long as the server does not die: a restart
\* gives ids out again.
StillTrue(j, status, seen) ==
    /\ Present(j) => MayFollow(status, job[j].status)
    /\ \A f \in Format : MayFollow(seen[f], artifact[j][f])

Told(c) ==
    LET r == reply[c] IN
    r.kind = "status" =>
        /\ r.job \in 1 .. seq
        /\ StillTrue(r.job, r.status, r.seen)
        /\ \A d \in Client : client[d].pc = "insert" => client[d].job # r.job

Telling(c) ==
    LET r == reply[c] k == client[c] IN
    /\ k.pc \in {"insert", "launch"} => r.kind = "none" /\ k.seen = Unread
    /\ k.pc = "read" =>
          /\ StillTrue(k.job, k.status, k.seen)
          /\ r.kind = "status" /\ r.job = k.job =>
                /\ MayFollow(r.status, k.status)
                /\ \A f \in Format :
                      k.seen[f] = "unread" \/ MayFollow(r.seen[f], k.seen[f])

ShownInv == \A c \in Client : Told(c) /\ Telling(c)

===============================================================================
