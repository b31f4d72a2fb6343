------------------------- MODULE OfflineExportProofs -------------------------
(***************************************************************************)
(* Proofs about OfflineExport, for all sets of formats and clients and     *)
(* every number of jobs.                                                   *)
(***************************************************************************)
EXTENDS OfflineExport, TLAPS

USE ExportAssumption

-------------------------------------------------------------------------------
(***************************************************************************)
(* Type correctness.                                                       *)
(***************************************************************************)

LEMMA BlanksTyped ==
    /\ NoJob \in JobRow
    /\ NoRunner \in Runner
    /\ NoCall \in Call
    /\ NoReply \in Reply
BY DEF NoJob, JobRow, NoRunner, Runner, NoCall, Call, NoReply, Reply, Unread,
       Statuses, SeenStatus, JobStatus, Terminal

LEMMA BlankFields == NoCall.pc = "idle" /\ NoReply.kind = "none"
BY DEF NoCall, NoReply

LEMMA SummaryTyped == \A good, bad \in BOOLEAN : Summary(good, bad) \in Terminal
BY DEF Summary, Terminal

\* A step that changes only requests and answers keeps the types if it gives
\* one client a well-typed request and a well-typed answer.
LEMMA RequestTyped ==
    ASSUME TypeOK, NEW c \in Client, NEW call \in Call, NEW answer \in Reply,
           UNCHANGED <<seq, maps, run, metric>>,
           client' = [client EXCEPT ![c] = call],
           reply' = [reply EXCEPT ![c] = answer]
    PROVE  TypeOK'
BY DEF TypeOK, maps

LEMMA KeptTyped ==
    ASSUME TypeOK
    PROVE  /\ KeptJobs \in [Job -> JobRow]
           /\ KeptPayloads \in [Job -> SUBSET Format]
<1>1. \A j \in Job : job[j] \in JobRow /\ payload[j] \in SUBSET Format
  BY DEF TypeOK
<1> QED
  BY <1>1, BlanksTyped DEF KeptJobs, KeptPayloads

\* No step leaves the types, as requests name jobs that have been given out.
LEMMA TypeStep ==
    ASSUME TypeOK, \A c \in Client : CreationOK(c), [Next]_vars
    PROVE  TypeOK'
<1> USE DEF TypeOK
<1>t. \A c \in Client : client[c] \in Call /\ reply[c] \in Reply
  OBVIOUS
<1>1. ASSUME NEW c \in Client, NEW formats \in SUBSET Format,
             AllocateJob(c, formats)
      PROVE  TypeOK'
  <2>1. seq + 1 \in 0 .. MaxJobs
    BY <1>1 DEF AllocateJob
  <2>2. [NoCall EXCEPT !.pc = "insert", !.job = seq + 1, !.formats = formats] \in Call
    BY <2>1, BlanksTyped DEF Call
  <2> QED
    BY <1>1, <2>1, <2>2, BlanksTyped DEF AllocateJob, maps
<1>2. ASSUME NEW c \in Client, InsertJob(c)
      PROVE  TypeOK'
  <2>1. [client[c] EXCEPT !.pc = "launch"] \in Call
    BY <1>t DEF Call
  <2>2. [status |-> "queued", old |-> FALSE] \in JobRow
    BY DEF JobRow, JobStatus
  <2>3. job' \in [Job -> JobRow] /\ payload' \in [Job -> SUBSET Format]
    BY <1>2, <2>2, KeptTyped DEF InsertJob
  <2>4. artifact' \in [Job -> [Format -> ArtifactStatus]]
    BY <1>2 DEF InsertJob, ArtifactStatus
  <2> QED
    BY <1>2, <2>1, <2>3, <2>4 DEF InsertJob
<1>3. ASSUME NEW c \in Client, LaunchJob(c)
      PROVE  TypeOK'
  <2>1. [client[c] EXCEPT !.pc = "read", !.formats = {}, !.status = "queued"] \in Call
    BY <1>t DEF Call, JobStatus
  <2>2. run' \in [Job -> Runner]
    <3> DEFINE j == client[c].job
    <3>1. CASE j \in Job
      <4>1. [run[j] EXCEPT !.pc = "start"] \in Runner
        BY <3>1 DEF Runner
      <4> QED
        BY <1>3, <4>1 DEF LaunchJob
    <3>2. CASE j \notin Job
      BY <1>3, <3>2 DEF LaunchJob
    <3> QED
      BY <3>1, <3>2
  <2>3. metric' \in Metric
    BY <1>3 DEF LaunchJob, Metric
  <2> QED
    BY <1>3, <2>1, <2>2, <2>3 DEF LaunchJob, maps
<1>4. ASSUME NEW j \in Job, StartRun(j)
      PROVE  TypeOK'
  <2>1. [status |-> "processing", old |-> FALSE] \in JobRow
    BY DEF JobRow, JobStatus
  <2>2. job' \in [Job -> JobRow]
    BY <1>4, <2>1 DEF StartRun
  <2>3. [run[j] EXCEPT !.pc = "next",
                       !.todo = {f \in Format : artifact[j][f] # "none"}] \in Runner
    BY DEF Runner
  <2>4. run' \in [Job -> Runner]
    BY <1>4, <2>3, BlanksTyped DEF StartRun
  <2> QED
    BY <1>4, <2>2, <2>4 DEF StartRun
<1>5. ASSUME NEW j \in Job, NEW f \in Format, MarkArtifact(j, f)
      PROVE  TypeOK'
  <2>1. [run[j] EXCEPT !.pc = "render", !.todo = run[j].todo \ {f}] \in Runner
    BY DEF Runner
  <2>2. [job[j] EXCEPT !.old = FALSE] \in JobRow
    BY DEF JobRow
  <2>3. [artifact[j] EXCEPT ![f] = "processing"] \in [Format -> ArtifactStatus]
    BY DEF ArtifactStatus
  <2>4. run' \in [Job -> Runner]
    BY <1>5, <2>1 DEF MarkArtifact
  <2>5. job' \in [Job -> JobRow]
    BY <1>5, <2>2 DEF MarkArtifact
  <2>6. artifact' \in [Job -> [Format -> ArtifactStatus]]
    BY <1>5, <2>3 DEF MarkArtifact
  <2> QED
    BY <1>5, <2>4, <2>5, <2>6 DEF MarkArtifact
<1>6. ASSUME NEW j \in Job, NEW f \in Format, NEW outcome \in FinalArtifact,
             StoreArtifact(j, f, outcome)
      PROVE  TypeOK'
  <2>1. [run[j] EXCEPT !.pc = "next",
                       !.good = run[j].good \/ outcome = "succeeded",
                       !.bad = run[j].bad \/ outcome = "failed"] \in Runner
    BY DEF Runner
  <2>2. [job[j] EXCEPT !.old = FALSE] \in JobRow
    BY DEF JobRow
  <2>3. [artifact[j] EXCEPT ![f] = outcome] \in [Format -> ArtifactStatus]
    BY DEF ArtifactStatus
  <2>4. Stored(payload[j], f, outcome) \in SUBSET Format
    BY DEF Stored
  <2>5. run' \in [Job -> Runner]
    BY <1>6, <2>1 DEF StoreArtifact
  <2>6. job' \in [Job -> JobRow]
    BY <1>6, <2>2 DEF StoreArtifact, maps
  <2>7. artifact' \in [Job -> [Format -> ArtifactStatus]]
    BY <1>6, <2>3 DEF StoreArtifact, maps
  <2>8. payload' \in [Job -> SUBSET Format]
    BY <1>6, <2>4 DEF StoreArtifact, maps
  <2> QED
    BY <1>6, <2>5, <2>6, <2>7, <2>8 DEF StoreArtifact
<1>7. ASSUME NEW j \in Job, FinishRun(j)
      PROVE  TypeOK'
  <2> DEFINE status == Summary(run[j].good, run[j].bad)
  <2>1. status \in Terminal
    BY SummaryTyped DEF Runner
  <2>2. [status |-> status, old |-> FALSE] \in JobRow
    BY <2>1 DEF JobRow, JobStatus
  <2>3. job' \in [Job -> JobRow] /\ payload' \in [Job -> SUBSET Format]
    BY <1>7, <2>2, KeptTyped DEF FinishRun
  <2>4. metric' \in Metric
    BY <1>7, <2>1 DEF FinishRun, Metric
  <2>5. run' \in [Job -> Runner]
    BY <1>7, BlanksTyped DEF FinishRun
  <2> QED
    BY <1>7, <2>3, <2>4, <2>5 DEF FinishRun
<1>8. ASSUME NEW c \in Client, NEW j \in Job, NEW next \in {"read", "check"},
             CopyJob(c, j, next)
      PROVE  TypeOK'
  <2>a. j \in 0 .. MaxJobs
    BY DEF Job
  <2>b. job[j].status \in JobStatus \cup {"absent"}
    BY DEF JobRow
  <2>1. [NoCall EXCEPT !.pc = next, !.job = j, !.status = job[j].status] \in Call
    BY <2>a, <2>b, BlanksTyped DEF Call
  <2>2. [NoReply EXCEPT !.kind = "not found", !.job = j] \in Reply
    BY <2>a, BlanksTyped DEF Reply
  <2>3. (IF reply[c].job = j THEN reply[c] ELSE NoReply) \in Reply
    BY <1>t, BlanksTyped
  <2>4. client' \in [Client -> Call] /\ reply' \in [Client -> Reply]
    BY <1>8, <2>1, <2>2, <2>3, BlanksTyped DEF CopyJob, Return
  <2> QED
    BY <1>8, <2>4 DEF CopyJob, maps
<1>9. ASSUME NEW c \in Client, ReadArtifact(c)
      PROVE  TypeOK'
  <2>1. PICK f \in Format : \E seen \in Readable(client[c].job, f) :
                client' = [client EXCEPT ![c].seen[f] = seen]
    BY <1>9 DEF ReadArtifact
  <2>2. PICK seen \in Readable(client[c].job, f) :
                client' = [client EXCEPT ![c].seen[f] = seen]
    BY <2>1
  <2>3. client[c].job \in Job
    BY <1>9 DEF ReadArtifact, CreationOK, Job
  <2>4. seen \in SeenStatus
    BY <2>3 DEF Readable, SeenStatus
  <2>5. [client[c].seen EXCEPT ![f] = seen] \in Statuses
    BY <1>t, <2>4 DEF Call, Statuses
  <2>6. [client[c] EXCEPT !.seen = [client[c].seen EXCEPT ![f] = seen]] \in Call
    BY <1>t, <2>5 DEF Call
  <2>7. client' = [client EXCEPT ![c] =
             [client[c] EXCEPT !.seen = [client[c].seen EXCEPT ![f] = seen]]]
    BY <2>2
  <2> QED
    BY <1>9, <2>6, <2>7 DEF ReadArtifact, maps
<1>10. ASSUME NEW c \in Client, AnswerStatus(c)
       PROVE  TypeOK'
  <2>1. [kind |-> "status", job |-> client[c].job, status |-> client[c].status,
         seen |-> client[c].seen] \in Reply
    BY <1>t DEF Call, Reply
  <2> QED
    BY <1>10, <2>1, BlanksTyped DEF AnswerStatus, Return, maps
<1>11. ASSUME NEW c \in Client, NEW f \in Format, CheckArtifact(c, f)
       PROVE  TypeOK'
  <2>1. [client[c] EXCEPT !.pc = "fetch", !.formats = {f}] \in Call
    BY <1>t DEF Call
  <2>2. \A k \in {"not found", "not ready"} :
           [NoReply EXCEPT !.job = client[c].job, !.kind = k] \in Reply
    BY <1>t, BlanksTyped DEF Call, Reply
  <2> QED
    BY <1>11, <2>1, <2>2, BlanksTyped DEF CheckArtifact, Return, maps
<1>12. ASSUME NEW c \in Client, FetchPayload(c)
       PROVE  TypeOK'
  <2>1. \A k \in {"content", "unavailable"} :
           [NoReply EXCEPT !.job = client[c].job, !.kind = k] \in Reply
    BY <1>t, BlanksTyped DEF Call, Reply
  <2> QED
    BY <1>12, <2>1, BlanksTyped DEF FetchPayload, Return, maps
<1>13. ASSUME NEW j \in Job, Age(j)
       PROVE  TypeOK'
  BY <1>13 DEF Age, JobRow
<1>14. ASSUME Restart
       PROVE  TypeOK'
  BY <1>14, BlanksTyped DEF Restart, Metric, ArtifactStatus
<1>15. ASSUME UNCHANGED vars
       PROVE  TypeOK'
  BY <1>15 DEF vars, maps
<1> QED
  BY <1>1, <1>2, <1>3, <1>4, <1>5, <1>6, <1>7, <1>8, <1>9, <1>10, <1>11, <1>12,
     <1>13, <1>14, <1>15
  DEF Next, Requested, RequestStep, RunStep, GetStatus, GetArtifact

-------------------------------------------------------------------------------
(***************************************************************************)
(* The invariant, split into what it says of a job's rows and of a client. *)
(***************************************************************************)

JobOK(j) ==
    /\ Present(j) => payload[j] = With(j, "succeeded")
    /\ run[j].pc # "idle" => Present(j) /\ ~Ended(j)
    /\ RunOK(j)
    /\ QueuedOK(j)
    /\ Ended(j) => SettledAs(j, job[j].status)

NewJobOK(c) ==
    client[c].pc = "insert" =>
        LET j == client[c].job IN
        /\ ~Present(j) /\ payload[j] = {} /\ run[j].pc = "idle"
        /\ \A d \in Client \ {c} :
              client[d].pc # "idle" => client[d].job # j

ReplyOK(c) ==
    LET r == reply[c] IN
    r.kind = "status" /\ r.status \in Terminal =>
        /\ \A f \in Format : r.seen[f] \in {"none"} \cup FinalArtifact
        /\ r.status = "failed" => \A f \in Format : r.seen[f] # "succeeded"
        /\ r.status = "succeeded" => \A f \in Format : r.seen[f] # "failed"
        /\ r.status = "partial_success" => FinalArtifact \subseteq {r.seen[f] : f \in Format}

LEMMA Split ==
    IInv <=> /\ TypeOK /\ FreshIds
             /\ \A j \in Job : JobOK(j)
             /\ \A c \in Client :
                   NewJobOK(c) /\ ReplyOK(c) /\ CreationOK(c) /\ HandlerOK(c)
BY DEF IInv, JobOK, NewJobOK, ReplyOK, ReadyHasPayload, RunningIsKept,
       NewJobsAreNew, FinalReplies

LEMMA SplitAfter ==
    IInv' <=> /\ TypeOK' /\ FreshIds'
              /\ \A j \in Job : JobOK(j)'
              /\ \A c \in Client :
                    (NewJobOK(c) /\ ReplyOK(c) /\ CreationOK(c) /\ HandlerOK(c))'
BY DEF IInv, JobOK, NewJobOK, ReplyOK, ReadyHasPayload, RunningIsKept,
       NewJobsAreNew, FinalReplies

\* A row that a step leaves alone stays as good as it was.
LEMMA JobUnchanged ==
    ASSUME NEW j \in Job, JobOK(j),
           job'[j].status = job[j].status, artifact'[j] = artifact[j],
           payload'[j] = payload[j], run'[j] = run[j]
    PROVE  JobOK(j)'
<1>1. \A o \in ArtifactStatus : With(j, o)' = With(j, o)
  BY DEF With
<1>2. Present(j)' = Present(j) /\ Ended(j)' = Ended(j)
  BY DEF Present, Ended
<1>3. RunOK(j)' /\ QueuedOK(j)'
  BY <1>1 DEF JobOK, RunOK, QueuedOK, ArtifactStatus, FinalArtifact
<1>4. Ended(j) => SettledAs(j, job[j].status)'
  BY <1>1 DEF JobOK, SettledAs, ArtifactStatus, FinalArtifact
<1> QED
  BY <1>1, <1>2, <1>3, <1>4 DEF JobOK, ArtifactStatus, FinalArtifact, SettledAs

\* So does a row that cleanup drops, as its job has ended.
LEMMA JobDropped ==
    ASSUME NEW j \in Job, JobOK(j), Expired(j) \/ ~Present(j),
           job'[j] = NoJob, artifact'[j] = artifact[j],
           payload'[j] = {}, run'[j] = run[j]
    PROVE  JobOK(j)'
<1>1. run[j].pc = "idle"
  BY DEF JobOK, Expired, Ended
<1>2. ~Present(j)' /\ ~Ended(j)'
  BY DEF Present, Ended, NoJob, Terminal
<1>3. RunOK(j)' /\ QueuedOK(j)'
  BY <1>1 DEF JobOK, RunOK, QueuedOK, NoJob
<1> QED
  BY <1>1, <1>2, <1>3 DEF JobOK

\* What a step of the goroutine of one job does to the rows of the others:
\* nothing, or cleanup drops them.
Aside(k) ==
    /\ artifact'[k] = artifact[k] /\ run'[k] = run[k]
    /\ \/ job'[k] = job[k] /\ payload'[k] = payload[k]
       \/ Expired(k) /\ job'[k] = NoJob /\ payload'[k] = {}

LEMMA AsideOK ==
    ASSUME NEW k \in Job, JobOK(k), Aside(k)
    PROVE  /\ JobOK(k)'
           /\ Present(k)' => Present(k)
           /\ Ended(k) => Ended(k)' \/ ~Present(k)'
           /\ ~Expired(k) => job'[k] = job[k] /\ payload'[k] = payload[k]
<1>1. JobOK(k)'
  BY JobUnchanged, JobDropped DEF Aside
<1>2. CASE job'[k] = job[k] /\ payload'[k] = payload[k]
  <2>1. Present(k)' = Present(k) /\ Ended(k)' = Ended(k)
    BY <1>2 DEF Present, Ended
  <2> QED
    BY <1>1, <1>2, <2>1
<1>3. CASE Expired(k) /\ job'[k] = NoJob
  <2>1. ~Present(k)'
    BY <1>3 DEF Present, NoJob
  <2> QED
    BY <1>1, <1>3, <2>1
<1> QED
  BY <1>2, <1>3 DEF Aside

LEMMA RunStepKeeps ==
    ASSUME IInv, TypeOK', NEW j \in Job, run[j].pc # "idle", JobOK(j)',
           UNCHANGED <<seq, client, reply>>,
           \A k \in Job \ {j} : Aside(k),
           Present(j)', With(j, "succeeded") \subseteq With(j, "succeeded")'
    PROVE  IInv'
<1> USE Split, SplitAfter
<1>1. \A k \in Job \ {j} : JobOK(k)' /\ (Present(k)' => Present(k))
                           /\ (Ended(k) => Ended(k)' \/ ~Present(k)')
  BY AsideOK
<1>s. seq \in 0 .. MaxJobs
  BY DEF TypeOK
<1>2. Present(j) /\ ~Ended(j) /\ j <= seq
  <2>1. Present(j) /\ ~Ended(j)
    BY DEF JobOK
  <2>2. ~(j > seq)
    BY <2>1 DEF FreshIds
  <2> QED
    BY <1>s, <2>1, <2>2 DEF Job
<1>3. FreshIds'
  <2> SUFFICES ASSUME NEW k \in Job, k > seq
               PROVE  ~Present(k)' /\ payload'[k] = {} /\ run'[k].pc = "idle"
    BY DEF FreshIds
  <2>1. ~Present(k) /\ payload[k] = {} /\ run[k].pc = "idle"
    BY DEF FreshIds
  <2>2. k # j
    BY <1>2, <2>1
  <2> QED
    BY <1>1, <2>1, <2>2 DEF Aside
<1>4. ASSUME NEW c \in Client
      PROVE  (NewJobOK(c) /\ ReplyOK(c) /\ CreationOK(c) /\ HandlerOK(c))'
  <2> DEFINE k == client[c].job
  <2>1. client[c].pc # "idle" => k \in Job
    BY <1>s DEF CreationOK, Job
  <2>2. NewJobOK(c)'
    <3> SUFFICES ASSUME client[c].pc = "insert" PROVE NewJobOK(c)'
      BY DEF NewJobOK
    <3>1. ~Present(k) /\ payload[k] = {} /\ run[k].pc = "idle"
      BY DEF NewJobOK
    <3>2. ~Present(k)' /\ payload'[k] = {} /\ run'[k].pc = "idle"
      BY <1>1, <1>2, <2>1, <3>1 DEF Aside
    <3> QED
      BY <3>2 DEF NewJobOK
  <2>3. CreationOK(c)'
    <3> SUFFICES ASSUME client[c].pc = "launch"
                 PROVE  job'[k].status = "queued" /\ run'[k].pc = "idle"
      BY DEF CreationOK
    <3>1. job[k].status = "queued" /\ run[k].pc = "idle"
      BY DEF CreationOK
    <3>2. ~Expired(k)
      BY <3>1 DEF Expired, Terminal
    <3> QED
      BY <2>1, <3>1, <3>2 DEF Aside
  <2>4. HandlerOK(c)'
    <3>1. CASE k = j /\ client[c].pc = "read"
      BY <1>2, <3>1 DEF HandlerOK
    <3>2. CASE k # j /\ client[c].pc = "read"
      <4>1. artifact'[k] = artifact[k]
        BY <2>1, <3>2 DEF Aside
      <4>2. Ended(k) \/ ~Present(k) => Ended(k)' \/ ~Present(k)'
        BY <1>1, <2>1, <3>2
      <4> QED
        BY <3>2, <4>1, <4>2 DEF HandlerOK, SettledAs, With
    <3>3. CASE client[c].pc = "fetch"
      <4>1. With(k, "succeeded") \subseteq With(k, "succeeded")'
        BY <2>1, <3>3 DEF Aside, With
      <4> QED
        BY <3>3, <4>1 DEF HandlerOK
    <3> QED
      BY <3>1, <3>2, <3>3 DEF HandlerOK
  <2> QED
    BY <2>2, <2>3, <2>4 DEF ReplyOK
<1> QED
  BY <1>1, <1>3, <1>4

\* A request of one client moves on, and maps and goroutines stay.
LEMMA RequestKeeps ==
    ASSUME IInv, TypeOK', NEW c \in Client, UNCHANGED <<seq, maps, run>>,
           \A d \in Client \ {c} : client'[d] = client[d] /\ reply'[d] = reply[d],
           client'[c].pc \in {"idle", "read", "check", "fetch"},
           client'[c].pc # "idle" =>
              /\ client'[c].job \in 1 .. seq
              /\ \/ client[c].pc # "idle" /\ client'[c].job = client[c].job
                 \/ Present(client'[c].job),
           HandlerOK(c)', ReplyOK(c)'
    PROVE  IInv'
<1> USE Split, SplitAfter
<1>1. \A k \in Job : JobOK(k)'
  BY JobUnchanged DEF maps
<1>2. FreshIds'
  BY DEF FreshIds, Present, maps
<1>3. CreationOK(c)' /\ NewJobOK(c)'
  BY DEF CreationOK, NewJobOK
<1>4. ASSUME NEW d \in Client \ {c}
      PROVE  (NewJobOK(d) /\ ReplyOK(d) /\ CreationOK(d) /\ HandlerOK(d))'
  <2>1. ReplyOK(d)' /\ HandlerOK(d)'
    BY DEF ReplyOK, HandlerOK, Ended, Present, SettledAs, With, maps
  <2>2. CreationOK(d)'
    BY DEF CreationOK, maps
  <2>3. NewJobOK(d)'
    <3> SUFFICES ASSUME client[d].pc = "insert" PROVE NewJobOK(d)'
      BY DEF NewJobOK
    <3>1. ~Present(client[d].job)' /\ payload'[client[d].job] = {}
          /\ run'[client[d].job].pc = "idle"
      BY DEF NewJobOK, Present, maps
    <3>2. \A e \in Client \ {d} : client[e].pc # "idle" => client[e].job # client[d].job
      BY DEF NewJobOK
    <3>3. client'[c].pc # "idle" => client'[c].job # client[d].job
      BY <3>2 DEF NewJobOK
    <3>4. \A e \in Client \ {d} : client'[e].pc # "idle" => client'[e].job # client[d].job
      BY <3>2, <3>3
    <3> QED
      BY <3>1, <3>4 DEF NewJobOK
  <2> QED
    BY <2>1, <2>2, <2>3
<1> QED
  BY <1>1, <1>2, <1>3, <1>4

-------------------------------------------------------------------------------
(***************************************************************************)
(* The invariant is inductive.                                             *)
(***************************************************************************)

LEMMA InitIInv == Init => IInv
<1> SUFFICES ASSUME Init PROVE IInv
  OBVIOUS
<1> USE Split DEF Init
<1>1. TypeOK
  BY BlanksTyped DEF TypeOK, Metric, ArtifactStatus
<1>2. ASSUME NEW j \in Job PROVE JobOK(j)
  BY DEF JobOK, Present, Ended, RunOK, QueuedOK, NoJob, NoRunner, Terminal
<1>3. FreshIds
  BY DEF FreshIds, Present, NoJob, NoRunner
<1>4. ASSUME NEW c \in Client
      PROVE  NewJobOK(c) /\ ReplyOK(c) /\ CreationOK(c) /\ HandlerOK(c)
  BY DEF NewJobOK, ReplyOK, CreationOK, HandlerOK, NoCall, NoReply
<1> QED
  BY <1>1, <1>2, <1>3, <1>4

\* The handlers that poll and download.
LEMMA CopyJobKeeps ==
    ASSUME IInv, TypeOK', NEW c \in Client, NEW j \in Job,
           NEW next \in {"read", "check"}, CopyJob(c, j, next)
    PROVE  IInv'
<1> USE Split DEF CopyJob
<1>1. j <= seq \/ ~Present(j)
  BY DEF FreshIds, TypeOK, Job
<1>2. CASE Present(j)
  <2> DEFINE call == [NoCall EXCEPT !.pc = next, !.job = j, !.status = job[j].status]
  <2>1. client' = [client EXCEPT ![c] = call]
    BY <1>2
  <2>a. client'[c] = call
    BY <2>1 DEF TypeOK
  <2>2. client'[c] = call /\ client'[c].job = j /\ client'[c].pc = next
        /\ client'[c].seen = Unread /\ client'[c].status = job[j].status
    BY <2>a DEF NoCall
  <2>3. HandlerOK(c)'
    <3>1. Ended(j) => SettledAs(j, job[j].status)
      BY DEF JobOK
    <3>2. UNCHANGED <<job, artifact>>
      BY DEF maps
    <3>3. SettledAs(j, job[j].status)' = SettledAs(j, job[j].status)
          /\ Ended(j)' = Ended(j)
      BY <3>2 DEF SettledAs, With, Ended
    <3>4. \A f \in Format : Unread[f] = "unread"
      BY DEF Unread
    <3>5. UNCHANGED <<job, artifact>> /\ job'[j].status \in Terminal => Ended(j)
      BY <3>2 DEF Ended
    <3> QED
      BY <2>2, <3>1, <3>2, <3>3, <3>4, <3>5 DEF HandlerOK
  <2>4. reply'[c] = (IF reply[c].job = j THEN reply[c] ELSE NoReply)
    BY <1>2 DEF TypeOK
  <2>5. ReplyOK(c)'
    BY <2>4 DEF ReplyOK, NoReply
  <2>6. j \in 1 .. seq
    BY <1>1, <1>2 DEF Job, TypeOK
  <2>7. \A d \in Client \ {c} : client'[d] = client[d] /\ reply'[d] = reply[d]
    BY <1>2, <2>1 DEF TypeOK
  <2> QED
    BY <1>2, <2>2, <2>3, <2>5, <2>6, <2>7, RequestKeeps
<1>3. CASE ~Present(j)
  <2>0. client' = [client EXCEPT ![c] = NoCall]
        /\ reply' = [reply EXCEPT ![c] = [NoReply EXCEPT !.kind = "not found", !.job = j]]
    BY <1>3 DEF Return
  <2>b. client'[c] = NoCall
    BY <2>0 DEF TypeOK
  <2>c. reply'[c] = [NoReply EXCEPT !.kind = "not found", !.job = j]
    BY <2>0 DEF TypeOK
  <2>1. client'[c] = NoCall /\ reply'[c].kind = "not found"
    BY <2>b, <2>c DEF NoReply
  <2>a. client'[c].pc = "idle"
    BY <2>1, BlankFields
  <2>2. HandlerOK(c)' /\ ReplyOK(c)' /\ client'[c].pc = "idle"
    BY <2>1, <2>a DEF HandlerOK, ReplyOK
  <2>3. \A d \in Client \ {c} : client'[d] = client[d] /\ reply'[d] = reply[d]
    BY <1>3 DEF Return, TypeOK
  <2> QED
    BY <2>2, <2>3, RequestKeeps
<1> QED
  BY <1>2, <1>3

\* An ended job's artifacts are written by nobody, so they are read whole.
LEMMA ReadWhole ==
    ASSUME IInv, NEW j \in Job, NEW f \in Format, Ended(j) \/ ~Present(j)
    PROVE  Readable(j, f) = {artifact[j][f]}
<1>1. run[j].pc = "idle"
  BY Split DEF JobOK
<1> QED
  BY <1>1 DEF Readable, Writing, Rendering

LEMMA ReadArtifactKeeps ==
    ASSUME IInv, TypeOK', NEW c \in Client, ReadArtifact(c)
    PROVE  IInv'
<1> USE Split
<1> DEFINE j == client[c].job
<1>1. PICK f \in Format : \E seen \in Readable(j, f) :
              client' = [client EXCEPT ![c].seen[f] = seen]
  BY DEF ReadArtifact
<1>2. PICK seen \in Readable(j, f) : client' = [client EXCEPT ![c].seen[f] = seen]
  BY <1>1
<1>3. client[c].pc = "read" /\ UNCHANGED <<seq, maps, run, metric, reply>>
  BY DEF ReadArtifact
<1>4. client[c] \in Call /\ j \in 1 .. seq /\ j \in Job
  BY <1>3 DEF TypeOK, CreationOK, Job
<1>5. /\ client'[c].pc = "read" /\ client'[c].job = j
      /\ client'[c].status = client[c].status
      /\ client'[c].seen = [client[c].seen EXCEPT ![f] = seen]
  BY <1>2, <1>3, <1>4 DEF TypeOK, Call
<1>6. HandlerOK(c)'
  <2> SUFFICES ASSUME client[c].status \in Terminal PROVE HandlerOK(c)'
    BY <1>5 DEF HandlerOK
  <2>1. /\ Ended(j) \/ ~Present(j)
        /\ SettledAs(j, client[c].status)
        /\ \A g \in Format : client[c].seen[g] \in {"unread", artifact[j][g]}
    BY <1>3 DEF HandlerOK
  <2>2. seen = artifact[j][f]
    BY <1>4, <2>1, ReadWhole
  <2>3. \A g \in Format : client'[c].seen[g] \in {"unread", artifact[j][g]}
    BY <1>4, <1>5, <2>1, <2>2 DEF Call, Statuses
  <2> QED
    BY <1>3, <1>5, <2>1, <2>3 DEF HandlerOK, Ended, Present, SettledAs, With, maps
<1>7. ReplyOK(c)'
  BY <1>3 DEF ReplyOK
<1>8. \A d \in Client \ {c} : client'[d] = client[d] /\ reply'[d] = reply[d]
  BY <1>2, <1>3 DEF TypeOK
<1> QED
  BY <1>3, <1>4, <1>5, <1>6, <1>7, <1>8, RequestKeeps

LEMMA AnswerStatusKeeps ==
    ASSUME IInv, TypeOK', NEW c \in Client, AnswerStatus(c)
    PROVE  IInv'
<1> USE Split DEF AnswerStatus, Return
<1> DEFINE j == client[c].job
<1>1. client'[c] = NoCall /\ UNCHANGED <<seq, maps, run>>
      /\ \A d \in Client \ {c} : client'[d] = client[d] /\ reply'[d] = reply[d]
  BY DEF TypeOK
<1>2. reply'[c].status = client[c].status /\ reply'[c].seen = client[c].seen
  BY DEF TypeOK
<1>3. ReplyOK(c)'
  <2> SUFFICES ASSUME client[c].status \in Terminal PROVE ReplyOK(c)'
    BY <1>2 DEF ReplyOK
  <2>1. SettledAs(j, client[c].status)
        /\ \A f \in Format : client[c].seen[f] = artifact[j][f]
    BY DEF HandlerOK
  <2>2. \A f \in Format : reply'[c].seen[f] = artifact[j][f]
    BY <1>2, <2>1
  <2>3. \A f \in Format : artifact[j][f] \in {"none"} \cup FinalArtifact
    BY <2>1 DEF SettledAs
  <2>4. client[c].status = "failed" => \A f \in Format : artifact[j][f] # "succeeded"
    BY <2>1 DEF SettledAs, Summary, With
  <2>5. client[c].status = "succeeded" => \A f \in Format : artifact[j][f] # "failed"
    BY <2>1 DEF SettledAs, Summary, With
  <2>6. ASSUME client[c].status = "partial_success"
        PROVE  FinalArtifact \subseteq {reply'[c].seen[f] : f \in Format}
    <3>1. \E f \in Format : artifact[j][f] = "succeeded"
      BY <2>1, <2>6 DEF SettledAs, Summary, With
    <3>2. \E f \in Format : artifact[j][f] = "failed"
      BY <2>1, <2>6 DEF SettledAs, Summary, With
    <3> QED
      BY <2>2, <3>1, <3>2 DEF FinalArtifact
  <2> QED
    BY <1>2, <2>2, <2>3, <2>4, <2>5, <2>6 DEF ReplyOK
<1>4. HandlerOK(c)' /\ client'[c].pc = "idle"
  BY <1>1 DEF HandlerOK, NoCall
<1> QED
  BY <1>1, <1>3, <1>4, RequestKeeps

LEMMA CheckArtifactKeeps ==
    ASSUME IInv, TypeOK', NEW c \in Client, NEW f \in Format, CheckArtifact(c, f)
    PROVE  IInv'
<1> USE Split
<1> DEFINE j == client[c].job
<1>1. PICK seen \in Readable(j, f) :
          \/ /\ seen = "succeeded"
             /\ client' = [client EXCEPT ![c].pc = "fetch", ![c].formats = {f}]
             /\ UNCHANGED reply
          \/ /\ seen # "succeeded"
             /\ Return(c, [NoReply EXCEPT !.job = j, !.kind =
                             IF seen = "none" THEN "not found" ELSE "not ready"])
  BY DEF CheckArtifact
<1>2. client[c].pc = "check" /\ UNCHANGED <<seq, maps, run, metric>>
  BY DEF CheckArtifact
<1>3. client[c] \in Call /\ j \in 1 .. seq /\ j \in Job
  BY <1>2 DEF TypeOK, CreationOK, Job
<1>4. CASE seen = "succeeded"
  <2>1. client' = [client EXCEPT ![c] = [client[c] EXCEPT !.pc = "fetch", !.formats = {f}]]
        /\ UNCHANGED reply
    BY <1>1, <1>4
  <2>2. client'[c] = [client[c] EXCEPT !.pc = "fetch", !.formats = {f}]
        /\ \A d \in Client \ {c} : client'[d] = client[d] /\ reply'[d] = reply[d]
    BY <2>1 DEF TypeOK
  <2>3. client'[c].pc = "fetch" /\ client'[c].job = j /\ client'[c].formats = {f}
    BY <1>3, <2>2 DEF Call
  <2>4. artifact[j][f] = "succeeded"
    BY <1>1, <1>4 DEF Readable
  <2>5. HandlerOK(c)'
    BY <1>2, <2>3, <2>4 DEF HandlerOK, With, maps
  <2>6. ReplyOK(c)'
    BY <2>1 DEF ReplyOK
  <2> QED
    BY <1>2, <1>3, <2>2, <2>3, <2>5, <2>6, RequestKeeps
<1>5. CASE seen # "succeeded"
  <2> DEFINE answer == [NoReply EXCEPT !.job = j, !.kind =
                           IF seen = "none" THEN "not found" ELSE "not ready"]
  <2>1. client' = [client EXCEPT ![c] = NoCall] /\ reply' = [reply EXCEPT ![c] = answer]
    BY <1>1, <1>5 DEF Return
  <2>2. answer.kind # "status"
    BY DEF NoReply
  <2> HIDE DEF answer
  <2>3. client'[c] = NoCall /\ reply'[c] = answer
        /\ \A d \in Client \ {c} : client'[d] = client[d] /\ reply'[d] = reply[d]
    BY <2>1 DEF TypeOK
  <2>4. client'[c].pc = "idle"
    BY <2>3, BlankFields
  <2>5. HandlerOK(c)' /\ ReplyOK(c)'
    BY <2>2, <2>3, <2>4 DEF HandlerOK, ReplyOK
  <2> QED
    BY <1>2, <2>3, <2>4, <2>5, RequestKeeps
<1> QED
  BY <1>4, <1>5

LEMMA FetchPayloadKeeps ==
    ASSUME IInv, TypeOK', NEW c \in Client, FetchPayload(c)
    PROVE  IInv'
<1> USE Split
<1> DEFINE answer == [NoReply EXCEPT !.job = client[c].job, !.kind =
                        IF client[c].formats \subseteq payload[client[c].job]
                           THEN "content" ELSE "unavailable"]
<1>1. client' = [client EXCEPT ![c] = NoCall] /\ reply' = [reply EXCEPT ![c] = answer]
      /\ UNCHANGED <<seq, maps, run, metric>>
  BY DEF FetchPayload, Return
<1>2. answer.kind # "status"
  BY DEF NoReply
<1> HIDE DEF answer
<1>3. client'[c] = NoCall /\ reply'[c] = answer
      /\ \A d \in Client \ {c} : client'[d] = client[d] /\ reply'[d] = reply[d]
  BY <1>1 DEF TypeOK
<1>4. client'[c].pc = "idle"
  BY <1>3, BlankFields
<1>5. HandlerOK(c)' /\ ReplyOK(c)'
  BY <1>2, <1>3, <1>4 DEF HandlerOK, ReplyOK
<1> QED
  BY <1>1, <1>3, <1>4, <1>5, RequestKeeps

-------------------------------------------------------------------------------
(***************************************************************************)
(* The goroutine that renders a job.                                       *)
(***************************************************************************)

LEMMA StartRunKeeps ==
    ASSUME IInv, TypeOK', NEW j \in Job, StartRun(j)
    PROVE  IInv'
<1> USE Split
<1>1. run[j].pc = "start" /\ Present(j) /\ job[j].status = "queued"
      /\ run[j] = [NoRunner EXCEPT !.pc = "start"] /\ QueuedOK(j)
  BY DEF StartRun, JobOK, RunOK
<1>2. /\ job' = [job EXCEPT ![j] = [status |-> "processing", old |-> FALSE]]
      /\ run' = [run EXCEPT ![j] = [run[j] EXCEPT !.pc = "next",
                    !.todo = {f \in Format : artifact[j][f] # "none"}]]
      /\ UNCHANGED <<seq, artifact, payload, metric, client, reply>>
  BY <1>1 DEF StartRun
<1>3. job'[j].status = "processing" /\ Present(j)' /\ ~Ended(j)'
  BY <1>2 DEF TypeOK, Present, Ended, Terminal
<1>4. run'[j] = [run[j] EXCEPT !.pc = "next",
                   !.todo = {f \in Format : artifact[j][f] # "none"}]
  BY <1>2 DEF TypeOK
<1>5. /\ run'[j].pc = "next" /\ run'[j].good = FALSE /\ run'[j].bad = FALSE
      /\ run'[j].todo = {f \in Format : artifact[j][f] # "none"}
  BY <1>1, <1>4 DEF NoRunner
<1>6. /\ With(j, "queued")' = run'[j].todo
      /\ With(j, "succeeded")' = {} /\ With(j, "succeeded") = {}
      /\ With(j, "failed")' = {} /\ With(j, "processing")' = {}
  BY <1>1, <1>2, <1>5 DEF With, QueuedOK
<1>7. payload'[j] = {}
  BY <1>1, <1>2, <1>6 DEF JobOK
<1>8. JobOK(j)'
  BY <1>3, <1>5, <1>6, <1>7 DEF JobOK, RunOK, QueuedOK
<1>9. \A k \in Job \ {j} : Aside(k)
  BY <1>2 DEF Aside, TypeOK
<1> QED
  BY <1>1, <1>2, <1>3, <1>6, <1>8, <1>9, RunStepKeeps

LEMMA MarkArtifactKeeps ==
    ASSUME IInv, TypeOK', NEW j \in Job, NEW f \in Format, MarkArtifact(j, f)
    PROVE  IInv'
<1> USE Split
<1>1. /\ run[j].pc = "next" /\ f \in run[j].todo /\ Present(j) /\ ~Ended(j)
      /\ job[j].status = "processing" /\ run[j].todo = With(j, "queued")
      /\ With(j, "processing") = {}
      /\ run[j].good = (With(j, "succeeded") # {})
      /\ run[j].bad = (With(j, "failed") # {})
      /\ payload[j] = With(j, "succeeded")
  BY DEF MarkArtifact, JobOK, RunOK
<1>2. /\ job' = [job EXCEPT ![j] = [job[j] EXCEPT !.old = FALSE]]
      /\ artifact' = [artifact EXCEPT ![j] = [artifact[j] EXCEPT ![f] = "processing"]]
      /\ run' = [run EXCEPT ![j] = [run[j] EXCEPT !.pc = "render",
                                                  !.todo = run[j].todo \ {f}]]
      /\ UNCHANGED <<seq, payload, metric, client, reply>>
  BY <1>1 DEF MarkArtifact
<1>3. job'[j] = [job[j] EXCEPT !.old = FALSE]
      /\ artifact'[j] = [artifact[j] EXCEPT ![f] = "processing"]
      /\ run'[j] = [run[j] EXCEPT !.pc = "render", !.todo = run[j].todo \ {f}]
      /\ \A k \in Job \ {j} : Aside(k)
  BY <1>2 DEF TypeOK, Aside
<1>4. job[j] \in JobRow /\ run[j] \in Runner /\ artifact[j] \in [Format -> ArtifactStatus]
  BY DEF TypeOK
<1>5. job'[j].status = "processing" /\ Present(j)' /\ ~Ended(j)'
  BY <1>1, <1>3, <1>4 DEF JobRow, Present, Ended, Terminal
<1>6. /\ run'[j].pc = "render" /\ run'[j].todo = run[j].todo \ {f}
      /\ run'[j].good = run[j].good /\ run'[j].bad = run[j].bad
  BY <1>3, <1>4 DEF Runner
<1>7. artifact[j][f] = "queued"
  BY <1>1 DEF With
<1>8. /\ With(j, "queued")' = With(j, "queued") \ {f}
      /\ With(j, "processing")' = {f}
      /\ With(j, "succeeded")' = With(j, "succeeded")
      /\ With(j, "failed")' = With(j, "failed")
  BY <1>1, <1>3, <1>4, <1>7 DEF With
<1>9. payload'[j] = With(j, "succeeded")'
  BY <1>1, <1>2, <1>8
<1>10. JobOK(j)'
  BY <1>1, <1>5, <1>6, <1>8, <1>9 DEF JobOK, RunOK, QueuedOK
<1> QED
  BY <1>1, <1>2, <1>3, <1>5, <1>8, <1>10, RunStepKeeps

LEMMA StoreArtifactKeeps ==
    ASSUME IInv, TypeOK', NEW j \in Job, NEW f \in Format,
           NEW outcome \in FinalArtifact, StoreArtifact(j, f, outcome)
    PROVE  IInv'
<1> USE Split
<1>1. /\ run[j].pc = "render" /\ artifact[j][f] = "processing"
      /\ Present(j) /\ ~Ended(j)
      /\ job[j].status = "processing" /\ run[j].todo = With(j, "queued")
      /\ run[j].good = (With(j, "succeeded") # {})
      /\ run[j].bad = (With(j, "failed") # {})
      /\ payload[j] = With(j, "succeeded")
      /\ \E g \in Format : With(j, "processing") = {g}
  BY DEF StoreArtifact, Rendering, JobOK, RunOK
<1>2. /\ job' = [job EXCEPT ![j] = [job[j] EXCEPT !.old = FALSE]]
      /\ artifact' = [artifact EXCEPT ![j] = [artifact[j] EXCEPT ![f] = outcome]]
      /\ payload' = [payload EXCEPT ![j] = Stored(payload[j], f, outcome)]
      /\ run' = [run EXCEPT ![j] = [run[j] EXCEPT !.pc = "next",
                        !.good = run[j].good \/ outcome = "succeeded",
                        !.bad = run[j].bad \/ outcome = "failed"]]
      /\ UNCHANGED <<seq, metric, client, reply>>
  BY <1>1 DEF StoreArtifact
<1>3. job'[j] = [job[j] EXCEPT !.old = FALSE]
      /\ artifact'[j] = [artifact[j] EXCEPT ![f] = outcome]
      /\ payload'[j] = Stored(payload[j], f, outcome)
      /\ run'[j] = [run[j] EXCEPT !.pc = "next",
                        !.good = run[j].good \/ outcome = "succeeded",
                        !.bad = run[j].bad \/ outcome = "failed"]
      /\ \A k \in Job \ {j} : Aside(k)
  BY <1>2 DEF TypeOK, Aside
<1>4. job[j] \in JobRow /\ run[j] \in Runner /\ artifact[j] \in [Format -> ArtifactStatus]
  BY DEF TypeOK
<1>5. job'[j].status = "processing" /\ Present(j)' /\ ~Ended(j)'
  BY <1>1, <1>3, <1>4 DEF JobRow, Present, Ended, Terminal
<1>6. /\ run'[j].pc = "next" /\ run'[j].todo = run[j].todo
      /\ run'[j].good = (run[j].good \/ outcome = "succeeded")
      /\ run'[j].bad = (run[j].bad \/ outcome = "failed")
  BY <1>3, <1>4 DEF Runner
<1>7. With(j, "processing") = {f}
  BY <1>1 DEF With
<1>8. \A g \in Format : artifact'[j][g] = IF g = f THEN outcome ELSE artifact[j][g]
  BY <1>3, <1>4
<1>9. With(j, "queued")' = With(j, "queued") /\ With(j, "processing")' = {}
  BY <1>1, <1>7, <1>8 DEF With, FinalArtifact
<1>10. \A o \in FinalArtifact :
          With(j, o)' = IF outcome = o THEN With(j, o) \cup {f} ELSE With(j, o)
  BY <1>1, <1>8 DEF With, FinalArtifact
<1>11. payload'[j] = With(j, "succeeded")'
  BY <1>1, <1>3, <1>10 DEF Stored, FinalArtifact
<1>12. /\ run'[j].good = (With(j, "succeeded")' # {})
       /\ run'[j].bad = (With(j, "failed")' # {})
  BY <1>1, <1>6, <1>10 DEF FinalArtifact
<1>13. JobOK(j)'
  BY <1>1, <1>5, <1>6, <1>9, <1>11, <1>12 DEF JobOK, RunOK, QueuedOK
<1>14. With(j, "succeeded") \subseteq With(j, "succeeded")'
  BY <1>10 DEF FinalArtifact
<1> QED
  BY <1>1, <1>2, <1>3, <1>5, <1>13, <1>14, RunStepKeeps

LEMMA FinishRunKeeps ==
    ASSUME IInv, TypeOK', NEW j \in Job, FinishRun(j)
    PROVE  IInv'
<1> USE Split
<1>0. PICK status : status = Summary(run[j].good, run[j].bad)
  OBVIOUS
<1>1. /\ run[j].pc = "next" /\ run[j].todo = {}
      /\ With(j, "queued") = {} /\ With(j, "processing") = {}
      /\ run[j].good = (With(j, "succeeded") # {})
      /\ run[j].bad = (With(j, "failed") # {})
      /\ payload[j] = With(j, "succeeded") /\ Present(j) /\ ~Ended(j)
  BY DEF FinishRun, JobOK, RunOK
<1>2. /\ job' = [KeptJobs EXCEPT ![j] = [status |-> status, old |-> FALSE]]
      /\ payload' = KeptPayloads
      /\ run' = [run EXCEPT ![j] = NoRunner]
      /\ UNCHANGED <<seq, artifact, client, reply>>
  BY <1>0 DEF FinishRun
<1>3. status \in Terminal
  BY <1>0, SummaryTyped DEF TypeOK, Runner
<1>4. ~Expired(j)
  BY <1>1 DEF Expired, Ended
<1>5. job'[j] = [status |-> status, old |-> FALSE] /\ payload'[j] = payload[j]
      /\ run'[j] = NoRunner /\ artifact'[j] = artifact[j]
  BY <1>2, <1>4 DEF KeptJobs, KeptPayloads, TypeOK
<1>6. \A k \in Job \ {j} : Aside(k)
  BY <1>2 DEF Aside, KeptJobs, KeptPayloads, TypeOK
<1>7. job'[j].status = status /\ Present(j)' /\ Ended(j)' /\ status # "queued"
  BY <1>3, <1>5 DEF Present, Ended, Terminal
<1>8. SettledAs(j, status)'
  <2>1. \A o \in ArtifactStatus : With(j, o)' = With(j, o)
    BY <1>5 DEF With
  <2>2. status = Summary(With(j, "succeeded") # {}, With(j, "failed") # {})
    BY <1>0, <1>1
  <2>3. \A f \in Format : artifact[j][f] \in {"none"} \cup FinalArtifact
    BY <1>1 DEF With, TypeOK, ArtifactStatus
  <2> QED
    BY <1>5, <2>1, <2>2, <2>3 DEF SettledAs, ArtifactStatus, FinalArtifact
<1>9. JobOK(j)'
  BY <1>1, <1>5, <1>7, <1>8 DEF JobOK, RunOK, QueuedOK, NoRunner, With
<1> QED
  BY <1>1, <1>2, <1>5, <1>6, <1>7, <1>9, RunStepKeeps DEF With

-------------------------------------------------------------------------------
(***************************************************************************)
(* Creating a job.                                                         *)
(***************************************************************************)

LEMMA AllocateJobKeeps ==
    ASSUME IInv, TypeOK', NEW c \in Client, NEW formats \in SUBSET Format,
           AllocateJob(c, formats)
    PROVE  IInv'
<1> USE Split, SplitAfter
<1> DEFINE call == [NoCall EXCEPT !.pc = "insert", !.job = seq + 1, !.formats = formats]
<1>1. /\ client[c].pc = "idle" /\ seq < MaxJobs /\ seq' = seq + 1
      /\ client' = [client EXCEPT ![c] = call]
      /\ reply' = [reply EXCEPT ![c] = NoReply]
      /\ UNCHANGED <<job, artifact, payload, run>>
  BY DEF AllocateJob, maps
<1>2. call.pc = "insert" /\ call.job = seq + 1
  BY DEF NoCall
<1> HIDE DEF call
<1>3. client'[c] = call /\ reply'[c] = NoReply
      /\ \A d \in Client \ {c} : client'[d] = client[d] /\ reply'[d] = reply[d]
  BY <1>1 DEF TypeOK
<1>4. seq \in 0 .. MaxJobs /\ seq + 1 \in Job /\ seq + 1 > seq
  BY <1>1 DEF TypeOK, Job
<1>5. \A j \in Job : JobOK(j)'
  BY <1>1, JobUnchanged
<1>6. FreshIds'
  BY <1>1, <1>4 DEF FreshIds, Present, Job
<1>7. \A d \in Client : client[d].pc # "idle" => client[d].job \in 1 .. seq
  BY DEF CreationOK
<1>8. NewJobOK(c)' /\ ReplyOK(c)' /\ CreationOK(c)' /\ HandlerOK(c)'
  <2>0. PICK n : n = seq + 1
    OBVIOUS
  <2>1. ~Present(n)' /\ payload'[n] = {} /\ run'[n].pc = "idle"
    BY <1>1, <1>4, <2>0 DEF FreshIds, Present
  <2>2. \A d \in Client \ {c} : client'[d].pc # "idle" => client'[d].job # n
    BY <1>3, <1>4, <1>7, <2>0
  <2>3. NewJobOK(c)'
    BY <1>2, <1>3, <2>0, <2>1, <2>2 DEF NewJobOK
  <2>4. ReplyOK(c)'
    BY <1>3, BlankFields DEF ReplyOK
  <2>5. seq + 1 \in 1 .. seq'
    BY <1>1, <1>4
  <2> QED
    BY <1>2, <1>3, <2>3, <2>4, <2>5 DEF CreationOK, HandlerOK
<1>9. ASSUME NEW d \in Client \ {c}
      PROVE  NewJobOK(d)' /\ ReplyOK(d)' /\ CreationOK(d)' /\ HandlerOK(d)'
  <2>1. client'[d] = client[d] /\ reply'[d] = reply[d]
    BY <1>3
  <2>2. ReplyOK(d)' /\ HandlerOK(d)'
    BY <1>1, <2>1 DEF ReplyOK, HandlerOK, Ended, Present, SettledAs, With
  <2>3. NewJobOK(d)'
    <3> SUFFICES ASSUME client[d].pc = "insert" PROVE NewJobOK(d)'
      BY <2>1 DEF NewJobOK
    <3>1. client'[c].job # client[d].job
      BY <1>2, <1>3, <1>4, <1>7
    <3> QED
      BY <1>1, <1>3, <2>1, <3>1 DEF NewJobOK, Present
  <2>4. CreationOK(d)'
    <3>1. client[d].pc # "idle" => client[d].job \in 1 .. seq'
      BY <1>1, <1>4, <1>7
    <3>2. client'[c].pc # "launch"
      BY <1>2, <1>3
    <3> QED
      BY <1>1, <1>3, <2>1, <3>1, <3>2 DEF CreationOK
  <2> QED
    BY <2>2, <2>3, <2>4
<1> QED
  BY <1>5, <1>6, <1>8, <1>9

LEMMA InsertJobKeeps ==
    ASSUME IInv, TypeOK', NEW c \in Client, InsertJob(c)
    PROVE  IInv'
<1> USE Split, SplitAfter
<1>0. PICK j : j = client[c].job
  OBVIOUS
<1>1. /\ client[c].pc = "insert"
      /\ job' = [KeptJobs EXCEPT ![j] = [status |-> "queued", old |-> FALSE]]
      /\ payload' = [KeptPayloads EXCEPT ![j] = {}]
      /\ artifact' = [artifact EXCEPT ![j] =
                        [f \in Format |-> IF f \in client[c].formats
                                             THEN "queued" ELSE "none"]]
      /\ client' = [client EXCEPT ![c] = [client[c] EXCEPT !.pc = "launch"]]
      /\ UNCHANGED <<seq, run, metric, reply>>
  BY <1>0 DEF InsertJob
<1>2. /\ client[c] \in Call /\ j \in 1 .. seq /\ j \in Job /\ seq \in 0 .. MaxJobs
      /\ ~Present(j) /\ payload[j] = {} /\ run[j].pc = "idle"
      /\ \A d \in Client \ {c} : client[d].pc # "idle" => client[d].job # j
  BY <1>0, <1>1 DEF TypeOK, CreationOK, NewJobOK, Job
<1>3. /\ client'[c].pc = "launch" /\ client'[c].job = j
      /\ \A d \in Client \ {c} : client'[d] = client[d]
  BY <1>0, <1>1, <1>2 DEF TypeOK, Call
<1>4. /\ job'[j].status = "queued" /\ payload'[j] = {}
      /\ \A f \in Format : artifact'[j][f] \in {"none", "queued"}
      /\ \A k \in Job \ {j} : Aside(k)
  BY <1>1, <1>2 DEF KeptJobs, KeptPayloads, Aside, TypeOK
<1>5. JobOK(j)'
  BY <1>1, <1>2, <1>4
  DEF JobOK, RunOK, QueuedOK, With, Ended, Terminal
<1>6. \A k \in Job \ {j} : JobOK(k)' /\ (Present(k)' => Present(k))
                           /\ (Ended(k) => Ended(k)' \/ ~Present(k)')
  BY <1>4, AsideOK
<1>7. FreshIds'
  <2> SUFFICES ASSUME NEW k \in Job, k > seq
               PROVE  ~Present(k)' /\ payload'[k] = {} /\ run'[k].pc = "idle"
    BY <1>1 DEF FreshIds
  <2>0. ~(j > seq)
    BY <1>2
  <2>1. k # j /\ ~Present(k) /\ payload[k] = {} /\ run[k].pc = "idle"
    BY <2>0 DEF FreshIds
  <2> QED
    BY <1>4, <1>6, <2>1 DEF Aside
<1>8. NewJobOK(c)' /\ ReplyOK(c)' /\ HandlerOK(c)'
  BY <1>1, <1>3 DEF NewJobOK, ReplyOK, HandlerOK
<1>9. CreationOK(c)'
  BY <1>1, <1>2, <1>3, <1>4 DEF CreationOK
<1>10. ASSUME NEW d \in Client \ {c}
       PROVE  NewJobOK(d)' /\ ReplyOK(d)' /\ CreationOK(d)' /\ HandlerOK(d)'
  <2>0. PICK k : k = client[d].job
    OBVIOUS
  <2>1. client[d].pc # "idle" => k \in Job /\ k # j
    BY <1>2, <2>0 DEF CreationOK, Job
  <2>2. client[d].pc # "idle" => Aside(k)
    BY <1>4, <2>1
  <2>3. NewJobOK(d)'
    <3> SUFFICES ASSUME client[d].pc = "insert" PROVE NewJobOK(d)'
      BY <1>3 DEF NewJobOK
    <3>1. ~Present(k) /\ payload[k] = {} /\ run[k].pc = "idle"
          /\ \A e \in Client \ {d} : client[e].pc # "idle" => client[e].job # k
      BY <2>0 DEF NewJobOK
    <3>2. ~Present(k)' /\ payload'[k] = {} /\ run'[k].pc = "idle"
      BY <1>6, <2>1, <2>2, <3>1 DEF Aside
    <3>3. \A e \in Client \ {d} : client'[e].pc # "idle" => client'[e].job # k
      BY <1>3, <2>1, <3>1
    <3> QED
      BY <1>3, <2>0, <3>2, <3>3 DEF NewJobOK
  <2>4. CreationOK(d)'
    <3>1. client[d].pc = "launch" => job'[k].status = "queued" /\ run'[k].pc = "idle"
      BY <2>0, <2>2 DEF CreationOK, Aside, Expired, Terminal
    <3>2. client[d].pc = "launch" =>
            \A e \in Client \ {d} : client'[e].pc = "launch" => client'[e].job # k
      BY <1>3, <2>0, <2>1 DEF CreationOK
    <3> QED
      BY <1>1, <1>3, <2>0, <3>1, <3>2 DEF CreationOK
  <2>5. HandlerOK(d)'
    <3>1. client[d].pc # "idle" => artifact'[k] = artifact[k]
      BY <2>2 DEF Aside
    <3>2. client[d].pc # "idle" => (Ended(k) \/ ~Present(k) => Ended(k)' \/ ~Present(k)')
      BY <1>6, <2>1
    <3> QED
      BY <1>3, <2>0, <3>1, <3>2 DEF HandlerOK, SettledAs, With
  <2>6. ReplyOK(d)'
    BY <1>1 DEF ReplyOK
  <2> QED
    BY <2>3, <2>4, <2>5, <2>6
<1> QED
  BY <1>5, <1>6, <1>7, <1>8, <1>9, <1>10

LEMMA LaunchJobKeeps ==
    ASSUME IInv, TypeOK', NEW c \in Client, LaunchJob(c)
    PROVE  IInv'
<1> USE Split, SplitAfter
<1>0. PICK j : j = client[c].job
  OBVIOUS
<1> DEFINE call == [client[c] EXCEPT !.pc = "read", !.formats = {}, !.status = "queued"]
<1>1. /\ client[c].pc = "launch"
      /\ run' = [run EXCEPT ![j] = [run[j] EXCEPT !.pc = "start"]]
      /\ client' = [client EXCEPT ![c] = call]
      /\ UNCHANGED <<seq, job, artifact, payload, reply>>
  BY <1>0 DEF LaunchJob, maps
<1>2. /\ client[c] \in Call /\ j \in 1 .. seq /\ j \in Job /\ seq \in 0 .. MaxJobs
      /\ job[j].status = "queued" /\ run[j].pc = "idle" /\ run[j] = NoRunner
      /\ \A d \in Client \ {c} : client[d].pc = "launch" => client[d].job # j
  BY <1>0, <1>1 DEF TypeOK, CreationOK, Job, JobOK, RunOK
<1>3. /\ client'[c].pc = "read" /\ client'[c].job = j /\ client'[c].status = "queued"
      /\ \A d \in Client \ {c} : client'[d] = client[d]
  BY <1>0, <1>1, <1>2 DEF TypeOK, Call
<1>4. /\ run'[j] = [NoRunner EXCEPT !.pc = "start"] /\ run'[j].pc = "start"
      /\ \A k \in Job \ {j} : run'[k] = run[k]
  BY <1>1, <1>2 DEF TypeOK, NoRunner
<1>5. JobOK(j)'
  <2>1. Present(j)' /\ ~Ended(j)' /\ QueuedOK(j)'
    BY <1>1, <1>2 DEF Present, Ended, Terminal, JobOK, QueuedOK
  <2>2. RunOK(j)'
    BY <1>1, <1>2, <1>4 DEF RunOK
  <2>3. payload'[j] = With(j, "succeeded")'
    BY <1>1, <1>2 DEF JobOK, Present, With
  <2> QED
    BY <2>1, <2>2, <2>3 DEF JobOK
<1>6. \A k \in Job \ {j} : JobOK(k)'
  BY <1>1, <1>4, JobUnchanged
<1>7. FreshIds'
  BY <1>1, <1>2, <1>4 DEF FreshIds, Present, Job
<1>8. NewJobOK(c)' /\ ReplyOK(c)' /\ HandlerOK(c)' /\ CreationOK(c)'
  BY <1>1, <1>2, <1>3 DEF NewJobOK, ReplyOK, HandlerOK, CreationOK, Terminal
<1>9. ASSUME NEW d \in Client \ {c}
      PROVE  NewJobOK(d)' /\ ReplyOK(d)' /\ CreationOK(d)' /\ HandlerOK(d)'
  <2>1. client'[d] = client[d]
    BY <1>3
  <2>2. ReplyOK(d)' /\ HandlerOK(d)'
    BY <1>1, <2>1 DEF ReplyOK, HandlerOK, Ended, Present, SettledAs, With
  <2>3. NewJobOK(d)'
    <3> SUFFICES ASSUME client[d].pc = "insert" PROVE NewJobOK(d)'
      BY <2>1 DEF NewJobOK
    <3>1. client[d].job # j /\ client[d].job \in Job
      BY <1>0, <1>1, <1>2 DEF NewJobOK, CreationOK, Job
    <3>2. \A e \in Client \ {d} : client[e].pc # "idle" => client[e].job # client[d].job
      BY DEF NewJobOK
    <3> QED
      BY <1>1, <1>3, <1>4, <2>1, <3>1, <3>2 DEF NewJobOK, Present
  <2>4. CreationOK(d)'
    <3>1. client[d].pc # "idle" => client[d].job \in Job
      BY <1>2 DEF CreationOK, Job
    <3>2. client[d].pc = "launch" => client[d].job # j
      BY <1>2
    <3> QED
      BY <1>1, <1>3, <1>4, <2>1, <3>1, <3>2 DEF CreationOK
  <2> QED
    BY <2>2, <2>3, <2>4
<1> QED
  BY <1>5, <1>6, <1>7, <1>8, <1>9

-------------------------------------------------------------------------------
(***************************************************************************)
(* The surroundings, and the theorems.                                     *)
(***************************************************************************)

LEMMA AgeKeeps ==
    ASSUME IInv, TypeOK', NEW j \in Job, Age(j)
    PROVE  IInv'
<1> USE Split, SplitAfter
<1>1. job' = [job EXCEPT ![j] = [job[j] EXCEPT !.old = TRUE]]
      /\ UNCHANGED <<seq, artifact, payload, run, metric, client, reply>>
  BY DEF Age
<1>2. \A k \in Job : job'[k].status = job[k].status
  BY <1>1 DEF TypeOK, JobRow
<1>3. \A k \in Job : JobOK(k)'
  BY <1>1, <1>2, JobUnchanged
<1>4. FreshIds'
  BY <1>1, <1>2 DEF FreshIds, Present
<1>5. ASSUME NEW c \in Client
      PROVE  NewJobOK(c)' /\ ReplyOK(c)' /\ CreationOK(c)' /\ HandlerOK(c)'
  <2> DEFINE k == client[c].job
  <2>1. client[c].pc # "idle" => job'[k].status = job[k].status
    BY <1>2 DEF CreationOK, TypeOK, Job
  <2> QED
    BY <1>1, <2>1 DEF NewJobOK, ReplyOK, CreationOK, HandlerOK, Present, Ended,
                      SettledAs, With
<1> QED
  BY <1>3, <1>4, <1>5

\* A restart forgets everything but what clients were told.
LEMMA RestartKeeps ==
    ASSUME IInv, TypeOK', Restart
    PROVE  IInv'
<1> USE Split, SplitAfter DEF Restart
<1>1. ASSUME NEW j \in Job PROVE JobOK(j)'
  BY DEF JobOK, Present, Ended, RunOK, QueuedOK, NoJob, NoRunner, Terminal
<1>2. FreshIds'
  BY DEF FreshIds, Present, NoJob, NoRunner
<1>3. ASSUME NEW c \in Client
      PROVE  NewJobOK(c)' /\ ReplyOK(c)' /\ CreationOK(c)' /\ HandlerOK(c)'
  BY DEF NewJobOK, ReplyOK, CreationOK, HandlerOK, NoCall
<1> QED
  BY <1>1, <1>2, <1>3

LEMMA StutterKeeps ==
    ASSUME IInv, UNCHANGED vars
    PROVE  IInv'
BY DEF vars, maps, IInv, TypeOK, ReadyHasPayload, RunningIsKept, NewJobsAreNew,
       FinalReplies, FreshIds, CreationOK, HandlerOK, RunOK, QueuedOK, SettledAs,
       Present, Ended, With

LEMMA StepIInv == IInv /\ [Next]_vars => IInv'
<1> SUFFICES ASSUME IInv, [Next]_vars PROVE IInv'
  OBVIOUS
<1>0. TypeOK'
  BY TypeStep DEF IInv
<1>1. ASSUME NEW c \in Client, RequestStep(c) PROVE IInv'
  BY <1>0, <1>1, InsertJobKeeps, LaunchJobKeeps, ReadArtifactKeeps,
     AnswerStatusKeeps, CheckArtifactKeeps, FetchPayloadKeeps DEF RequestStep
<1>2. ASSUME NEW j \in Job, RunStep(j) PROVE IInv'
  BY <1>0, <1>2, StartRunKeeps, MarkArtifactKeeps, StoreArtifactKeeps,
     FinishRunKeeps DEF RunStep
<1>3. ASSUME NEW c \in Client, NEW j \in Job, GetStatus(c, j) \/ GetArtifact(c, j)
      PROVE  IInv'
  BY <1>0, <1>3, CopyJobKeeps DEF GetStatus, GetArtifact
<1>4. ASSUME NEW c \in Client, NEW formats \in SUBSET Format, AllocateJob(c, formats)
      PROVE  IInv'
  BY <1>0, <1>4, AllocateJobKeeps
<1> QED
  BY <1>0, <1>1, <1>2, <1>3, <1>4, AgeKeeps, RestartKeeps, StutterKeeps
  DEF Next, Requested

\* The inductive invariant holds of every behaviour.
THEOREM ExportInvariant == Spec => []IInv
BY InitIInv, StepIInv, PTL DEF Spec

\* Jobs, artifacts, payloads, goroutines and requests keep their types.
THEOREM ExportTypeCorrect == Spec => []TypeOK
<1>1. IInv => TypeOK
  BY DEF IInv
<1> QED
  BY <1>1, ExportInvariant, PTL

\* An artifact shown as ready has its payload, for any number of jobs.
THEOREM ReadyArtifactsHavePayload == Spec => []ReadyHasPayload
<1>1. IInv => ReadyHasPayload
  BY DEF IInv
<1> QED
  BY <1>1, ExportInvariant, PTL

\* Cleanup never drops a job that is being rendered.
THEOREM RunningJobsAreKept == Spec => []RunningIsKept
<1>1. IInv => RunningIsKept
  BY DEF IInv
<1> QED
  BY <1>1, ExportInvariant, PTL

\* A new job never takes an id in use.
THEOREM IdsAreNew == Spec => []NewJobsAreNew
<1>1. IInv => NewJobsAreNew
  BY DEF IInv
<1> QED
  BY <1>1, ExportInvariant, PTL

\* The answer about an ended job is whole and final, although its artifacts
\* are read without the lock.
THEOREM FinalAnswersAreWhole == Spec => []FinalReplies
<1>1. IInv => FinalReplies
  BY DEF IInv
<1> QED
  BY <1>1, ExportInvariant, PTL

\* Whatever happens to another client, this one keeps its last answer.
LEMMA OnlyOwnAnswer ==
    ASSUME TypeOK, [Next]_vars, NEW c \in Client, client[c].pc = "fetch"
    PROVE  reply'[c] = reply[c] \/ FetchPayload(c)
<1> \A answer : \A d \in Client : Return(d, answer) /\ d # c => reply'[c] = reply[c]
  BY DEF Return, TypeOK
<1>1. ASSUME NEW d \in Client, NEW formats, AllocateJob(d, formats)
      PROVE  reply'[c] = reply[c]
  BY <1>1 DEF AllocateJob, TypeOK
<1>2. ASSUME NEW d \in Client, NEW j \in Job, NEW next, CopyJob(d, j, next)
      PROVE  reply'[c] = reply[c]
  <2>1. d # c
    BY <1>2 DEF CopyJob
  <2> QED
    BY <1>2, <2>1 DEF CopyJob, TypeOK
<1>3. ASSUME NEW d \in Client, RequestStep(d)
      PROVE  reply'[c] = reply[c] \/ FetchPayload(c)
  <2>1. CASE InsertJob(d) \/ LaunchJob(d) \/ ReadArtifact(d)
    BY <2>1 DEF InsertJob, LaunchJob, ReadArtifact
  <2>2. CASE AnswerStatus(d)
    BY <2>2 DEF AnswerStatus
  <2>3. ASSUME NEW f \in Format, CheckArtifact(d, f) PROVE reply'[c] = reply[c]
    BY <2>3 DEF CheckArtifact
  <2>4. CASE FetchPayload(d)
    BY <2>4 DEF FetchPayload
  <2> QED
    BY <1>3, <2>1, <2>2, <2>3, <2>4 DEF RequestStep
<1>4. ASSUME NEW j \in Job, RunStep(j) \/ Age(j) PROVE reply'[c] = reply[c]
  BY <1>4 DEF RunStep, StartRun, MarkArtifact, StoreArtifact, FinishRun, Age
<1>5. CASE Restart \/ UNCHANGED vars
  BY <1>5 DEF Restart, vars
<1> QED
  BY <1>1, <1>2, <1>3, <1>4, <1>5 DEF Next, GetStatus, GetArtifact

\* A download that found its artifact ready gets it, unless the job expired
\* in between.
THEOREM DownloadsFind == Spec => FetchFinds
<1> DEFINE Found(c) ==
      client[c].pc = "fetch" /\ reply'[c] # reply[c] =>
          \/ reply'[c].kind = "content"
          \/ ~Present(client[c].job)
<1>1. ASSUME IInv, [Next]_vars, NEW c \in Client PROVE Found(c)
  <2> SUFFICES ASSUME client[c].pc = "fetch", reply'[c] # reply[c],
                      Present(client[c].job)
               PROVE  reply'[c].kind = "content"
    OBVIOUS
  <2>1. PICK k : k = client[c].job
    OBVIOUS
  <2>2. TypeOK /\ seq \in 0 .. MaxJobs /\ k \in 1 .. seq
    BY <1>1, <2>1 DEF IInv, TypeOK, CreationOK
  <2>3. k \in Job
    BY <2>2 DEF Job
  <2>4. client[c].formats \subseteq payload[k]
    <3>1. HandlerOK(c) /\ (Present(k) => payload[k] = With(k, "succeeded"))
      BY <1>1, <2>3 DEF IInv, ReadyHasPayload
    <3> QED
      BY <2>1, <3>1 DEF HandlerOK
  <2>5. FetchPayload(c)
    BY <1>1, <2>2, OnlyOwnAnswer
  <2>6. reply' = [reply EXCEPT ![c] = [NoReply EXCEPT !.job = k, !.kind = "content"]]
    BY <2>1, <2>4, <2>5 DEF FetchPayload, Return
  <2>7. reply'[c] = [NoReply EXCEPT !.job = k, !.kind = "content"]
    BY <2>2, <2>6 DEF TypeOK
  <2> QED
    BY <2>7 DEF NoReply
<1>2. IInv /\ [Next]_vars => [\A c \in Client : Found(c)]_vars
  BY <1>1
<1> QED
  BY <1>2, ExportInvariant, PTL DEF Spec, FetchFinds

-------------------------------------------------------------------------------
(***************************************************************************)
(* Polls move on, and ended jobs stay, while the server lives.             *)
(***************************************************************************)

\* One step on the way of a job or an artifact.
Onward(a, b) == a = b \/ (a \notin Terminal /\ b # "queued")

LEMMA FollowOnward ==
    ASSUME NEW s, NEW a, NEW b, MayFollow(s, a), Onward(a, b)
    PROVE  MayFollow(s, b)
BY DEF MayFollow, Onward, Terminal

LEMMA FollowItself == \A s : MayFollow(s, s)
BY DEF MayFollow

\* A job that is not being inserted moves on in every step, or is dropped
\* when it has ended and a day has passed; its artifacts move on.
MovesOn(j) ==
    /\ Present(j)' => Present(j) /\ Onward(job[j].status, job'[j].status)
    /\ Present(j) /\ ~Present(j)' => Ended(j) /\ job[j].old
    /\ \A f \in Format : Onward(artifact[j][f], artifact'[j][f])

LEMMA RowStays ==
    ASSUME NEW j \in Job, job'[j].status = job[j].status, artifact'[j] = artifact[j]
    PROVE  MovesOn(j)
BY DEF MovesOn, Present, Onward

LEMMA RowCleaned ==
    ASSUME NEW j \in Job, job'[j] = KeptJobs[j], artifact'[j] = artifact[j]
    PROVE  MovesOn(j)
<1>1. CASE Expired(j)
  <2>1. job'[j] = NoJob
    BY <1>1 DEF KeptJobs
  <2>2. ~Present(j)'
    BY <2>1 DEF NoJob, Present
  <2> QED
    BY <1>1, <2>2 DEF MovesOn, Onward, Expired, Ended
<1>2. CASE ~Expired(j)
  BY <1>2, RowStays DEF KeptJobs
<1> QED
  BY <1>1, <1>2

LEMMA RunMovesOn ==
    ASSUME IInv, NEW i \in Job, RunStep(i), NEW j \in Job
    PROVE  MovesOn(j)
<1> USE DEF IInv, TypeOK
<1>0. RunOK(i) /\ RunOK(j)
  OBVIOUS
<1>1. CASE StartRun(i)
  <2>1. artifact'[j] = artifact[j]
    BY <1>1 DEF StartRun
  <2>2. CASE Present(i) /\ j = i
    <3>1. job[j].status = "queued" /\ job'[j].status = "processing"
      BY <1>0, <1>1, <2>2 DEF StartRun, RunOK
    <3> QED
      BY <2>1, <3>1 DEF MovesOn, Present, Onward, Terminal
  <2>3. CASE ~(Present(i) /\ j = i)
    <3>1. job'[j] = job[j]
      BY <1>1, <2>3 DEF StartRun
    <3> QED
      BY <2>1, <3>1, RowStays
  <2> QED
    BY <2>2, <2>3
<1>2. ASSUME NEW f \in Format, MarkArtifact(i, f) PROVE MovesOn(j)
  <2>1. job'[j].status = job[j].status
    BY <1>2 DEF MarkArtifact, JobRow
  <2>2. artifact[i][f] = "queued"
    BY <1>0, <1>2 DEF MarkArtifact, RunOK, With
  <2>3. \A g \in Format : Onward(artifact[j][g], artifact'[j][g])
    BY <1>2, <2>2 DEF MarkArtifact, Onward, Terminal
  <2> QED
    BY <2>1, <2>3 DEF MovesOn, Present, Onward
<1>3. ASSUME NEW f \in Format, NEW outcome \in FinalArtifact,
             StoreArtifact(i, f, outcome)
      PROVE  MovesOn(j)
  <2>0. job' = job \/ job' = [job EXCEPT ![i].old = FALSE]
    BY <1>3 DEF StoreArtifact, maps
  <2>1. job'[j].status = job[j].status
    BY <2>0 DEF JobRow
  <2>2. artifact[i][f] = "processing"
    BY <1>3 DEF StoreArtifact, Rendering
  <2>3. \A g \in Format : Onward(artifact[j][g], artifact'[j][g])
    BY <1>3, <2>2 DEF StoreArtifact, Onward, Terminal, FinalArtifact, maps
  <2> QED
    BY <2>1, <2>3 DEF MovesOn, Present, Onward
<1>4. CASE FinishRun(i)
  <2>0. artifact'[j] = artifact[j]
    BY <1>4 DEF FinishRun
  <2>1. CASE j = i
    <3>1. job[j].status = "processing"
      BY <1>0, <1>4, <2>1 DEF FinishRun, RunOK
    <3>2. run[i].good \in BOOLEAN /\ run[i].bad \in BOOLEAN
      BY DEF Runner
    <3>3. Summary(run[i].good, run[i].bad) \in Terminal
      BY <3>2, SummaryTyped
    <3>4. job'[j].status = Summary(run[i].good, run[i].bad)
      BY <1>4, <2>1, KeptTyped DEF FinishRun, KeptJobs
    <3> QED
      BY <2>0, <3>1, <3>3, <3>4 DEF MovesOn, Present, Onward, Terminal
  <2>2. CASE j # i
    <3>1. job'[j] = KeptJobs[j]
      BY <1>4, <2>2 DEF FinishRun, KeptJobs
    <3> QED
      BY <2>0, <3>1, RowCleaned
  <2> QED
    BY <2>1, <2>2
<1> QED
  BY <1>1, <1>2, <1>3, <1>4 DEF RunStep

LEMMA JobsMoveOn ==
    ASSUME IInv, [Next]_vars, "restart" \notin Environment, NEW j \in Job,
           \A c \in Client : client[c].pc = "insert" => client[c].job # j
    PROVE  MovesOn(j)
<1>1. ASSUME NEW c \in Client, InsertJob(c) PROVE MovesOn(j)
  <2>1. client[c].job # j
    BY <1>1 DEF InsertJob
  <2>2. job'[j] = KeptJobs[j] /\ artifact'[j] = artifact[j]
    BY <1>1, <2>1 DEF InsertJob, KeptJobs, IInv, TypeOK
  <2> QED
    BY <2>2, RowCleaned
<1>2. ASSUME NEW c \in Client, RequestStep(c), ~InsertJob(c) PROVE MovesOn(j)
  <2>1. UNCHANGED <<job, artifact>>
    BY <1>2 DEF RequestStep, LaunchJob, ReadArtifact, AnswerStatus, CheckArtifact,
               FetchPayload, maps
  <2> QED
    BY <2>1, RowStays
<1>3. ASSUME NEW i \in Job, Age(i) PROVE MovesOn(j)
  <2>1. job'[j].status = job[j].status /\ artifact'[j] = artifact[j]
    BY <1>3 DEF Age, IInv, TypeOK, JobRow
  <2> QED
    BY <2>1, RowStays
<1>4. ASSUME NEW c \in Client, NEW formats, AllocateJob(c, formats)
      PROVE  MovesOn(j)
  BY <1>4, RowStays DEF AllocateJob, maps
<1>5. ASSUME NEW c \in Client, NEW i \in Job, GetStatus(c, i) \/ GetArtifact(c, i)
      PROVE  MovesOn(j)
  BY <1>5, RowStays DEF GetStatus, GetArtifact, CopyJob, maps
<1>6. CASE UNCHANGED vars
  BY <1>6, RowStays DEF vars
<1>7. ASSUME Restart PROVE FALSE
  BY <1>7 DEF Restart
<1> QED
  BY <1>1, <1>2, <1>3, <1>4, <1>5, <1>6, <1>7, RunMovesOn DEF Next

\* What a client was told stays true as the job moves on.
LEMMA StillTrueOnward ==
    ASSUME NEW j \in Job, MovesOn(j), NEW status, NEW seen, StillTrue(j, status, seen)
    PROVE  StillTrue(j, status, seen)'
<1>1. ASSUME Present(j)' PROVE MayFollow(status, job'[j].status)
  BY <1>1, FollowOnward DEF MovesOn, StillTrue
<1>2. ASSUME NEW f \in Format PROVE MayFollow(seen[f], artifact'[j][f])
  BY FollowOnward DEF MovesOn, StillTrue
<1> QED
  BY <1>1, <1>2 DEF StillTrue

\* A client that does nothing in a step has been told nothing wrong.
LEMMA BystanderKeeps ==
    ASSUME IInv, ShownInv, [Next]_vars, "restart" \notin Environment,
           seq' \in Nat, seq <= seq',
           NEW d \in Client, client'[d] = client[d], reply'[d] = reply[d],
           \A e \in Client : client'[e].pc = "insert" =>
               \/ client[e].pc = "insert" /\ client'[e].job = client[e].job
               \/ client'[e].job = seq + 1
    PROVE  Told(d)' /\ Telling(d)'
<1>0. seq \in Nat /\ seq <= MaxJobs
  BY ExportAssumption DEF IInv, TypeOK
<1>1. ASSUME reply[d].kind = "status"
      PROVE  /\ reply[d].job \in 1 .. seq'
             /\ StillTrue(reply[d].job, reply[d].status, reply[d].seen)'
             /\ \A e \in Client : client'[e].pc = "insert" => client'[e].job # reply[d].job
  <2>1. /\ reply[d].job \in 1 .. seq
        /\ StillTrue(reply[d].job, reply[d].status, reply[d].seen)
        /\ \A e \in Client : client[e].pc = "insert" => client[e].job # reply[d].job
    BY <1>1 DEF ShownInv, Told
  <2>2. PICK j \in Job : j = reply[d].job
    BY <1>0, <2>1 DEF Job
  <2>3. MovesOn(j)
    BY <2>1, <2>2, JobsMoveOn
  <2>4. PICK status, seen : status = reply[d].status /\ seen = reply[d].seen
    OBVIOUS
  <2>5. StillTrue(j, status, seen)'
    BY <2>1, <2>2, <2>3, <2>4, StillTrueOnward
  <2>6. StillTrue(reply[d].job, reply[d].status, reply[d].seen)'
    BY <2>2, <2>4, <2>5 DEF StillTrue
  <2> QED
    BY <1>0, <2>1, <2>6
<1>2. ASSUME client[d].pc = "read"
      PROVE  StillTrue(client[d].job, client[d].status, client[d].seen)'
  <2>1. StillTrue(client[d].job, client[d].status, client[d].seen)
    BY <1>2 DEF ShownInv, Telling
  <2>2. PICK j \in Job : j = client[d].job
    BY <1>0, <1>2 DEF IInv, CreationOK, Job
  <2>3. MovesOn(j)
    BY <1>2, <2>2, JobsMoveOn DEF IInv, NewJobsAreNew
  <2>4. PICK status, seen : status = client[d].status /\ seen = client[d].seen
    OBVIOUS
  <2>5. StillTrue(j, status, seen)'
    BY <2>1, <2>2, <2>3, <2>4, StillTrueOnward
  <2> QED
    BY <2>2, <2>4, <2>5 DEF StillTrue
<1>3. Told(d)'
  BY <1>1 DEF Told
<1>4. Telling(d) /\ (client'[d].pc = "read" => StillTrue(client[d].job, client[d].status, client[d].seen)')
  BY <1>2 DEF ShownInv
<1>5. Telling(d)'
  BY <1>4 DEF Telling, StillTrue
<1> QED
  BY <1>3, <1>5

LEMMA ShownInitial == Init => ShownInv
BY BlankFields DEF Init, ShownInv, Told, Telling

\* Beginning to create a job.
LEMMA AllocateShown ==
    ASSUME IInv, ShownInv, [Next]_vars, "restart" \notin Environment,
           NEW c \in Client, NEW formats \in SUBSET Format, AllocateJob(c, formats)
    PROVE  ShownInv'
<1>0. TypeOK /\ seq \in Nat /\ seq' = seq + 1
  BY ExportAssumption DEF IInv, TypeOK, AllocateJob
<1>1. /\ client'[c].pc = "insert" /\ client'[c].job = seq + 1
      /\ client'[c].seen = Unread /\ reply'[c].kind = "none"
      /\ \A d \in Client \ {c} : client'[d] = client[d] /\ reply'[d] = reply[d]
  BY <1>0, BlanksTyped DEF AllocateJob, TypeOK, NoCall, NoReply
<1>2. Told(c)' /\ Telling(c)'
  BY <1>1 DEF Told, Telling
<1>3. ASSUME NEW d \in Client, d # c PROVE Told(d)' /\ Telling(d)'
  BY <1>0, <1>1, <1>3, BystanderKeeps
<1> QED
  BY <1>2, <1>3 DEF ShownInv

\* The steps that follow, up to the first reading of an artifact.
LEMMA CreationShown ==
    ASSUME IInv, ShownInv, [Next]_vars, "restart" \notin Environment,
           NEW c \in Client, InsertJob(c) \/ LaunchJob(c)
    PROVE  ShownInv'
<1>0. TypeOK /\ seq \in Nat /\ seq' = seq
  BY ExportAssumption DEF IInv, TypeOK, InsertJob, LaunchJob
<1>1. client[c].seen = Unread /\ reply[c].kind = "none" /\ reply' = reply
  BY DEF ShownInv, Telling, InsertJob, LaunchJob
<1>2. /\ client'[c].pc \in {"launch", "read"}
      /\ client'[c].seen = Unread
      /\ client'[c].pc = "read" => client'[c].status = "queued"
      /\ \A d \in Client \ {c} : client'[d] = client[d]
  <2>1. client[c] \in Call
    BY <1>0 DEF TypeOK
  <2> QED
    BY <1>0, <1>1, <2>1 DEF InsertJob, LaunchJob, TypeOK, Call
<1>3. Told(c)'
  BY <1>1 DEF Told
<1>4. client'[c].pc = "read" =>
          StillTrue(client[c].job, client[c].status, client[c].seen)'
  BY <1>2 DEF StillTrue, MayFollow, Unread, Terminal
<1>5. Telling(c)'
  BY <1>1, <1>2, <1>4 DEF Telling
<1>6. ASSUME NEW d \in Client, d # c PROVE Told(d)' /\ Telling(d)'
  BY <1>0, <1>1, <1>2, <1>6, BystanderKeeps
<1> QED
  BY <1>3, <1>5, <1>6 DEF ShownInv

\* A request that polls or downloads: the maps stay as they are, and so do the
\* other clients; what is left to show is what this one is told.
LEMMA PollShown ==
    ASSUME IInv, ShownInv, [Next]_vars, "restart" \notin Environment,
           NEW c \in Client, UNCHANGED <<seq, maps>>,
           \A d \in Client \ {c} : client'[d] = client[d] /\ reply'[d] = reply[d],
           client'[c].pc \notin {"insert", "launch"},
           reply'[c] = reply[c] \/ reply'[c].kind # "status" \/ Told(c)',
           Telling(c)'
    PROVE  ShownInv'
<1>0. seq \in Nat /\ seq' = seq
  BY ExportAssumption DEF IInv, TypeOK
<1>1. Told(c)'
  <2>1. CASE reply'[c] = reply[c]
    BY <2>1 DEF ShownInv, Told, StillTrue, maps, Present
  <2>2. CASE reply'[c].kind # "status"
    BY <2>2 DEF Told
  <2> QED
    BY <2>1, <2>2
<1>2. ASSUME NEW d \in Client, d # c PROVE Told(d)' /\ Telling(d)'
  BY <1>0, <1>2, BystanderKeeps
<1> QED
  BY <1>1, <1>2 DEF ShownInv

LEMMA CopyShown ==
    ASSUME IInv, ShownInv, [Next]_vars, "restart" \notin Environment,
           NEW c \in Client, NEW j \in Job, NEW next \in {"read", "check"},
           CopyJob(c, j, next)
    PROVE  ShownInv'
<1>0. TypeOK /\ UNCHANGED <<seq, maps>>
  BY DEF IInv, CopyJob
<1>1. \A d \in Client \ {c} : client'[d] = client[d] /\ reply'[d] = reply[d]
  BY <1>0 DEF CopyJob, Return, TypeOK
<1>2. CASE Present(j)
  <2>1. /\ client'[c].pc = next /\ client'[c].job = j
        /\ client'[c].status = job[j].status /\ client'[c].seen = Unread
        /\ reply'[c] = (IF reply[c].job = j THEN reply[c] ELSE NoReply)
    <3>1. client' = [client EXCEPT ![c] =
              [NoCall EXCEPT !.pc = next, !.job = j, !.status = job[j].status]]
      BY <1>2 DEF CopyJob
    <3>2. client'[c] = [NoCall EXCEPT !.pc = next, !.job = j, !.status = job[j].status]
      BY <1>0, <3>1 DEF TypeOK
    <3>3. reply' = [reply EXCEPT ![c] = IF @.job = j THEN @ ELSE NoReply]
      BY <1>2 DEF CopyJob
    <3>4. reply'[c] = (IF reply[c].job = j THEN reply[c] ELSE NoReply)
      BY <1>0, <3>3 DEF TypeOK
    <3> QED
      BY <3>2, <3>4 DEF NoCall
  <2>2. reply'[c] = reply[c] \/ reply'[c].kind # "status"
    BY <2>1, BlankFields
  <2>3. \A f \in Format : client'[c].seen[f] = "unread"
    BY <2>1 DEF Unread
  <2>4. StillTrue(client[c].job, client[c].status, client[c].seen)'
    BY <1>0, <2>1, <2>3, FollowItself DEF StillTrue, MayFollow, Terminal, maps
  <2>5. reply'[c].kind = "status" /\ reply'[c].job = j =>
            MayFollow(reply'[c].status, job[j].status)
    BY <1>2, <2>1, <2>2 DEF ShownInv, Told, StillTrue
  <2>6. Telling(c)'
    BY <2>1, <2>3, <2>4, <2>5 DEF Telling
  <2> QED
    BY <1>0, <1>1, <2>1, <2>2, <2>6, PollShown
<1>3. CASE ~Present(j)
  <2>1. client'[c].pc = "idle" /\ reply'[c].kind = "not found"
    BY <1>0, <1>3, BlanksTyped, BlankFields DEF CopyJob, Return, TypeOK, NoReply
  <2>2. Telling(c)'
    BY <2>1 DEF Telling
  <2> QED
    BY <1>0, <1>1, <2>1, <2>2, PollShown
<1> QED
  BY <1>2, <1>3

\* An artifact that is being written has not been shown as final.
LEMMA ReadShown ==
    ASSUME IInv, ShownInv, [Next]_vars, "restart" \notin Environment,
           NEW c \in Client, ReadArtifact(c)
    PROVE  ShownInv'
<1> DEFINE k == client[c]
           r == reply[c]
<1>0. TypeOK /\ UNCHANGED <<seq, maps, reply>> /\ k.pc = "read" /\ k \in Call
  BY DEF IInv, ReadArtifact, TypeOK
<1>p. PICK f \in Format : \E v \in Readable(k.job, f) :
          client' = [client EXCEPT ![c].seen[f] = v]
  BY DEF ReadArtifact
<1>1. PICK v \in Readable(k.job, f) : client' = [client EXCEPT ![c].seen[f] = v]
  BY <1>p
<1>2. \A d \in Client \ {c} : client'[d] = client[d]
  BY <1>0, <1>1 DEF TypeOK
<1>3. /\ client'[c].pc = "read" /\ client'[c].job = k.job
      /\ client'[c].status = k.status
      /\ client'[c].seen[f] = v
      /\ \A g \in Format \ {f} : client'[c].seen[g] = k.seen[g]
  BY <1>0, <1>1 DEF TypeOK, Call, Statuses
<1>4. PICK j \in Job : j = k.job
  BY <1>0, ExportAssumption DEF IInv, CreationOK, Job, TypeOK
<1>5. \/ v = artifact[j][f]
      \/ v = "torn" /\ artifact[j][f] \in {"queued", "processing"}
  <2>1. RunOK(j)
    BY DEF IInv
  <2>2. Writing(j, f) => artifact[j][f] \in {"queued", "processing"}
    BY <2>1 DEF Writing, Rendering, RunOK, With
  <2> QED
    BY <1>1, <1>4, <2>2 DEF Readable
<1>6. MayFollow(v, artifact[j][f])
  BY <1>5, FollowItself DEF MayFollow, Terminal
<1>7. StillTrue(j, k.status, k.seen)
  BY <1>0, <1>4 DEF ShownInv, Telling
<1>8. StillTrue(client[c].job, client[c].status, client[c].seen)'
  BY <1>0, <1>3, <1>4, <1>6, <1>7 DEF StillTrue, maps, Present
<1>9. r.kind = "status" /\ r.job = j => MayFollow(r.seen[f], v)
  <2> SUFFICES ASSUME r.kind = "status" /\ r.job = j PROVE MayFollow(r.seen[f], v)
    OBVIOUS
  <2>1. MayFollow(r.seen[f], artifact[j][f])
    BY DEF ShownInv, Told, StillTrue
  <2> QED
    BY <1>5, <2>1 DEF MayFollow, Terminal
<1>10. Telling(c)
  BY DEF ShownInv
<1>11. Telling(c)'
  BY <1>0, <1>3, <1>4, <1>8, <1>9, <1>10 DEF Telling
<1> QED
  BY <1>0, <1>2, <1>3, <1>11, PollShown

LEMMA AnswerShown ==
    ASSUME IInv, ShownInv, [Next]_vars, "restart" \notin Environment,
           NEW c \in Client, AnswerStatus(c)
    PROVE  ShownInv'
<1> DEFINE k == client[c]
<1>0. TypeOK /\ UNCHANGED <<seq, maps>> /\ k.pc = "read"
  BY DEF IInv, AnswerStatus
<1>1. /\ \A d \in Client \ {c} : client'[d] = client[d] /\ reply'[d] = reply[d]
      /\ client'[c].pc = "idle"
      /\ reply'[c].job = k.job /\ reply'[c].status = k.status
      /\ reply'[c].seen = k.seen
  BY <1>0, BlanksTyped, BlankFields DEF AnswerStatus, Return, TypeOK
<1>2. k.job \in 1 .. seq
  BY <1>0 DEF IInv, CreationOK
<1>3. StillTrue(k.job, k.status, k.seen)
  BY <1>0 DEF ShownInv, Telling
<1>4. \A d \in Client : client'[d].pc = "insert" => client'[d].job # k.job
  BY <1>0, <1>1 DEF IInv, NewJobsAreNew
<1>5. StillTrue(reply[c].job, reply[c].status, reply[c].seen)'
  BY <1>0, <1>1, <1>3 DEF StillTrue, maps, Present
<1>6. Told(c)'
  BY <1>0, <1>1, <1>2, <1>4, <1>5 DEF Told
<1>7. Telling(c)'
  BY <1>1 DEF Telling
<1> QED
  BY <1>0, <1>1, <1>6, <1>7, PollShown

LEMMA DownloadShown ==
    ASSUME IInv, ShownInv, [Next]_vars, "restart" \notin Environment, NEW c \in Client,
           FetchPayload(c) \/ \E f \in Format : CheckArtifact(c, f)
    PROVE  ShownInv'
<1>0. TypeOK /\ UNCHANGED <<seq, maps>>
  BY DEF IInv, FetchPayload, CheckArtifact
<1>1. CASE FetchPayload(c)
  <2>1. PICK kind \in {"content", "unavailable"} :
            Return(c, [NoReply EXCEPT !.job = client[c].job, !.kind = kind])
    BY <1>1 DEF FetchPayload
  <2>2. \A d \in Client \ {c} : client'[d] = client[d] /\ reply'[d] = reply[d]
    BY <1>0, <2>1 DEF Return, TypeOK
  <2>3. client'[c].pc = "idle" /\ reply'[c].kind = kind
    BY <1>0, <2>1, BlanksTyped, BlankFields DEF Return, TypeOK, NoReply
  <2>4. Telling(c)'
    BY <2>3 DEF Telling
  <2> QED
    BY <1>0, <2>2, <2>3, <2>4, PollShown
<1>2. ASSUME NEW f \in Format, CheckArtifact(c, f) PROVE ShownInv'
  <2>1. \/ client' = [client EXCEPT ![c].pc = "fetch", ![c].formats = {f}]
           /\ reply' = reply
        \/ \E kind \in {"not found", "not ready"} :
              Return(c, [NoReply EXCEPT !.job = client[c].job, !.kind = kind])
    BY <1>2 DEF CheckArtifact
  <2>2. \A d \in Client \ {c} : client'[d] = client[d] /\ reply'[d] = reply[d]
    BY <1>0, <2>1 DEF Return, TypeOK
  <2>3. /\ client'[c].pc \in {"idle", "fetch"}
        /\ reply'[c] = reply[c] \/ reply'[c].kind # "status"
    <3>1. CASE /\ client' = [client EXCEPT ![c].pc = "fetch", ![c].formats = {f}]
               /\ reply' = reply
      <4>1. client[c] \in Call
        BY <1>0 DEF TypeOK
      <4> QED
        BY <1>0, <3>1, <4>1 DEF TypeOK, Call
    <3>2. ASSUME NEW kind \in {"not found", "not ready"},
                 Return(c, [NoReply EXCEPT !.job = client[c].job, !.kind = kind])
          PROVE  client'[c].pc = "idle" /\ reply'[c].kind = kind
      BY <1>0, <3>2, BlanksTyped, BlankFields DEF Return, TypeOK, NoReply
    <3> QED
      BY <2>1, <3>1, <3>2
  <2>4. Telling(c)'
    BY <2>3 DEF Telling
  <2> QED
    BY <1>0, <2>2, <2>3, <2>4, PollShown
<1> QED
  BY <1>1, <1>2

LEMMA ShownStep ==
    ASSUME IInv, ShownInv, [Next]_vars, "restart" \notin Environment
    PROVE  ShownInv'
<1>0. seq \in Nat
  BY ExportAssumption DEF IInv, TypeOK
<1>1. ASSUME UNCHANGED <<seq, client, reply>> PROVE ShownInv'
  BY <1>0, <1>1, BystanderKeeps DEF ShownInv
<1>2. ASSUME NEW j \in Job, RunStep(j) \/ Age(j) PROVE UNCHANGED <<seq, client, reply>>
  BY <1>2 DEF RunStep, StartRun, MarkArtifact, StoreArtifact, FinishRun, Age
<1>3. ASSUME NEW c \in Client, RequestStep(c) PROVE ShownInv'
  BY <1>3, CreationShown, ReadShown, AnswerShown, DownloadShown DEF RequestStep
<1>4. ASSUME NEW c \in Client, NEW j \in Job, GetStatus(c, j) \/ GetArtifact(c, j)
      PROVE  ShownInv'
  BY <1>4, CopyShown DEF GetStatus, GetArtifact
<1>5. ASSUME NEW c \in Client, NEW formats \in Requested, AllocateJob(c, formats)
      PROVE  ShownInv'
  BY <1>5, AllocateShown DEF Requested
<1>6. CASE UNCHANGED vars
  BY <1>1, <1>6 DEF vars
<1>7. ~Restart
  BY DEF Restart
<1> QED
  BY <1>1, <1>2, <1>3, <1>4, <1>5, <1>6, <1>7 DEF Next

\* The last answer of a client changes by an answer to a poll, or to something
\* that is none.
LEMMA AnswerOrNot ==
    ASSUME TypeOK, [Next]_vars, NEW c \in Client
    PROVE  reply'[c] = reply[c] \/ reply'[c].kind # "status" \/ AnswerStatus(c)
<1> DEFINE Same == reply'[c] = reply[c] \/ reply'[c].kind # "status"
<1>0. reply \in [Client -> Reply] /\ NoReply \in Reply
  BY BlanksTyped DEF TypeOK
<1>1. ASSUME NEW d \in Client, NEW formats, AllocateJob(d, formats) PROVE Same
  BY <1>0, <1>1, BlankFields DEF AllocateJob
<1>2. ASSUME NEW d \in Client, NEW j \in Job, NEW next, CopyJob(d, j, next) PROVE Same
  BY <1>0, <1>2, BlankFields DEF CopyJob, Return, NoReply
<1>3. ASSUME NEW d \in Client, RequestStep(d) PROVE Same \/ AnswerStatus(c)
  <2>1. CASE InsertJob(d) \/ LaunchJob(d) \/ ReadArtifact(d)
    BY <2>1 DEF InsertJob, LaunchJob, ReadArtifact
  <2>2. CASE AnswerStatus(d)
    <3>1. d # c => reply'[c] = reply[c]
      BY <1>0, <2>2 DEF AnswerStatus, Return
    <3> QED
      BY <2>2, <3>1
  <2>3. ASSUME NEW f \in Format, CheckArtifact(d, f) PROVE Same
    BY <1>0, <2>3 DEF CheckArtifact, Return, NoReply
  <2>4. CASE FetchPayload(d)
    BY <1>0, <2>4 DEF FetchPayload, Return, NoReply
  <2> QED
    BY <1>3, <2>1, <2>2, <2>3, <2>4 DEF RequestStep
<1>4. ASSUME NEW j \in Job, RunStep(j) \/ Age(j) PROVE Same
  BY <1>4 DEF RunStep, StartRun, MarkArtifact, StoreArtifact, FinishRun, Age
<1>5. CASE Restart \/ UNCHANGED vars
  BY <1>5 DEF Restart, vars
<1> QED
  BY <1>1, <1>2, <1>3, <1>4, <1>5 DEF Next, GetStatus, GetArtifact

\* Where the server does not die, whoever polls a job twice sees it and its
\* artifacts move on.
THEOREM PollsMoveOn ==
    ASSUME "restart" \notin Environment
    PROVE  Spec => RepliesMoveOn
<1> DEFINE Forward(c) ==
      LET r == reply[c] s == reply'[c] IN
      r.kind = "status" /\ s.kind = "status" /\ r.job = s.job =>
          /\ MayFollow(r.status, s.status)
          /\ \A f \in Format : MayFollow(r.seen[f], s.seen[f])
<1>1. ASSUME IInv, ShownInv, [Next]_vars, NEW c \in Client PROVE Forward(c)
  <2>1. CASE reply'[c] = reply[c]
    BY <2>1, FollowItself
  <2>2. CASE reply'[c].kind # "status"
    BY <2>2
  <2>3. CASE AnswerStatus(c)
    <3>1. /\ client[c].pc = "read" /\ \A f \in Format : client[c].seen[f] # "unread"
          /\ reply'[c].job = client[c].job /\ reply'[c].status = client[c].status
          /\ reply'[c].seen = client[c].seen
      BY <1>1, <2>3 DEF AnswerStatus, Return, IInv, TypeOK
    <3>2. Telling(c)
      BY <1>1 DEF ShownInv
    <3> QED
      BY <3>1, <3>2 DEF Telling
  <2> QED
    BY <1>1, <2>1, <2>2, <2>3, AnswerOrNot DEF IInv
<1>2. IInv /\ ShownInv /\ [Next]_vars => [\A c \in Client : Forward(c)]_vars
  BY <1>1
<1>3. IInv /\ ShownInv /\ [Next]_vars => ShownInv'
  BY ShownStep
<1> QED
  BY <1>2, <1>3, ShownInitial, ExportInvariant, PTL DEF Spec, RepliesMoveOn

\* A job leaves the map only when it has ended and a day has passed, as long
\* as the server does not die.
THEOREM EndedJobsAreKept ==
    ASSUME "restart" \notin Environment
    PROVE  Spec => EndedIsKept
<1> DEFINE Kept(j) == Present(j) /\ ~Present(j)' => Ended(j) /\ job[j].old
<1>1. ASSUME IInv, [Next]_vars, NEW j \in Job PROVE Kept(j)
  <2> SUFFICES ASSUME Present(j) PROVE Kept(j)
    OBVIOUS
  <2>1. \A c \in Client : client[c].pc = "insert" => client[c].job # j
    BY <1>1 DEF IInv, NewJobsAreNew
  <2>2. MovesOn(j)
    BY <1>1, <2>1, JobsMoveOn
  <2> QED
    BY <2>2 DEF MovesOn
<1>2. IInv /\ [Next]_vars => [\A j \in Job : Kept(j)]_vars
  BY <1>1
<1> QED
  BY <1>2, ExportInvariant, PTL DEF Spec, EndedIsKept

===============================================================================
