----------------------------- MODULE AgentQueue -----------------------------
(***************************************************************************)
(* The download queue of the agent: the Swift actor AgentService           *)
(* (Sources/LustreAgent/AgentService.swift) over the durable JobStore.     *)
(*                                                                         *)
(* An actor is re-entrant: at every `await' of the store, of the network   *)
(* or of another actor, any other call may run.  An action below is either *)
(* a stretch of AgentService code between two awaits that looks at the     *)
(* actor's own state (who owns a job, is the task cancelled, is there      *)
(* room), or one JobStore call.  Code that only looks at what the store    *)
(* just returned commutes with everything else and is folded into the      *)
(* store call that precedes it.  The two actors promise no order between   *)
(* calls of different tasks, so none is assumed.                           *)
(***************************************************************************)
EXTENDS JobStore, FiniteSets

CONSTANTS Callers,        \* API calls that can be in flight at once
          Uses,           \* the operations the callers use
          Routes,         \* the transfer routes the jobs may take
          EarlyCalls,     \* whether calls may arrive before recovery is done
          Reports,        \* whether transfers report progress
          Stored,         \* the statuses a row may have at launch
          Limits,         \* values setMaximumConcurrentDownloads is given
          InitialLimit,   \* maximumConcurrentDownloads at launch
          MaxTasks,       \* bound: live tasks per job
          MaxPasses,      \* bound: scheduling passes in flight
          MaxCalls,       \* bound: API calls in a behaviour
          MaxCrashes      \* bound: crashes of the agent in a behaviour

TaskRoutes == {"local", "prepared", "staged", "cloud"}

\* removeMissing: removeJob for a job whose row is gone already.
Operations == JobAction \cup {"create", "remove", "removeMissing", "reorder", "limit"}

ASSUME QueueAssumption ==
    /\ IsFiniteSet(Jobs)
    /\ Uses \subseteq Operations
    /\ Routes \subseteq TaskRoutes /\ {Reports, EarlyCalls} \subseteq BOOLEAN
    /\ Stored \subseteq JobStatus \cup {"absent"}
    /\ Limits \subseteq Nat /\ InitialLimit \in Nat
    /\ MaxTasks \in Nat /\ MaxPasses \in Nat
    /\ MaxCalls \in Nat /\ MaxCrashes \in Nat

VARIABLES
    rows,       \* the jobs table: the only state that survives a crash
    created,    \* history: the ids for which createJob has been called
    limit,      \* maximumConcurrentDownloads
    active,     \* activeDownloadTasks: the slot of the job's task, or NoTask
    pc,         \* where each task stands in processQueuedJob
    cancelled,  \* Task.isCancelled
    snap,       \* the DownloadJob value the task holds across awaits
    route,      \* the branch of processQueuedJob the task took
    back,       \* where a progress callback returns to
    cstep,      \* where each API call stands
    target,     \* the job an API call is about
    cact,       \* the job action of an API call
    todo,       \* rows an API call still has to write back
    pstep,      \* where each scheduleQueuedDownloads pass stands
    listed,     \* the queued jobs a pass has read
    rstep,      \* where recoverDurableJobs stands
    rtodo,      \* rows recovery still has to write back
    calls, crashes

taskVars    == <<active, pc, cancelled, snap, route, back>>
callVars    == <<created, cstep, target, cact, todo, calls>>
passVars    == <<pstep, listed>>
recoverVars == <<rstep, rtodo>>
vars == <<rows, limit, taskVars, callVars, passVars, recoverVars, crashes>>

-----------------------------------------------------------------------------
Slots  == 1..MaxTasks
NoTask == 0
Tasks  == Jobs \X Slots     \* task <<j, s>>: the s-th token in use for job j
Passes == 1..MaxPasses

TaskSteps ==
    {"idle", "start", "readQueued", "writeRunning", "extract", "readActive",
     "writeVerification", "claimTransfer", "writeActive", "checkTransfer",
     "readCurrent", "writePrepared", "materialize", "stage", "transfer",
     "readProgress", "writeProgress", "readFallback", "writeFallback",
     "readUploading", "writeUploading", "readDone", "writeDone",
     "fail", "readFailed", "writeFailed", "finish"}

CallSteps ==
    {"idle", "insert", "enqueue", "update", "effect", "delete", "deleted",
     "reorder"}

NoWrites == [j \in Jobs |-> NoRow]

-----------------------------------------------------------------------------
\* ownsDownload(_:taskID:): the token still names this task.
Owns(w) == active[w[1]] = w[2]

At(w, step) == pc[w] = step

Goto(w, step) == pc' = [pc EXCEPT ![w] = step]

ActiveJobs(act) == {j \in Jobs : act[j] # NoTask}

FreeSlots(j) == {s \in Slots : pc[<<j, s>>] = "idle"}

FreeSlot(j) == CHOOSE s \in Slots : s \in FreeSlots(j)

\* startDownload: a fresh token and task for every job of S.
Launch(S) ==
    /\ \A j \in S : FreeSlots(j) # {}
    /\ active' = [j \in Jobs |-> IF j \in S THEN FreeSlot(j) ELSE active[j]]
    /\ pc' = [w \in Tasks |->
                IF w[1] \in S /\ w[2] = FreeSlot(w[1]) THEN "start" ELSE pc[w]]

HasLiveTask(j) == active[j] # NoTask /\ ~cancelled[<<j, active[j]>>]

StartDownload(j) == Launch(IF HasLiveTask(j) THEN {} ELSE {j})

\* enqueueDownload: replace a cancelled task at once, otherwise respect the
\* limit; a job left out is picked up by the pass of the task that finishes.
EnqueueDownload(j) ==
    IF active[j] # NoTask \/ Cardinality(ActiveJobs(active)) < limit
    THEN StartDownload(j)
    ELSE UNCHANGED <<active, pc>>

OpenPass ==
    /\ \E p \in Passes : pstep[p] = "idle"
    /\ LET p == CHOOSE q \in Passes : pstep[q] = "idle"
       IN  pstep' = [pstep EXCEPT ![p] = "list"]

\* Mutant: the capacity check counts the slot that was just released.
BeginPassLate(act, lim) ==
    IF Cardinality(ActiveJobs(act)) + 1 < lim THEN OpenPass ELSE UNCHANGED pstep

\* The synchronous head of scheduleQueuedDownloads, run in the caller's step.
BeginPass(act, lim) ==
    IF Cardinality(ActiveJobs(act)) < lim THEN OpenPass ELSE UNCHANGED pstep

\* Mutant: the loop does not look at the capacity again.
RoomUnchecked == Cardinality(Jobs)

\* How many more tasks the loop of a pass may start.
Room ==
    LET busy == Cardinality(ActiveJobs(active))
    IN  IF busy < limit THEN limit - busy ELSE 0

\* Mutants: finishDownload forgets to compare tokens, or leaves a cancelled
\* task's entry to whoever cancelled it.
ReleasesAnyTask(w) == active[w[1]] # NoTask

ReleasesUncancelled(w) == Owns(w) /\ ~cancelled[w]

\* The guard of finishDownload: only the current owner gives the entry up.
Releases(w) == Owns(w)

\* Mutant: the limit is stored as it is given.
UnclampedLimit(n) == n

ClampedLimit(n) == IF n < 1 THEN 1 ELSE IF n > 8 THEN 8 ELSE n

\* Mutants: recovery requeues nothing, or every job.
RequeuedNever(row) == NoRow

RequeuedAlways(row) == IF Present(row) THEN WithStatus(row, "queued") ELSE NoRow

\* The record recovery writes back; NoRow when it leaves the row alone.
Requeued(row) ==
    IF row.status = "running" THEN WithStatus(row, "queued") ELSE NoRow

-----------------------------------------------------------------------------
\* A launch on the table an earlier run of the agent left behind.
Init ==
    /\ rows \in [Jobs -> {WithStatus(NoRow, s) : s \in Stored}]
    /\ created = {j \in Jobs : Present(rows[j])}
    /\ limit = (IF InitialLimit < 1 THEN 1 ELSE InitialLimit)
    /\ active = [j \in Jobs |-> NoTask]
    /\ pc = [w \in Tasks |-> "idle"]
    /\ cancelled = [w \in Tasks |-> FALSE]
    /\ snap = [w \in Tasks |-> NoRow]
    /\ route = [w \in Tasks |-> "local"]
    /\ back = [w \in Tasks |-> "transfer"]
    /\ cstep = [c \in Callers |-> "idle"]
    /\ target = [c \in Callers |-> {}]
    /\ cact = [c \in Callers |-> "pause"]
    /\ todo = [c \in Callers |-> NoWrites]
    /\ pstep = [p \in Passes |-> "idle"]
    /\ listed = [p \in Passes |-> {}]
    /\ rstep = "list"
    /\ rtodo = NoWrites
    /\ calls = 0
    /\ crashes = 0

-----------------------------------------------------------------------------
(* A task: processQueuedJob followed by finishDownload.                    *)

Elsewhere == UNCHANGED <<limit, callVars, passVars, recoverVars, crashes>>

Step(w, from, to) ==
    /\ At(w, from)
    /\ Goto(w, to)
    /\ UNCHANGED <<active, cancelled>>
    /\ Elsewhere

\* A stretch of actor code that changes nothing but the task's position.
Pass(w, from, to) == Step(w, from, to) /\ UNCHANGED <<rows, snap, route, back>>

\* `guard var job = try await jobs.job(id:), job.status == status': keep the
\* record with its new status for a later write, or leave for `otherwise'.
Fetch(w, from, status, edited, to, otherwise) ==
    LET row == rows[w[1]] IN
    /\ Step(w, from, IF row.status = status THEN to ELSE otherwise)
    /\ snap' = [snap EXCEPT ![w] = IF row.status = status THEN edited ELSE @]
    /\ UNCHANGED <<rows, route, back>>

\* `try await jobs.update(record)' with the record read some awaits earlier.
Save(w, from, to) ==
    /\ Step(w, from, to)
    /\ rows' = Replaced(rows, w[1], snap[w])
    /\ snap' = [snap EXCEPT ![w] = NoRow]
    /\ UNCHANGED <<route, back>>

CheckQueued(w) == Pass(w, "start", IF Owns(w) THEN "readQueued" ELSE "finish")

ReadQueued(w) ==
    Fetch(w, "readQueued", "queued", WithStatus(rows[w[1]], "running"),
          "writeRunning", "finish")

WriteRunning(w) == Save(w, "writeRunning", "extract")

\* extractionForJob and the guard behind it.  A cancelled extraction may
\* still return, may fail like any other, or may throw CancellationError.
Extract(w) ==
    \/ Pass(w, "extract", IF ~cancelled[w] /\ Owns(w) THEN "readActive" ELSE "finish")
    \/ Pass(w, "extract", "fail")
    \/ cancelled[w] /\ Pass(w, "extract", "finish")

\* The second read.  The extraction asked for browser verification, had
\* nothing usable, or names a quality to transfer.
ReadActive(w) ==
    \/ Fetch(w, "readActive", "running", rows[w[1]], "claimTransfer", "finish")
    \/ Fetch(w, "readActive", "running", rows[w[1]], "fail", "finish")
    \/ Fetch(w, "readActive", "running",
             WithStatus(rows[w[1]], "verificationRequired"),
             "writeVerification", "finish")

WriteVerification(w) == Save(w, "writeVerification", "finish")

\* validatedMyDaddyTransfer probes and re-extracts (or not) while the task
\* holds the record of ReadActive; then ownership alone is checked.
ClaimTransfer(w) ==
    \/ Pass(w, "claimTransfer", IF Owns(w) THEN "writeActive" ELSE "finish")
    \/ Pass(w, "claimTransfer", "fail")
    \/ cancelled[w] /\ Pass(w, "claimTransfer", "finish")

\* The only record that is written twice.
WriteActive(w) ==
    /\ Step(w, "writeActive", "checkTransfer")
    /\ rows' = Replaced(rows, w[1], snap[w])
    /\ UNCHANGED <<snap, route, back>>

CheckTransfer(w) ==
    Pass(w, "checkTransfer",
         IF ~cancelled[w] /\ Owns(w) THEN "readCurrent" ELSE "finish")

\* The third read picks the branch by destination and media kind; the record
\* of ReadActive, not this one, is what the branch writes next.
ReadCurrent(w) ==
    \E r \in Routes :
        /\ Step(w, "readCurrent",
                IF rows[w[1]].status # "running" THEN "finish"
                ELSE IF r = "local" THEN "transfer" ELSE "writePrepared")
        /\ route' = [route EXCEPT ![w] = r]
        /\ UNCHANGED <<rows, snap, back>>

\* Profile lookups of the remote routes can throw; then the record is written.
WritePrepared(w) ==
    \/ Save(w, "writePrepared",
            CASE route[w] = "staged" -> "materialize"
              [] route[w] = "cloud"  -> "stage"
              [] OTHER               -> "transfer")
    \/ route[w] \in {"prepared", "staged"} /\ Pass(w, "writePrepared", "fail")

\* updateProgress and setCloudStageID, awaited by the transfer: own the job,
\* read it, find it running, write it back (or drop a throttled sample).
Report(w, from, resume) ==
    /\ IF Owns(w)
       THEN Step(w, from, "readProgress") /\ back' = [back EXCEPT ![w] = resume]
       ELSE Step(w, from, resume) /\ UNCHANGED back
    /\ UNCHANGED <<rows, snap, route>>

Progress(w) ==
    /\ Reports
    /\ \E from \in {"materialize", "stage", "transfer"} : Report(w, from, from)

ReadProgress(w) ==
    \/ Fetch(w, "readProgress", "running", rows[w[1]], "writeProgress", back[w])
    \/ Pass(w, "readProgress", back[w])

WriteProgress(w) == Save(w, "writeProgress", back[w])

\* The transfer, materializer, uploader or staging call throws.
TransferThrows(w) ==
    \E from \in {"materialize", "stage", "transfer"} :
        \/ from # "stage" /\ Pass(w, from, "fail")
        \/ cancelled[w] /\ Pass(w, from, "finish")

\* Any other staging error falls back to a local download, after clearing
\* the stage id and, if the job still runs, noting the fallback.
StagingFailed(w) == Report(w, "stage", "readFallback")

ReadFallback(w) ==
    Fetch(w, "readFallback", "running", rows[w[1]], "writeFallback", "transfer")

WriteFallback(w) == Save(w, "writeFallback", "transfer")

Materialized(w) == Pass(w, "materialize", "readUploading")

ReadUploading(w) ==
    Fetch(w, "readUploading", "running", rows[w[1]], "writeUploading", "finish")

WriteUploading(w) == Save(w, "writeUploading", "transfer")

\* The output exists; completion is recorded only for a task that was not
\* cancelled and still owns a running job.
Transferred(w) ==
    \E from \in {"stage", "transfer"} :
        Pass(w, from, IF ~cancelled[w] /\ Owns(w) THEN "readDone" ELSE "finish")

ReadDone(w) ==
    Fetch(w, "readDone", "running", WithStatus(rows[w[1]], "completed"),
          "writeDone", "finish")

WriteDone(w) == Save(w, "writeDone", "finish")

\* Mutant: a failed transfer is not recorded.
FailQuietly(w) == Pass(w, "fail", "finish")

Fail(w) == Pass(w, "fail", IF Owns(w) THEN "readFailed" ELSE "finish")

ReadFailed(w) ==
    Fetch(w, "readFailed", "running", WithStatus(rows[w[1]], "failed"),
          "writeFailed", "finish")

WriteFailed(w) == Save(w, "writeFailed", "finish")

\* finishDownload.
FinishDownload(w) ==
    /\ At(w, "finish")
    /\ Goto(w, "idle")
    /\ cancelled' = [cancelled EXCEPT ![w] = FALSE]
    /\ snap' = [snap EXCEPT ![w] = NoRow]
    /\ route' = [route EXCEPT ![w] = "local"]
    /\ back' = [back EXCEPT ![w] = "transfer"]
    /\ IF Releases(w)
       THEN /\ active' = [active EXCEPT ![w[1]] = NoTask]
            /\ BeginPass(active', limit)
       ELSE UNCHANGED <<active, pstep>>
    /\ UNCHANGED <<rows, limit, callVars, listed, recoverVars, crashes>>

TaskStep(w) ==
    \/ CheckQueued(w)   \/ ReadQueued(w)    \/ WriteRunning(w)  \/ Extract(w)
    \/ ReadActive(w)    \/ WriteVerification(w)
    \/ ClaimTransfer(w) \/ WriteActive(w)   \/ CheckTransfer(w)
    \/ ReadCurrent(w)   \/ WritePrepared(w)
    \/ Progress(w)      \/ ReadProgress(w)  \/ WriteProgress(w)
    \/ TransferThrows(w) \/ StagingFailed(w) \/ ReadFallback(w)
    \/ WriteFallback(w) \/ Materialized(w)  \/ ReadUploading(w)
    \/ WriteUploading(w) \/ Transferred(w)  \/ ReadDone(w)      \/ WriteDone(w)
    \/ Fail(w)          \/ ReadFailed(w)    \/ WriteFailed(w)
    \/ FinishDownload(w)

-----------------------------------------------------------------------------
(* scheduleQueuedDownloads, past its head.                                 *)

PassFrame ==
    UNCHANGED <<rows, limit, cancelled, snap, route, back, callVars,
                recoverVars, crashes>>

ListQueued(p) ==
    /\ pstep[p] = "list"
    /\ pstep' = [pstep EXCEPT ![p] = "start"]
    /\ listed' = [listed EXCEPT ![p] =
                    {<<j, rows[j].priority>> : j \in JobsWithStatus(rows, "queued")}]
    /\ UNCHANGED <<active, pc>>
    /\ PassFrame

\* The loop over the jobs read, best priority first (createdAt and the id
\* break ties, here in any way), while there is room.
StartListed(p) ==
    LET waiting == {e \in listed[p] : active[e[1]] = NoTask}
    IN
    /\ pstep[p] = "start"
    /\ \E S \in SUBSET waiting :
        /\ Cardinality(S) = IF Cardinality(waiting) < Room
                            THEN Cardinality(waiting) ELSE Room
        /\ \A e \in S, f \in waiting \ S : e[2] <= f[2]
        /\ Launch({e[1] : e \in S})
    /\ pstep' = [pstep EXCEPT ![p] = "idle"]
    /\ listed' = [listed EXCEPT ![p] = {}]
    /\ PassFrame

-----------------------------------------------------------------------------
(* API calls: loopback connections and cloud commands, any of which may    *)
(* run at the same time.                                                   *)

Begin(c, operation) ==
    /\ operation \in Uses
    /\ EarlyCalls \/ rstep = "done"
    /\ cstep[c] = "idle"
    /\ calls < MaxCalls
    /\ calls' = calls + 1

CallFrame ==
    UNCHANGED <<limit, snap, route, back, recoverVars, crashes>>

\* createJob: a fresh id; the priority, one more than that of any queued job,
\* is computed from one read of the store and inserted by a later call.
CreateJob(c) ==
    \E j \in Jobs \ created, next \in Priority :
        LET queued == {rows[k].priority : k \in JobsWithStatus(rows, "queued")} IN
        /\ Begin(c, "create")
        /\ \A n \in queued : n < next
        /\ next = 0 \/ next - 1 \in queued
        /\ created' = created \cup {j}
        /\ cstep' = [cstep EXCEPT ![c] = "insert"]
        /\ target' = [target EXCEPT ![c] = {j}]
        /\ todo' = [todo EXCEPT ![c][j] = [status |-> "queued", priority |-> next]]
        /\ UNCHANGED <<rows, active, pc, cancelled, cact, passVars>>
        /\ CallFrame

\* INSERT: fails, and the call with it, when the id is taken.
InsertJob(c) ==
    /\ cstep[c] = "insert"
    /\ \E j \in target[c] :
        /\ rows' = [rows EXCEPT ![j] = todo[c][j]]
        /\ todo' = [todo EXCEPT ![c] = NoWrites]
    /\ cstep' = [cstep EXCEPT ![c] = "enqueue"]
    /\ UNCHANGED <<active, pc, cancelled, created, target, cact, calls, passVars>>
    /\ CallFrame

EnqueueCreated(c) ==
    /\ cstep[c] = "enqueue"
    /\ \E j \in target[c] : EnqueueDownload(j)
    /\ cstep' = [cstep EXCEPT ![c] = "idle"]
    /\ target' = [target EXCEPT ![c] = {}]
    /\ UNCHANGED <<rows, cancelled, created, cact, todo, calls, passVars>>
    /\ CallFrame

\* apply(_:to:), first await: JobStore.apply checks the state machine,
\* stores the new record and returns it (it throws when not allowed).
ApplyAction(c) ==
    \E a \in JobAction, j \in Jobs :
        /\ Begin(c, a)
        /\ Allows(rows[j].status, a)
        /\ rows' = [rows EXCEPT ![j] = Applied(rows[j], a)]
        /\ cstep' = [cstep EXCEPT ![c] = "update"]
        /\ target' = [target EXCEPT ![c] = {j}]
        /\ cact' = [cact EXCEPT ![c] = a]
        /\ todo' = [todo EXCEPT ![c][j] = Applied(rows[j], a)]
        /\ UNCHANGED <<active, pc, cancelled, created, passVars>>
        /\ CallFrame

\* Second await: the record with its log line replaces the row, whatever
\* became of the row in between.
UpdateApplied(c) ==
    /\ cstep[c] = "update"
    /\ \E j \in target[c] : rows' = Replaced(rows, j, todo[c][j])
    /\ todo' = [todo EXCEPT ![c] = NoWrites]
    /\ cstep' = [cstep EXCEPT ![c] = "effect"]
    /\ UNCHANGED <<active, pc, cancelled, created, target, cact, calls, passVars>>
    /\ CallFrame

\* Then the actor cancels, enqueues or starts the job's task.
TakeEffect(c) ==
    /\ cstep[c] = "effect"
    /\ \E j \in target[c] :
        CASE cact[c] \in {"pause", "cancel"} ->
                /\ cancelled' = [w \in Tasks |->
                        cancelled[w] \/ (w[1] = j /\ Owns(w))]
                /\ UNCHANGED <<active, pc>>
          [] cact[c] \in {"resume", "retry"} ->
                EnqueueDownload(j) /\ UNCHANGED cancelled
          [] cact[c] = "forceStart" ->
                StartDownload(j) /\ UNCHANGED cancelled
    /\ cstep' = [cstep EXCEPT ![c] = "idle"]
    /\ target' = [target EXCEPT ![c] = {}]
    /\ cact' = [cact EXCEPT ![c] = "pause"]
    /\ UNCHANGED <<rows, created, todo, calls, passVars>>
    /\ CallFrame

\* removeJob: cancel the task and forget it, then delete the row.
RemoveJob(c) ==
    \E j \in created :
        /\ Begin(c, IF Present(rows[j]) THEN "remove" ELSE "removeMissing")
        /\ cancelled' = [w \in Tasks |-> cancelled[w] \/ (w[1] = j /\ Owns(w))]
        /\ active' = [active EXCEPT ![j] = NoTask]
        /\ cstep' = [cstep EXCEPT ![c] = "delete"]
        /\ target' = [target EXCEPT ![c] = {j}]
        /\ UNCHANGED <<rows, pc, created, cact, todo, passVars>>
        /\ CallFrame

\* DELETE throws when there is no row, which skips the scheduling.
DeleteRow(c) ==
    /\ cstep[c] = "delete"
    /\ \E j \in target[c] :
        /\ rows' = [rows EXCEPT ![j] = NoRow]
        /\ cstep' = [cstep EXCEPT ![c] =
                        IF Present(rows[j]) THEN "deleted" ELSE "idle"]
    /\ target' = [target EXCEPT ![c] = {}]
    /\ UNCHANGED <<active, pc, cancelled, created, cact, todo, calls, passVars>>
    /\ CallFrame

ScheduleAfterDelete(c) ==
    /\ cstep[c] = "deleted"
    /\ cstep' = [cstep EXCEPT ![c] = "idle"]
    /\ BeginPass(active, limit)
    /\ UNCHANGED <<rows, active, pc, cancelled, created, target, cact, todo,
                   calls, listed>>
    /\ CallFrame

\* reorderQueuedJobs: one read, then one write of the record read for every
\* queued job, in its new order.
ReorderQueuedJobs(c) ==
    LET queued == JobsWithStatus(rows, "queued") IN
    \E rank \in [queued -> Priority] :
        /\ Begin(c, "reorder") /\ queued # {}
        /\ {rank[j] : j \in queued} = 0..(Cardinality(queued) - 1)
        /\ cstep' = [cstep EXCEPT ![c] = "reorder"]
        /\ todo' = [todo EXCEPT ![c] = [j \in Jobs |->
                IF j \in queued THEN [rows[j] EXCEPT !.priority = rank[j]] ELSE NoRow]]
        /\ UNCHANGED <<rows, active, pc, cancelled, created, target, cact, passVars>>
        /\ CallFrame

Unwritten(pending) == {j \in Jobs : Present(pending[j])}

WriteReordered(c) ==
    /\ cstep[c] = "reorder"
    /\ \E j \in Unwritten(todo[c]) :
        /\ \A k \in Unwritten(todo[c]) : todo[c][j].priority <= todo[c][k].priority
        /\ rows' = Replaced(rows, j, todo[c][j])
        /\ todo' = [todo EXCEPT ![c][j] = NoRow]
        /\ cstep' = [cstep EXCEPT ![c] =
                        IF Unwritten(todo[c]) = {j} THEN "idle" ELSE "reorder"]
    /\ UNCHANGED <<active, pc, cancelled, created, target, cact, calls, passVars>>
    /\ CallFrame

\* setMaximumConcurrentDownloads never stops a running task.
SetMaximumConcurrentDownloads(c) ==
    \E n \in Limits :
        /\ Begin(c, "limit")
        /\ limit' = ClampedLimit(n)
        /\ BeginPass(active, limit')
        /\ UNCHANGED <<rows, active, pc, cancelled, snap, route, back, created,
                       cstep, target, cact, todo, listed, recoverVars, crashes>>

CallStep(c) ==
    \/ CreateJob(c)   \/ ApplyAction(c)   \/ RemoveJob(c)
    \/ ReorderQueuedJobs(c) \/ SetMaximumConcurrentDownloads(c)

CallContinues(c) ==
    \/ InsertJob(c)   \/ EnqueueCreated(c)
    \/ UpdateApplied(c) \/ TakeEffect(c)
    \/ DeleteRow(c)   \/ ScheduleAfterDelete(c)
    \/ WriteReordered(c)

-----------------------------------------------------------------------------
(* Launch and crash.                                                       *)

RecoverFrame ==
    UNCHANGED <<limit, active, pc, cancelled, snap, route, back, callVars,
                listed, crashes>>

\* recoverDurableJobs runs beside the API from the moment of launch.
RecoverList ==
    /\ rstep = "list"
    /\ rstep' = "write"
    /\ rtodo' = [j \in Jobs |-> Requeued(rows[j])]
    /\ UNCHANGED <<rows, pstep>>
    /\ RecoverFrame

RecoverWrite ==
    /\ rstep = "write"
    /\ \E j \in Unwritten(rtodo) :
        /\ rows' = Replaced(rows, j, rtodo[j])
        /\ rtodo' = [rtodo EXCEPT ![j] = NoRow]
    /\ UNCHANGED <<rstep, pstep>>
    /\ RecoverFrame

RecoverSchedule ==
    /\ rstep = "write"
    /\ Unwritten(rtodo) = {}
    /\ rstep' = "done"
    /\ BeginPass(active, limit)
    /\ UNCHANGED <<rows, rtodo>>
    /\ RecoverFrame

\* The process dies between any two steps and launchd starts it again:
\* everything but the table is lost.
Crash ==
    /\ crashes < MaxCrashes
    /\ crashes' = crashes + 1
    /\ limit' = (IF InitialLimit < 1 THEN 1 ELSE InitialLimit)
    /\ active' = [j \in Jobs |-> NoTask]
    /\ pc' = [w \in Tasks |-> "idle"]
    /\ cancelled' = [w \in Tasks |-> FALSE]
    /\ snap' = [w \in Tasks |-> NoRow]
    /\ route' = [w \in Tasks |-> "local"]
    /\ back' = [w \in Tasks |-> "transfer"]
    /\ cstep' = [c \in Callers |-> "idle"]
    /\ target' = [c \in Callers |-> {}]
    /\ cact' = [c \in Callers |-> "pause"]
    /\ todo' = [c \in Callers |-> NoWrites]
    /\ pstep' = [p \in Passes |-> "idle"]
    /\ listed' = [p \in Passes |-> {}]
    /\ rstep' = "list"
    /\ rtodo' = NoWrites
    /\ UNCHANGED <<rows, created, calls>>

Recover == RecoverList \/ RecoverWrite \/ RecoverSchedule

Next ==
    \/ \E w \in Tasks : TaskStep(w)
    \/ \E p \in Passes : ListQueued(p) \/ StartListed(p)
    \/ \E c \in Callers : CallStep(c) \/ CallContinues(c)
    \/ Recover
    \/ Crash

Spec == Init /\ [][Next]_vars

\* A transfer, a materialisation or a staging call comes to an end.
EndTransfer(w) ==
    TransferThrows(w) \/ StagingFailed(w) \/ Materialized(w) \/ Transferred(w)

\* The runtime keeps running what is runnable.  A transfer may report any
\* number of samples, but its response is finite and its requests time out,
\* hence strong fairness of its end.  No user need call anything.
Fairness ==
    /\ \A w \in Tasks : WF_vars(TaskStep(w)) /\ SF_vars(EndTransfer(w))
    /\ \A p \in Passes : WF_vars(ListQueued(p) \/ StartListed(p))
    /\ \A c \in Callers : WF_vars(CallContinues(c))
    /\ WF_vars(Recover)

FairSpec == Spec /\ Fairness

-----------------------------------------------------------------------------
TypeOK ==
    /\ rows \in [Jobs -> Row]
    /\ created \in SUBSET Jobs
    /\ limit \in Nat \ {0}
    /\ active \in [Jobs -> Slots \cup {NoTask}]
    /\ pc \in [Tasks -> TaskSteps]
    /\ cancelled \in [Tasks -> BOOLEAN]
    /\ snap \in [Tasks -> Row]
    /\ route \in [Tasks -> TaskRoutes]
    /\ back \in [Tasks -> {"materialize", "stage", "transfer", "readFallback"}]
    /\ cstep \in [Callers -> CallSteps]
    /\ target \in [Callers -> SUBSET Jobs]
    /\ cact \in [Callers -> JobAction]
    /\ todo \in [Callers -> [Jobs -> Row]]
    /\ pstep \in [Passes -> {"idle", "list", "start"}]
    /\ listed \in [Passes -> SUBSET (Jobs \X Priority)]
    /\ rstep \in {"list", "write", "done"}
    /\ rtodo \in [Jobs -> Row]
    /\ calls \in 0..MaxCalls
    /\ crashes \in 0..MaxCrashes

\* The entry of activeDownloadTasks always names a task that has not ended:
\* no interleaving of pause, retry, removal and completion leaks the slot.
SlotNeverLeaked ==
    \A j \in Jobs : active[j] # NoTask => pc[<<j, active[j]>>] # "idle"

\* At most one task of a job is not cancelled, and it is the registered one:
\* a job never has two downloaders that both mean to finish it.
NoDuplicateWorkers ==
    \A w \in Tasks : pc[w] # "idle" /\ ~cancelled[w] => Owns(w)

\* A write of a record read before removeJob deleted the row (by a task, a
\* pending action, a reorder or recovery) never brings the job back.
RemovedStaysRemoved ==
    [][\A j \in Jobs :
        ~Present(rows[j]) /\ Present(rows'[j]) =>
            \E c \in Callers : cstep[c] = "insert" /\ j \in target[c]]_vars

\* A job that had no task gets one only while there is room for it, or
\* because this very job is being force started, although every scheduling
\* decision is taken from a list read some awaits earlier.
AdmissionWithinLimit ==
    [][\A j \in Jobs :
        active[j] = NoTask /\ active'[j] # NoTask =>
            \/ Cardinality(ActiveJobs(active')) <= limit
            \/ \E c \in Callers : /\ cstep[c] = "effect" /\ cact[c] = "forceStart"
                                  /\ j \in target[c]]_vars

\* Without job actions that withdraw a job (pause, cancel) and without
\* reordering, a row says `running' only while a task works on it, the
\* restarted agent has yet to requeue it, or it is about to be deleted.
RunningHasWorker ==
    \A j \in Jobs : rows[j].status = "running" =>
        \/ active[j] # NoTask
        \/ rstep = "list" \/ Present(rtodo[j])
        \/ \E c \in Callers : cstep[c] = "delete" /\ j \in target[c]

\* A job never waits for ever: whatever finishes, fails, is cancelled or
\* removed, the release of its slot leads to the start of a queued job.
QueuedJobStarts ==
    \A j \in Jobs : rows[j].status = "queued" ~> rows[j].status # "queued"

\* An API call for the job is about to take this step.
Due(j, step) == \E c \in Callers : cstep[c] = step /\ j \in target[c]

\* The row of a job as JobLifecycle sees it.
StageOf(j) ==
    IF Present(rows[j])
    THEN IF Due(j, "delete") THEN "removing" ELSE rows[j].status
    ELSE IF j \notin created THEN "unknown"
         ELSE IF Due(j, "insert") THEN "requested" ELSE "removed"

Life == INSTANCE JobLifecycle WITH status <- [j \in Jobs |-> StageOf(j)]

\* Through all interleavings of tasks, calls, passes, recovery and crashes,
\* the rows only ever take the steps of the lifecycle and, with a fair
\* scheduler, every attempt is made and settled.
ImplementsLifecycle == Life!LifeSpec /\ Life!LifeFairness

-----------------------------------------------------------------------------
(* What the documentation and the tests say, and the code does not keep.   *)

\* AgentService.swift:747, "Pause and cancel persist their state before
\* cancelling the active task", is why a task that ends by cancellation
\* writes nothing: it must not leave a row `running' that nobody works on.
CancellationPersists ==
    \A j \in Jobs : rows[j].status = "running" =>
        \/ rstep # "done"
        \/ \E s \in Slots : pc[<<j, s>>] # "idle"
        \/ \E c \in Callers : cstep[c] # "idle"

\* docs/SESSION_LOG.md:65, "removal cancels active work, deletes the SQLite
\* row, and reschedules queued work", also when the row is gone already.
RemovalReschedules == QueuedJobStarts
=============================================================================
