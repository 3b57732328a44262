-------------------------- MODULE AgentQueueProofs --------------------------
(***************************************************************************)
(* Proofs about AgentQueue, for any jobs, callers, routes and bounds.      *)
(*                                                                         *)
(* The inductive invariant is IInv: the types and two facts about the      *)
(* slots, that the registered task of a job has not ended and that every   *)
(* task which is not cancelled is the registered one.  The second is why a *)
(* job may be given a new task when its slot names a cancelled one or none *)
(* (Launch): no other task of the job can be alive then.                   *)
(*                                                                         *)
(* LifeInv strengthens it for callers that write each row once: the status *)
(* of a row is then the one its task's next step counts on, unless the row *)
(* is deleted or about to be.  From it follow RunningHasWorker and the     *)
(* refinement of JobLifecycle.                                             *)
(***************************************************************************)
EXTENDS AgentQueue, FiniteSetTheorems, TLAPS

IInv == TypeOK /\ SlotNeverLeaked /\ NoDuplicateWorkers

Busy == TaskSteps \ {"idle"}

Origins == {"materialize", "stage", "transfer", "readFallback"}

-----------------------------------------------------------------------------
(* Rows.                                                                   *)

LEMMA RowTypes ==
    /\ NoRow \in Row
    /\ \A row \in Row, s \in JobStatus : WithStatus(row, s) \in Row
    /\ \A row \in Row, a \in JobAction : Applied(row, a) \in Row
    /\ \A row \in Row : Requeued(row) \in Row
<1>1. NoRow \in Row
  BY StoreAssumption DEF NoRow, Row, Priority
<1>2. ASSUME NEW row \in Row, NEW s \in JobStatus
      PROVE  WithStatus(row, s) \in Row
  BY DEF Row, WithStatus
<1>3. ASSUME NEW row \in Row, NEW a \in JobAction
      PROVE  Applied(row, a) \in Row
  <2> USE DEF Row, Applied, JobStatus, JobAction
  <2>1. CASE a = "pause"       BY <2>1
  <2>2. CASE a = "resume"      BY <2>2
  <2>3. CASE a = "cancel"      BY <2>3
  <2>4. CASE a = "retry"       BY <2>4
  <2>5. CASE a = "forceStart"  BY <2>5
  <2> QED BY <2>1, <2>2, <2>3, <2>4, <2>5
<1>4. ASSUME NEW row \in Row
      PROVE  Requeued(row) \in Row
  BY <1>1, <1>2 DEF Requeued, JobStatus
<1> QED BY <1>1, <1>2, <1>3, <1>4

LEMMA ReplacedType ==
    ASSUME rows \in [Jobs -> Row], NEW j \in Jobs, NEW row \in Row
    PROVE  Replaced(rows, j, row) \in [Jobs -> Row]
BY DEF Replaced

-----------------------------------------------------------------------------
(* The steps of a task.                                                    *)

\* A task that moves between two steps of processQueuedJob disturbs no slot.
LEMMA StepKeeps ==
    ASSUME IInv, NEW w \in Tasks, NEW from \in Busy, NEW to \in Busy,
           Step(w, from, to),
           rows' \in [Jobs -> Row], snap' \in [Tasks -> Row],
           route' \in [Tasks -> TaskRoutes], back' \in [Tasks -> Origins]
    PROVE  IInv'
<1> USE DEF IInv
<1>1. /\ pc' = [pc EXCEPT ![w] = to] /\ pc[w] # "idle"
      /\ UNCHANGED <<active, cancelled, limit, created, cstep, target, cact, todo,
                     calls, pstep, listed, rstep, rtodo, crashes>>
  BY DEF Step, Goto, At, Elsewhere, Busy, callVars, passVars, recoverVars
<1>2. pc' \in [Tasks -> TaskSteps] /\ pc \in [Tasks -> TaskSteps]
  BY <1>1 DEF TypeOK, Busy
<1>3. TypeOK'
  BY <1>1, <1>2 DEF TypeOK, Origins
<1>4. \A v \in Tasks : pc'[v] = "idle" <=> pc[v] = "idle"
  BY <1>1, <1>2 DEF Busy
<1>5. SlotNeverLeaked'
  <2> SUFFICES ASSUME NEW j \in Jobs, active'[j] # NoTask
               PROVE  pc'[<<j, active'[j]>>] # "idle"
    BY DEF SlotNeverLeaked
  <2>1. <<j, active[j]>> \in Tasks /\ pc[<<j, active[j]>>] # "idle"
    BY <1>1 DEF SlotNeverLeaked, TypeOK, Tasks
  <2> QED BY <2>1, <1>1, <1>4
<1>6. NoDuplicateWorkers'
  BY <1>1, <1>4 DEF NoDuplicateWorkers, Owns
<1> QED BY <1>3, <1>5, <1>6

LEMMA PassKeeps ==
    ASSUME IInv, NEW w \in Tasks, NEW from \in Busy, NEW to \in Busy,
           Pass(w, from, to)
    PROVE  IInv'
BY StepKeeps DEF Pass, IInv, TypeOK, Origins

LEMMA FetchKeeps ==
    ASSUME IInv, NEW w \in Tasks, NEW from \in Busy, NEW status \in JobStatus,
           NEW edited \in Row, NEW to \in Busy, NEW otherwise \in Busy,
           Fetch(w, from, status, edited, to, otherwise)
    PROVE  IInv'
<1> DEFINE next == IF rows[w[1]].status = status THEN to ELSE otherwise
<1>1. Step(w, from, next) /\ next \in Busy
  BY DEF Fetch
<1>2. snap' \in [Tasks -> Row] /\ UNCHANGED <<rows, route, back>>
  BY DEF Fetch, IInv, TypeOK
<1> QED BY <1>1, <1>2, StepKeeps DEF IInv, TypeOK, Origins

LEMMA SaveKeeps ==
    ASSUME IInv, NEW w \in Tasks, NEW from \in Busy, NEW to \in Busy,
           Save(w, from, to)
    PROVE  IInv'
<1>1. w[1] \in Jobs /\ snap[w] \in Row
  BY DEF IInv, TypeOK, Tasks
<1>2. rows' \in [Jobs -> Row] /\ snap' \in [Tasks -> Row]
  BY <1>1, ReplacedType, RowTypes DEF Save, IInv, TypeOK
<1> QED BY <1>2, StepKeeps DEF Save, IInv, TypeOK, Origins

LEMMA ReportKeeps ==
    ASSUME IInv, NEW w \in Tasks, NEW from \in Busy, NEW resume \in Origins,
           Report(w, from, resume)
    PROVE  IInv'
<1>1. "readProgress" \in Busy /\ resume \in Busy
  BY DEF Busy, TaskSteps, Origins
<1>2. UNCHANGED <<rows, snap, route>> /\ back' \in [Tasks -> Origins]
  BY DEF Report, IInv, TypeOK, Origins
<1>3. Step(w, from, "readProgress") \/ Step(w, from, resume)
  BY DEF Report
<1> QED BY <1>1, <1>2, <1>3, StepKeeps DEF IInv, TypeOK

-----------------------------------------------------------------------------
(* Slots.                                                                  *)

LEMMA FreeSlotType ==
    ASSUME NEW j \in Jobs, FreeSlots(j) # {}
    PROVE  FreeSlot(j) \in Slots /\ pc[<<j, FreeSlot(j)>>] = "idle"
BY DEF FreeSlots, FreeSlot

\* Tasks may be launched for jobs whose live tasks are all cancelled.
LEMMA LaunchKeeps ==
    ASSUME IInv, NEW S \in SUBSET Jobs, Launch(S),
           \A j \in S : ~HasLiveTask(j),
           cancelled' = cancelled
    PROVE  /\ active' \in [Jobs -> Slots \cup {NoTask}]
           /\ pc' \in [Tasks -> TaskSteps]
           /\ SlotNeverLeaked'
           /\ NoDuplicateWorkers'
<1> USE DEF IInv
<1>1. \A j \in S : FreeSlot(j) \in Slots /\ pc[<<j, FreeSlot(j)>>] = "idle"
  BY FreeSlotType DEF Launch
<1>2. active' \in [Jobs -> Slots \cup {NoTask}]
  BY <1>1 DEF Launch, TypeOK
<1>3. pc' \in [Tasks -> TaskSteps]
  BY DEF Launch, TypeOK, TaskSteps
<1>4. \A w \in Tasks : w[1] \in Jobs /\ w[2] \in Slots /\ w = <<w[1], w[2]>>
  BY DEF Tasks
<1>5. SlotNeverLeaked'
  <2> SUFFICES ASSUME NEW j \in Jobs, active'[j] # NoTask
               PROVE  pc'[<<j, active'[j]>>] # "idle"
    BY DEF SlotNeverLeaked
  <2>1. <<j, active'[j]>> \in Tasks
    BY <1>2 DEF Tasks
  <2>2. CASE j \in S
    BY <2>1, <2>2 DEF Launch
  <2>3. CASE j \notin S
    <3>1. active'[j] = active[j]
      BY <2>3 DEF Launch
    <3>2. pc[<<j, active[j]>>] # "idle"
      BY <3>1 DEF SlotNeverLeaked
    <3> QED BY <2>1, <2>3, <3>1, <3>2 DEF Launch
  <2> QED BY <2>2, <2>3
<1>6. NoDuplicateWorkers'
  <2> SUFFICES ASSUME NEW w \in Tasks, pc'[w] # "idle", ~cancelled'[w]
               PROVE  active'[w[1]] = w[2]
    BY DEF NoDuplicateWorkers, Owns
  <2>1. CASE w[1] \in S /\ w[2] = FreeSlot(w[1])
    BY <1>4, <2>1 DEF Launch
  <2>2. CASE ~(w[1] \in S /\ w[2] = FreeSlot(w[1]))
    <3>1. pc[w] # "idle" /\ ~cancelled[w]
      BY <2>2 DEF Launch
    <3>2. active[w[1]] = w[2]
      BY <3>1 DEF NoDuplicateWorkers, Owns
    <3>3. w[2] # NoTask
      BY <1>4 DEF Slots, NoTask
    <3>4. HasLiveTask(w[1])
      BY <1>4, <3>1, <3>2, <3>3 DEF HasLiveTask
    <3>5. w[1] \notin S
      BY <3>4
    <3> QED BY <1>4, <3>2, <3>5 DEF Launch
  <2> QED BY <2>1, <2>2
<1> QED BY <1>2, <1>3, <1>5, <1>6

LEMMA StartKeeps ==
    ASSUME IInv, NEW j \in Jobs, StartDownload(j), cancelled' = cancelled
    PROVE  /\ active' \in [Jobs -> Slots \cup {NoTask}]
           /\ pc' \in [Tasks -> TaskSteps]
           /\ SlotNeverLeaked'
           /\ NoDuplicateWorkers'
<1> DEFINE S == IF HasLiveTask(j) THEN {} ELSE {j}
<1>1. S \in SUBSET Jobs /\ \A k \in S : ~HasLiveTask(k)
  OBVIOUS
<1>2. Launch(S)
  BY DEF StartDownload
<1> QED BY <1>1, <1>2, LaunchKeeps

\* Nothing about the slots changes.
LEMMA SlotsUnchanged ==
    ASSUME IInv, UNCHANGED <<active, pc, cancelled>>
    PROVE  /\ active' \in [Jobs -> Slots \cup {NoTask}]
           /\ pc' \in [Tasks -> TaskSteps]
           /\ SlotNeverLeaked'
           /\ NoDuplicateWorkers'
BY DEF IInv, TypeOK, SlotNeverLeaked, NoDuplicateWorkers, Owns

LEMMA EnqueueKeeps ==
    ASSUME IInv, NEW j \in Jobs, EnqueueDownload(j), cancelled' = cancelled
    PROVE  /\ active' \in [Jobs -> Slots \cup {NoTask}]
           /\ pc' \in [Tasks -> TaskSteps]
           /\ SlotNeverLeaked'
           /\ NoDuplicateWorkers'
<1>1. CASE StartDownload(j)
  BY <1>1, StartKeeps
<1>2. CASE UNCHANGED <<active, pc>>
  BY <1>2, SlotsUnchanged
<1> QED BY <1>1, <1>2 DEF EnqueueDownload

LEMMA BeginPassType ==
    ASSUME IInv, NEW act, NEW lim, BeginPass(act, lim)
    PROVE  pstep' \in [Passes -> {"idle", "list", "start"}]
BY DEF BeginPass, OpenPass, IInv, TypeOK

-----------------------------------------------------------------------------
(* Every step keeps the invariant.                                         *)

LEMMA FinishKeeps ==
    ASSUME IInv, NEW w \in Tasks, FinishDownload(w)
    PROVE  IInv'
<1> USE DEF IInv
<1>1. /\ pc' = [pc EXCEPT ![w] = "idle"]
      /\ cancelled' = [cancelled EXCEPT ![w] = FALSE]
      /\ active' = IF Owns(w) THEN [active EXCEPT ![w[1]] = NoTask] ELSE active
  BY DEF FinishDownload, Goto, Releases
<1>2. w[1] \in Jobs /\ w[2] \in Slots /\ w = <<w[1], w[2]>>
  BY DEF Tasks
<1>3. pstep' \in [Passes -> {"idle", "list", "start"}]
  BY BeginPassType DEF FinishDownload, TypeOK
<1>4. TypeOK'
  <2>1. active' \in [Jobs -> Slots \cup {NoTask}] /\ pc' \in [Tasks -> TaskSteps]
    BY <1>1, <1>2 DEF TypeOK, TaskSteps
  <2> QED BY <1>1, <1>3, <2>1, RowTypes
          DEF FinishDownload, TypeOK, callVars, recoverVars, TaskRoutes
<1>5. SlotNeverLeaked'
  <2> SUFFICES ASSUME NEW j \in Jobs, active'[j] # NoTask
               PROVE  pc'[<<j, active'[j]>>] # "idle"
    BY DEF SlotNeverLeaked
  <2>1. active'[j] = active[j] /\ <<j, active[j]>> # w
    BY <1>1, <1>2 DEF Owns, TypeOK
  <2>2. <<j, active[j]>> \in Tasks /\ pc[<<j, active[j]>>] # "idle"
    BY <2>1 DEF SlotNeverLeaked, TypeOK, Tasks
  <2> QED BY <1>1, <2>1, <2>2 DEF TypeOK
<1>6. NoDuplicateWorkers'
  <2> SUFFICES ASSUME NEW v \in Tasks, pc'[v] # "idle", ~cancelled'[v]
               PROVE  active'[v[1]] = v[2]
    BY DEF NoDuplicateWorkers, Owns
  <2>1. v # w /\ pc[v] # "idle" /\ ~cancelled[v]
    BY <1>1 DEF TypeOK
  <2>2. active[v[1]] = v[2]
    BY <2>1 DEF NoDuplicateWorkers, Owns
  <2>3. v[1] \in Jobs /\ v = <<v[1], v[2]>>
    BY DEF Tasks
  <2> QED BY <1>1, <1>2, <2>1, <2>2, <2>3 DEF Owns, TypeOK
<1> QED BY <1>4, <1>5, <1>6

LEMMA TaskKeeps ==
    ASSUME IInv, NEW w \in Tasks, TaskStep(w)
    PROVE  IInv'
<1> DEFINE row == rows[w[1]]
<1>1. /\ row \in Row /\ snap[w] \in Row
      /\ back[w] \in Origins /\ Origins \subseteq Busy
  BY DEF IInv, TypeOK, Tasks, Origins, Busy, TaskSteps
<1>2. \A s \in JobStatus : WithStatus(row, s) \in Row
  BY <1>1, RowTypes
<1> USE DEF Busy, TaskSteps, JobStatus
<1>3. CASE CheckQueued(w)
  BY <1>3, PassKeeps DEF CheckQueued
<1>4. CASE ReadQueued(w)
  BY <1>1, <1>2, <1>4, FetchKeeps DEF ReadQueued
<1>5. CASE WriteRunning(w)
  BY <1>5, SaveKeeps DEF WriteRunning
<1>6. CASE Extract(w)
  BY <1>6, PassKeeps DEF Extract
<1>7. CASE ReadActive(w)
  BY <1>1, <1>2, <1>7, FetchKeeps DEF ReadActive
<1>8. CASE WriteVerification(w)
  BY <1>8, SaveKeeps DEF WriteVerification
<1>9. CASE ClaimTransfer(w)
  BY <1>9, PassKeeps DEF ClaimTransfer
<1>10. CASE WriteActive(w)
  <2>1. rows' \in [Jobs -> Row]
    BY <1>1, <1>10, ReplacedType DEF WriteActive, IInv, TypeOK, Tasks
  <2> QED BY <1>10, <2>1, StepKeeps DEF WriteActive, IInv, TypeOK, Origins
<1>11. CASE CheckTransfer(w)
  BY <1>11, PassKeeps DEF CheckTransfer
<1>12. CASE ReadCurrent(w)
  <2>1. PICK r \in Routes :
           /\ Step(w, "readCurrent",
                   IF row.status # "running" THEN "finish"
                   ELSE IF r = "local" THEN "transfer" ELSE "writePrepared")
           /\ route' = [route EXCEPT ![w] = r]
           /\ UNCHANGED <<rows, snap, back>>
    BY <1>12 DEF ReadCurrent
  <2>2. route' \in [Tasks -> TaskRoutes]
    BY <2>1, QueueAssumption DEF IInv, TypeOK
  <2> QED BY <2>1, <2>2, StepKeeps DEF IInv, TypeOK, Origins
<1>13. CASE WritePrepared(w)
  <2>1. CASE Save(w, "writePrepared",
                  CASE route[w] = "staged" -> "materialize"
                    [] route[w] = "cloud"  -> "stage"
                    [] OTHER               -> "transfer")
    <3>1. CASE route[w] = "staged"  BY <2>1, <3>1, SaveKeeps
    <3>2. CASE route[w] = "cloud"   BY <2>1, <3>2, SaveKeeps
    <3>3. CASE route[w] \notin {"staged", "cloud"}
      <4>1. Save(w, "writePrepared", "transfer")  BY <2>1, <3>3
      <4> QED BY <4>1, SaveKeeps
    <3> QED BY <3>1, <3>2, <3>3
  <2>2. CASE Pass(w, "writePrepared", "fail")
    BY <2>2, PassKeeps
  <2> QED BY <1>13, <2>1, <2>2 DEF WritePrepared
<1>14. CASE Progress(w)
  BY <1>14, ReportKeeps DEF Progress, Origins
<1>15. CASE ReadProgress(w)
  BY <1>1, <1>15, FetchKeeps, PassKeeps DEF ReadProgress
<1>16. CASE WriteProgress(w)
  BY <1>1, <1>16, SaveKeeps DEF WriteProgress
<1>17. CASE TransferThrows(w)
  BY <1>17, PassKeeps DEF TransferThrows
<1>18. CASE StagingFailed(w)
  BY <1>18, ReportKeeps DEF StagingFailed, Origins
<1>19. CASE ReadFallback(w)
  BY <1>1, <1>19, FetchKeeps DEF ReadFallback
<1>20. CASE WriteFallback(w)
  BY <1>20, SaveKeeps DEF WriteFallback
<1>21. CASE Materialized(w)
  BY <1>21, PassKeeps DEF Materialized
<1>22. CASE ReadUploading(w)
  BY <1>1, <1>22, FetchKeeps DEF ReadUploading
<1>23. CASE WriteUploading(w)
  BY <1>23, SaveKeeps DEF WriteUploading
<1>24. CASE Transferred(w)
  BY <1>24, PassKeeps DEF Transferred
<1>25. CASE ReadDone(w)
  <2>1. WithStatus(row, "completed") \in Row
    BY <1>2 DEF JobStatus
  <2> QED BY <1>25, <2>1, FetchKeeps DEF ReadDone
<1>26. CASE WriteDone(w)
  BY <1>26, SaveKeeps DEF WriteDone
<1>27. CASE Fail(w)
  BY <1>27, PassKeeps DEF Fail
<1>28. CASE ReadFailed(w)
  BY <1>1, <1>2, <1>28, FetchKeeps DEF ReadFailed
<1>29. CASE WriteFailed(w)
  BY <1>29, SaveKeeps DEF WriteFailed
<1>30. CASE FinishDownload(w)
  BY <1>30, FinishKeeps
<1> QED
  BY <1>3, <1>4, <1>5, <1>6, <1>7, <1>8, <1>9, <1>10, <1>11, <1>12, <1>13, <1>14,
     <1>15, <1>16, <1>17, <1>18, <1>19, <1>20, <1>21, <1>22, <1>23, <1>24, <1>25,
     <1>26, <1>27, <1>28, <1>29, <1>30
  DEF TaskStep

LEMMA PassesKeep ==
    ASSUME IInv, NEW p \in Passes, ListQueued(p) \/ StartListed(p)
    PROVE  IInv'
<1> USE DEF IInv
<1>1. CASE ListQueued(p)
  <2>1. {<<j, rows[j].priority>> : j \in JobsWithStatus(rows, "queued")}
            \in SUBSET (Jobs \X Priority)
    BY DEF JobsWithStatus, TypeOK, Row
  <2>2. TypeOK'
    BY <1>1, <2>1 DEF ListQueued, PassFrame, TypeOK, callVars, recoverVars
  <2> QED BY <1>1, <2>2, SlotsUnchanged DEF ListQueued, PassFrame
<1>2. CASE StartListed(p)
  <2>1. PICK S \in SUBSET {e \in listed[p] : active[e[1]] = NoTask} :
           Launch({e[1] : e \in S})
    BY <1>2 DEF StartListed
  <2> DEFINE started == {e[1] : e \in S}
  <2>2. started \in SUBSET Jobs /\ \A j \in started : ~HasLiveTask(j)
    <3>1. listed[p] \in SUBSET (Jobs \X Priority)
      BY DEF TypeOK
    <3>2. \A e \in S : e[1] \in Jobs /\ active[e[1]] = NoTask
      BY <3>1
    <3> QED BY <3>2 DEF HasLiveTask
  <2>3. cancelled' = cancelled
    BY <1>2 DEF StartListed, PassFrame
  <2>4. /\ active' \in [Jobs -> Slots \cup {NoTask}]
        /\ pc' \in [Tasks -> TaskSteps]
        /\ SlotNeverLeaked' /\ NoDuplicateWorkers'
    <3> HIDE DEF started
    <3> QED BY <2>1, <2>2, <2>3, LaunchKeeps DEF started
  <2>5. TypeOK'
    BY <1>2, <2>4 DEF StartListed, PassFrame, TypeOK, callVars, recoverVars
  <2> QED BY <2>4, <2>5
<1> QED BY <1>1, <1>2

LEMMA BeginCalls ==
    ASSUME IInv, NEW c, NEW op, Begin(c, op)
    PROVE  calls' \in 0..MaxCalls
BY QueueAssumption DEF Begin, IInv, TypeOK

LEMMA CallStepKeeps ==
    ASSUME IInv, NEW c \in Callers, CallStep(c)
    PROVE  IInv'
<1> USE DEF IInv
<1>1. CASE CreateJob(c)
  <2>1. PICK j \in Jobs \ created, next \in Priority :
           /\ Begin(c, "create")
           /\ created' = created \cup {j}
           /\ cstep' = [cstep EXCEPT ![c] = "insert"]
           /\ target' = [target EXCEPT ![c] = {j}]
           /\ todo' = [todo EXCEPT ![c][j] =
                         [status |-> "queued", priority |-> next]]
           /\ UNCHANGED <<rows, active, pc, cancelled, cact, passVars>>
           /\ CallFrame
    BY <1>1 DEF CreateJob
  <2>2. [status |-> "queued", priority |-> next] \in Row
    BY QueueAssumption DEF Row, JobStatus
  <2>3. TypeOK'
    BY <2>1, <2>2, BeginCalls
    DEF TypeOK, CallSteps, CallFrame, passVars, recoverVars
  <2> QED BY <2>1, <2>3, SlotsUnchanged
<1>2. CASE ApplyAction(c)
  <2>1. PICK a \in JobAction, j \in Jobs :
           /\ Begin(c, a)
           /\ rows' = [rows EXCEPT ![j] = Applied(rows[j], a)]
           /\ cstep' = [cstep EXCEPT ![c] = "update"]
           /\ target' = [target EXCEPT ![c] = {j}]
           /\ cact' = [cact EXCEPT ![c] = a]
           /\ todo' = [todo EXCEPT ![c][j] = Applied(rows[j], a)]
           /\ UNCHANGED <<active, pc, cancelled, created, passVars>>
           /\ CallFrame
    BY <1>2 DEF ApplyAction
  <2>2. Applied(rows[j], a) \in Row
    BY RowTypes DEF TypeOK
  <2>3. TypeOK'
    BY <2>1, <2>2, BeginCalls
    DEF TypeOK, CallSteps, CallFrame, passVars, recoverVars
  <2> QED BY <2>1, <2>3, SlotsUnchanged
<1>3. CASE RemoveJob(c)
  <2>1. PICK j \in created :
           /\ calls' \in 0..MaxCalls
           /\ cancelled' = [w \in Tasks |-> cancelled[w] \/ (w[1] = j /\ Owns(w))]
           /\ active' = [active EXCEPT ![j] = NoTask]
           /\ cstep' = [cstep EXCEPT ![c] = "delete"]
           /\ target' = [target EXCEPT ![c] = {j}]
           /\ UNCHANGED <<rows, pc, created, cact, todo, passVars>>
           /\ CallFrame
    BY <1>3, BeginCalls DEF RemoveJob
  <2>2. j \in Jobs /\ \A w \in Tasks : w[1] \in Jobs
    BY DEF TypeOK, Tasks
  <2>3. TypeOK'
    <3>1. cancelled' \in [Tasks -> BOOLEAN]
      BY <2>1, Zenon DEF TypeOK, Owns
    <3> QED BY <2>1, <2>2, <3>1 DEF TypeOK, CallSteps, CallFrame, passVars, recoverVars
  <2>4. SlotNeverLeaked'
    BY <2>1, <2>2 DEF SlotNeverLeaked, TypeOK
  <2>5. NoDuplicateWorkers'
    <3> SUFFICES ASSUME NEW w \in Tasks, pc'[w] # "idle", ~cancelled'[w]
                 PROVE  active'[w[1]] = w[2]
      BY DEF NoDuplicateWorkers, Owns
    <3>1. ~cancelled[w] /\ ~(w[1] = j /\ Owns(w))
      BY <2>1
    <3>2. Owns(w)
      BY <2>1, <3>1 DEF NoDuplicateWorkers
    <3>3. w[1] # j
      BY <3>1, <3>2
    <3> QED BY <2>1, <2>2, <3>2, <3>3 DEF Owns, TypeOK
  <2> QED BY <2>3, <2>4, <2>5
<1>4. CASE ReorderQueuedJobs(c)
  <2> DEFINE queued == JobsWithStatus(rows, "queued")
  <2>1. PICK rank \in [queued -> Priority] :
           /\ Begin(c, "reorder")
           /\ cstep' = [cstep EXCEPT ![c] = "reorder"]
           /\ todo' = [todo EXCEPT ![c] = [j \in Jobs |->
                 IF j \in queued THEN [rows[j] EXCEPT !.priority = rank[j]] ELSE NoRow]]
           /\ UNCHANGED <<rows, active, pc, cancelled, created, target, cact, passVars>>
           /\ CallFrame
    BY <1>4 DEF ReorderQueuedJobs
  <2>2. ASSUME NEW j \in Jobs
        PROVE  (IF j \in queued THEN [rows[j] EXCEPT !.priority = rank[j]]
                                 ELSE NoRow) \in Row
    <3>1. CASE j \in queued
      <4>1. rows[j] \in Row /\ rank[j] \in Priority
        BY <3>1 DEF TypeOK
      <4>2. [rows[j] EXCEPT !.priority = rank[j]] \in Row
        BY <4>1 DEF Row
      <4> QED BY <3>1, <4>2
    <3>2. CASE j \notin queued
      BY <3>2, RowTypes
    <3> QED BY <3>1, <3>2
  <2>3. todo' \in [Callers -> [Jobs -> Row]]
    BY <2>1, <2>2 DEF TypeOK
  <2>4. TypeOK'
    BY <2>1, <2>3, BeginCalls
    DEF TypeOK, CallSteps, CallFrame, passVars, recoverVars
  <2> QED BY <2>1, <2>4, SlotsUnchanged
<1>5. CASE SetMaximumConcurrentDownloads(c)
  <2>1. PICK n \in Limits :
           /\ Begin(c, "limit")
           /\ limit' = ClampedLimit(n)
           /\ BeginPass(active, limit')
           /\ UNCHANGED <<rows, active, pc, cancelled, snap, route, back, created,
                          cstep, target, cact, todo, listed, recoverVars, crashes>>
    BY <1>5 DEF SetMaximumConcurrentDownloads
  <2>2. limit' \in Nat \ {0}
    BY <2>1, QueueAssumption DEF ClampedLimit
  <2>3. pstep' \in [Passes -> {"idle", "list", "start"}]
    BY <2>1, BeginPassType
  <2>4. TypeOK'
    BY <2>1, <2>2, <2>3, BeginCalls DEF TypeOK, recoverVars
  <2> QED BY <2>1, <2>4, SlotsUnchanged
<1> QED BY <1>1, <1>2, <1>3, <1>4, <1>5 DEF CallStep

LEMMA CallContinuesKeeps ==
    ASSUME IInv, NEW c \in Callers, CallContinues(c)
    PROVE  IInv'
<1> USE DEF IInv
<1>1. \A j \in target[c] : j \in Jobs /\ todo[c][j] \in Row
  BY DEF TypeOK
<1>2. NoWrites \in [Jobs -> Row]
  BY RowTypes DEF NoWrites
<1>3. CASE InsertJob(c)
  <2>1. rows' \in [Jobs -> Row] /\ todo' \in [Callers -> [Jobs -> Row]]
    BY <1>1, <1>2, <1>3 DEF InsertJob, TypeOK
  <2>2. TypeOK'
    BY <1>3, <2>1 DEF InsertJob, TypeOK, CallSteps, CallFrame, passVars, recoverVars
  <2> QED BY <1>3, <2>2, SlotsUnchanged DEF InsertJob
<1>4. CASE EnqueueCreated(c)
  <2>1. PICK j \in target[c] : EnqueueDownload(j)
    BY <1>4 DEF EnqueueCreated
  <2>2. cancelled' = cancelled
    BY <1>4 DEF EnqueueCreated
  <2>3. /\ active' \in [Jobs -> Slots \cup {NoTask}]
        /\ pc' \in [Tasks -> TaskSteps]
        /\ SlotNeverLeaked' /\ NoDuplicateWorkers'
    BY <1>1, <2>1, <2>2, EnqueueKeeps
  <2>4. TypeOK'
    BY <1>4, <2>3
    DEF EnqueueCreated, TypeOK, CallSteps, CallFrame, passVars, recoverVars
  <2> QED BY <2>3, <2>4
<1>5. CASE UpdateApplied(c)
  <2>1. rows' \in [Jobs -> Row] /\ todo' \in [Callers -> [Jobs -> Row]]
    BY <1>1, <1>2, <1>5, ReplacedType DEF UpdateApplied, TypeOK
  <2>2. TypeOK'
    BY <1>5, <2>1
    DEF UpdateApplied, TypeOK, CallSteps, CallFrame, passVars, recoverVars
  <2> QED BY <1>5, <2>2, SlotsUnchanged DEF UpdateApplied
<1>6. CASE TakeEffect(c)
  <2>1. PICK j \in target[c] :
           CASE cact[c] \in {"pause", "cancel"} ->
                   /\ cancelled' = [w \in Tasks |->
                           cancelled[w] \/ (w[1] = j /\ Owns(w))]
                   /\ UNCHANGED <<active, pc>>
             [] cact[c] \in {"resume", "retry"} ->
                   EnqueueDownload(j) /\ UNCHANGED cancelled
             [] cact[c] = "forceStart" ->
                   StartDownload(j) /\ UNCHANGED cancelled
    BY <1>6 DEF TakeEffect
  <2>2. /\ cancelled' \in [Tasks -> BOOLEAN]
        /\ active' \in [Jobs -> Slots \cup {NoTask}]
        /\ pc' \in [Tasks -> TaskSteps]
        /\ SlotNeverLeaked' /\ NoDuplicateWorkers'
    <3>1. CASE cact[c] \in {"pause", "cancel"}
      <4>1. /\ cancelled' = [w \in Tasks |-> cancelled[w] \/ (w[1] = j /\ Owns(w))]
            /\ UNCHANGED <<active, pc>>
        BY <2>1, <3>1
      <4>2. cancelled' \in [Tasks -> BOOLEAN]
        BY <4>1, Zenon DEF TypeOK, Owns
      <4>3. \A w \in Tasks : ~cancelled'[w] => ~cancelled[w]
        BY <4>1
      <4>4. SlotNeverLeaked' /\ NoDuplicateWorkers'
        BY <4>1, <4>3 DEF SlotNeverLeaked, NoDuplicateWorkers, Owns
      <4> QED BY <4>1, <4>2, <4>4 DEF TypeOK
    <3>2. CASE cact[c] \in {"resume", "retry"}
      <4>1. EnqueueDownload(j) /\ cancelled' = cancelled
        BY <2>1, <3>2
      <4> QED BY <1>1, <4>1, EnqueueKeeps DEF TypeOK
    <3>3. CASE cact[c] = "forceStart"
      <4>1. StartDownload(j) /\ cancelled' = cancelled
        BY <2>1, <3>3
      <4> QED BY <1>1, <4>1, StartKeeps DEF TypeOK
    <3> QED BY <3>1, <3>2, <3>3 DEF TypeOK, JobAction
  <2>3. TypeOK'
    BY <1>6, <2>2
    DEF TakeEffect, TypeOK, CallSteps, JobAction, CallFrame, passVars, recoverVars
  <2> QED BY <2>2, <2>3
<1>7. CASE DeleteRow(c)
  <2>1. rows' \in [Jobs -> Row]
    BY <1>7, RowTypes DEF DeleteRow, TypeOK
  <2>2. cstep' \in [Callers -> CallSteps]
    BY <1>7 DEF DeleteRow, TypeOK, CallSteps
  <2>3. TypeOK'
    BY <1>7, <2>1, <2>2 DEF DeleteRow, TypeOK, CallFrame, passVars, recoverVars
  <2> QED BY <1>7, <2>3, SlotsUnchanged DEF DeleteRow
<1>8. CASE ScheduleAfterDelete(c)
  <2>1. pstep' \in [Passes -> {"idle", "list", "start"}]
    BY <1>8, BeginPassType DEF ScheduleAfterDelete
  <2>2. TypeOK'
    BY <1>8, <2>1 DEF ScheduleAfterDelete, TypeOK, CallSteps, CallFrame, recoverVars
  <2> QED BY <1>8, <2>2, SlotsUnchanged DEF ScheduleAfterDelete
<1>9. CASE WriteReordered(c)
  <2>1. PICK j \in Jobs :
           /\ rows' = Replaced(rows, j, todo[c][j])
           /\ todo' = [todo EXCEPT ![c][j] = NoRow]
           /\ cstep' = [cstep EXCEPT ![c] =
                           IF Unwritten(todo[c]) = {j} THEN "idle" ELSE "reorder"]
    BY <1>9 DEF WriteReordered, Unwritten
  <2>2. rows' \in [Jobs -> Row] /\ todo' \in [Callers -> [Jobs -> Row]]
    BY <2>1, RowTypes, ReplacedType DEF TypeOK
  <2>3. TypeOK'
    BY <1>9, <2>1, <2>2
    DEF WriteReordered, TypeOK, CallSteps, CallFrame, passVars, recoverVars
  <2> QED BY <1>9, <2>3, SlotsUnchanged DEF WriteReordered
<1> QED BY <1>3, <1>4, <1>5, <1>6, <1>7, <1>8, <1>9 DEF CallContinues

LEMMA RecoverKeeps ==
    ASSUME IInv, Recover
    PROVE  IInv'
<1> USE DEF IInv
<1>1. UNCHANGED <<active, pc, cancelled>>
  BY DEF Recover, RecoverList, RecoverWrite, RecoverSchedule, RecoverFrame
<1>2. CASE RecoverList
  <2>1. rtodo' \in [Jobs -> Row]
    BY <1>2, RowTypes DEF RecoverList, TypeOK
  <2> QED BY <1>1, <1>2, <2>1, SlotsUnchanged
          DEF RecoverList, RecoverFrame, TypeOK, callVars
<1>3. CASE RecoverWrite
  <2>1. rows' \in [Jobs -> Row] /\ rtodo' \in [Jobs -> Row]
    BY <1>3, RowTypes, ReplacedType DEF RecoverWrite, Unwritten, TypeOK
  <2> QED BY <1>1, <1>3, <2>1, SlotsUnchanged
          DEF RecoverWrite, RecoverFrame, TypeOK, callVars
<1>4. CASE RecoverSchedule
  <2>1. pstep' \in [Passes -> {"idle", "list", "start"}]
    BY <1>4, BeginPassType DEF RecoverSchedule
  <2> QED BY <1>1, <1>4, <2>1, SlotsUnchanged
          DEF RecoverSchedule, RecoverFrame, TypeOK, callVars
<1> QED BY <1>2, <1>3, <1>4 DEF Recover

LEMMA CrashKeeps ==
    ASSUME IInv, Crash
    PROVE  IInv'
<1> USE DEF IInv
<1>1. TypeOK'
  BY RowTypes, QueueAssumption
  DEF Crash, TypeOK, TaskSteps, TaskRoutes, CallSteps, JobAction, NoWrites
<1>2. SlotNeverLeaked'
  BY DEF Crash, SlotNeverLeaked
<1>3. NoDuplicateWorkers'
  BY DEF Crash, NoDuplicateWorkers
<1> QED BY <1>1, <1>2, <1>3

LEMMA InitIInv == Init => IInv
<1> SUFFICES ASSUME Init PROVE IInv
  OBVIOUS
<1>1. ASSUME NEW st \in Stored
      PROVE  WithStatus(NoRow, st) \in Row
  BY QueueAssumption, RowTypes, <1>1 DEF WithStatus, Row, NoRow
<1>2. rows \in [Jobs -> Row]
  BY <1>1 DEF Init
<1>3. TypeOK
  BY <1>2, RowTypes, QueueAssumption
  DEF Init, TypeOK, TaskSteps, TaskRoutes, CallSteps, JobAction, NoWrites
<1>4. SlotNeverLeaked /\ NoDuplicateWorkers
  BY DEF Init, SlotNeverLeaked, NoDuplicateWorkers
<1> QED BY <1>3, <1>4 DEF IInv

LEMMA NextIInv == IInv /\ [Next]_vars => IInv'
<1> SUFFICES ASSUME IInv, [Next]_vars PROVE IInv'
  OBVIOUS
<1>1. CASE Next
  <2>1. ASSUME NEW w \in Tasks, TaskStep(w) PROVE IInv'
    BY <2>1, TaskKeeps
  <2>2. ASSUME NEW p \in Passes, ListQueued(p) \/ StartListed(p) PROVE IInv'
    BY <2>2, PassesKeep
  <2>3. ASSUME NEW c \in Callers, CallStep(c) \/ CallContinues(c) PROVE IInv'
    BY <2>3, CallStepKeeps, CallContinuesKeeps
  <2> QED BY <1>1, <2>1, <2>2, <2>3, RecoverKeeps, CrashKeeps DEF Next
<1>2. CASE UNCHANGED vars
  <2>1. UNCHANGED <<active, pc, cancelled>>
    BY <1>2 DEF vars, taskVars
  <2>2. TypeOK'
    BY <1>2 DEF IInv, TypeOK, vars, taskVars, callVars, passVars, recoverVars
  <2> QED BY <2>1, <2>2, SlotsUnchanged DEF IInv
<1> QED BY <1>1, <1>2

-----------------------------------------------------------------------------
(* The theorems.                                                           *)

THEOREM Invariance == Spec => []IInv
BY InitIInv, NextIInv, PTL DEF Spec

\* Every variable of the agent keeps its type, for any number of jobs,
\* callers, passes and crashes; the limit of concurrent downloads never
\* drops to zero (AgentService.setMaximumConcurrentDownloads).
THEOREM TypeCorrectness == Spec => []TypeOK
BY Invariance, PTL DEF IInv

\* activeDownloadTasks never keeps the entry of a task that has ended
\* (AgentService.finishDownload and removeJob).
THEOREM SlotsAreReleased == Spec => []SlotNeverLeaked
BY Invariance, PTL DEF IInv

\* No interleaving of startDownload, enqueueDownload, removeJob and
\* finishDownload leaves a job with two tasks that are not cancelled.
THEOREM OneWorkerPerJob == Spec => []NoDuplicateWorkers
BY Invariance, PTL DEF IInv

-----------------------------------------------------------------------------
(* Removed jobs stay removed.                                              *)

Resurrects(j) == ~Present(rows[j]) /\ Present(rows'[j])

\* JobStore.replace is an UPDATE: it cannot bring a row back.
LEMMA ReplacedNeverResurrects ==
    ASSUME IInv, NEW k \in Jobs, NEW row, rows' = Replaced(rows, k, row)
    PROVE  \A j \in Jobs : ~Resurrects(j)
BY DEF Replaced, Resurrects, Present, IInv, TypeOK

LEMMA TaskNeverResurrects ==
    ASSUME IInv, NEW w \in Tasks, TaskStep(w)
    PROVE  \A j \in Jobs : ~Resurrects(j)
<1>1. w[1] \in Jobs
  BY DEF Tasks
<1>2. rows' = rows \/ rows' = Replaced(rows, w[1], snap[w])
  BY DEF TaskStep, CheckQueued, ReadQueued, WriteRunning, Extract, ReadActive,
     WriteVerification, ClaimTransfer, WriteActive, CheckTransfer, ReadCurrent,
     WritePrepared, Progress, ReadProgress, WriteProgress, TransferThrows,
     StagingFailed, ReadFallback, WriteFallback, Materialized, ReadUploading,
     WriteUploading, Transferred, ReadDone, WriteDone, Fail, ReadFailed,
     WriteFailed, FinishDownload, Pass, Fetch, Save, Report
<1> QED BY <1>1, <1>2, ReplacedNeverResurrects DEF Resurrects

LEMMA OthersResurrectByInsert ==
    ASSUME IInv, NEW c \in Callers, CallStep(c) \/ CallContinues(c),
           NEW j \in Jobs, Resurrects(j)
    PROVE  cstep[c] = "insert" /\ j \in target[c]
<1>1. rows' # rows
  BY DEF Resurrects
<1>2. CASE ApplyAction(c)
  <2>1. PICK a \in JobAction, k \in Jobs :
           Allows(rows[k].status, a) /\ rows' = [rows EXCEPT ![k] = Applied(rows[k], a)]
    BY <1>2 DEF ApplyAction
  <2>2. Present(rows[k])
    BY <2>1 DEF Allows, Allowed, Present
  <2> QED BY <2>1, <2>2 DEF Resurrects, IInv, TypeOK
<1>3. CASE InsertJob(c)
  BY <1>3 DEF InsertJob, Resurrects, IInv, TypeOK
<1>4. CASE UpdateApplied(c)
  <2>1. PICK k \in target[c] : rows' = Replaced(rows, k, todo[c][k])
    BY <1>4 DEF UpdateApplied
  <2>2. k \in Jobs
    BY DEF IInv, TypeOK
  <2> QED BY <2>1, <2>2, ReplacedNeverResurrects
<1>5. CASE DeleteRow(c)
  BY <1>5 DEF DeleteRow, Resurrects, Present, NoRow, IInv, TypeOK
<1>6. CASE WriteReordered(c)
  <2>1. PICK k \in Unwritten(todo[c]) : rows' = Replaced(rows, k, todo[c][k])
    BY <1>6 DEF WriteReordered
  <2>2. k \in Jobs
    BY DEF Unwritten
  <2> QED BY <2>1, <2>2, ReplacedNeverResurrects
<1> QED
  BY <1>1, <1>2, <1>3, <1>4, <1>5, <1>6
  DEF CallStep, CallContinues, CreateJob, RemoveJob, ReorderQueuedJobs,
      SetMaximumConcurrentDownloads, EnqueueCreated, TakeEffect, ScheduleAfterDelete

\* Whatever record a task, an API call or recovery still holds when removeJob
\* deletes a row, writing it back does not bring the job to life again: only
\* createJob's INSERT makes a row appear (JobStore.replace is an UPDATE).
THEOREM RemovalIsFinal == Spec => RemovedStaysRemoved
<1> DEFINE Step1 == \A j \in Jobs : Resurrects(j) =>
                      \E c \in Callers : cstep[c] = "insert" /\ j \in target[c]
<1>1. ASSUME IInv, [Next]_vars
      PROVE  [Step1]_vars
  <2> SUFFICES ASSUME Next, NEW j \in Jobs, Resurrects(j)
               PROVE  \E c \in Callers : cstep[c] = "insert" /\ j \in target[c]
    BY <1>1
  <2> USE <1>1
  <2>1. rows' # rows
    BY DEF Resurrects
  <2>2. CASE \E w \in Tasks : TaskStep(w)
    BY <2>2, TaskNeverResurrects
  <2>3. CASE \E c \in Callers : CallStep(c) \/ CallContinues(c)
    BY <2>3, OthersResurrectByInsert
  <2>4. CASE RecoverWrite
    <3>1. PICK k \in Unwritten(rtodo) : rows' = Replaced(rows, k, rtodo[k])
      BY <2>4 DEF RecoverWrite
    <3>2. k \in Jobs
      BY DEF Unwritten
    <3> QED BY <3>1, <3>2, ReplacedNeverResurrects
  <2> QED BY <2>1, <2>2, <2>3, <2>4
          DEF Next, ListQueued, StartListed, PassFrame, Recover, RecoverList,
              RecoverSchedule, Crash
<1>2. IInv /\ [Next]_vars => [Step1]_vars
  BY <1>1
<1>3. [][Step1]_vars => RemovedStaysRemoved
  BY PTL DEF RemovedStaysRemoved, Resurrects
<1> HIDE DEF Step1
<1> QED BY <1>2, <1>3, Invariance, PTL DEF Spec

-----------------------------------------------------------------------------
(* Admission.                                                              *)

Admitted(j) == active[j] = NoTask /\ active'[j] # NoTask

ForceStarting(j) ==
    \E c \in Callers : /\ cstep[c] = "effect" /\ cact[c] = "forceStart"
                       /\ j \in target[c]

WithinLimit == Cardinality(ActiveJobs(active')) <= limit

LEMMA ActiveJobsFinite ==
    ASSUME NEW act
    PROVE  IsFiniteSet(ActiveJobs(act)) /\ Cardinality(ActiveJobs(act)) \in Nat
<1>1. ActiveJobs(act) \in SUBSET Jobs
  BY DEF ActiveJobs
<1> QED BY <1>1, QueueAssumption, FS_Subset, FS_CardinalityType

\* enqueueDownload only adds an entry while there is room.
LEMMA EnqueueWithinLimit ==
    ASSUME IInv, NEW k \in Jobs, EnqueueDownload(k), NEW j \in Jobs, Admitted(j)
    PROVE  WithinLimit
<1> DEFINE S == IF HasLiveTask(k) THEN {} ELSE {k}
<1>1. active' # active
  BY DEF Admitted
<1>2. /\ active[k] # NoTask \/ Cardinality(ActiveJobs(active)) < limit
      /\ Launch(S)
  BY <1>1 DEF EnqueueDownload, StartDownload
<1>3. j = k /\ j \in S /\ active[k] = NoTask
  BY <1>2 DEF Launch, Admitted
<1>4. ActiveJobs(active') = ActiveJobs(active) \cup {k}
  BY <1>2, <1>3 DEF Launch, Admitted, ActiveJobs
<1>5. k \notin ActiveJobs(active)
  BY <1>3 DEF ActiveJobs
<1>6. Cardinality(ActiveJobs(active')) = Cardinality(ActiveJobs(active)) + 1
  <2> DEFINE A == ActiveJobs(active)
  <2>1. IsFiniteSet(A) /\ k \notin A /\ ActiveJobs(active') = A \cup {k}
    BY <1>4, <1>5, ActiveJobsFinite
  <2> HIDE DEF A
  <2>2. Cardinality(A \cup {k}) = Cardinality(A) + 1
    BY <2>1, FS_AddElement
  <2> QED BY <2>1, <2>2 DEF A
<1> QED BY <1>2, <1>3, <1>6, ActiveJobsFinite DEF WithinLimit, IInv, TypeOK

\* The loop of a pass looks at the capacity again before every start, so a
\* list that has gone stale does not matter.
LEMMA PassWithinLimit ==
    ASSUME IInv, NEW p \in Passes, StartListed(p), NEW j \in Jobs, Admitted(j)
    PROVE  WithinLimit
<1> DEFINE waiting == {e \in listed[p] : active[e[1]] = NoTask}
           A == ActiveJobs(active)
<1>1. PICK S \in SUBSET waiting :
         /\ Cardinality(S) = IF Cardinality(waiting) < Room
                             THEN Cardinality(waiting) ELSE Room
         /\ Launch({e[1] : e \in S})
  BY DEF StartListed
<1> DEFINE started == {e[1] : e \in S}
           first == [e \in S |-> e[1]]
<1>2. waiting \in SUBSET (Jobs \X Priority)
  BY DEF IInv, TypeOK
<1>3. IsFiniteSet(Jobs \X Priority)
  <2>1. IsFiniteSet(0..MaxPriority)
    BY StoreAssumption, FS_Interval
  <2>2. IsFiniteSet(Jobs) /\ IsFiniteSet(Priority)
    BY <2>1, QueueAssumption DEF Priority
  <2> QED BY <2>2, FS_Product
<1>4. IsFiniteSet(waiting) /\ Cardinality(waiting) \in Nat
  <2> HIDE DEF waiting
  <2> QED BY <1>2, <1>3, FS_Subset, FS_CardinalityType
<1>5. IsFiniteSet(S) /\ Cardinality(S) \in Nat
  <2> HIDE DEF waiting
  <2> QED BY <1>4, FS_Subset, FS_CardinalityType
<1>6. first \in Surjection(S, started)
  BY DEF Surjection
<1>7. IsFiniteSet(started) /\ Cardinality(started) <= Cardinality(S)
  <2> HIDE DEF started, first
  <2> QED BY <1>5, <1>6, FS_Surjection
<1>8. started \cap A = {}
  BY DEF ActiveJobs
<1>9. ActiveJobs(active') = A \cup started
  <2>1. \A k \in started : k \in Jobs /\ FreeSlots(k) # {}
    BY <1>1, <1>2 DEF Launch
  <2>2. ASSUME NEW k \in started PROVE FreeSlot(k) # NoTask
    <3>1. k \in Jobs /\ FreeSlots(k) # {}
      BY <2>1, <2>2
    <3>2. FreeSlot(k) \in Slots
      BY <3>1, FreeSlotType
    <3> QED BY <3>2 DEF Slots, NoTask
  <2>3. active' = [k \in Jobs |-> IF k \in started THEN FreeSlot(k) ELSE active[k]]
    BY <1>1 DEF Launch
  <2> HIDE DEF started
  <2> QED BY <2>1, <2>2, <2>3 DEF ActiveJobs
<1>10. IsFiniteSet(A) /\ Cardinality(A) \in Nat
  BY ActiveJobsFinite
<1>11. Cardinality(ActiveJobs(active')) = Cardinality(A) + Cardinality(started)
  <2> HIDE DEF A, started
  <2>1. Cardinality(A \cap started) = 0
    <3>1. A \cap started = {}
      BY <1>8
    <3> QED BY <3>1, FS_EmptySet
  <2>2. Cardinality(A \cup started)
          = Cardinality(A) + Cardinality(started) - Cardinality(A \cap started)
    BY <1>7, <1>10, FS_Union
  <2>3. Cardinality(started) \in Nat
    BY <1>7, FS_CardinalityType
  <2>4. Cardinality(A \cup started) = Cardinality(A) + Cardinality(started)
    BY <1>10, <2>1, <2>2, <2>3
  <2> QED BY <1>9, <2>4, Zenon
<1>12. limit \in Nat /\ Room \in Nat
  BY <1>10 DEF Room, IInv, TypeOK
<1>13. Cardinality(started) \in Nat /\ Cardinality(started) <= Room
  <2> HIDE DEF started, waiting
  <2> QED BY <1>1, <1>4, <1>5, <1>7, <1>12, FS_CardinalityType
<1>14. started # {}
  BY <1>9 DEF Admitted, ActiveJobs
<1>15. Cardinality(started) # 0
  <2> HIDE DEF started
  <2> QED BY <1>7, <1>14, FS_EmptySet
<1> HIDE DEF started
<1> QED BY <1>10, <1>11, <1>12, <1>13, <1>15 DEF Room, WithinLimit

\* A job without a task is only given one while the limit has room for it,
\* or by its own force start (AgentService.enqueueDownload, startDownload and
\* scheduleQueuedDownloads), for any limit, jobs, callers and passes.
THEOREM AdmissionRespectsLimit == Spec => AdmissionWithinLimit
<1> DEFINE Good == \A j \in Jobs : Admitted(j) =>
                      \/ WithinLimit
                      \/ ForceStarting(j)
<1>1. ASSUME IInv, [Next]_vars
      PROVE  [Good]_vars
  <2> SUFFICES ASSUME Next, NEW j \in Jobs, Admitted(j)
               PROVE  WithinLimit \/ ForceStarting(j)
    BY <1>1
  <2> USE <1>1
  <2>1. active' # active
    BY DEF Admitted
  <2>2. ASSUME NEW w \in Tasks, TaskStep(w) PROVE FALSE
    <3>1. FinishDownload(w)
      BY <2>1, <2>2
      DEF TaskStep, CheckQueued, ReadQueued, WriteRunning, Extract, ReadActive,
          WriteVerification, ClaimTransfer, WriteActive, CheckTransfer, ReadCurrent,
          WritePrepared, Progress, ReadProgress, WriteProgress, TransferThrows,
          StagingFailed, ReadFallback, WriteFallback, Materialized, ReadUploading,
          WriteUploading, Transferred, ReadDone, WriteDone, Fail, ReadFailed,
          WriteFailed, Pass, Fetch, Save, Report, Step
    <3> QED BY <3>1 DEF FinishDownload, Admitted, IInv, TypeOK, Tasks
  <2>3. ASSUME NEW p \in Passes, ListQueued(p) \/ StartListed(p)
        PROVE  WithinLimit
    BY <2>1, <2>3, PassWithinLimit DEF ListQueued
  <2>4. ASSUME NEW c \in Callers, CallStep(c) \/ CallContinues(c)
        PROVE  WithinLimit \/ ForceStarting(j)
    <3>1. CASE RemoveJob(c)
      BY <3>1 DEF RemoveJob, Admitted, IInv, TypeOK
    <3>2. CASE EnqueueCreated(c)
      <4>1. PICK k \in target[c] : EnqueueDownload(k)
        BY <3>2 DEF EnqueueCreated
      <4> QED BY <4>1, EnqueueWithinLimit DEF IInv, TypeOK
    <3>3. CASE TakeEffect(c)
      <4>1. PICK k \in target[c] :
               CASE cact[c] \in {"pause", "cancel"} ->
                       /\ cancelled' = [w \in Tasks |->
                               cancelled[w] \/ (w[1] = k /\ Owns(w))]
                       /\ UNCHANGED <<active, pc>>
                 [] cact[c] \in {"resume", "retry"} ->
                       EnqueueDownload(k) /\ UNCHANGED cancelled
                 [] cact[c] = "forceStart" ->
                       StartDownload(k) /\ UNCHANGED cancelled
        BY <3>3 DEF TakeEffect
      <4>2. k \in Jobs /\ cact[c] \in JobAction /\ cstep[c] = "effect"
        BY <3>3 DEF IInv, TypeOK, TakeEffect
      <4>3. CASE cact[c] \in {"resume", "retry"}
        BY <4>1, <4>2, <4>3, EnqueueWithinLimit
      <4>4. CASE cact[c] = "forceStart"
        <5>1. StartDownload(k)
          BY <4>1, <4>4
        <5>2. j = k
          BY <5>1 DEF StartDownload, Launch, Admitted
        <5> QED BY <4>2, <4>4, <5>2 DEF ForceStarting
      <4>5. CASE cact[c] \in {"pause", "cancel"}
        BY <2>1, <4>1, <4>5
      <4> QED BY <4>2, <4>3, <4>4, <4>5 DEF JobAction
    <3> QED
      BY <2>1, <2>4, <3>1, <3>2, <3>3
      DEF CallStep, CallContinues, CreateJob, ApplyAction, ReorderQueuedJobs,
          SetMaximumConcurrentDownloads, InsertJob, UpdateApplied, DeleteRow,
          ScheduleAfterDelete, WriteReordered
  <2>5. ~Recover
    BY <2>1 DEF Recover, RecoverList, RecoverWrite, RecoverSchedule, RecoverFrame
  <2>6. ~Crash
    BY DEF Crash, Admitted
  <2> QED BY <2>2, <2>3, <2>4, <2>5, <2>6 DEF Next
<1>2. IInv /\ [Next]_vars => [Good]_vars
  BY <1>1
<1>3. [][Good]_vars => AdmissionWithinLimit
  BY PTL DEF AdmissionWithinLimit, Admitted, WithinLimit, ForceStarting
<1> HIDE DEF Good
<1> QED BY <1>2, <1>3, Invariance, PTL DEF Spec
-----------------------------------------------------------------------------
(* The life of a row.                                                      *)

\* Callers only create and remove jobs and change the limit, and wait for
\* recovery: nothing writes back a record read before the row was changed.
SingleWrites == Uses \subseteq {"create", "remove", "limit"} /\ ~EarlyCalls

\* The row no longer matters: it is deleted, or a removal is about to.
Gone(j) == ~Present(rows[j]) \/ Due(j, "delete")

\* A job nothing but createJob knows of.
Unseen(j) ==
    /\ ~Present(rows[j])
    /\ \A s \in Slots : pc[<<j, s>>] = "idle"
    /\ \A p \in Passes : \A e \in listed[p] : e[1] # j

\* The steps at which a task has claimed its job, and those among them (and
\* the claim itself) at which it holds a record that says `running'.
Attempting == Busy \ {"start", "readQueued", "writeRunning", "finish"}

HoldsRunning ==
    {"writeRunning", "claimTransfer", "writeActive", "checkTransfer", "readCurrent",
     "writePrepared", "writeProgress", "writeFallback", "writeUploading"}

\* The demands of a step on the record held, and on the row.
Holds(step, status) ==
    /\ step \in HoldsRunning => status = "running"
    /\ step = "writeVerification" => status = "verificationRequired"
    /\ step = "writeDone" => status = "completed"
    /\ step = "writeFailed" => status = "failed"

Suits(step, status) ==
    /\ step \in Attempting => status = "running"
    /\ step = "writeRunning" => status = "queued"
    /\ step \in {"start", "readQueued", "finish"} => status # "running"

Standing(w) ==
    /\ Holds(pc[w], snap[w].status)
    /\ Gone(w[1]) \/ Suits(pc[w], rows[w[1]].status)

\* Nothing runs before recovery is done, which requeues what ran.
RecoveryFirst ==
    /\ rstep # "done" =>
         /\ \A w \in Tasks : pc[w] = "idle"
         /\ \A c \in Callers : cstep[c] = "idle"
         /\ \A p \in Passes : pstep[p] = "idle"
    /\ rstep # "write" => \A j \in Jobs : ~Present(rtodo[j])
    /\ rstep = "write" => \A j \in Jobs :
         /\ Present(rtodo[j]) <=> rows[j].status = "running"
         /\ Present(rtodo[j]) => rtodo[j].status = "queued"

\* A call is about one job, and that of an INSERT is its own.
CallsApart ==
    \A c \in Callers :
        /\ cstep[c] \in {"idle", "insert", "enqueue", "delete", "deleted"}
        /\ target[c] \subseteq created
        /\ cstep[c] \in {"insert", "enqueue", "delete"} => \E j \in Jobs : target[c] = {j}
        /\ cstep[c] = "insert" => \A j \in target[c] :
             /\ todo[c][j].status = "queued"
             /\ \A d \in Callers : j \in target[d] => d = c

\* Only a removal cancels a task, and takes the slot from it.
CancelledByRemoval ==
    \A w \in Tasks :
        /\ cancelled[w] => pc[w] # "idle" /\ ~Owns(w)
        /\ pc[w] # "idle" /\ ~Owns(w) => Gone(w[1])

LifeInv ==
    /\ RecoveryFirst
    /\ CallsApart
    /\ \A j \in Jobs : j \notin created \/ Due(j, "insert") => Unseen(j)
    /\ CancelledByRemoval
    /\ \A w \in Tasks : Standing(w)
    /\ RunningHasWorker

LEMMA OthersAreGone ==
    ASSUME IInv, LifeInv, NEW w \in Tasks, NEW v \in Tasks,
           v # w, v[1] = w[1], pc[v] # "idle", pc[w] # "idle"
    PROVE  Gone(w[1])
<1>1. w[2] # v[2]
  BY DEF Tasks
<1> QED BY <1>1 DEF LifeInv, CancelledByRemoval, Owns

-----------------------------------------------------------------------------
(* The steps of a task, while an attempt lasts.                            *)

\* A step between two steps of processQueuedJob is the task's own business.
Moves(w) ==
    /\ pc[w] \in Busy /\ pc'[w] \in Busy
    /\ pc' = [pc EXCEPT ![w] = pc'[w]]
    /\ \A j \in Jobs : j # w[1] => rows'[j] = rows[j]
    /\ Present(rows'[w[1]]) <=> Present(rows[w[1]])
    /\ \A v \in Tasks : v # w => snap'[v] = snap[v]
    /\ UNCHANGED <<active, cancelled, limit, callVars, passVars, recoverVars, crashes>>

\* The row takes a step of its life, if it matters.
Lives(j) ==
    \/ Gone(j)
    \/ rows'[j].status = rows[j].status
    \/ /\ rows[j].status = "queued"
       /\ rows'[j].status = "running"
    \/ /\ rows[j].status = "running"
       /\ rows'[j].status \in {"completed", "failed", "verificationRequired"}

Proceeds(w) == Moves(w) /\ Standing(w)' /\ Lives(w[1])

LEMMA StepProceeds ==
    ASSUME IInv, LifeInv, NEW w \in Tasks, NEW from \in Busy, NEW to \in Busy,
           Step(w, from, to),
           rows' = rows \/ (rows' = Replaced(rows, w[1], snap[w]) /\ Present(snap[w])),
           \A v \in Tasks : v # w => snap'[v] = snap[v],
           Holds(to, snap'[w].status),
           Gone(w[1]) \/ (Suits(to, rows'[w[1]].status) /\ Lives(w[1]))
    PROVE  Proceeds(w)
<1>1. w[1] \in Jobs /\ rows \in [Jobs -> Row] /\ pc \in [Tasks -> TaskSteps]
  BY DEF IInv, TypeOK, Tasks
<1>2. Moves(w) /\ pc'[w] = to
  BY <1>1 DEF Moves, Step, Goto, At, Elsewhere, Replaced
<1>3. Gone(w[1])' <=> Gone(w[1])
  BY <1>2 DEF Moves, Gone, Due, callVars
<1>4. Lives(w[1])
  BY DEF Lives
<1>5. Holds(pc'[w], snap'[w].status) /\ (Gone(w[1])' \/ Suits(pc'[w], rows'[w[1]].status))
  BY <1>2, <1>3
<1>6. Standing(w)'
  BY <1>5 DEF Standing
<1> QED BY <1>2, <1>4, <1>6 DEF Proceeds

LEMMA PassProceeds ==
    ASSUME IInv, LifeInv, NEW w \in Tasks, NEW from \in Busy, NEW to \in Busy,
           Pass(w, from, to),
           \A held \in JobStatus \cup {"absent"} : Holds(from, held) => Holds(to, held),
           \/ Gone(w[1])
           \/ \A status \in JobStatus \cup {"absent"} : Suits(from, status) => Suits(to, status)
    PROVE  Proceeds(w)
<1>1. snap[w].status \in JobStatus \cup {"absent"} /\ rows[w[1]].status \in JobStatus \cup {"absent"}
  BY DEF IInv, TypeOK, Tasks, Row
<1>2. Standing(w) /\ pc[w] = from
  BY DEF LifeInv, Pass, Step, At
<1>3. Step(w, from, to) /\ rows' = rows /\ snap' = snap
  BY DEF Pass
<1>4. Holds(to, snap'[w].status) /\ (Gone(w[1]) \/ Suits(to, rows'[w[1]].status))
  BY <1>1, <1>2, <1>3 DEF Standing
<1>5. Lives(w[1])
  BY <1>3 DEF Lives
<1> QED BY <1>3, <1>4, <1>5, StepProceeds

LEMMA FetchProceeds ==
    ASSUME IInv, LifeInv, NEW w \in Tasks, NEW from \in Busy, NEW status \in JobStatus,
           NEW edited \in Row, NEW to \in Busy, NEW otherwise \in Busy,
           Fetch(w, from, status, edited, to, otherwise),
           rows[w[1]].status = status => Holds(to, edited.status),
           Suits(to, status),
           \A held \in JobStatus \cup {"absent"} : Holds(otherwise, held),
           \/ Gone(w[1])
           \/ \A other \in (JobStatus \cup {"absent"}) \ {status} :
                 Suits(from, other) => Suits(otherwise, other)
    PROVE  Proceeds(w)
<1> DEFINE next == IF rows[w[1]].status = status THEN to ELSE otherwise
<1>1. snap[w] \in Row /\ rows[w[1]].status \in JobStatus \cup {"absent"}
  BY DEF IInv, TypeOK, Tasks, Row
<1>2. Standing(w) /\ pc[w] = from /\ Step(w, from, next) /\ rows' = rows
  BY DEF LifeInv, Fetch, Step, At
<1>3. /\ \A v \in Tasks : v # w => snap'[v] = snap[v]
      /\ snap'[w] = IF rows[w[1]].status = status THEN edited ELSE snap[w]
  BY DEF Fetch, IInv, TypeOK
<1>4. Holds(next, snap'[w].status)
  BY <1>1, <1>3 DEF Row
<1>5. Gone(w[1]) \/ Suits(next, rows'[w[1]].status)
  BY <1>1, <1>2 DEF Standing
<1>6. Lives(w[1]) /\ next \in Busy
  BY <1>2 DEF Lives
<1> HIDE DEF next
<1> QED BY <1>2, <1>3, <1>4, <1>5, <1>6, StepProceeds

\* Once its attempt has begun a task reads the row of a running job.
LEMMA RereadProceeds ==
    ASSUME IInv, LifeInv, NEW w \in Tasks, NEW from \in Attempting, NEW edited \in Row,
           NEW to \in Busy, NEW otherwise \in Origins \cup {"finish"},
           Fetch(w, from, "running", edited, to, otherwise),
           rows[w[1]].status = "running" => Holds(to, edited.status),
           Suits(to, "running")
    PROVE  Proceeds(w)
<1>1. from \in Busy /\ otherwise \in Busy /\ \A held : Holds(otherwise, held)
  BY DEF Attempting, Origins, Busy, TaskSteps, Holds, HoldsRunning
<1>2. \A other : Suits(from, other) => other = "running"
  BY DEF Suits
<1> QED BY <1>1, <1>2, FetchProceeds DEF JobStatus

LEMMA SaveProceeds ==
    ASSUME IInv, LifeInv, NEW w \in Tasks, NEW from \in Busy, NEW to \in Busy,
           NEW old \in JobStatus, NEW status \in JobStatus,
           Save(w, from, to), snap[w].status = status,
           \A s \in JobStatus \cup {"absent"} : Suits(from, s) => s = old,
           Holds(to, "absent"), Suits(to, status),
           \/ old = status
           \/ old = "queued" /\ status = "running"
           \/ old = "running" /\ status \in {"completed", "failed", "verificationRequired"}
    PROVE  Proceeds(w)
<1>1. /\ w[1] \in Jobs /\ rows \in [Jobs -> Row] /\ snap \in [Tasks -> Row]
      /\ rows[w[1]].status \in JobStatus \cup {"absent"}
  BY DEF IInv, TypeOK, Tasks, Row
<1>2. Standing(w) /\ pc[w] = from /\ Step(w, from, to)
  BY DEF LifeInv, Save, Step, At
<1>3. rows' = Replaced(rows, w[1], snap[w]) /\ Present(snap[w])
  BY DEF Save, Present, JobStatus
<1>4. snap'[w] = NoRow /\ \A v \in Tasks : v # w => snap'[v] = snap[v]
  BY <1>1 DEF Save
<1>5. Gone(w[1]) \/ rows[w[1]].status = old
  BY <1>1, <1>2 DEF Standing
<1>6. Gone(w[1]) \/ rows'[w[1]].status = status
  BY <1>1, <1>3 DEF Gone, Replaced
<1>7. Gone(w[1]) \/ (Suits(to, rows'[w[1]].status) /\ Lives(w[1]))
  BY <1>5, <1>6 DEF Lives
<1> QED BY <1>2, <1>3, <1>4, <1>7, StepProceeds DEF NoRow

LEMMA ReportProceeds ==
    ASSUME IInv, LifeInv, NEW w \in Tasks, NEW from \in Origins, NEW resume \in Origins,
           Report(w, from, resume)
    PROVE  Proceeds(w)
<1>1. /\ {from, resume, "readProgress"} \subseteq Busy
      /\ \A held : Holds("readProgress", held) /\ Holds(resume, held)
      /\ \A s : Suits(from, s) => Suits("readProgress", s) /\ Suits(resume, s)
  BY DEF Origins, Busy, TaskSteps, Holds, Suits, HoldsRunning, Attempting
<1>2. PICK to \in {"readProgress", resume} : Step(w, from, to)
  BY DEF Report
<1>3. rows' = rows /\ snap' = snap
  BY DEF Report
<1>4. Standing(w) /\ pc[w] = from
  BY <1>2 DEF LifeInv, Step, At
<1>5. Gone(w[1]) \/ Suits(to, rows'[w[1]].status)
  BY <1>1, <1>2, <1>3, <1>4 DEF Standing
<1>6. Holds(to, snap'[w].status) /\ to \in Busy /\ from \in Busy
  BY <1>1
<1> QED BY <1>2, <1>3, <1>5, <1>6, StepProceeds DEF Lives

LEMMA TaskProceeds ==
    ASSUME IInv, LifeInv, NEW w \in Tasks, TaskStep(w), ~FinishDownload(w)
    PROVE  Proceeds(w)
<1> DEFINE row == rows[w[1]]
<1>1. /\ row \in Row /\ snap[w] \in Row
      /\ back[w] \in Origins /\ Origins \subseteq Busy
      /\ Holds(pc[w], snap[w].status)
      /\ \A s \in JobStatus : WithStatus(row, s) \in Row /\ WithStatus(row, s).status = s
      /\ ~Owns(w) /\ pc[w] # "idle" => Gone(w[1])
      /\ cancelled[w] => ~Owns(w)
  BY RowTypes DEF IInv, TypeOK, Tasks, Origins, Busy, TaskSteps, LifeInv, Standing,
     CancelledByRemoval, WithStatus, Row
<1>w. \A from, to \in TaskSteps : Step(w, from, to) => pc[w] = from
  BY DEF Step, At
<1> USE DEF Busy, TaskSteps, JobStatus, Holds, Suits, HoldsRunning, Attempting
<1>3. CASE CheckQueued(w)
  BY <1>1, <1>3, PassProceeds DEF CheckQueued, Pass, Step, At
<1>4. CASE ReadQueued(w)
  BY <1>1, <1>4, FetchProceeds DEF ReadQueued
<1>5. CASE WriteRunning(w)
  <2>1. snap[w].status = "running"
    BY <1>1, <1>5 DEF WriteRunning, Save, Step, At
  <2>2. Save(w, "writeRunning", "extract")
    BY <1>5 DEF WriteRunning
  <2> QED BY <2>1, <2>2, SaveProceeds
<1>6. CASE Extract(w)
  BY <1>1, <1>6, PassProceeds DEF Extract, Pass, Step, At
<1>7. CASE ReadActive(w)
  <2>1. CASE Fetch(w, "readActive", "running", row, "claimTransfer", "finish")
    BY <1>1, <2>1, RereadProceeds
  <2>2. CASE Fetch(w, "readActive", "running", row, "fail", "finish")
    BY <1>1, <2>2, RereadProceeds
  <2>3. CASE Fetch(w, "readActive", "running", WithStatus(row, "verificationRequired"),
                   "writeVerification", "finish")
    BY <1>1, <2>3, RereadProceeds
  <2> QED BY <1>7, <2>1, <2>2, <2>3 DEF ReadActive
<1>8. CASE WriteVerification(w)
  <2>1. snap[w].status = "verificationRequired" /\ Save(w, "writeVerification", "finish")
    BY <1>1, <1>8 DEF WriteVerification, Save, Step, At
  <2> QED BY <2>1, SaveProceeds
<1>9. CASE ClaimTransfer(w)
  BY <1>1, <1>9, PassProceeds DEF ClaimTransfer, Pass, Step, At
<1>10. CASE WriteActive(w)
  <2>1. /\ Step(w, "writeActive", "checkTransfer") /\ snap' = snap
        /\ rows' = Replaced(rows, w[1], snap[w])
        /\ pc[w] = "writeActive" /\ snap[w].status = "running"
    BY <1>1, <1>10 DEF WriteActive, Step, At
  <2>2. Gone(w[1]) \/ row.status = "running"
    BY <2>1 DEF LifeInv, Standing
  <2>3. w[1] \in Jobs /\ rows \in [Jobs -> Row]
    BY DEF IInv, TypeOK, Tasks
  <2>4. Gone(w[1]) \/ rows'[w[1]].status = "running"
    BY <2>1, <2>3 DEF Gone, Replaced
  <2> QED BY <2>1, <2>2, <2>4, StepProceeds DEF Present, Lives
<1>11. CASE CheckTransfer(w)
  BY <1>1, <1>11, PassProceeds DEF CheckTransfer, Pass, Step, At
<1>12. CASE ReadCurrent(w)
  <2>1. PICK r \in Routes :
           /\ Step(w, "readCurrent",
                   IF row.status # "running" THEN "finish"
                   ELSE IF r = "local" THEN "transfer" ELSE "writePrepared")
           /\ UNCHANGED <<rows, snap, back>>
    BY <1>12 DEF ReadCurrent
  <2>2. pc[w] = "readCurrent" /\ snap[w].status = "running"
    BY <1>1, <2>1 DEF Step, At
  <2>3. Gone(w[1]) \/ row.status = "running"
    BY <2>2 DEF LifeInv, Standing
  <2> QED BY <2>1, <2>2, <2>3, StepProceeds DEF Lives
<1>13. CASE WritePrepared(w)
  <2>1. ASSUME NEW to \in {"materialize", "stage", "transfer"}, Save(w, "writePrepared", to)
        PROVE  Proceeds(w)
    <3>1. snap[w].status = "running"
      BY <1>1, <2>1 DEF Save, Step, At
    <3> QED BY <2>1, <3>1, SaveProceeds
  <2>2. CASE Pass(w, "writePrepared", "fail")
    BY <2>2, PassProceeds
  <2>3. CASE Save(w, "writePrepared",
                  CASE route[w] = "staged" -> "materialize"
                    [] route[w] = "cloud"  -> "stage"
                    [] OTHER               -> "transfer")
    <3>1. CASE route[w] = "staged"  BY <2>1, <2>3, <3>1
    <3>2. CASE route[w] = "cloud"   BY <2>1, <2>3, <3>2
    <3>3. CASE route[w] \notin {"staged", "cloud"}
      <4>1. Save(w, "writePrepared", "transfer")  BY <2>3, <3>3
      <4> QED BY <2>1, <4>1
    <3> QED BY <3>1, <3>2, <3>3
  <2> QED BY <1>13, <2>2, <2>3 DEF WritePrepared
<1>14. CASE Progress(w)
  BY <1>14, ReportProceeds DEF Progress, Origins
<1>15. CASE ReadProgress(w)
  <2>1. CASE Fetch(w, "readProgress", "running", row, "writeProgress", back[w])
    <3>1. "readProgress" \in Attempting /\ "writeProgress" \in Busy /\ Suits("writeProgress", "running")
      OBVIOUS
    <3>2. back[w] \in Origins \cup {"finish"} /\ (row.status = "running" => Holds("writeProgress", row.status))
      BY <1>1
    <3> HIDE DEF Busy, TaskSteps, JobStatus, Holds, Suits, HoldsRunning, Attempting
    <3> QED BY <1>1, <2>1, <3>1, <3>2, RereadProceeds
  <2>2. CASE Pass(w, "readProgress", back[w])
    BY <1>1, <2>2, PassProceeds DEF Origins
  <2> QED BY <1>15, <2>1, <2>2 DEF ReadProgress
<1>16. CASE WriteProgress(w)
  <2>1. snap[w].status = "running" /\ Save(w, "writeProgress", back[w])
    BY <1>1, <1>16 DEF WriteProgress, Save, Step, At
  <2> QED BY <1>1, <2>1, SaveProceeds DEF Origins
<1>17. CASE TransferThrows(w)
  <2>1. PICK from \in {"materialize", "stage", "transfer"} :
           \/ Pass(w, from, "fail")
           \/ cancelled[w] /\ Pass(w, from, "finish")
    BY <1>17 DEF TransferThrows
  <2> QED BY <1>1, <2>1, PassProceeds DEF Pass, Step, At
<1>18. CASE StagingFailed(w)
  BY <1>18, ReportProceeds DEF StagingFailed, Origins
<1>19. CASE ReadFallback(w)
  BY <1>1, <1>19, RereadProceeds DEF ReadFallback, Origins
<1>20. CASE WriteFallback(w)
  <2>1. snap[w].status = "running" /\ Save(w, "writeFallback", "transfer")
    BY <1>1, <1>20 DEF WriteFallback, Save, Step, At
  <2> QED BY <1>1, <2>1, SaveProceeds
<1>21. CASE Materialized(w)
  BY <1>21, PassProceeds DEF Materialized
<1>22. CASE ReadUploading(w)
  BY <1>1, <1>22, RereadProceeds DEF ReadUploading
<1>23. CASE WriteUploading(w)
  <2>1. snap[w].status = "running" /\ Save(w, "writeUploading", "transfer")
    BY <1>1, <1>23 DEF WriteUploading, Save, Step, At
  <2> QED BY <1>1, <2>1, SaveProceeds
<1>24. CASE Transferred(w)
  <2>1. PICK from \in {"stage", "transfer"} :
           Pass(w, from, IF ~cancelled[w] /\ Owns(w) THEN "readDone" ELSE "finish")
    BY <1>24 DEF Transferred
  <2> QED BY <1>1, <2>1, PassProceeds DEF Pass, Step, At
<1>25. CASE ReadDone(w)
  BY <1>1, <1>25, RereadProceeds DEF ReadDone
<1>26. CASE WriteDone(w)
  <2>1. snap[w].status = "completed" /\ Save(w, "writeDone", "finish")
    BY <1>1, <1>26 DEF WriteDone, Save, Step, At
  <2> QED BY <1>1, <2>1, SaveProceeds
<1>27. CASE Fail(w)
  BY <1>1, <1>27, PassProceeds DEF Fail, Pass, Step, At
<1>28. CASE ReadFailed(w)
  BY <1>1, <1>28, RereadProceeds DEF ReadFailed
<1>29. CASE WriteFailed(w)
  <2>1. snap[w].status = "failed" /\ Save(w, "writeFailed", "finish")
    BY <1>1, <1>29 DEF WriteFailed, Save, Step, At
  <2> QED BY <1>1, <2>1, SaveProceeds
<1> QED
  BY <1>3, <1>4, <1>5, <1>6, <1>7, <1>8, <1>9, <1>10, <1>11, <1>12, <1>13, <1>14,
     <1>15, <1>16, <1>17, <1>18, <1>19, <1>20, <1>21, <1>22, <1>23, <1>24, <1>25,
     <1>26, <1>27, <1>28, <1>29
  DEF TaskStep
LEMMA ProceedsKeeps ==
    ASSUME IInv, LifeInv, NEW w \in Tasks, Proceeds(w)
    PROVE  LifeInv'
<1>1. /\ pc[w] # "idle" /\ pc'[w] # "idle"
      /\ \A v \in Tasks : v # w => pc'[v] = pc[v] /\ snap'[v] = snap[v]
      /\ \A j \in Jobs : j # w[1] => rows'[j] = rows[j]
      /\ Present(rows'[w[1]]) <=> Present(rows[w[1]])
      /\ UNCHANGED <<active, cancelled, created, cstep, target, todo, pstep, listed,
                     rstep, rtodo>>
      /\ w[1] \in Jobs /\ w = <<w[1], w[2]>> /\ w[2] \in Slots
  BY DEF Proceeds, Moves, Busy, callVars, passVars, recoverVars, IInv, TypeOK, Tasks
<1>2. \A j \in Jobs : /\ Present(rows'[j]) <=> Present(rows[j])
                      /\ Due(j, "delete")' <=> Due(j, "delete")
                      /\ Due(j, "insert")' <=> Due(j, "insert")
                      /\ Gone(j)' <=> Gone(j)
  BY <1>1 DEF Due, Gone
<1>3. rstep = "done"
  BY <1>1 DEF LifeInv, RecoveryFirst
<1>4. RecoveryFirst'
  BY <1>1, <1>3 DEF LifeInv, RecoveryFirst
<1>5. CallsApart'
  BY <1>1 DEF LifeInv, CallsApart
<1>6. ASSUME NEW j \in Jobs, (j \notin created \/ Due(j, "insert"))'
      PROVE  Unseen(j)'
  <2>1. Unseen(j)
    BY <1>1, <1>2, <1>6 DEF LifeInv
  <2>2. \A s \in Slots : <<j, s>> \in Tasks /\ <<j, s>> # w
    BY <1>1, <2>1 DEF Unseen, Tasks
  <2> QED BY <1>1, <1>2, <2>1, <2>2 DEF Unseen
<1>7. CancelledByRemoval'
  <2> SUFFICES ASSUME NEW v \in Tasks
               PROVE  /\ cancelled[v] => pc'[v] # "idle" /\ ~Owns(v)
                      /\ pc'[v] # "idle" /\ ~Owns(v) => Gone(v[1])'
    BY <1>1 DEF CancelledByRemoval, Owns
  <2>1. v[1] \in Jobs
    BY DEF Tasks
  <2> QED BY <1>1, <1>2, <2>1 DEF LifeInv, CancelledByRemoval
<1>8. ASSUME NEW v \in Tasks PROVE Standing(v)'
  <2>1. v[1] \in Jobs /\ Standing(v)
    BY DEF Tasks, LifeInv
  <2>2. CASE v = w
    BY <2>2 DEF Proceeds
  <2>3. CASE v # w /\ v[1] # w[1]
    BY <1>1, <1>2, <2>1, <2>3 DEF Standing
  <2>4. CASE v # w /\ v[1] = w[1] /\ pc[v] = "idle"
    BY <1>1, <2>1, <2>4 DEF Standing, Holds, Suits, HoldsRunning, Attempting, Busy
  <2>5. CASE v # w /\ v[1] = w[1] /\ pc[v] # "idle"
    <3>1. Gone(w[1])
      BY <1>1, <2>5, OthersAreGone
    <3> QED BY <1>1, <1>2, <2>1, <2>5, <3>1 DEF Standing
  <2> QED BY <2>2, <2>3, <2>4, <2>5
<1>9. RunningHasWorker'
  <2> SUFFICES ASSUME NEW j \in Jobs, rows'[j].status = "running"
               PROVE  active[j] # NoTask \/ Due(j, "delete")
    BY <1>1 DEF RunningHasWorker, Due
  <2>1. CASE j # w[1]
    BY <1>1, <1>3, <2>1 DEF LifeInv, RunningHasWorker, RecoveryFirst, Due
  <2>2. CASE j = w[1] /\ Owns(w)
    BY <1>1, <2>2 DEF Owns, Slots, NoTask
  <2>3. CASE j = w[1] /\ ~Owns(w)
    <3>1. Gone(j) /\ Present(rows[j])
      BY <1>1, <1>2, <2>3 DEF LifeInv, CancelledByRemoval, Present
    <3> QED BY <3>1 DEF Gone
  <2> QED BY <2>1, <2>2, <2>3
<1> QED BY <1>4, <1>5, <1>6, <1>7, <1>8, <1>9 DEF LifeInv

LEMMA FinishLives ==
    ASSUME IInv, LifeInv, NEW w \in Tasks, FinishDownload(w)
    PROVE  LifeInv'
<1>1. /\ pc[w] = "finish" /\ pc' = [pc EXCEPT ![w] = "idle"]
      /\ snap' = [snap EXCEPT ![w] = NoRow]
      /\ cancelled' = [cancelled EXCEPT ![w] = FALSE]
      /\ active' = IF Owns(w) THEN [active EXCEPT ![w[1]] = NoTask] ELSE active
      /\ UNCHANGED <<rows, created, cstep, target, todo, listed, rstep, rtodo>>
  BY DEF FinishDownload, At, Goto, Releases, callVars, recoverVars
<1>2. w[1] \in Jobs /\ w = <<w[1], w[2]>> /\ w[2] \in Slots /\ Standing(w)
  BY DEF Tasks, LifeInv
<1>3. rstep = "done"
  BY <1>1 DEF LifeInv, RecoveryFirst
<1>4. \A j \in Jobs : /\ Due(j, "delete")' <=> Due(j, "delete")
                      /\ Due(j, "insert")' <=> Due(j, "insert")
                      /\ Gone(j)' <=> Gone(j)
  BY <1>1 DEF Due, Gone
<1>5. RecoveryFirst'
  BY <1>1, <1>3 DEF LifeInv, RecoveryFirst
<1>6. CallsApart'
  BY <1>1 DEF LifeInv, CallsApart
<1>7. ASSUME NEW j \in Jobs, (j \notin created \/ Due(j, "insert"))'
      PROVE  Unseen(j)'
  <2>1. Unseen(j)
    BY <1>1, <1>4, <1>7 DEF LifeInv
  <2>2. \A s \in Slots : pc'[<<j, s>>] = "idle"
    BY <1>1, <2>1 DEF Unseen, IInv, TypeOK, Tasks
  <2> QED BY <1>1, <2>1, <2>2 DEF Unseen
<1>8. CancelledByRemoval'
  <2> SUFFICES ASSUME NEW v \in Tasks
               PROVE  /\ cancelled'[v] => pc'[v] # "idle" /\ ~(active'[v[1]] = v[2])
                      /\ pc'[v] # "idle" /\ active'[v[1]] # v[2] => Gone(v[1])'
    BY DEF CancelledByRemoval, Owns
  <2>1. v[1] \in Jobs /\ v = <<v[1], v[2]>> /\ v[2] # NoTask
    BY DEF Tasks, Slots, NoTask
  <2>2. CASE v = w
    BY <1>1, <2>2 DEF IInv, TypeOK
  <2>3. CASE v # w
    <3>1. cancelled'[v] = cancelled[v] /\ pc'[v] = pc[v]
      BY <1>1, <2>3
    <3>2. active'[v[1]] = v[2] <=> active[v[1]] = v[2]
      BY <1>1, <1>2, <2>1, <2>3 DEF Owns, IInv, TypeOK
    <3> QED BY <1>4, <2>1, <3>1, <3>2 DEF LifeInv, CancelledByRemoval, Owns
  <2> QED BY <2>2, <2>3
<1>9. ASSUME NEW v \in Tasks PROVE Standing(v)'
  <2>1. v[1] \in Jobs /\ Standing(v)
    BY DEF Tasks, LifeInv
  <2>2. CASE v = w
    <3>1. pc'[v] = "idle"
      BY <1>1, <2>2 DEF IInv, TypeOK
    <3> QED BY <3>1 DEF Standing, Holds, Suits, HoldsRunning, Attempting, Busy
  <2>3. CASE v # w
    BY <1>1, <1>4, <2>1, <2>3 DEF Standing
  <2> QED BY <2>2, <2>3
<1>10. RunningHasWorker'
  <2> SUFFICES ASSUME NEW j \in Jobs, rows[j].status = "running"
               PROVE  active'[j] # NoTask \/ Due(j, "delete")
    BY <1>1 DEF RunningHasWorker, Due
  <2>1. active[j] # NoTask \/ Due(j, "delete")
    BY <1>3 DEF LifeInv, RunningHasWorker, RecoveryFirst, Due
  <2>2. CASE j = w[1]
    <3>1. Gone(j)
      BY <1>1, <1>2, <2>2 DEF Standing, Suits
    <3> QED BY <3>1 DEF Gone, Present
  <2>3. CASE j # w[1]
    BY <1>1, <2>1, <2>3
  <2> QED BY <2>2, <2>3
<1> QED BY <1>5, <1>6, <1>7, <1>8, <1>9, <1>10 DEF LifeInv
-----------------------------------------------------------------------------
(* Launches.                                                               *)

\* Nothing but the tasks and the slots of the jobs launched changes.
LEMMA LaunchLives ==
    ASSUME IInv, LifeInv, NEW S \in SUBSET Jobs, Launch(S),
           rstep = "done",
           \A j \in S : active[j] = NoTask /\ j \in created /\ ~Due(j, "insert"),
           \A p \in Passes : listed'[p] \subseteq listed[p],
           \A j \in Jobs : /\ Due(j, "delete")' <=> Due(j, "delete")
                           /\ Due(j, "insert")' <=> Due(j, "insert"),
           UNCHANGED <<rows, cancelled, snap, created, rstep, rtodo>>
    PROVE  /\ RecoveryFirst'
           /\ \A j \in Jobs : j \notin created' \/ Due(j, "insert")' => Unseen(j)'
           /\ CancelledByRemoval'
           /\ \A w \in Tasks : Standing(w)'
           /\ RunningHasWorker'
<1>1. /\ \A j \in S : FreeSlot(j) \in Slots /\ pc[<<j, FreeSlot(j)>>] = "idle"
      /\ \A j \in Jobs : active'[j] = IF j \in S THEN FreeSlot(j) ELSE active[j]
      /\ \A w \in Tasks : pc'[w] = IF w[1] \in S /\ w[2] = FreeSlot(w[1])
                                   THEN "start" ELSE pc[w]
  BY FreeSlotType DEF Launch
<1>2. \A w \in Tasks : w[1] \in Jobs /\ w[2] \in Slots /\ w[2] # NoTask /\ w = <<w[1], w[2]>>
  BY DEF Tasks, Slots, NoTask
<1>3. \A j \in Jobs : Gone(j)' <=> Gone(j)
  BY DEF Gone
<1>4. RecoveryFirst'
  BY DEF LifeInv, RecoveryFirst
<1>5. ASSUME NEW j \in Jobs, j \notin created' \/ Due(j, "insert")'
      PROVE  Unseen(j)'
  <2>1. Unseen(j) /\ j \notin S
    BY <1>5 DEF LifeInv
  <2>2. \A s \in Slots : pc'[<<j, s>>] = "idle"
    BY <1>1, <2>1 DEF Unseen, Tasks
  <2> QED BY <2>1, <2>2 DEF Unseen
<1>6. CancelledByRemoval'
  <2> SUFFICES ASSUME NEW v \in Tasks
               PROVE  /\ cancelled[v] => pc'[v] # "idle" /\ active'[v[1]] # v[2]
                      /\ pc'[v] # "idle" /\ active'[v[1]] # v[2] => Gone(v[1])'
    BY DEF CancelledByRemoval, Owns
  <2>1. /\ cancelled[v] => pc[v] # "idle" /\ active[v[1]] # v[2]
        /\ pc[v] # "idle" /\ active[v[1]] # v[2] => Gone(v[1])
    BY DEF LifeInv, CancelledByRemoval, Owns
  <2>2. CASE v[1] \in S
    BY <1>1, <1>2, <1>3, <2>1, <2>2
  <2>3. CASE v[1] \notin S
    BY <1>1, <1>2, <1>3, <2>1, <2>3
  <2> QED BY <2>2, <2>3
<1>7. ASSUME NEW v \in Tasks PROVE Standing(v)'
  <2>1. v[1] \in Jobs /\ Standing(v)
    BY DEF Tasks, LifeInv
  <2>2. CASE pc'[v] = pc[v]
    BY <1>3, <2>1, <2>2 DEF Standing
  <2>3. CASE pc'[v] # pc[v]
    <3>1. pc'[v] = "start" /\ active[v[1]] = NoTask
      BY <1>1, <2>3
    <3>2. Gone(v[1]) \/ rows[v[1]].status # "running"
      BY <2>1, <3>1 DEF LifeInv, RunningHasWorker, RecoveryFirst, Gone, Due
    <3> QED BY <1>3, <2>1, <3>1, <3>2
            DEF Standing, Holds, Suits, HoldsRunning, Attempting
  <2> QED BY <2>2, <2>3
<1>8. RunningHasWorker'
  <2> SUFFICES ASSUME NEW j \in Jobs, rows[j].status = "running"
               PROVE  active'[j] # NoTask \/ Due(j, "delete")'
    BY DEF RunningHasWorker, Due
  <2>1. active[j] # NoTask \/ Due(j, "delete")
    BY DEF LifeInv, RunningHasWorker, RecoveryFirst, Due
  <2> QED BY <1>1, <2>1 DEF Slots, NoTask
<1> QED BY <1>4, <1>5, <1>6, <1>7, <1>8

LEMMA PassesLive ==
    ASSUME IInv, LifeInv, NEW p \in Passes, ListQueued(p) \/ StartListed(p)
    PROVE  LifeInv'
<1>1. pstep[p] # "idle" /\ rstep = "done"
  BY DEF ListQueued, StartListed, LifeInv, RecoveryFirst
<1>2. UNCHANGED <<rows, cancelled, snap, created, cstep, target, todo, rstep, rtodo>>
  BY DEF ListQueued, StartListed, PassFrame, callVars, recoverVars
<1>3. \A j \in Jobs : /\ Due(j, "delete")' <=> Due(j, "delete")
                      /\ Due(j, "insert")' <=> Due(j, "insert")
  BY <1>2 DEF Due
<1>4. CallsApart'
  BY <1>2 DEF LifeInv, CallsApart
<1>5. CASE ListQueued(p)
  <2>1. UNCHANGED <<active, pc>>
    BY <1>5 DEF ListQueued
  <2>2. RecoveryFirst' /\ CancelledByRemoval' /\ RunningHasWorker'
    BY <1>1, <1>2, <2>1
    DEF LifeInv, RecoveryFirst, CancelledByRemoval, RunningHasWorker, Gone, Due, Owns
  <2>3. ASSUME NEW w \in Tasks PROVE Standing(w)'
    BY <1>2, <2>1 DEF LifeInv, Standing, Gone, Due
  <2>4. ASSUME NEW j \in Jobs, (j \notin created \/ Due(j, "insert"))' PROVE Unseen(j)'
    <3>1. Unseen(j)
      BY <1>2, <1>3, <2>4 DEF LifeInv
    <3>2. listed' = [listed EXCEPT ![p] =
                       {<<k, rows[k].priority>> : k \in JobsWithStatus(rows, "queued")}]
      BY <1>5 DEF ListQueued
    <3>3. j \notin JobsWithStatus(rows, "queued")
      BY <3>1 DEF Unseen, Present, JobsWithStatus
    <3>4. \A q \in Passes : \A e \in listed'[q] : e[1] # j
      BY <3>1, <3>2, <3>3 DEF Unseen, IInv, TypeOK
    <3> QED BY <1>2, <2>1, <3>1, <3>4 DEF Unseen
  <2> QED BY <1>4, <2>2, <2>3, <2>4 DEF LifeInv
<1>6. CASE StartListed(p)
  <2>1. PICK S \in SUBSET {e \in listed[p] : active[e[1]] = NoTask} :
           Launch({e[1] : e \in S})
    BY <1>6 DEF StartListed
  <2> DEFINE started == {e[1] : e \in S}
  <2>2. started \in SUBSET Jobs
    BY DEF IInv, TypeOK
  <2>3. ASSUME NEW j \in started
        PROVE  active[j] = NoTask /\ j \in created /\ ~Due(j, "insert")
    <3>1. PICK e \in listed[p] : j = e[1] /\ active[e[1]] = NoTask
      OBVIOUS
    <3>2. ~Unseen(j) /\ j \in Jobs
      BY <2>2, <3>1 DEF Unseen
    <3> QED BY <3>1, <3>2 DEF LifeInv
  <2>4. listed' = [listed EXCEPT ![p] = {}]
    BY <1>6 DEF StartListed
  <2>5. \A q \in Passes : listed'[q] \subseteq listed[q]
    BY <2>4 DEF IInv, TypeOK
  <2> HIDE DEF started
  <2>6. /\ RecoveryFirst'
        /\ \A j \in Jobs : j \notin created' \/ Due(j, "insert")' => Unseen(j)'
        /\ CancelledByRemoval'
        /\ \A w \in Tasks : Standing(w)'
        /\ RunningHasWorker'
    BY <1>1, <1>2, <1>3, <2>1, <2>2, <2>3, <2>5, LaunchLives DEF started
  <2> QED BY <1>4, <2>6 DEF LifeInv
<1> QED BY <1>5, <1>6
-----------------------------------------------------------------------------
(* Calls.                                                                  *)

LEMMA TargetsOf ==
    ASSUME IInv, LifeInv, NEW c \in Callers, cstep[c] \in {"insert", "enqueue", "delete"}
    PROVE  \E j \in Jobs : target[c] = {j} /\ j \in created
BY DEF LifeInv, CallsApart

\* A call that touches no row, task or slot.
LEMMA IdleCallLives ==
    ASSUME IInv, LifeInv, rstep = "done",
           UNCHANGED <<rows, active, pc, cancelled, snap, created, target, todo, listed,
                       rstep, rtodo>>,
           \A c \in Callers : \/ cstep'[c] = cstep[c]
                              \/ {cstep[c], cstep'[c]} \subseteq {"idle", "deleted"}
    PROVE  LifeInv'
<1>1. \A j \in Jobs : /\ Due(j, "delete")' <=> Due(j, "delete")
                      /\ Due(j, "insert")' <=> Due(j, "insert")
                      /\ Gone(j)' <=> Gone(j)
  BY DEF Due, Gone
<1>2. RecoveryFirst'
  BY DEF LifeInv, RecoveryFirst
<1>3. CallsApart'
  <2> SUFFICES ASSUME NEW c \in Callers
               PROVE  /\ cstep'[c] \in {"idle", "insert", "enqueue", "delete", "deleted"}
                      /\ target[c] \subseteq created
                      /\ cstep'[c] \in {"insert", "enqueue", "delete"} => \E j \in Jobs : target[c] = {j}
                      /\ cstep'[c] = "insert" => \A j \in target[c] :
                           /\ todo[c][j].status = "queued"
                           /\ \A d \in Callers : j \in target[d] => d = c
    BY DEF CallsApart
  <2>1. CASE cstep'[c] = cstep[c]
    BY <2>1 DEF LifeInv, CallsApart
  <2>2. CASE cstep'[c] \in {"idle", "deleted"}
    BY <2>2 DEF LifeInv, CallsApart
  <2> QED BY <2>1, <2>2
<1>4. ASSUME NEW j \in Jobs, (j \notin created \/ Due(j, "insert"))' PROVE Unseen(j)'
  BY <1>1, <1>4 DEF LifeInv, Unseen
<1>5. CancelledByRemoval'
  <2> SUFFICES ASSUME NEW w \in Tasks
               PROVE  /\ cancelled[w] => pc[w] # "idle" /\ ~Owns(w)
                      /\ pc[w] # "idle" /\ ~Owns(w) => Gone(w[1])'
    BY DEF CancelledByRemoval, Owns
  <2>1. w[1] \in Jobs
    BY DEF Tasks
  <2> QED BY <1>1, <2>1 DEF LifeInv, CancelledByRemoval
<1>6. ASSUME NEW w \in Tasks PROVE Standing(w)'
  <2>1. w[1] \in Jobs /\ Standing(w)
    BY DEF Tasks, LifeInv
  <2> QED BY <1>1, <2>1 DEF Standing
<1>7. RunningHasWorker'
  <2> SUFFICES ASSUME NEW j \in Jobs, rows[j].status = "running"
               PROVE  active[j] # NoTask \/ Due(j, "delete")'
    BY DEF RunningHasWorker, Due
  <2> QED BY <1>1 DEF LifeInv, RunningHasWorker, RecoveryFirst, Due
<1> QED BY <1>2, <1>3, <1>4, <1>5, <1>6, <1>7 DEF LifeInv

LEMMA CreateLives ==
    ASSUME IInv, LifeInv, SingleWrites, NEW c \in Callers, CreateJob(c)
    PROVE  LifeInv'
<1>1. PICK j \in Jobs \ created, next \in Priority :
         /\ cstep[c] = "idle" /\ rstep = "done"
         /\ created' = created \cup {j}
         /\ cstep' = [cstep EXCEPT ![c] = "insert"]
         /\ target' = [target EXCEPT ![c] = {j}]
         /\ todo' = [todo EXCEPT ![c][j] = [status |-> "queued", priority |-> next]]
         /\ UNCHANGED <<rows, active, pc, cancelled, snap, listed, pstep, rstep, rtodo>>
  BY DEF CreateJob, Begin, SingleWrites, CallFrame, passVars, recoverVars
<1>2. \A d \in Callers : d # c => cstep'[d] = cstep[d] /\ target'[d] = target[d] /\ todo'[d] = todo[d]
  BY <1>1 DEF IInv, TypeOK
<1>3. cstep'[c] = "insert" /\ target'[c] = {j} /\ todo'[c][j].status = "queued"
  BY <1>1 DEF IInv, TypeOK
<1>4. \A k \in Jobs : /\ Due(k, "delete")' <=> Due(k, "delete")
                      /\ k # j => (Due(k, "insert")' <=> Due(k, "insert"))
                      /\ Gone(k)' <=> Gone(k)
  BY <1>1, <1>2, <1>3 DEF Due, Gone
<1>5. RecoveryFirst'
  BY <1>1 DEF LifeInv, RecoveryFirst
<1>6. CallsApart'
  <2> SUFFICES ASSUME NEW d \in Callers
               PROVE  /\ cstep'[d] \in {"idle", "insert", "enqueue", "delete", "deleted"}
                      /\ target'[d] \subseteq created'
                      /\ cstep'[d] \in {"insert", "enqueue", "delete"} => \E k \in Jobs : target'[d] = {k}
                      /\ cstep'[d] = "insert" => \A k \in target'[d] :
                           /\ todo'[d][k].status = "queued"
                           /\ \A e \in Callers : k \in target'[e] => e = d
    BY DEF CallsApart
  <2>1. \A e \in Callers : j \notin target[e] /\ target[e] \subseteq created
    BY DEF LifeInv, CallsApart
  <2>2. CASE d = c
    BY <1>1, <1>2, <1>3, <2>1, <2>2
  <2>3. CASE d # c
    BY <1>1, <1>2, <1>3, <2>1, <2>3 DEF LifeInv, CallsApart
  <2> QED BY <2>2, <2>3
<1>7. ASSUME NEW k \in Jobs, (k \notin created \/ Due(k, "insert"))' PROVE Unseen(k)'
  <2>1. Unseen(k)
    BY <1>1, <1>4, <1>7 DEF LifeInv
  <2> QED BY <1>1, <2>1 DEF Unseen
<1>8. CancelledByRemoval'
  <2>1. \A w \in Tasks : w[1] \in Jobs
    BY DEF Tasks
  <2> QED BY <1>1, <1>4, <2>1 DEF LifeInv, CancelledByRemoval, Owns
<1>9. ASSUME NEW w \in Tasks PROVE Standing(w)'
  <2>1. w[1] \in Jobs /\ Standing(w)
    BY DEF Tasks, LifeInv
  <2> QED BY <1>1, <1>4, <2>1 DEF Standing
<1>10. RunningHasWorker'
  <2> SUFFICES ASSUME NEW k \in Jobs, rows[k].status = "running"
               PROVE  active[k] # NoTask \/ Due(k, "delete")'
    BY <1>1 DEF RunningHasWorker, Due
  <2> QED BY <1>1, <1>4 DEF LifeInv, RunningHasWorker, RecoveryFirst, Due
<1> QED BY <1>5, <1>6, <1>7, <1>8, <1>9, <1>10 DEF LifeInv

LEMMA InsertLives ==
    ASSUME IInv, LifeInv, NEW c \in Callers, InsertJob(c)
    PROVE  LifeInv'
<1>1. PICK j \in Jobs : target[c] = {j} /\ j \in created
  BY TargetsOf DEF InsertJob
<1>2. /\ cstep[c] = "insert" /\ cstep' = [cstep EXCEPT ![c] = "enqueue"]
      /\ rows' = [rows EXCEPT ![j] = todo[c][j]] /\ todo' = [todo EXCEPT ![c] = NoWrites]
      /\ UNCHANGED <<active, pc, cancelled, snap, created, target, listed, pstep, rstep, rtodo>>
  BY <1>1 DEF InsertJob, CallFrame, passVars, recoverVars
<1>3. /\ todo[c][j].status = "queued"
      /\ \A d \in Callers : j \in target[d] => d = c
      /\ Due(j, "insert") /\ Unseen(j)
  BY <1>1, <1>2 DEF LifeInv, CallsApart, Due
<1>4. /\ \A k \in Jobs : k # j => rows'[k] = rows[k]
      /\ rows'[j].status = "queued"
      /\ \A d \in Callers : d # c => cstep'[d] = cstep[d] /\ todo'[d] = todo[d]
      /\ cstep'[c] = "enqueue"
  BY <1>2, <1>3 DEF IInv, TypeOK
<1>5. \A k \in Jobs : /\ Due(k, "delete")' <=> Due(k, "delete")
                      /\ k # j => (Due(k, "insert")' <=> Due(k, "insert")) /\ (Gone(k)' <=> Gone(k))
                      /\ ~Due(j, "insert")'
  BY <1>1, <1>2, <1>3, <1>4 DEF Due, Gone
<1>6. rstep = "done"
  BY <1>2 DEF LifeInv, RecoveryFirst
<1>7. RecoveryFirst'
  BY <1>2, <1>6 DEF LifeInv, RecoveryFirst
<1>8. CallsApart'
  BY <1>1, <1>2, <1>4 DEF LifeInv, CallsApart
<1>9. ASSUME NEW k \in Jobs, (k \notin created \/ Due(k, "insert"))' PROVE Unseen(k)'
  <2>1. k # j /\ Unseen(k)
    BY <1>1, <1>2, <1>5, <1>9 DEF LifeInv
  <2> QED BY <1>2, <1>4, <2>1 DEF Unseen
<1>10. CancelledByRemoval'
  <2> SUFFICES ASSUME NEW w \in Tasks
               PROVE  /\ cancelled[w] => pc[w] # "idle" /\ ~Owns(w)
                      /\ pc[w] # "idle" /\ ~Owns(w) => Gone(w[1])'
    BY <1>2 DEF CancelledByRemoval, Owns
  <2>1. w[1] \in Jobs /\ w = <<w[1], w[2]>> /\ w[2] \in Slots
    BY DEF Tasks
  <2>2. w[1] = j => pc[w] = "idle"
    BY <1>3, <2>1 DEF Unseen
  <2> QED BY <1>5, <2>1, <2>2 DEF LifeInv, CancelledByRemoval
<1>11. ASSUME NEW w \in Tasks PROVE Standing(w)'
  <2>1. w[1] \in Jobs /\ w = <<w[1], w[2]>> /\ w[2] \in Slots /\ Standing(w)
    BY DEF Tasks, LifeInv
  <2>2. CASE w[1] = j
    <3>1. pc[w] = "idle"
      BY <1>3, <2>1, <2>2 DEF Unseen
    <3> QED BY <1>2, <3>1 DEF Standing, Holds, Suits, HoldsRunning, Attempting, Busy
  <2>3. CASE w[1] # j
    BY <1>2, <1>4, <1>5, <2>1, <2>3 DEF Standing
  <2> QED BY <2>2, <2>3
<1>12. RunningHasWorker'
  <2> SUFFICES ASSUME NEW k \in Jobs, rows'[k].status = "running"
               PROVE  active[k] # NoTask \/ Due(k, "delete")'
    BY <1>2 DEF RunningHasWorker, Due
  <2>1. rows[k].status = "running"
    BY <1>4
  <2> QED BY <1>5, <1>6, <2>1 DEF LifeInv, RunningHasWorker, RecoveryFirst, Due
<1> QED BY <1>7, <1>8, <1>9, <1>10, <1>11, <1>12 DEF LifeInv

LEMMA EnqueueLives ==
    ASSUME IInv, LifeInv, NEW c \in Callers, EnqueueCreated(c)
    PROVE  LifeInv'
<1>1. PICK j \in Jobs : target[c] = {j} /\ j \in created
  BY TargetsOf DEF EnqueueCreated
<1>2. /\ cstep[c] = "enqueue" /\ cstep' = [cstep EXCEPT ![c] = "idle"]
      /\ target' = [target EXCEPT ![c] = {}] /\ EnqueueDownload(j)
      /\ UNCHANGED <<rows, cancelled, snap, created, todo, listed, pstep, rstep, rtodo>>
  BY <1>1 DEF EnqueueCreated, CallFrame, passVars, recoverVars
<1>3. /\ \A d \in Callers : d # c => cstep'[d] = cstep[d] /\ target'[d] = target[d]
      /\ cstep'[c] = "idle" /\ target'[c] = {}
  BY <1>2 DEF IInv, TypeOK
<1>4. \A k \in Jobs : /\ Due(k, "delete")' <=> Due(k, "delete")
                      /\ Due(k, "insert")' <=> Due(k, "insert")
                      /\ Gone(k)' <=> Gone(k)
  BY <1>2, <1>3 DEF Due, Gone
<1>5. rstep = "done"
  BY <1>2 DEF LifeInv, RecoveryFirst
<1>6. CallsApart'
  BY <1>2, <1>3 DEF LifeInv, CallsApart
<1>7. PICK S \in SUBSET {j} : Launch(S) /\ \A k \in S : active[k] = NoTask
  <2>1. CASE UNCHANGED <<active, pc>>
    <3>1. Launch({})
      BY <2>1 DEF Launch, IInv, TypeOK
    <3> QED BY <3>1
  <2>2. CASE Launch(IF HasLiveTask(j) THEN {} ELSE {j})
    <3>1. ASSUME ~HasLiveTask(j) PROVE active[j] = NoTask
      <4> SUFFICES ASSUME active[j] # NoTask PROVE FALSE
        OBVIOUS
      <4> DEFINE w == <<j, active[j]>>
      <4>1. w \in Tasks /\ cancelled[w] /\ Owns(w)
        BY <3>1 DEF HasLiveTask, IInv, TypeOK, Tasks, Owns
      <4> QED BY <4>1 DEF LifeInv, CancelledByRemoval
    <3> QED BY <2>2, <3>1
  <2> QED BY <1>2, <2>1, <2>2 DEF EnqueueDownload, StartDownload
<1>8. ~Due(j, "insert")
  BY <1>1, <1>2 DEF Due, LifeInv, CallsApart
<1>9. /\ RecoveryFirst'
      /\ \A k \in Jobs : k \notin created' \/ Due(k, "insert")' => Unseen(k)'
      /\ CancelledByRemoval'
      /\ \A w \in Tasks : Standing(w)'
      /\ RunningHasWorker'
  BY <1>1, <1>2, <1>4, <1>5, <1>7, <1>8, LaunchLives
<1> QED BY <1>6, <1>9 DEF LifeInv
LEMMA RemoveLives ==
    ASSUME IInv, LifeInv, SingleWrites, NEW c \in Callers, RemoveJob(c)
    PROVE  LifeInv'
<1>1. PICK j \in created :
         /\ Present(rows[j]) /\ rstep = "done" /\ cstep[c] = "idle"
         /\ cancelled' = [w \in Tasks |-> cancelled[w] \/ (w[1] = j /\ Owns(w))]
         /\ active' = [active EXCEPT ![j] = NoTask]
         /\ cstep' = [cstep EXCEPT ![c] = "delete"]
         /\ target' = [target EXCEPT ![c] = {j}]
         /\ UNCHANGED <<rows, pc, snap, created, todo, pstep, listed, rstep, rtodo>>
  BY DEF RemoveJob, Begin, SingleWrites, CallFrame, passVars, recoverVars
<1>2. /\ j \in Jobs
      /\ \A d \in Callers : d # c => cstep'[d] = cstep[d] /\ target'[d] = target[d]
      /\ cstep'[c] = "delete" /\ target'[c] = {j}
  BY <1>1 DEF IInv, TypeOK
<1>3. /\ \A k \in Jobs \ {j} : /\ Due(k, "delete")' <=> Due(k, "delete")
                               /\ Gone(k)' <=> Gone(k)
      /\ \A k \in Jobs : Due(k, "insert")' <=> Due(k, "insert")
      /\ Due(j, "delete")' /\ Gone(j)'
  BY <1>1, <1>2 DEF Due, Gone
<1>4. RecoveryFirst'
  BY <1>1 DEF LifeInv, RecoveryFirst
<1>5. \A d \in Callers : cstep[d] = "insert" => j \notin target[d]
  BY <1>1, <1>2 DEF LifeInv, Due, Unseen
<1>6. CallsApart'
  BY <1>1, <1>2, <1>5 DEF LifeInv, CallsApart
<1>7. ASSUME NEW k \in Jobs, (k \notin created \/ Due(k, "insert"))' PROVE Unseen(k)'
  BY <1>1, <1>3, <1>7 DEF LifeInv, Unseen
<1>8. CancelledByRemoval'
  <2> SUFFICES ASSUME NEW w \in Tasks
               PROVE  /\ cancelled'[w] => pc[w] # "idle" /\ active'[w[1]] # w[2]
                      /\ pc[w] # "idle" /\ active'[w[1]] # w[2] => Gone(w[1])'
    BY <1>1 DEF CancelledByRemoval, Owns
  <2>1. w[1] \in Jobs /\ w[2] # NoTask /\ w = <<w[1], w[2]>>
    BY DEF Tasks, Slots, NoTask
  <2>2. cancelled'[w] => cancelled[w] \/ (w[1] = j /\ Owns(w))
    BY <1>1
  <2>3. /\ cancelled[w] => pc[w] # "idle" /\ active[w[1]] # w[2]
        /\ pc[w] # "idle" /\ active[w[1]] # w[2] => Gone(w[1])
    BY DEF LifeInv, CancelledByRemoval, Owns
  <2>4. Owns(w) => pc[w] # "idle"
    BY <2>1 DEF IInv, SlotNeverLeaked, Owns
  <2>5. active'[j] = NoTask /\ \A k \in Jobs : k # j => active'[k] = active[k]
    BY <1>1, <1>2 DEF IInv, TypeOK
  <2> QED BY <1>3, <2>1, <2>2, <2>3, <2>4, <2>5
<1>9. ASSUME NEW w \in Tasks PROVE Standing(w)'
  <2>1. w[1] \in Jobs /\ Standing(w)
    BY DEF Tasks, LifeInv
  <2> QED BY <1>1, <1>3, <2>1 DEF Standing
<1>10. RunningHasWorker'
  <2> SUFFICES ASSUME NEW k \in Jobs, rows[k].status = "running"
               PROVE  active'[k] # NoTask \/ Due(k, "delete")'
    BY <1>1 DEF RunningHasWorker, Due
  <2>1. active[k] # NoTask \/ Due(k, "delete")
    BY <1>1 DEF LifeInv, RunningHasWorker, RecoveryFirst, Due
  <2>2. CASE k = j
    BY <1>3, <2>2
  <2>3. CASE k # j
    BY <1>1, <1>3, <2>1, <2>3 DEF IInv, TypeOK
  <2> QED BY <2>2, <2>3
<1> QED BY <1>4, <1>6, <1>7, <1>8, <1>9, <1>10 DEF LifeInv

LEMMA DeleteLives ==
    ASSUME IInv, LifeInv, NEW c \in Callers, DeleteRow(c)
    PROVE  LifeInv'
<1>1. PICK j \in Jobs : target[c] = {j} /\ j \in created
  BY TargetsOf DEF DeleteRow
<1>2. /\ cstep[c] = "delete" /\ rows' = [rows EXCEPT ![j] = NoRow]
      /\ cstep' = [cstep EXCEPT ![c] = IF Present(rows[j]) THEN "deleted" ELSE "idle"]
      /\ target' = [target EXCEPT ![c] = {}]
      /\ UNCHANGED <<active, pc, cancelled, snap, created, todo, pstep, listed, rstep, rtodo>>
  BY <1>1 DEF DeleteRow, CallFrame, passVars, recoverVars
<1>3. /\ \A d \in Callers : d # c => cstep'[d] = cstep[d] /\ target'[d] = target[d]
      /\ cstep'[c] \in {"idle", "deleted"} /\ target'[c] = {}
      /\ \A k \in Jobs : k # j => rows'[k] = rows[k]
      /\ ~Present(rows'[j]) /\ rows'[j].status # "running"
  BY <1>2 DEF IInv, TypeOK, Present, NoRow
<1>4. /\ \A k \in Jobs \ {j} : /\ Due(k, "delete")' <=> Due(k, "delete")
                               /\ Gone(k)' <=> Gone(k)
      /\ \A k \in Jobs : Due(k, "insert")' <=> Due(k, "insert")
      /\ Gone(j)'
  BY <1>1, <1>2, <1>3 DEF Due, Gone
<1>5. rstep = "done"
  BY <1>2 DEF LifeInv, RecoveryFirst
<1>6. RecoveryFirst'
  BY <1>2, <1>5 DEF LifeInv, RecoveryFirst
<1>7. CallsApart'
  BY <1>2, <1>3 DEF LifeInv, CallsApart
<1>8. ASSUME NEW k \in Jobs, (k \notin created \/ Due(k, "insert"))' PROVE Unseen(k)'
  <2>1. Unseen(k)
    BY <1>2, <1>4, <1>8 DEF LifeInv
  <2> QED BY <1>2, <1>3, <2>1 DEF Unseen
<1>9. CancelledByRemoval'
  <2>1. \A w \in Tasks : w[1] \in Jobs
    BY DEF Tasks
  <2> QED BY <1>2, <1>4, <2>1 DEF LifeInv, CancelledByRemoval, Owns
<1>10. ASSUME NEW w \in Tasks PROVE Standing(w)'
  <2>1. w[1] \in Jobs /\ Standing(w)
    BY DEF Tasks, LifeInv
  <2> QED BY <1>2, <1>3, <1>4, <2>1 DEF Standing
<1>11. RunningHasWorker'
  <2> SUFFICES ASSUME NEW k \in Jobs, rows'[k].status = "running"
               PROVE  active[k] # NoTask \/ Due(k, "delete")'
    BY <1>2 DEF RunningHasWorker, Due
  <2>1. k # j /\ rows[k].status = "running"
    BY <1>3
  <2>2. active[k] # NoTask \/ Due(k, "delete")
    BY <1>5, <2>1 DEF LifeInv, RunningHasWorker, RecoveryFirst, Due
  <2> QED BY <1>4, <2>1, <2>2
<1> QED BY <1>6, <1>7, <1>8, <1>9, <1>10, <1>11 DEF LifeInv

LEMMA CallsLive ==
    ASSUME IInv, LifeInv, SingleWrites, NEW c \in Callers, CallStep(c) \/ CallContinues(c)
    PROVE  LifeInv'
<1>1. ~ApplyAction(c) /\ ~ReorderQueuedJobs(c)
  BY DEF ApplyAction, ReorderQueuedJobs, Begin, SingleWrites, JobAction
<1>2. ~UpdateApplied(c) /\ ~TakeEffect(c) /\ ~WriteReordered(c)
  BY DEF UpdateApplied, TakeEffect, WriteReordered, LifeInv, CallsApart
<1>3. CASE SetMaximumConcurrentDownloads(c)
  BY <1>3, IdleCallLives
  DEF SetMaximumConcurrentDownloads, Begin, SingleWrites, recoverVars
<1>4. CASE ScheduleAfterDelete(c)
  <2>1. cstep[c] = "deleted" /\ cstep' = [cstep EXCEPT ![c] = "idle"] /\ rstep = "done"
    BY <1>4 DEF ScheduleAfterDelete, LifeInv, RecoveryFirst
  <2>2. \A d \in Callers : \/ cstep'[d] = cstep[d]
                           \/ {cstep[d], cstep'[d]} \subseteq {"idle", "deleted"}
    BY <2>1 DEF IInv, TypeOK
  <2> QED BY <1>4, <2>1, <2>2, IdleCallLives DEF ScheduleAfterDelete, CallFrame, recoverVars
<1> QED
  BY <1>1, <1>2, <1>3, <1>4, CreateLives, InsertLives, EnqueueLives, RemoveLives, DeleteLives
  DEF CallStep, CallContinues

-----------------------------------------------------------------------------
(* Recovery, crashes and launch.                                           *)

\* No task, call or pass is under way.
Quiet ==
    /\ \A w \in Tasks : pc[w] = "idle" /\ ~cancelled[w]
    /\ \A c \in Callers : cstep[c] = "idle" /\ target[c] \subseteq created
    /\ \A p \in Passes : listed[p] = {}
    /\ \A j \in Jobs : j \notin created => ~Present(rows[j])

LEMMA QuietLives ==
    Quiet => /\ CallsApart
             /\ \A j \in Jobs : j \notin created \/ Due(j, "insert") => Unseen(j)
             /\ CancelledByRemoval
             /\ \A w \in Tasks : Standing(w)
<1> SUFFICES ASSUME Quiet
             PROVE  /\ CallsApart
                    /\ \A j \in Jobs : j \notin created \/ Due(j, "insert") => Unseen(j)
                    /\ CancelledByRemoval
                    /\ \A w \in Tasks : Standing(w)
  OBVIOUS
<1>1. CallsApart
  BY DEF Quiet, CallsApart
<1>2. ASSUME NEW j \in Jobs, j \notin created \/ Due(j, "insert") PROVE Unseen(j)
  BY <1>2 DEF Quiet, Unseen, Due, Tasks
<1>3. CancelledByRemoval
  BY DEF Quiet, CancelledByRemoval
<1>4. \A w \in Tasks : Standing(w)
  BY DEF Quiet, Standing, Holds, Suits, HoldsRunning, Attempting, Busy
<1> QED BY <1>1, <1>2, <1>3, <1>4

LEMMA InitLives == Init => LifeInv
<1> SUFFICES ASSUME Init PROVE LifeInv
  OBVIOUS
<1>1. Quiet
  BY DEF Init, Quiet
<1>2. RecoveryFirst
  BY DEF Init, RecoveryFirst, NoWrites, Present, NoRow
<1>3. RunningHasWorker
  BY DEF Init, RunningHasWorker
<1> QED BY <1>1, <1>2, <1>3, QuietLives DEF LifeInv

LEMMA CrashLives ==
    ASSUME IInv, LifeInv, Crash
    PROVE  LifeInv'
<1>1. Quiet'
  <2>1. \A j \in Jobs : j \notin created => ~Present(rows[j])
    BY DEF LifeInv, Unseen
  <2> QED BY <2>1 DEF Crash, Quiet
<1>2. RecoveryFirst'
  BY DEF Crash, RecoveryFirst, NoWrites, Present, NoRow
<1>3. RunningHasWorker'
  BY DEF Crash, RunningHasWorker
<1> QED BY <1>1, <1>2, <1>3, QuietLives, PTL DEF LifeInv

LEMMA RecoverLives ==
    ASSUME IInv, LifeInv, Recover
    PROVE  LifeInv'
<1>1. rstep # "done"
  BY DEF Recover, RecoverList, RecoverWrite, RecoverSchedule
<1>2. /\ \A w \in Tasks : pc[w] = "idle" /\ ~cancelled[w]
      /\ \A c \in Callers : cstep[c] = "idle" /\ target[c] \subseteq created
      /\ \A p \in Passes : pstep[p] = "idle"
  BY <1>1 DEF LifeInv, RecoveryFirst, CancelledByRemoval, CallsApart
<1>3. UNCHANGED <<pc, cancelled, snap, created, cstep, target, todo, listed, active>>
  BY DEF Recover, RecoverList, RecoverWrite, RecoverSchedule, RecoverFrame, callVars
<1>4. rows \in [Jobs -> Row] /\ rtodo \in [Jobs -> Row]
  BY DEF IInv, TypeOK
<1>5. \A j \in Jobs : Present(rows'[j]) <=> Present(rows[j])
  <2>1. CASE RecoverWrite
    <3>1. PICK j \in Jobs : Present(rtodo[j]) /\ rows' = Replaced(rows, j, rtodo[j])
      BY <2>1 DEF RecoverWrite, Unwritten
    <3> QED BY <1>4, <3>1 DEF Replaced
  <2> QED BY <2>1 DEF Recover, RecoverList, RecoverSchedule
<1>6. CallsApart' /\ CancelledByRemoval'
  BY <1>2, <1>3 DEF LifeInv, CallsApart, CancelledByRemoval
<1>7. ASSUME NEW j \in Jobs, (j \notin created \/ Due(j, "insert"))' PROVE Unseen(j)'
  BY <1>2, <1>3, <1>5, <1>7 DEF LifeInv, Unseen, Due
<1>8. \A w \in Tasks : Standing(w)'
  BY <1>2, <1>3 DEF Standing, Holds, Suits, HoldsRunning, Attempting, Busy
<1>9. RecoveryFirst' /\ RunningHasWorker'
  <2>1. CASE RecoverList
    <3>1. /\ rstep = "list" /\ rstep' = "write" /\ rows' = rows /\ pstep' = pstep
          /\ \A j \in Jobs : rtodo'[j] = Requeued(rows[j])
      BY <2>1 DEF RecoverList
    <3>2. \A j \in Jobs : /\ Present(rtodo'[j]) <=> rows'[j].status = "running"
                          /\ Present(rtodo'[j]) => rtodo'[j].status = "queued"
      <4> SUFFICES ASSUME NEW j \in Jobs
                   PROVE  /\ Present(rtodo'[j]) <=> rows[j].status = "running"
                          /\ Present(rtodo'[j]) => rtodo'[j].status = "queued"
        BY <3>1
      <4>1. rtodo'[j] = Requeued(rows[j]) /\ rows[j] \in Row
        BY <1>4, <3>1
      <4>2. WithStatus(rows[j], "queued").status = "queued"
        BY <4>1 DEF WithStatus, Row
      <4> QED BY <4>1, <4>2 DEF Requeued, Present, NoRow
    <3> QED BY <1>2, <1>3, <3>1, <3>2 DEF RecoveryFirst, RunningHasWorker
  <2>2. CASE RecoverWrite
    <3>1. PICK j \in Jobs :
             /\ Present(rtodo[j])
             /\ rows' = Replaced(rows, j, rtodo[j])
             /\ rtodo' = [rtodo EXCEPT ![j] = NoRow]
             /\ UNCHANGED <<rstep, pstep>> /\ rstep = "write"
      BY <2>2 DEF RecoverWrite, Unwritten
    <3>2. rows[j].status = "running" /\ rtodo[j].status = "queued"
      BY <3>1 DEF LifeInv, RecoveryFirst
    <3>3. /\ \A k \in Jobs : k # j => rows'[k] = rows[k] /\ rtodo'[k] = rtodo[k]
          /\ rows'[j].status = "queued" /\ ~Present(rtodo'[j])
      BY <1>4, <3>1, <3>2 DEF Replaced, Present, NoRow
    <3>4. \A k \in Jobs : /\ Present(rtodo'[k]) <=> rows'[k].status = "running"
                          /\ Present(rtodo'[k]) => rtodo'[k].status = "queued"
      BY <3>1, <3>3 DEF LifeInv, RecoveryFirst
    <3> QED BY <1>2, <1>3, <3>1, <3>4 DEF RecoveryFirst, RunningHasWorker
  <2>3. CASE RecoverSchedule
    <3>1. rstep = "write" /\ rstep' = "done" /\ UNCHANGED <<rows, rtodo>>
      BY <2>3 DEF RecoverSchedule
    <3>2. \A j \in Jobs : ~Present(rtodo[j]) /\ rows[j].status # "running"
      BY <2>3, <3>1 DEF RecoverSchedule, Unwritten, LifeInv, RecoveryFirst
    <3> QED BY <3>1, <3>2 DEF RecoveryFirst, RunningHasWorker
  <2> QED BY <2>1, <2>2, <2>3 DEF Recover
<1> QED BY <1>6, <1>7, <1>8, <1>9 DEF LifeInv
LEMMA NextLives ==
    ASSUME SingleWrites
    PROVE  IInv /\ LifeInv /\ [Next]_vars => LifeInv'
<1> SUFFICES ASSUME IInv, LifeInv, [Next]_vars PROVE LifeInv'
  OBVIOUS
<1>1. CASE UNCHANGED vars
  <2>1. UNCHANGED <<rows, active, pc, cancelled, snap, created, cstep, target, todo, pstep,
                    listed, rstep, rtodo>>
    BY <1>1 DEF vars, taskVars, callVars, passVars, recoverVars
  <2> QED BY <2>1
          DEF LifeInv, RecoveryFirst, CallsApart, Unseen, CancelledByRemoval, Standing,
              RunningHasWorker, Gone, Due, Owns
<1>2. ASSUME NEW w \in Tasks, TaskStep(w) PROVE LifeInv'
  BY <1>2, TaskProceeds, ProceedsKeeps, FinishLives
<1>3. ASSUME NEW p \in Passes, ListQueued(p) \/ StartListed(p) PROVE LifeInv'
  BY <1>3, PassesLive
<1>4. ASSUME NEW c \in Callers, CallStep(c) \/ CallContinues(c) PROVE LifeInv'
  BY <1>4, CallsLive
<1> QED BY <1>1, <1>2, <1>3, <1>4, RecoverLives, CrashLives DEF Next

THEOREM LifeInvariance == ASSUME SingleWrites PROVE Spec => []LifeInv
BY InitLives, NextLives, InitIInv, NextIInv, PTL DEF Spec

\* While jobs are only created and removed, a row says `running' only if a
\* task is registered for the job, recovery has yet to requeue it, or it is
\* about to be deleted (AgentService.processQueuedJob, finishDownload and
\* recoverDurableJobs), through any number of crashes.
THEOREM RunningMeansWorked == ASSUME SingleWrites PROVE Spec => []RunningHasWorker
BY LifeInvariance, PTL DEF LifeInv

-----------------------------------------------------------------------------
(* The queue implements JobLifecycle.                                      *)

StageMap == [j \in Jobs |-> StageOf(j)]

Same(j) == StageOf(j)' = StageOf(j)

LEMMA SameStage ==
    ASSUME NEW j \in Jobs, rows'[j].status = rows[j].status,
           j \in created' <=> j \in created,
           Due(j, "delete")' <=> Due(j, "delete"),
           Due(j, "insert")' <=> Due(j, "insert")
    PROVE  Same(j)
BY DEF Same, StageOf, Present, Due

LEMMA AllSame ==
    ASSUME \A j \in Jobs : Same(j)
    PROVE  UNCHANGED StageMap
BY DEF Same, StageMap

LEMMA NewStage ==
    ASSUME NEW j \in Jobs, \A k \in Jobs \ {j} : Same(k),
           NEW from, StageOf(j) \in from
    PROVE  Life!Become(j, from, StageOf(j)')
BY DEF Life!Become, Same

LEMMA StageType ==
    ASSUME IInv
    PROVE  StageMap \in [Jobs -> Life!Stages]
<1> SUFFICES ASSUME NEW j \in Jobs PROVE StageOf(j) \in Life!Stages
  BY DEF StageMap
<1>1. rows[j].status \in JobStatus \cup {"absent"}
  BY DEF IInv, TypeOK, Row
<1> QED BY <1>1 DEF StageOf, Due, Present, Life!Stages, Life!JobStatus, JobStatus

LEMMA TaskStages ==
    ASSUME IInv, LifeInv, NEW w \in Tasks, TaskStep(w)
    PROVE  Life!LifeNext \/ UNCHANGED StageMap
<1>1. CASE FinishDownload(w)
  <2>1. UNCHANGED <<rows, created, cstep, target>>
    BY <1>1 DEF FinishDownload, callVars
  <2> QED BY <2>1, SameStage, AllSame DEF Due
<1>2. CASE ~FinishDownload(w)
  <2> DEFINE j == w[1]
  <2>1. Proceeds(w) /\ j \in Jobs
    BY <1>2, TaskProceeds DEF Tasks
  <2>2. /\ \A k \in Jobs \ {j} : rows'[k] = rows[k]
        /\ Present(rows'[j]) <=> Present(rows[j])
        /\ UNCHANGED <<created, cstep, target>>
    BY <2>1 DEF Proceeds, Moves, callVars
  <2>3. \A k \in Jobs : /\ Due(k, "delete")' <=> Due(k, "delete")
                        /\ Due(k, "insert")' <=> Due(k, "insert")
    BY <2>2 DEF Due
  <2>4. \A k \in Jobs \ {j} : Same(k)
    BY <2>2, <2>3, SameStage
  <2>5. CASE Gone(j) \/ rows'[j].status = rows[j].status
    <3>1. Same(j)
      BY <2>2, <2>3, <2>5 DEF Same, StageOf, Gone, Present, Due
    <3> QED BY <2>4, <3>1, AllSame
  <2>6. CASE /\ ~Gone(j) /\ rows[j].status = "queued" /\ rows'[j].status = "running"
    <3>1. StageOf(j) = "queued" /\ StageOf(j)' = "running"
      BY <2>2, <2>3, <2>6 DEF StageOf, Gone, Due
    <3>2. Life!Claim(j)
      BY <2>1, <2>4, <3>1, NewStage DEF Life!Claim
    <3> QED BY <2>1, <3>2 DEF Life!LifeNext
  <2>7. CASE /\ ~Gone(j) /\ rows[j].status = "running"
             /\ rows'[j].status \in {"completed", "failed", "verificationRequired"}
    <3>1. StageOf(j) = "running" /\ StageOf(j)' \in {"completed", "failed", "verificationRequired"}
      BY <2>2, <2>3, <2>7 DEF StageOf, Gone, Due
    <3>2. Life!Settle(j)
      BY <2>1, <2>4, <3>1, NewStage DEF Life!Settle
    <3> QED BY <2>1, <3>2 DEF Life!LifeNext
  <2> QED BY <2>1, <2>5, <2>6, <2>7 DEF Proceeds, Lives
<1> QED BY <1>1, <1>2
LEMMA CallStages ==
    ASSUME IInv, LifeInv, SingleWrites, NEW c \in Callers, CallStep(c) \/ CallContinues(c)
    PROVE  Life!LifeNext \/ UNCHANGED StageMap
<1> USE DEF Due
<1>1. ~ApplyAction(c) /\ ~ReorderQueuedJobs(c)
  BY DEF ApplyAction, ReorderQueuedJobs, Begin, SingleWrites, JobAction
<1>2. ~UpdateApplied(c) /\ ~TakeEffect(c) /\ ~WriteReordered(c)
  BY DEF UpdateApplied, TakeEffect, WriteReordered, LifeInv, CallsApart
<1>3. /\ cstep \in [Callers -> CallSteps] /\ target \in [Callers -> SUBSET Jobs]
      /\ rows \in [Jobs -> Row] /\ todo \in [Callers -> [Jobs -> Row]]
      /\ created \subseteq Jobs
  BY DEF IInv, TypeOK
<1>4. CASE SetMaximumConcurrentDownloads(c)
  <2>1. UNCHANGED <<rows, created, cstep, target>>
    BY <1>4 DEF SetMaximumConcurrentDownloads
  <2> QED BY <2>1, SameStage, AllSame
<1>5. CASE ScheduleAfterDelete(c)
  <2>1. /\ cstep[c] = "deleted" /\ cstep' = [cstep EXCEPT ![c] = "idle"]
        /\ UNCHANGED <<rows, created, target>>
    BY <1>5 DEF ScheduleAfterDelete
  <2>2. \A j \in Jobs : /\ Due(j, "delete")' <=> Due(j, "delete")
                        /\ Due(j, "insert")' <=> Due(j, "insert")
    BY <1>3, <2>1
  <2> QED BY <2>1, <2>2, SameStage, AllSame
<1>6. CASE EnqueueCreated(c)
  <2>1. /\ cstep[c] = "enqueue" /\ cstep' = [cstep EXCEPT ![c] = "idle"]
        /\ target' = [target EXCEPT ![c] = {}] /\ UNCHANGED <<rows, created>>
    BY <1>6 DEF EnqueueCreated
  <2>2. \A j \in Jobs : /\ Due(j, "delete")' <=> Due(j, "delete")
                        /\ Due(j, "insert")' <=> Due(j, "insert")
    BY <1>3, <2>1
  <2> QED BY <2>1, <2>2, SameStage, AllSame
<1>7. CASE CreateJob(c)
  <2>1. PICK j \in Jobs \ created :
           /\ cstep[c] = "idle"
           /\ created' = created \cup {j}
           /\ cstep' = [cstep EXCEPT ![c] = "insert"]
           /\ target' = [target EXCEPT ![c] = {j}]
           /\ rows' = rows
    BY <1>7 DEF CreateJob, Begin
  <2>2. /\ cstep'[c] = "insert" /\ target'[c] = {j}
        /\ \A d \in Callers \ {c} : cstep'[d] = cstep[d] /\ target'[d] = target[d]
    BY <1>3, <2>1
  <2>3. \A k \in Jobs \ {j} : Same(k)
    <3> SUFFICES ASSUME NEW k \in Jobs \ {j} PROVE Same(k)
      OBVIOUS
    <3>1. /\ Due(k, "delete")' <=> Due(k, "delete")
          /\ Due(k, "insert")' <=> Due(k, "insert")
      BY <2>1, <2>2
    <3> QED BY <2>1, <3>1, SameStage
  <2>4. ~Present(rows[j])
    BY <2>1 DEF LifeInv, Unseen
  <2>5. StageOf(j) = "unknown" /\ StageOf(j)' = "requested"
    BY <2>1, <2>2, <2>4 DEF StageOf, Present
  <2>6. Life!Request(j)
    BY <2>3, <2>5, NewStage DEF Life!Request
  <2> QED BY <2>6 DEF Life!LifeNext
<1>8. CASE InsertJob(c)
  <2>1. PICK j \in Jobs : target[c] = {j} /\ j \in created
    BY <1>8, TargetsOf DEF InsertJob
  <2>2. /\ cstep[c] = "insert" /\ cstep' = [cstep EXCEPT ![c] = "enqueue"]
        /\ rows' = [rows EXCEPT ![j] = todo[c][j]]
        /\ UNCHANGED <<created, target>>
    BY <1>8, <2>1 DEF InsertJob
  <2>3. /\ todo[c][j].status = "queued"
        /\ \A d \in Callers : j \in target[d] => d = c
        /\ ~Present(rows[j])
    BY <2>1, <2>2 DEF LifeInv, CallsApart, Unseen
  <2>4. \A d \in Callers : cstep'[d] = IF d = c THEN "enqueue" ELSE cstep[d]
    BY <1>3, <2>2
  <2>5. \A k \in Jobs \ {j} : Same(k)
    <3> SUFFICES ASSUME NEW k \in Jobs \ {j} PROVE Same(k)
      OBVIOUS
    <3>1. /\ Due(k, "delete")' <=> Due(k, "delete")
          /\ Due(k, "insert")' <=> Due(k, "insert")
          /\ rows'[k] = rows[k]
      BY <1>3, <2>1, <2>2, <2>4
    <3> QED BY <2>2, <3>1, SameStage
  <2>6. StageOf(j) = "requested"
    BY <2>1, <2>2, <2>3 DEF StageOf
  <2>7. StageOf(j)' = "queued"
    <3>1. rows'[j].status = "queued" /\ ~Due(j, "delete")'
      BY <1>3, <2>1, <2>2, <2>3, <2>4
    <3> QED BY <3>1 DEF StageOf, Present
  <2>8. Life!Appear(j)
    BY <2>1, <2>5, <2>6, <2>7, NewStage DEF Life!Appear
  <2> QED BY <2>8 DEF Life!LifeNext
<1>9. CASE RemoveJob(c)
  <2>1. PICK j \in created :
           /\ Present(rows[j]) /\ cstep[c] = "idle"
           /\ cstep' = [cstep EXCEPT ![c] = "delete"]
           /\ target' = [target EXCEPT ![c] = {j}]
           /\ UNCHANGED <<rows, created>>
    BY <1>9 DEF RemoveJob, Begin, SingleWrites
  <2>2. /\ cstep'[c] = "delete" /\ target'[c] = {j} /\ j \in Jobs
        /\ \A d \in Callers \ {c} : cstep'[d] = cstep[d] /\ target'[d] = target[d]
    BY <1>3, <2>1
  <2>3. \A k \in Jobs \ {j} : Same(k)
    <3> SUFFICES ASSUME NEW k \in Jobs \ {j} PROVE Same(k)
      OBVIOUS
    <3>1. /\ Due(k, "delete")' <=> Due(k, "delete")
          /\ Due(k, "insert")' <=> Due(k, "insert")
      BY <2>1, <2>2
    <3> QED BY <2>1, <3>1, SameStage
  <2>4. StageOf(j)' = "removing"
    BY <2>1, <2>2 DEF StageOf
  <2>5. CASE Due(j, "delete")
    <3>1. StageOf(j) = "removing"
      BY <2>1, <2>5 DEF StageOf
    <3> QED BY <2>3, <2>4, <3>1, AllSame DEF Same
  <2>6. CASE ~Due(j, "delete")
    <3>1. StageOf(j) \in JobStatus
      BY <1>3, <2>1, <2>2, <2>6 DEF StageOf, Present, Row
    <3>2. Life!Remove(j)
      BY <2>2, <2>3, <2>4, <3>1, NewStage DEF Life!Remove, Life!JobStatus, JobStatus
    <3> QED BY <2>2, <3>2 DEF Life!LifeNext
  <2> QED BY <2>5, <2>6
<1>10. CASE DeleteRow(c)
  <2>1. PICK j \in Jobs : target[c] = {j} /\ j \in created
    BY <1>10, TargetsOf DEF DeleteRow
  <2>2. /\ cstep[c] = "delete" /\ rows' = [rows EXCEPT ![j] = NoRow]
        /\ cstep' = [cstep EXCEPT ![c] = IF Present(rows[j]) THEN "deleted" ELSE "idle"]
        /\ target' = [target EXCEPT ![c] = {}]
        /\ created' = created
    BY <1>10, <2>1 DEF DeleteRow
  <2>3. /\ cstep'[c] \in {"idle", "deleted"} /\ target'[c] = {}
        /\ \A d \in Callers \ {c} : cstep'[d] = cstep[d] /\ target'[d] = target[d]
    BY <1>3, <2>2
  <2>4. \A k \in Jobs \ {j} : Same(k)
    <3> SUFFICES ASSUME NEW k \in Jobs \ {j} PROVE Same(k)
      OBVIOUS
    <3>1. /\ Due(k, "delete")' <=> Due(k, "delete")
          /\ Due(k, "insert")' <=> Due(k, "insert")
          /\ rows'[k] = rows[k]
      BY <1>3, <2>1, <2>2, <2>3
    <3> QED BY <2>2, <3>1, SameStage
  <2>5. ~Due(j, "insert")
    BY <2>1, <2>2 DEF LifeInv, CallsApart
  <2>6. StageOf(j)' = "removed"
    <3>1. ~Due(j, "insert")' /\ rows'[j].status = "absent"
      BY <1>3, <2>2, <2>3, <2>5 DEF NoRow
    <3> QED BY <2>1, <2>2, <3>1 DEF StageOf, Present
  <2>7. CASE Present(rows[j])
    <3>1. StageOf(j) = "removing"
      BY <2>1, <2>2, <2>7 DEF StageOf
    <3>2. Life!Vanish(j)
      BY <2>1, <2>4, <2>6, <3>1, NewStage DEF Life!Vanish
    <3> QED BY <3>2 DEF Life!LifeNext
  <2>8. CASE ~Present(rows[j])
    <3>1. StageOf(j) = "removed"
      BY <2>1, <2>5, <2>8 DEF StageOf
    <3> QED BY <2>4, <2>6, <3>1, AllSame DEF Same
  <2> QED BY <2>7, <2>8
<1> QED
  BY <1>1, <1>2, <1>4, <1>5, <1>6, <1>7, <1>8, <1>9, <1>10 DEF CallStep, CallContinues

LEMMA RecoverStages ==
    ASSUME IInv, LifeInv, Recover
    PROVE  Life!LifeNext \/ UNCHANGED StageMap
<1> USE DEF Due
<1>1. /\ \A c \in Callers : cstep[c] = "idle"
      /\ UNCHANGED <<created, cstep, target>>
  BY DEF Recover, RecoverList, RecoverWrite, RecoverSchedule, RecoverFrame, callVars,
     LifeInv, RecoveryFirst
<1>2. \A j \in Jobs : /\ ~Due(j, "delete") /\ ~Due(j, "insert")
                      /\ ~Due(j, "delete")' /\ ~Due(j, "insert")'
  BY <1>1
<1>3. CASE rows' = rows
  BY <1>1, <1>2, <1>3, SameStage, AllSame
<1>4. CASE RecoverWrite
  <2>1. PICK j \in Jobs : Present(rtodo[j]) /\ rows' = Replaced(rows, j, rtodo[j])
    BY <1>4 DEF RecoverWrite, Unwritten
  <2>2. rows[j].status = "running" /\ rtodo[j].status = "queued"
    BY <1>4, <2>1 DEF RecoverWrite, LifeInv, RecoveryFirst
  <2>3. rows'[j] = rtodo[j] /\ \A k \in Jobs \ {j} : rows'[k] = rows[k]
    BY <2>1, <2>2 DEF IInv, TypeOK, Replaced, Present
  <2>4. StageOf(j) = "running" /\ StageOf(j)' = "queued"
    BY <1>2, <2>2, <2>3 DEF StageOf, Present
  <2>5. \A k \in Jobs \ {j} : Same(k)
    BY <1>1, <1>2, <2>3, SameStage
  <2>6. Life!Requeue(j)
    BY <2>4, <2>5, NewStage DEF Life!Requeue
  <2> QED BY <2>6 DEF Life!LifeNext
<1> QED BY <1>3, <1>4 DEF Recover, RecoverList, RecoverSchedule

\* A crash ends the removals and the insertions that were under way.
LEMMA CrashStages ==
    ASSUME IInv, LifeInv, Crash
    PROVE  Life!LifeNext
<1> USE DEF Due
<1> DEFINE left == [j \in Jobs |-> IF Present(rows[j]) THEN rows[j].status ELSE "queued"]
<1>1. left \in [Jobs -> JobStatus]
  BY DEF IInv, TypeOK, Row, Present, JobStatus
<1>2. /\ rows' = rows /\ created' = created
      /\ \A c \in Callers : cstep'[c] = "idle"
  BY DEF Crash
<1>3. ASSUME NEW j \in Jobs
      PROVE  StageOf(j)' = CASE StageOf(j) = "requested" -> "removed"
                             [] StageOf(j) = "removing"  -> left[j]
                             [] OTHER                    -> StageOf(j)
  <2>1. rows[j].status \in JobStatus \cup {"absent"}
    BY DEF IInv, TypeOK, Row
  <2>2. StageOf(j)' = IF Present(rows[j]) THEN rows[j].status
                      ELSE IF j \notin created THEN "unknown" ELSE "removed"
    BY <1>2 DEF StageOf, Present
  <2>3. CASE Present(rows[j]) /\ Due(j, "delete")
    BY <2>2, <2>3 DEF StageOf
  <2>4. CASE Present(rows[j]) /\ ~Due(j, "delete")
    <3>1. StageOf(j) = rows[j].status
      BY <2>4 DEF StageOf
    <3> QED BY <2>1, <2>2, <2>4, <3>1 DEF Present, JobStatus
  <2>5. CASE ~Present(rows[j])
    BY <2>2, <2>5 DEF StageOf
  <2> QED BY <2>3, <2>4, <2>5
<1>4. Life!Forget
  <2> HIDE DEF left
  <2> QED BY <1>1, <1>3 DEF Life!Forget, Life!JobStatus, JobStatus
<1> QED BY <1>4 DEF Life!LifeNext

\* Whatever callers create and remove, tasks race, passes start and crashes
\* interrupt, the rows of the jobs only take the steps of JobLifecycle
\* (AgentService and JobStore; the fairness is left to model checking).
THEOREM QueueImplementsLife == ASSUME SingleWrites PROVE Spec => Life!LifeSpec
<1>1. IInv => StageMap \in [Jobs -> Life!Stages]
  BY StageType
<1>2. ASSUME IInv, LifeInv, [Next]_vars
      PROVE  [Life!LifeNext]_StageMap
  <2>1. CASE UNCHANGED vars
    <3>1. UNCHANGED <<rows, created, cstep, target>>
      BY <2>1 DEF vars, callVars
    <3> QED BY <3>1 DEF StageMap, StageOf, Due
  <2>2. ASSUME NEW w \in Tasks, TaskStep(w) PROVE [Life!LifeNext]_StageMap
    BY <1>2, <2>2, TaskStages
  <2>3. ASSUME NEW p \in Passes, ListQueued(p) \/ StartListed(p)
        PROVE  [Life!LifeNext]_StageMap
    <3>1. UNCHANGED <<rows, created, cstep, target>>
      BY <2>3 DEF ListQueued, StartListed, PassFrame, callVars
    <3> QED BY <3>1 DEF StageMap, StageOf, Due
  <2>4. ASSUME NEW c \in Callers, CallStep(c) \/ CallContinues(c)
        PROVE  [Life!LifeNext]_StageMap
    BY <1>2, <2>4, CallStages
  <2> QED BY <1>2, <2>1, <2>2, <2>3, <2>4, RecoverStages, CrashStages DEF Next
<1>3. IInv /\ LifeInv /\ [Next]_vars => [Life!LifeNext]_StageMap
  BY <1>2
<1>4. Spec => StageMap \in [Jobs -> Life!Stages] /\ [][Life!LifeNext]_StageMap
  BY <1>1, <1>3, InitIInv, Invariance, LifeInvariance, PTL DEF Spec
<1> QED BY <1>4, PTL DEF Life!LifeSpec, StageMap
=============================================================================
