------------------------------ MODULE Staging ------------------------------
(***************************************************************************)
(* Cloud staging: the Mac has the control plane fetch a video into a       *)
(* bucket, polls until it is there, downloads it, checks it and reports    *)
(* the delivery.  Every request first polls the fetcher for the stage it   *)
(* names and writes what it heard over the row, so a request the Mac gave  *)
(* up can write after the next one did.                                    *)
(***************************************************************************)
EXTENDS Naturals, FiniteSets

CONSTANTS
    StagingJobs,    \* downloads of the Mac that stage
    MaxStages,      \* stages ever created
    StageQuota,     \* open stages of a device (2)
    MaxGiveUps      \* requests the Mac gives up

ASSUME StagingAssumption == MaxStages \in Nat /\ StageQuota \in Nat /\ MaxGiveUps \in Nat

Stages == 1..MaxStages

VARIABLES
    stage,          \* rows, by creation
    fetch,          \* what the fetcher does for a stage
    stored,         \* stages whose video is in the bucket
    job,            \* a download: step, the stage it knows, its file
    request,        \* the request of a download the control plane handles
    late,           \* the request a download gave up, still handled
    giveUps,
    crossed         \* did a request write a row that another had closed

stagingVars == <<stage, fetch, stored, job, request, late, giveUps, crossed>>

OpenStatus == {"pending", "staging", "ready"}
ClosedStatus == {"delivered", "failed", "cancelled", "expired"}
NoRequest == [op |-> "none", stage |-> 0, step |-> "none", seen |-> "none"]
Existing == {s \in Stages : stage[s] # "none"}

StagingInit ==
    /\ stage = [s \in Stages |-> "none"]
    /\ fetch = [s \in Stages |-> "none"]
    /\ stored = {}
    /\ job = [j \in StagingJobs |-> [step |-> "start", stage |-> 0, files |-> 0]]
    /\ request = [j \in StagingJobs |-> NoRequest] /\ late = [j \in StagingJobs |-> NoRequest]
    /\ giveUps = 0 /\ crossed = FALSE

-----------------------------------------------------------------------------
(* The control plane.  r is the request, whose and whichever of the two it *)
(* is; Becomes(r) says what it is next.                                    *)

StageRequests == {request[j] : j \in StagingJobs} \cup {late[j] : j \in StagingJobs}

Put(j, isLate, r) ==
    IF isLate THEN late' = [late EXCEPT ![j] = IF r.step = "done" THEN NoRequest ELSE r] /\ UNCHANGED request
    ELSE request' = [request EXCEPT ![j] = r] /\ UNCHANGED late

\* Mutant: a ready stage does not count against the quota.
CountsUntilReady(s) == stage[s] \in {"pending", "staging"}

Counts(s) == stage[s] \in OpenStatus

\* createStage: one statement under a lock of the device checks the quota and inserts; it
\* also refuses when staging is off or the month's budget is spent.
InsertStage(j, isLate, r) ==
    /\ r.op = "create" /\ r.step = "begin"
    /\ \/ /\ Cardinality({s \in Stages : Counts(s)}) < StageQuota /\ Cardinality(Existing) < MaxStages
          /\ LET s == Cardinality(Existing) + 1 IN
             stage' = [stage EXCEPT ![s] = "pending"] /\ Put(j, isLate, [r EXCEPT !.stage = s, !.step = "submit"])
       \/ Put(j, isLate, [r EXCEPT !.step = "done", !.seen = "refused"]) /\ UNCHANGED stage
    /\ UNCHANGED <<fetch, stored, job, giveUps, crossed>>

\* The fetcher takes the stage; its answer may come too late for the control plane, which
\* then knows no call to ask or to cancel.  A stage that was taken is asked for once before
\* the creation is answered.
SubmitStage(j, isLate, r) ==
    /\ r.op = "create" /\ r.step = "submit"
    /\ \E known \in BOOLEAN, taken \in BOOLEAN :
          /\ known => taken
          /\ fetch' = [fetch EXCEPT ![r.stage] = IF known THEN "running" ELSE IF taken THEN "unknown" ELSE "none"]
          /\ stage' = [stage EXCEPT ![r.stage] = IF known THEN "staging" ELSE "failed"]
          /\ Put(j, isLate, [r EXCEPT !.step = IF known THEN "ask" ELSE "done",
                                      !.seen = IF known THEN "staging" ELSE "refused"])
    /\ UNCHANGED <<stored, job, giveUps, crossed>>

\* stageForDevice reads the row, which may be past its seventy-two hours; a ready one does
\* not expire, and counts against the quota until it is delivered or cancelled ...
ReadStage(j, isLate, r) ==
    /\ r.op \in {"poll", "ticket", "complete", "cancel"} /\ r.step = "begin"
    /\ \E expired \in BOOLEAN :
          /\ expired => stage[r.stage] \in {"pending", "staging"}
          /\ Put(j, isLate, [r EXCEPT !.seen = stage[r.stage],
                   !.step = IF expired THEN "expire" ELSE IF stage[r.stage] = "staging" THEN "ask" ELSE "act"])
    /\ UNCHANGED <<stage, fetch, stored, job, giveUps, crossed>>

\* Mutant: the fetcher's own word is written.
HeardAsSaid(s) == {fetch[s], "failed"}

\* cleanupRemoteStage: a fetch whose call the row does not know cannot be cancelled.
Stopped(state) == IF state \in {"unknown", "none"} THEN state ELSE "cancelled"

\* What the fetcher says of a call; "poll_failed" when it does not answer.
Heard(s) == {CASE fetch[s] = "running" -> "staging" [] fetch[s] = "done" -> "ready"
               [] fetch[s] = "cancelled" -> "cancelled" [] OTHER -> "failed", "failed"}

\* ... and writes what it heard, whatever the row has become; an unanswered poll cancels
\* the fetch and empties the bucket.
AskFetcher(j, isLate, r) ==
    /\ r.step = "ask"
    /\ \E status \in Heard(r.stage) :
          /\ stage' = [stage EXCEPT ![r.stage] = status]
          /\ IF status = "failed"
             THEN fetch' = [fetch EXCEPT ![r.stage] = "cancelled"] /\ stored' = stored \ {r.stage}
             ELSE UNCHANGED <<fetch, stored>>
          /\ Put(j, isLate, [r EXCEPT !.seen = status, !.step = "act"])
    /\ crossed' = (crossed \/ stage[r.stage] \in ClosedStatus)
    /\ UNCHANGED <<job, giveUps>>

\* ... or, of an expired row, cleans up and closes it.
ExpireStage(j, isLate, r) ==
    /\ r.step = "expire"
    /\ stage' = [stage EXCEPT ![r.stage] = "expired"]
    /\ fetch' = [fetch EXCEPT ![r.stage] = Stopped(@)]
    /\ stored' = stored \ {r.stage}
    /\ Put(j, isLate, [r EXCEPT !.seen = "expired", !.step = IF r.op = "cancel" THEN "act" ELSE "done"])
    /\ crossed' = (crossed \/ stage[r.stage] \in ClosedStatus)
    /\ UNCHANGED <<job, giveUps>>

\* A creation or a poll answers the row, a ticket only a ready one.
AnswerPoll(j, isLate, r) ==
    /\ r.step = "act" /\ r.op \in {"create", "poll", "ticket"}
    /\ Put(j, isLate, [r EXCEPT !.step = "done"])
    /\ UNCHANGED <<stage, fetch, stored, job, giveUps, crossed>>

\* finishStage empties the bucket, then closes the row.
DeleteObject(j, isLate, r) ==
    /\ r.step = "act" /\ r.op = "complete"
    /\ IF r.seen = "ready" THEN stored' = stored \ {r.stage} /\ Put(j, isLate, [r EXCEPT !.step = "close"])
       ELSE UNCHANGED stored /\ Put(j, isLate, [r EXCEPT !.step = "done"])
    /\ UNCHANGED <<stage, fetch, job, giveUps, crossed>>

CloseStage(j, isLate, r) ==
    /\ r.step = "close"
    /\ stage' = [stage EXCEPT ![r.stage] = "delivered"]
    /\ Put(j, isLate, [r EXCEPT !.step = "done", !.seen = "delivered"])
    /\ crossed' = (crossed \/ stage[r.stage] \in ClosedStatus)
    /\ UNCHANGED <<fetch, stored, job, giveUps>>

\* cancelStage cleans up and closes the row, a delivered one too.
CancelStage(j, isLate, r) ==
    /\ r.step = "act" /\ r.op = "cancel"
    /\ fetch' = [fetch EXCEPT ![r.stage] = Stopped(@)]
    /\ stored' = stored \ {r.stage}
    /\ stage' = [stage EXCEPT ![r.stage] = "cancelled"]
    /\ Put(j, isLate, [r EXCEPT !.step = "done", !.seen = "cancelled"])
    /\ UNCHANGED <<job, giveUps, crossed>>

HandleStage(j, isLate, r) ==
    \/ InsertStage(j, isLate, r) \/ SubmitStage(j, isLate, r) \/ ReadStage(j, isLate, r)
    \/ AskFetcher(j, isLate, r) \/ ExpireStage(j, isLate, r) \/ AnswerPoll(j, isLate, r)
    \/ DeleteObject(j, isLate, r) \/ CloseStage(j, isLate, r) \/ CancelStage(j, isLate, r)

HandleRequest(j) == HandleStage(j, FALSE, request[j]) \/ HandleStage(j, TRUE, late[j])

FetchEnds(s) ==
    /\ fetch[s] \in {"running", "unknown"}
    /\ \/ fetch' = [fetch EXCEPT ![s] = "failed"] /\ UNCHANGED stored
       \/ fetch' = [fetch EXCEPT ![s] = "done"] /\ stored' = stored \cup {s}
    /\ UNCHANGED <<stage, job, request, late, giveUps, crossed>>

-----------------------------------------------------------------------------
(* The Mac.                                                                *)

Sends(j, op, s) == request' = [request EXCEPT ![j] = [NoRequest EXCEPT !.op = op, !.stage = s, !.step = "begin"]]

\* transfer: a stage the job knows is taken up, otherwise one is created.
StartTransfer(j) ==
    /\ job[j].step = "start"
    /\ job' = [job EXCEPT ![j].step = "waiting"]
    /\ IF job[j].stage = 0 THEN Sends(j, "create", 0) ELSE Sends(j, "poll", job[j].stage)
    /\ UNCHANGED <<stage, fetch, stored, late, giveUps, crossed>>

\* Mutant: the delivery is reported before the download.
AfterReadyAtOnce(op) == IF op \in {"create", "poll"} THEN "complete" ELSE "none"

\* What follows a stage that is ready.
AfterReady(op) == IF op \in {"create", "poll"} THEN "ticket" ELSE "none"

\* Mutant: a stage whose row is over is polled on.
StillFetchedOrOver(status) == status \notin {"ready", "refused"}

\* The statuses the Mac polls on.
StillFetched(status) == status \in {"pending", "staging"}

\* Any failure gives the stage up and the job downloads by itself.
FallBack(j, s) ==
    IF s = 0 THEN job' = [job EXCEPT ![j].step = "local"] /\ request' = [request EXCEPT ![j] = NoRequest]
    ELSE job' = [job EXCEPT ![j].stage = s, ![j].step = "cancelling"] /\ Sends(j, "cancel", s)

\* The answer arrives.
HandleAnswer(j) ==
    LET r == request[j] IN
    /\ job[j].step = "waiting" /\ r.step = "done"
    /\ CASE r.op = "create" /\ r.seen # "refused" ->
                job' = [job EXCEPT ![j].stage = r.stage] /\ Sends(j, "poll", r.stage)
         [] r.op = "create" /\ r.seen = "refused" -> FallBack(j, 0)
         [] r.op = "poll" /\ StillFetched(r.seen) -> Sends(j, "poll", r.stage) /\ UNCHANGED job
         [] r.op = "poll" /\ r.seen = "ready" -> Sends(j, AfterReady(r.op), r.stage) /\ UNCHANGED job
         [] r.op = "ticket" /\ r.seen = "ready" /\ r.stage \in stored ->
                \/ job' = [job EXCEPT ![j].files = @ + 1] /\ Sends(j, "complete", r.stage)
                \/ FallBack(j, r.stage)
         [] r.op = "complete" /\ r.seen = "delivered" ->
                job' = [job EXCEPT ![j].stage = 0, ![j].step = "delivered"] /\ request' = [request EXCEPT ![j] = NoRequest]
         [] OTHER -> FallBack(j, r.stage)
    /\ UNCHANGED <<stage, fetch, stored, late, giveUps, crossed>>

\* The cancellation is answered, or not: the job does not wait for more.
EndCancel(j) ==
    /\ job[j].step = "cancelling" /\ request[j].step = "done"
    /\ job' = [job EXCEPT ![j].stage = 0, ![j].step = "local"]
    /\ request' = [request EXCEPT ![j] = NoRequest]
    /\ UNCHANGED <<stage, fetch, stored, late, giveUps, crossed>>

\* A request times out or its connection breaks; the control plane goes on with it.  What
\* the creation made is not known then.
GiveUp(j) ==
    /\ request[j].op # "none" /\ late[j] = NoRequest /\ giveUps < MaxGiveUps
    /\ giveUps' = giveUps + 1
    /\ late' = [late EXCEPT ![j] = IF request[j].step = "done" THEN NoRequest ELSE request[j]]
    /\ IF job[j].step = "cancelling"
       THEN job' = [job EXCEPT ![j].stage = 0, ![j].step = "local"] /\ request' = [request EXCEPT ![j] = NoRequest]
       ELSE FallBack(j, job[j].stage)
    /\ UNCHANGED <<stage, fetch, stored, crossed>>

\* The job is paused: nothing is sent from a cancelled task, and the job keeps its stage.
PauseTransfer(j) ==
    /\ job[j].step = "waiting" /\ late[j] = NoRequest /\ giveUps < MaxGiveUps
    /\ giveUps' = giveUps + 1
    /\ late' = [late EXCEPT ![j] = IF request[j].step = "done" THEN NoRequest ELSE request[j]]
    /\ request' = [request EXCEPT ![j] = NoRequest]
    /\ job' = [job EXCEPT ![j].step = "start"]
    /\ UNCHANGED <<stage, fetch, stored, crossed>>

DownloadLocally(j) ==
    /\ job[j].step = "local"
    /\ job' = [job EXCEPT ![j].step = "downloaded", ![j].files = @ + 1]
    /\ UNCHANGED <<stage, fetch, stored, request, late, giveUps, crossed>>

\* processQueuedJob and CloudStagingClient, between requests.
GoOn(j) == StartTransfer(j) \/ HandleAnswer(j) \/ EndCancel(j) \/ DownloadLocally(j)

StagingNext ==
    \/ \E j \in StagingJobs :
          \/ HandleRequest(j) \/ GoOn(j) \/ GiveUp(j) \/ PauseTransfer(j)
    \/ \E s \in Stages : FetchEnds(s)

StagingSpec == StagingInit /\ [][StagingNext]_stagingVars

\* Requests are handled, fetches end, and the agent goes on.
StagingFairness ==
    /\ \A j \in StagingJobs :
          /\ WF_stagingVars(HandleRequest(j))
          /\ WF_stagingVars(GoOn(j))
    /\ \A s \in Stages : WF_stagingVars(FetchEnds(s))

-----------------------------------------------------------------------------
(* Properties.                                                             *)

StagingTypeOK ==
    /\ stage \in [Stages -> {"none"} \cup OpenStatus \cup ClosedStatus]
    /\ fetch \in [Stages -> {"none", "running", "unknown", "done", "failed", "cancelled"}]
    /\ stored \subseteq Existing
    /\ \A j \in StagingJobs :
          /\ job[j].step \in {"start", "waiting", "cancelling", "local", "delivered", "downloaded"}
          /\ job[j].stage \in {0} \cup Existing /\ job[j].files \in 0..MaxGiveUps + 2
    /\ \A r \in StageRequests :
          /\ r.op \in {"none", "create", "poll", "ticket", "complete", "cancel"}
          /\ r.step \in {"none", "begin", "submit", "ask", "expire", "act", "close", "done"}
    /\ giveUps \in 0..MaxGiveUps

\* A device never has more open stages than its quota, unless a request that was given up
\* wrote over a row that was closed in the meantime and opened it again.
QuotaHolds == ~crossed => Cardinality({s \in Stages : stage[s] \in OpenStatus}) <= StageQuota

\* What the cloud has as delivered is on the Mac: the video was downloaded and checked
\* before the bucket was emptied.
DeliveredIsOnTheMac ==
    \A j \in StagingJobs : job[j].step = "delivered" => job[j].files > 0

\* The rows of the stages say what is so: as many are open as the device may have, and what
\* is delivered has arrived.
StagesHold == QuotaHolds /\ DeliveredIsOnTheMac

\* A download that has begun to stage ends with a file, by way of the cloud or by itself.
StagingEnds ==
    \A j \in StagingJobs : []<>(job[j].step \in {"start", "delivered", "downloaded"})
=============================================================================
