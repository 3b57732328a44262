---------------------------- MODULE JobLifecycle ----------------------------
(***************************************************************************)
(* What the queue promises about a job, seen from outside: the life of its *)
(* row in the jobs table, one atomic step per event, with no tasks, awaits *)
(* or records in flight.  AgentQueue implements it as long as callers only *)
(* create and remove jobs and change the limit: job actions and reordering *)
(* write back a record read earlier.                                       *)
(***************************************************************************)
EXTENDS JobStore

VARIABLE status

Stages == JobStatus \cup {"unknown", "requested", "removing", "removed"}

Become(j, from, to) ==
    status[j] \in from /\ status' = [status EXCEPT ![j] = to]

Request(j) == Become(j, {"unknown"}, "requested")

Appear(j)  == Become(j, {"requested"}, "queued")

Claim(j)   == Become(j, {"queued"}, "running")

\* The end of an attempt.
Settle(j)  == \E s \in {"completed", "failed", "verificationRequired"} :
                  Become(j, {"running"}, s)

\* A crash ends every attempt without a result; the next launch requeues.
Requeue(j) == Become(j, {"running"}, "queued")

\* From here on the status the row still shows means nothing: the attempt
\* has been cancelled, but what it wrote last may still land.
Remove(j)  == Become(j, JobStatus, "removing")

Vanish(j)  == Become(j, {"removing"}, "removed")

\* A crash swallows the requests that were not stored yet and forgets the
\* removals that were not, whatever their rows show by then.
Forget == \E left \in [Jobs -> JobStatus] :
              status' = [j \in Jobs |->
                  CASE status[j] = "requested" -> "removed"
                    [] status[j] = "removing"  -> left[j]
                    [] OTHER                   -> status[j]]

LifeNext ==
    \/ \E j \in Jobs :
        \/ Request(j) \/ Appear(j)  \/ Claim(j)  \/ Settle(j)
        \/ Requeue(j) \/ Remove(j)  \/ Vanish(j)
    \/ Forget

LifeSpec == status \in [Jobs -> Stages] /\ [][LifeNext]_status

\* A queued job is claimed, an attempt settles, a removal is carried out.
LifeFairness ==
    \A j \in Jobs : /\ WF_status(Claim(j))
                    /\ WF_status(Settle(j) \/ Requeue(j))
                    /\ WF_status(Vanish(j))
=============================================================================
