---------------------------- MODULE CloudControl ----------------------------
(***************************************************************************)
(* Remote control of one device: commands that the control plane stores    *)
(* in Postgres (web/src/lib/cloud/device-repository.ts) reach the agent    *)
(* in answers to its heartbeats, and the answers travel back as            *)
(* acknowledgements in later heartbeats.  In between sits the gateway      *)
(* (gateway/src/index.ts), which accepts a heartbeat before it is          *)
(* persisted, gives the control plane five seconds, and otherwise answers  *)
(* without a command although the request may still be carried out.        *)
(*                                                                         *)
(* A heartbeat is ordered by (connected_at, sequence).  Only that order    *)
(* matters, so a heartbeat is named by its age: 0 is the newest one the    *)
(* agent has sent, 1 the one before, across connections.  The model is     *)
(* finite although heartbeats go on for ever.                              *)
(***************************************************************************)
EXTENDS Naturals, FiniteSets

CONSTANTS N,            \* how many commands are given; 1..N by created_at
          KindOf,       \* the kind of each command
          AckCap,       \* how many acknowledgements the agent keeps (8)
          MaxLate,      \* bound: heartbeats a late request can outlive
          MaxFailures,  \* bound: relay requests that fail or time out
          MaxDrops,     \* bound: connections that break
          MaxCrashes,   \* bound: crashes of the agent
          MaxUpdates,   \* bound: changes of the job that is projected
          Removals      \* whether queued jobs or their destinations may be removed

\* action: executed while the heartbeat loop waits (job_action, folders, ...);
\* auth: the same, expiring after 90 seconds; queue: queue_url, whose job has
\* the id of the command; background: feed_page, extract_preview and
\* feed_resolve, which run beside the loop; reorder: jobs_reorder.
Kinds == {"action", "auth", "queue", "background", "reorder"}

Commands == 1..N

ASSUME CloudAssumption ==
    /\ N \in Nat /\ KindOf \in [Commands -> Kinds]
    /\ AckCap \in Nat \ {0} /\ MaxLate \in Nat /\ MaxFailures \in Nat
    /\ MaxDrops \in Nat /\ MaxCrashes \in Nat /\ MaxUpdates \in Nat
    /\ Removals \in BOOLEAN

VARIABLES
    status,     \* lustre_device_commands.status
    presence,   \* the age of the heartbeat in lustre_device_presence
    projected,  \* lustre_device_job_status: the version of the job stored
    overdue,    \* the expiring commands given more than 90 seconds ago
    posts,      \* gateway requests the control plane has yet to carry out
    frame,      \* the command-delivery frame on its way to the agent
    loop,       \* where CloudPresenceConnection.heartbeatLoop stands
    hand,       \* the command being handled, or NoCommand
    outcome,    \* its acknowledgement status, once executed
    acks,       \* CloudRemoteControl.acknowledgements
    receipts,   \* CloudRemoteControl.completed, written to disk with it
    inflight,   \* the background commands being executed
    jobs,       \* the queue commands whose job is in the jobs table
    version,    \* the version (updatedAt) of the projected job
    sent,       \* lastSentJobUpdates of the connection
    effects,    \* history: how often each command took effect
    failures, drops, crashes

cloudVars == <<status, presence, projected, overdue>>
agentVars == <<loop, hand, outcome, acks, receipts, inflight, sent>>
jobVars   == <<jobs, version, effects>>
faultVars == <<failures, drops, crashes>>
vars == <<cloudVars, posts, frame, agentVars, jobVars, faultVars>>

NoCommand == 0
NoUpdate  == 0
Oldest    == MaxLate + 1     \* older than every request that can still arrive
Ages      == 0..Oldest

Result == {"completed", "failed"}

Ack == [id : Commands, status : Result]

Post == [kind : {"heartbeat", "next"}, age : 0..MaxLate, acks : SUBSET Ack,
         job : 0..MaxUpdates, confirmed : SUBSET Commands, awaited : BOOLEAN]

Delivery == [confirmed : SUBSET Commands, command : Commands \cup {NoCommand}]

NoFrame == [confirmed |-> {}, command |-> N + 1]

Open(c) == status[c] \in {"pending", "running"}

Expiring == {c \in Commands : KindOf[c] = "auth"}

\* The commands whose case goes on after its effect, and may fail then: the listing of
\* what there is now is too long (libraryAcknowledgement after library_update,
\* library_remove and library_verify; boundedDestinationsAcknowledgement after
\* gdrive_connect and gdrive_select_folder), a later write throws (job_action,
\* jobs_reorder, local_folder_choose), or the helper that has saved a sign-in is timed
\* out or cancelled before its answer is read.
Unsure == {c \in Commands : KindOf[c] \in {"action", "auth", "reorder"}}

-----------------------------------------------------------------------------
Init ==
    /\ status = [c \in Commands |-> "none"]
    /\ presence = Oldest
    /\ projected = NoUpdate
    /\ overdue = {}
    /\ posts = {}
    /\ frame = NoFrame
    /\ loop = "down"
    /\ hand = NoCommand
    /\ outcome = "failed"
    /\ acks = {}
    /\ receipts = [c \in Commands |-> "none"]
    /\ inflight = {}
    /\ jobs = {}
    /\ version = NoUpdate
    /\ sent = NoUpdate
    /\ effects = [c \in Commands |-> 0]
    /\ failures = 0 /\ drops = 0 /\ crashes = 0

-----------------------------------------------------------------------------
(* The sender.                                                             *)

\* createCommand, and queueURLCommand with a request id: a repeated request
\* finds the row of the first and changes nothing.
CreateCommand(c) ==
    /\ status[c] = "none"
    /\ \A d \in 1..(c - 1) : status[d] # "none"
    /\ status' = [status EXCEPT ![c] = "pending"]
    /\ UNCHANGED <<presence, projected, overdue, posts, frame, agentVars,
                   jobVars, faultVars>>

\* Mutant: the kind of the command is not looked at.
BecomeOverdueAny(c) ==
    /\ Open(c) /\ c \notin overdue
    /\ overdue' = overdue \cup {c}
    /\ UNCHANGED <<status, presence, projected, posts, frame, agentVars,
                   jobVars, faultVars>>

\* Ninety seconds pass, which matters for the kinds that expire.
BecomeOverdue(c) ==
    /\ c \in Expiring /\ Open(c) /\ c \notin overdue
    /\ overdue' = overdue \cup {c}
    /\ UNCHANGED <<status, presence, projected, posts, frame, agentVars,
                   jobVars, faultVars>>

\* commandForOwnedDevice: whoever polls for the answer expires the command.
CommandForOwnedDevice(c) ==
    /\ c \in overdue /\ Open(c)
    /\ status' = [status EXCEPT ![c] = "failed"]
    /\ UNCHANGED <<presence, projected, overdue, posts, frame, agentVars,
                   jobVars, faultVars>>

-----------------------------------------------------------------------------
(* The control plane and the gateway that waits for it.                    *)

\* Mutant: any heartbeat of an eligible device updates the presence.
AcceptsAny(p) == TRUE

\* The WHERE clause of accepted_presence.
Accepts(p) == p.age < presence

\* Mutant: acknowledgements overwrite the status of any command.
PersistedAny(p) ==
    [c \in Commands |->
        IF \E a \in p.acks : a.id = c
        THEN (CHOOSE a \in p.acks : a.id = c).status ELSE status[c]]

\* persisted_acknowledgements.
Persisted(p) ==
    [c \in Commands |->
        IF Open(c) /\ \E a \in p.acks : a.id = c
        THEN (CHOOSE a \in p.acks : a.id = c).status ELSE status[c]]

\* Mutant: only what this heartbeat has changed is confirmed.
ConfirmedNew(p, stored) == {a.id : a \in {b \in p.acks : Open(b.id)}}

\* confirmed_acknowledgements: stored now, or earlier with the same result.
Confirmed(p, stored) == {a.id : a \in {b \in p.acks : b.status = stored[b.id]}}

\* Mutant: the gateway confirms the acknowledgements it has accepted.
DeliverSent(p, confirmed, command) ==
    frame' = IF p.awaited /\ p.age = 0 /\ loop = "waiting"
             THEN [confirmed |-> confirmed \cup {a.id : a \in p.acks},
                   command |-> command]
             ELSE frame

\* The gateway sends the agent a command-delivery frame.  The socket of an
\* earlier heartbeat than the one the agent waits for is closed by now.
Deliver(p, confirmed, command) ==
    frame' = IF p.awaited /\ p.age = 0 /\ loop = "waiting"
             THEN [confirmed |-> confirmed, command |-> command]
             ELSE frame

\* persistGatewayHeartbeat, one SQL statement; the relay, if it still waits,
\* goes on to ask for a command, or gives up when the heartbeat is refused.
PersistHeartbeat(p) ==
    /\ p \in posts /\ p.kind = "heartbeat"
    /\ IF Accepts(p)
       THEN /\ presence' = p.age
            /\ status' = Persisted(p)
            /\ projected' = IF p.job # NoUpdate /\ projected <= p.job
                            THEN p.job ELSE projected
            /\ posts' = (posts \ {p}) \cup
                  (IF p.awaited
                   THEN {[p EXCEPT !.kind = "next", !.acks = {}, !.job = NoUpdate,
                                   !.confirmed = Confirmed(p, Persisted(p))]}
                   ELSE {})
            /\ UNCHANGED frame
       ELSE /\ posts' = posts \ {p}
            /\ Deliver(p, {}, NoCommand)
            /\ UNCHANGED <<presence, status, projected>>
    /\ UNCHANGED <<overdue, agentVars, jobVars, faultVars>>

\* expired_auth.
Expired == {c \in overdue : Open(c)}

\* Mutant: a command that was delivered once is not delivered again.
CandidatesPending == {c \in Commands : status[c] = "pending"} \ Expired

Candidates == {c \in Commands : Open(c)} \ Expired

Earliest(S) == CHOOSE c \in S : \A d \in S : c <= d

\* current_presence and candidate: only the newest heartbeat gets a command.
Chosen(p) ==
    IF p.age # presence \/ Candidates = {} THEN NoCommand ELSE Earliest(Candidates)

\* selectedGatewayCommand knows no jobs_reorder: `invalid_response', and the
\* relay falls back to a frame without a command.
Relayed(c) == IF c # NoCommand /\ KindOf[c] = "reorder" THEN NoCommand ELSE c

\* nextGatewayCommand.
NextGatewayCommand(p) ==
    /\ p \in posts /\ p.kind = "next"
    /\ status' = [c \in Commands |->
            CASE c \in Expired -> "failed"
              [] c = Chosen(p) -> "running"
              [] OTHER         -> status[c]]
    /\ posts' = posts \ {p}
    /\ Deliver(p, p.confirmed, Relayed(Chosen(p)))
    /\ UNCHANGED <<presence, projected, overdue, agentVars, jobVars, faultVars>>

\* relayHeartbeat: the request fails or its five seconds are over.  It may
\* still be carried out later, but nobody waits for the result.
RelayTimesOut(p) ==
    /\ p \in posts /\ p.awaited
    /\ failures < MaxFailures
    /\ failures' = failures + 1
    /\ posts' = (posts \ {p}) \cup {[p EXCEPT !.awaited = FALSE]}
    /\ Deliver(p, p.confirmed, NoCommand)
    /\ UNCHANGED <<cloudVars, agentVars, jobVars, drops, crashes>>

\* A request nobody waits for never arrives.
LoseRequest(p) ==
    /\ p \in posts /\ ~p.awaited
    /\ posts' = posts \ {p}
    /\ UNCHANGED <<cloudVars, frame, agentVars, jobVars, faultVars>>

-----------------------------------------------------------------------------
(* The agent: the heartbeat loop.                                          *)

\* Mutant: a new connection goes on with the record of the last one.
SentBefore == sent

\* lastSentJobUpdates as heartbeatLoop begins: nothing has been sent yet.
SentAtFirst == NoUpdate

\* A connection is made with a fresh token, and the loop starts.
Connect ==
    /\ loop = "down"
    /\ loop' = "ready"
    /\ sent' = SentAtFirst
    /\ UNCHANGED <<cloudVars, posts, frame, hand, outcome, acks, receipts,
                   inflight, jobVars, faultVars>>

\* The heartbeats sent so far are one older now.
Aged(post) == [post EXCEPT !.age = @ + 1]

ChangedJob == IF version # sent THEN version ELSE NoUpdate

\* A heartbeat is sent; the gateway records its sequence, answers
\* `heartbeat-accepted' at once and starts the relay; the agent takes that
\* answer as receipt of the job update.
Beat ==
    /\ loop = "ready"
    /\ loop' = "waiting"
    /\ sent' = version
    /\ presence' = (IF presence < Oldest THEN presence + 1 ELSE Oldest)
    /\ posts' = {Aged(p) : p \in {q \in posts : q.age < MaxLate}} \cup
            {[kind |-> "heartbeat", age |-> 0, acks |-> acks, job |-> ChangedJob,
              confirmed |-> {}, awaited |-> TRUE]}
    /\ UNCHANGED <<status, projected, overdue, frame, hand, outcome, acks,
                   receipts, inflight, jobVars, faultVars>>

\* enqueue: the acknowledgement replaces an earlier one of the command; when
\* there are more than AckCap, older ones (here: any others) are dropped.
Enqueued(held, c, result) ==
    LET others == {a \in held : a.id # c}
    IN  {kept \cup {[id |-> c, status |-> result]} : kept \in
            IF Cardinality(others) < AckCap THEN {others}
            ELSE {S \in SUBSET others : Cardinality(S) = AckCap - 1}}

\* A receipt is replayed as it is, unless the job of a completed queue command,
\* with the destination it was given, can no longer be found.
Replay(c) ==
    IF KindOf[c] = "queue" /\ c \notin jobs THEN "failed" ELSE receipts[c]

\* acknowledgedByCloud(ids:) and handle(_:) up to the first effect: replay a
\* receipt, ignore what runs already, start it, or execute it now.
Receive ==
    LET c    == frame.command
        kept == {a \in acks : a.id \notin frame.confirmed}
    IN
    /\ loop = "waiting" /\ frame # NoFrame
    /\ frame' = NoFrame
    /\ \/ /\ c = NoCommand
          /\ loop' = "ready" /\ acks' = kept
          /\ UNCHANGED <<hand, inflight>>
       \/ /\ c \in Commands /\ receipts[c] # "none"
          /\ loop' = "ready" /\ acks' \in Enqueued(kept, c, Replay(c))
          /\ UNCHANGED <<hand, inflight>>
       \/ /\ c \in Commands /\ receipts[c] = "none" /\ KindOf[c] = "background"
          /\ loop' = "ready" /\ acks' = kept
          /\ inflight' = inflight \cup {c}
          /\ UNCHANGED hand
       \/ /\ c \in Commands /\ receipts[c] = "none" /\ KindOf[c] # "background"
          /\ loop' = "handle" /\ acks' = kept
          /\ hand' = c
          /\ UNCHANGED inflight
    /\ UNCHANGED <<cloudVars, posts, outcome, receipts, sent, jobVars, faultVars>>

\* The awaited call of the command's case: a queue command whose job exists
\* has been carried out already; anything else may be refused, and some
\* commands are answered as failed although they took effect.
Execute ==
    /\ loop = "handle"
    /\ loop' = "complete"
    /\ \/ /\ KindOf[hand] = "queue" /\ hand \in jobs
          /\ outcome' = "completed"
          /\ UNCHANGED <<effects, jobs>>
       \/ /\ ~(KindOf[hand] = "queue" /\ hand \in jobs)
          /\ outcome' = "completed"
          /\ effects' = [effects EXCEPT ![hand] = @ + 1]
          /\ jobs' = IF KindOf[hand] = "queue" THEN jobs \cup {hand} ELSE jobs
       \/ /\ ~(KindOf[hand] = "queue" /\ hand \in jobs)
          /\ outcome' = "failed"
          /\ UNCHANGED <<effects, jobs>>
       \/ /\ hand \in Unsure
          /\ outcome' = "failed"
          /\ effects' = [effects EXCEPT ![hand] = @ + 1]
          /\ UNCHANGED jobs
    /\ UNCHANGED <<cloudVars, posts, frame, hand, acks, receipts, inflight, sent,
                   version, faultVars>>

\* Mutant: nothing is kept of a completed command but its acknowledgement.
ReceiptsForgotten(c, result) == receipts

\* complete(commandID:acknowledgement:): the receipt goes to disk ...
Receipts(c, result) == [receipts EXCEPT ![c] = result]

\* ... and the acknowledgement into the next heartbeat.
Complete ==
    /\ loop = "complete"
    /\ loop' = "ready"
    /\ hand' = NoCommand
    /\ outcome' = "failed"
    /\ receipts' = Receipts(hand, outcome)
    /\ acks' \in Enqueued(acks, hand, outcome)
    /\ UNCHANGED <<cloudVars, posts, frame, inflight, sent, jobVars, faultVars>>

\* completeAsync, at any time, also while the connection is down.
CompleteAsync(c) ==
    /\ c \in inflight
    /\ inflight' = inflight \ {c}
    /\ \E result \in Result :
        /\ receipts' = Receipts(c, result)
        /\ acks' \in Enqueued(acks, c, result)
        /\ effects' = [effects EXCEPT ![c] = IF result = "completed" THEN @ + 1 ELSE @]
    /\ UNCHANGED <<cloudVars, posts, frame, loop, hand, outcome, sent, jobs,
                   version, faultVars>>

-----------------------------------------------------------------------------
(* What else happens on the device.                                        *)

\* The socket closes, or a reply does not come in time.  A command being
\* handled is finished first: the loop notices when it uses the socket again.
Disconnect ==
    /\ loop \in {"ready", "waiting"}
    /\ drops < MaxDrops
    /\ drops' = drops + 1
    /\ loop' = "down"
    /\ frame' = NoFrame
    /\ UNCHANGED <<cloudVars, posts, hand, outcome, acks, receipts, inflight,
                   sent, jobVars, failures, crashes>>

\* The agent dies and is started again: receipts and jobs are on disk.
Crash ==
    /\ crashes < MaxCrashes
    /\ crashes' = crashes + 1
    /\ loop' = "down"
    /\ hand' = NoCommand
    /\ outcome' = "failed"
    /\ acks' = {}
    /\ inflight' = {}
    /\ sent' = NoUpdate
    /\ frame' = NoFrame
    /\ UNCHANGED <<cloudVars, posts, receipts, jobVars, failures, drops>>

JobChanges ==
    /\ version < MaxUpdates
    /\ version' = version + 1
    /\ UNCHANGED <<cloudVars, posts, frame, agentVars, jobs, effects, faultVars>>

\* A queue command's job is removed, or the destination it names: from then on a
\* replay of its receipt does not find what it describes.
RemoveJob(c) ==
    /\ Removals
    /\ c \in jobs
    /\ jobs' = jobs \ {c}
    /\ UNCHANGED <<cloudVars, posts, frame, agentVars, version, effects, faultVars>>

-----------------------------------------------------------------------------
Next ==
    \/ \E c \in Commands :
        \/ CreateCommand(c) \/ BecomeOverdue(c) \/ CommandForOwnedDevice(c)
        \/ CompleteAsync(c) \/ RemoveJob(c)
    \/ \E p \in posts :
        \/ PersistHeartbeat(p) \/ NextGatewayCommand(p)
        \/ RelayTimesOut(p)    \/ LoseRequest(p)
    \/ Connect \/ Beat \/ Receive \/ Execute \/ Complete
    \/ Disconnect \/ Crash
    \/ JobChanges

Spec == Init /\ [][Next]_vars

\* The step the agent waits for when it waits for a delivery.
AnswerBeat ==
    \E p \in posts :
        p.age = 0 /\ p.awaited /\ (PersistHeartbeat(p) \/ NextGatewayCommand(p))

\* The agent reconnects, beats and executes as long as it runs; a request
\* that is neither refused nor timed out is answered.  Nobody need send a
\* command, and a fault need never happen.
Fairness ==
    /\ WF_vars(Connect) /\ WF_vars(Beat) /\ WF_vars(Receive)
    /\ WF_vars(Execute) /\ WF_vars(Complete) /\ WF_vars(AnswerBeat)
    /\ \A c \in Commands : WF_vars(CompleteAsync(c))

FairSpec == Spec /\ Fairness

-----------------------------------------------------------------------------
TypeOK ==
    /\ status \in [Commands -> Result \cup {"none", "pending", "running"}]
    /\ presence \in Ages
    /\ projected \in 0..MaxUpdates
    /\ overdue \in SUBSET Expiring
    /\ posts \in SUBSET Post
    /\ frame \in Delivery \cup {NoFrame}
    /\ loop \in {"down", "ready", "waiting", "handle", "complete"}
    /\ hand \in Commands \cup {NoCommand}
    /\ loop \in {"handle", "complete"} => hand \in Commands
    /\ outcome \in Result
    /\ acks \in SUBSET Ack
    /\ receipts \in [Commands -> Result \cup {"none"}]
    /\ inflight \in SUBSET Commands
    /\ jobs \in SUBSET Commands
    /\ version \in 0..MaxUpdates
    /\ sent \in 0..MaxUpdates
    /\ effects \in [Commands -> Nat]
    /\ failures \in 0..MaxFailures
    /\ drops \in 0..MaxDrops
    /\ crashes \in 0..MaxCrashes

\* The commands the agent works on.
Begun == inflight \cup (IF hand = NoCommand THEN {} ELSE {hand})

\* One command at a time, in order: nothing is begun before every earlier
\* command has its answer in the database, whatever is late, lost or repeated.
SerialExecution ==
    \A c \in Begun : \A d \in 1..(c - 1) : status[d] \in Result

\* Executed before its receipt is on disk, and again after a crash in between: the
\* window opens a second time.  A queue command finds the job that has its id.
MayRepeat(c) == crashes > 0 /\ c \in Unsure

\* A command takes effect at most once, although it is delivered again for
\* as long as its answer has not arrived.
EffectAtMostOnce == \A c \in Commands : effects[c] <= 1 \/ MayRepeat(c)

\* The answer is true: what the sender reads as completed took effect, and
\* what reads as failed did not, unless its case goes on after the effect
\* (Unsure): of such a command, which may also expire, a failure says nothing.
AnswersAreTrue ==
    \A c \in Commands :
        /\ status[c] = "completed" => effects[c] > 0
        /\ status[c] = "failed" /\ c \notin Unsure => effects[c] = 0

\* However often a command is delivered, it takes effect once, and its sender
\* reads what happened as far as the answer tells (CloudRemoteControl.handle).
EffectsAreAnswered == EffectAtMostOnce /\ AnswersAreTrue

\* At most one acknowledgement the agent holds is still needed: this is why
\* eight are enough and a heartbeat stays within its size.
OneAnswerInTransit == Cardinality({a \in acks : Open(a.id)}) <= 1

\* Two long answers (a page of a feed, the library: up to 118 000 bytes each)
\* do not fit into a heartbeat of 131 072 bytes, and heartbeatData would throw
\* on every connection from then on.  The agent never holds more than one.
LongAnswersFit ==
    Cardinality({a \in acks : KindOf[a.id] \in {"action", "background"}}) <= 1

\* The agent gives up an acknowledgement only when the command has its
\* answer, except in a crash (the receipt then replaces it).
NoAnswerLost ==
    [][\A a \in acks :
        /\ ~\E b \in acks' : b.id = a.id
        /\ Open(a.id)
        => receipts[a.id] # "none" /\ crashes' = crashes + 1]_vars

\* Without crashes an open command that is done has its acknowledgement among
\* those the next heartbeat carries, however full of stale ones the list is.
AnswerIsHeld ==
    crashes = 0 => \A c \in Commands :
        Open(c) /\ receipts[c] # "none" => \E a \in acks : a.id = c

\* The list of eight acknowledgements and the frame that carries it suffice
\* (CloudRemoteControl.appendAcknowledgement, heartbeatData).
AnswersFit == OneAnswerInTransit /\ LongAnswersFit /\ AnswerIsHeld

\* docs/CLOUD_DEVICE_IDENTITY.md:19, "A late heartbeat cannot change current
\* presence": the presence row only moves to newer heartbeats (it looks older
\* when the agent sends the next one), and the projected job never goes back.
LateHeartbeatChangesNothing ==
    [][/\ presence' > presence => loop = "ready" /\ loop' = "waiting"
       /\ projected' >= projected]_vars

\* An answer is given once and stays.
Life == INSTANCE CommandLife WITH
    stage <- [c \in Commands |-> IF Open(c) THEN "open" ELSE status[c]],
    done  <- {c \in Commands : effects[c] > 0}

\* All of this together, as the abstract specification says it.
ImplementsCommandLife == Life!LifeSpec

\* Every command is answered in the end: however often the connection breaks,
\* the relay fails or the agent dies, nothing is stuck at the head of the queue.
EveryCommandAnswered ==
    \A c \in Commands : Open(c) ~> status[c] \in Result

\* The dashboard catches up with the device, unless a relay request fails: a
\* broken connection or a crash, whenever it comes, loses no update for good.
ProjectionCatchesUp ==
    \A v \in 1..MaxUpdates : version = v ~> projected >= v \/ failures > 0

-----------------------------------------------------------------------------
(* What the documentation says, and the code does not keep.                *)

\* docs/SESSION_LOG.md:45, the jobs_reorder command goes "across Vercel, the
\* Cloudflare gateway contract, the Agent": it is answered like any other.
ReorderCrossesTheGateway ==
    \A c \in Commands :
        KindOf[c] = "reorder" /\ Open(c) ~> status[c] \in Result

\* docs/ARCHITECTURE.md:130, after a relay failure "persistence resumes
\* without forcing an agent reconnect": what was not stored then is later.
PersistenceResumes ==
    \A v \in 1..MaxUpdates : version = v ~> projected >= v
=============================================================================
