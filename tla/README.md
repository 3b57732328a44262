# Lustre: a TLA+ model of the download agent and its cloud control plane

Lustre is a macOS download agent (`Sources/LustreAgent`, Swift actors over a
SQLite job table). It is driven by a command line and a loopback dashboard on
the same machine and, through a Cloudflare gateway and a Vercel control plane
with a Postgres database, by a web dashboard anywhere. This directory models
the parts in which order matters: who owns a job, what survives a crash, which
command is executed how often, and what a wake that comes at a bad moment does.

Paths below are relative to the repository. `AgentService.swift` and the
`Cloud*.swift` files are in `Sources/LustreAgent`.

Contents: 1 inventory, 2 modules, 3 runs, 4 fairness, 5 proofs, 6 known
deviations, 7 what the models leave out, 8 plan.

## 1. Inventory

### 1.1 Job store (`Sources/LustreCore/JobStore.swift`, `Models.swift`)

*State*: one SQLite row per job (id, status, priority, assisted media link,
progress, log). *Operations*: create, update (silently nothing for a missing
row), delete (throws for a missing row), apply (the state machine), list.
*Interaction*: an actor of its own; every call is an `await` for the caller.
*Hard*: callers keep whole records across awaits and write them back.
*Correct when*: a row takes only steps of the life cycle, and a removed row
stays removed.

### 1.2 Download queue (`AgentService.swift`)

*State*: `activeDownloadTasks` (job to task token),
`maximumConcurrentDownloads`, and what each task and call holds across its
awaits. *Operations*: createJob, apply (pause, resume, cancel, retry,
forceStart), removeJob, reorderQueuedJobs, setMaximumConcurrentDownloads,
processQueuedJob, updateProgress, finishDownload, scheduleQueuedDownloads,
recoverDurableJobs. *Interaction*: called by the loopback API and by cloud
commands; calls the store, the extractors and the transfers. *Hard*: actor
re-entrancy (any call may run at any `await`), cooperative cancellation, a
crash that loses everything but the table. *Correct when*: no slot leaks, a
job has one live worker, the limit is respected, a queued job starts, a crash
loses no job.

### 1.3 Local and WebDAV transfers (`AgentService.swift`, `FilenamePolicy.swift`)

*State*: a `.part` file and its final name; an upload's progress reporter.
*Operations*: download, resume by range, finalise by rename, upload, report.
*Hard*: two tasks of one job on one `.part` file, names that collide.
*Correct when*: no file is overwritten and a completed job has its file. The
queue has a transfer as one step that reports, ends or throws; the files are
not modelled.

### 1.4 Google Drive and destinations (`GoogleDriveClient.swift`, `Sources/LustreCore/RemoteDestinations.swift`, `web/src/app/destinations-view.tsx`)

*State*: the Mac's profiles with their upload folder, the folder of local
downloads; on the page, the box in which a folder is looked for and the list of
destinations. *Operations*: connect, list folders, create one, choose one, test
a profile; show, choose and reset the local folder. *Hard*: every button posts
a command and polls on its own, so answers come in any order, also to a page
that was left. *Correct when*: the folders shown are of the path above them,
and a page at rest shows what the Mac uses.

### 1.5 HLS materializer and subprocess progress (`FFmpegHLSMaterializer.swift`, `StreamingProcessRunner.swift`, `YtDlpProgress*.swift`, `BoundedLineDecoder.swift`)

*State*: a child process, bounded line and event buffers. *Operations*: run,
read two pipes, cancel, time out, coalesce progress. *Hard*: exit, end of file
and cancellation arrive in any order; the buffer fills. *Correct when*: the
continuation is resumed once, and the last event is not the one dropped. Not
modelled.

### 1.6 Device presence connection (`CloudPresenceConnection.swift`, `CloudWebSocketMailbox.swift`, `CloudPresenceReconnectStateMachine.swift`)

*State*: the mailbox (buffer, one continuation, two wake latches, terminal
error), the loop's sequence number and `lastSentJobUpdates`, the reconnection
state. *Operations*: run, connect, the hello exchange, heartbeatLoop,
receiveExpected, timedMessage; offer, next, consumeWake, finish, cancelWaiter.
*Interaction*: a receive pump and the completion handler of 1.7 feed the
mailbox; the loop drains it, sends heartbeats and hands commands to 1.7.
*Hard*: a timer races a message that is being handed over, a wake arrives while
the loop waits for something else, the socket ends in the middle of anything.
*Correct when*: no wake is slept over, no reply is dropped to make room, no
continuation is orphaned, a waiting agent can be woken.

### 1.7 Remote command execution (`CloudRemoteControl.swift`)

*State*: `acknowledgements` (at most eight), `completed` (the receipts, on
disk), the background commands in flight. *Operations*: handle,
acknowledgedByCloud, complete, completeAsync, the heartbeat payload.
*Interaction*: carries commands out on 1.2, 1.4, 1.14 and 1.17, reports to 1.8.
*Hard*: redelivery until the answer is stored, a crash between effect and
receipt, commands that run beside the loop, a replayed answer that differs from
the first. *Correct when*: commands are executed in order and once, and no
answer that is still needed is dropped.

### 1.8 Gateway (`gateway/src/index.ts`, `protocol.ts`)

*State*: one Durable Object per device: attachments in memory until the hello
and in the socket afterwards, the last sequence of each connection, the last
wake. *Operations*: accept, hello, heartbeat, relay with a five second timeout,
wake, hibernation, and the validation of what passes. *Hard*: a heartbeat is
accepted before it is stored; a timed-out request may still be carried out;
hibernation forgets; validation that differs from that of the next hop.
*Correct when*: an old heartbeat changes nothing, every command reaches the
agent and every frame passes.

### 1.9 Device repository (`web/src/lib/cloud/device-repository.ts`, `device-contract.ts`, `gateway-heartbeat-persistence.ts`, `gateway-command-delivery.ts`, `command-wake.ts`, the `devices` routes)

*State*: tables of devices, sessions, presence, commands, job status, library
snapshots. *Operations*: pairing, enrolment, sessions, persistGatewayHeartbeat,
nextGatewayCommand, the creation of commands by kind, commandForOwnedDevice,
revocation. *Hard*: statements that are atomic alone and interleave between
requests; a look-up followed by an insert; evidence that ages. *Correct when*:
presence, projection and snapshot never go back, an answer is given once, one
command at a time is delivered, and a request id stands for one download.

### 1.10 Device enrolment (`DeviceIdentity.swift`, `CloudEnrollmentClient.swift`, `DeviceEnrollmentStore.swift`, `Sources/lustre/main.swift`, `device-crypto.ts`, `device-token.ts`)

*State*: a key pair, an enrolment record, a pairing code, challenges, tokens.
*Operations*: create a code, enrol, complete, save; challenge, token; revoke,
disconnect. *Hard*: a code presented twice at once, a lost answer after the
server's record and before the local one, revocation in between. *Correct
when*: a code enrols one device, a revoked device gets nothing.

### 1.11 Collections sync (`CloudCollectionSync.swift`, `Sources/LustreCore/CloudCollectionStore.swift`, `collections.ts`, the watch list and sync routes)

*State*: rows in the cloud with a numbered change log, receipts; on the Mac a
copy, an outbox, a cursor. *Operations*: edit on either side, push, pull,
bootstrap, refresh from the finished jobs. *Hard*: a push whose answer is lost,
a change whose number is drawn before it is visible, a row and its change
written apart. *Correct when*: a mutation is applied once, no edit is lost and
both sides converge.

### 1.12 Cloud staging (`CloudStagingClient.swift`, `staging.ts`, the `stages` routes)

*State*: stage rows, the fetcher's call, an object in a bucket. *Operations*:
create under a quota, submit, poll, ticket, complete, cancel, expire. *Hard*: a
request the Mac gave up writes after the next one; the answer to the completion
is lost. *Correct when*: a device has no more open stages than its quota, what
counts as delivered is on the Mac, and every wait ends.

### 1.13 Browser capture and companion (`BrowserCapture.swift`, `lustre-browser-bridge`, the Chrome and Firefox extensions)

*State*: capture requests with deadlines, tabs. *Operations*: request, claim,
submit, time out, cancel. *Hard*: an answer after the deadline, a tab nobody
closes. *Correct when*: a request is answered once and its tab is closed.

### 1.14 Sign-in helper (`PornHubAuth.swift`, `PornHubAuthHelper.swift`, the Settings view)

*State*: the actor's state and login id, a login task, the cookie store; in the
view, the state shown and a poll. *Operations*: status, login, cancel, logout;
capture, save, report. *Hard*: cancellation between capture and save, an older
poll behind a newer answer, a state set by a reader of the cookies. *Correct
when*: a login ends and is followed to its end, and a status never goes back.

### 1.15 Loopback API (`LoopbackServer.swift`, the executables, `AgentClient.swift`)

No state of its own: every request is one API call of 1.2.

### 1.16 Dashboard (`web/src/app/cloud-full-dashboard.tsx`, `feed-view.tsx`, `home-workspace-view.tsx`, `feed-model.ts`, `home-workspace-model.ts`)

*State*: what is shown of the jobs and the request in flight; the Feed's
source, query, page, cards and sequence number; the calls of the views with
their request ids; the list being extracted, its runs and the session storage.
*Operations*: poll, force a refresh, hide and show the page, act on a job, load
a page from cache and Mac, queue, extract, resume. *Hard*: answers out of
order, a page reloaded in the middle, two runs that share one list, a retry
after a lost answer. *Correct when*: what is shown never goes back and settles,
a retry does not download twice, an interrupted extraction is complete.

### 1.17 Library (`CloudLibrary.swift`, `web/src/app/library-view.tsx`)

*State*: metadata and a revision on the Mac, a snapshot in the cloud, items and
a selection in the view. *Operations*: list, update, remove, verify; batches of
commands, three at a time. *Hard*: an item's id changes when its source is sent
again; part of a batch fails. *Correct when*: what was done leaves the
selection, what failed stays, nothing is sent twice.

### 1.18 Lustre Watch (`web/src/components/lustre-watch/watch-app.tsx`, the `api/watch` routes, `web/src/lib/lustre-watch`)

*State*: a page of the feed and a cache of five minutes, the panel of a scene
with its stream, the watch list with optimistic changes, a batch.
*Operations*: load, search, turn, capture by the companion; open, cancel,
resolve by stream, request or Mac; save, toggle, remove, undo, batches. *Hard*:
nothing puts loads or toggles in order. *Correct when*: the cache holds what
its key says, a stream's sources are of the scene shown, a change that is
refused is taken back.

### 1.19 Watch resolver and assets, resolvers and feeds, feed assets

Parsing of third-party pages, stateless tickets and a proxy. No shared state
whose interleavings matter.

### How they interact

    views (1.4, 1.14, 1.16-1.18)
      | commands, polls
      v
    control plane (1.9 to 1.12) ------wake----------> gateway (1.8)
                              ^  |                      ^   |
                    relayed   |  | selected             |   | accepted,
                    heartbeat |  v command    heartbeat |   v delivery, wake
                            gateway (1.8) <-------------- connection (1.6)
                                                            |      ^
                                              handle(command)|     | local wake
    collections (1.11), staging (1.12)                      v      |
    command line, loopback dashboard --API--> queue (1.2) <-- remote control (1.7)
                                                |
                                                v
                                           job store (1.1)

## 2. Modules

| module | models | kind |
|---|---|---|
| `JobStore` | 1.1 | operators on rows: the state machine, `Replaced`, `Applied` |
| `AgentQueue` | 1.2 over `JobStore` | detailed specification |
| `JobLifecycle` | what the queue promises about a row | abstract specification |
| `CloudControl` | 1.6 to 1.9: one device, its gateway, the database | detailed specification |
| `CommandLife` | what a sender of commands may rely on | abstract specification |
| `CloudWebSocketMailbox` | the inside of 1.6, message by message | detailed specification |
| `GatewaySession` | 1.8 with the Mac's end of a connection: hello, hibernation, wakes | detailed specification |
| `WireContract` | what passes 1.7, 1.8, 1.9 and the views: validation on every hop | detailed specification |
| `DeviceEnrollment` | 1.10: pairing and revocation | detailed specification |
| `DeviceSession` | 1.9, 1.10: challenges, tokens, presence, the realtime route | detailed specification |
| `CommandCreation` | 1.9: how posts become command rows | detailed specification |
| `Collections` | 1.11 | detailed specification |
| `Picks` | the one filter of `Collections` and `CloudWebSocketMailbox` | operator |
| `Staging` | 1.12 | detailed specification |
| `FeedView` | 1.16: the pages of the Feed | detailed specification |
| `ViewQueueing` | 1.16 to 1.18: queueing from four views | detailed specification |
| `HomeWorkspace` | 1.16: extraction of a list | detailed specification |
| `SignIn` | 1.14, 1.13: the Mac and the Settings view | detailed specification |
| `DashboardRefresh` | 1.16: polls, forced refreshes, actions | detailed specification |
| `SceneResolution`, `WatchFeed`, `WatchVoid` | 1.18 | detailed specifications |
| `LibraryView` | 1.17 | detailed specification |
| `DriveDestinations` | 1.4 | detailed specification |
| `AgentQueueProofs`, `CloudControlProofs`, `CommandCreationProofs`, `CollectionsProofs` | theorems about the module of that name (section 5) | proofs |
| `DeviceProofs` | theorems about `DeviceEnrollment`, `DeviceSession` | proofs |
| `ServicesProofs` | theorems about `CloudWebSocketMailbox`, `GatewaySession`, `WireContract`, `Staging` and the suite `MCServices` | proofs |
| `FeedViewProofs` | theorems about `FeedView`, `DashboardRefresh`, `LibraryView`, `ViewQueueing` | proofs |
| `BrowserProofs` | theorems about `SceneResolution`, `HomeWorkspace`, `WatchVoid`, `WatchFeed`, `SignIn`, `DriveDestinations` and the suite `MCBrowser` | proofs |
| `MCAgentQueue`, `MCCloudControl` | instances for TLC | |
| `MCServices` | `CloudWebSocketMailbox`, `GatewaySession` to `Staging` in one run | suite for TLC |
| `MCBrowser` | `FeedView` to `DriveDestinations` in one run | suite for TLC |

### 2.1 AgentQueue and JobStore

*Granularity.* Swift actors are re-entrant. An action of `AgentQueue` is either
one call of the JobStore actor (`ReadQueued`, `WriteActive`, `InsertJob`, ...)
or a stretch of AgentService code between two awaits that looks at the actor's
own state (`CheckQueued`, `ClaimTransfer`, `EnqueueCreated`, ...). Code that
only inspects what the store has just returned commutes with everything else
and is folded into the store call before it. No order is assumed between calls
of different tasks.

*State.* `rows` is the table. `active` is `activeDownloadTasks`; tokens are the
slots 1..MaxTasks of a job, reused when a task has ended (the code uses fresh
UUIDs, which only need to differ from those in use). `pc`, `cancelled`, `snap`
(the `DownloadJob` value the task holds), `route` and `back` are a task;
`cstep`, `target`, `cact` and `todo` an API call; `pstep` and `listed` a
scheduling pass; `rstep` and `rtodo` the recovery. `created` is history: which
ids exist or existed.

*A task* goes through the steps of processQueuedJob (540-760) in order:

    start -> readQueued -> writeRunning -> extract -> readActive -> claimTransfer
      -> writeActive -> checkTransfer -> readCurrent -> [writePrepared -> ...]
      -> transfer -> readDone -> writeDone -> finish

with `fail -> readFailed -> writeFailed -> finish` for errors, and `finish`
straight away wherever the code returns. The four routes are the local
download, a remote destination whose profile is prepared first, the same with
HLS materialisation (staged), and cloud staging with its fallback. Progress
reports (`readProgress`, `writeProgress`) interrupt a transfer any number of
times.

*What matters about `snap`.* processQueuedJob writes the record it read some
awaits earlier; `Save` does that, and `Replaced` is JobStore's UPDATE, which
does nothing for a missing row.

### 2.2 JobLifecycle

The life of a row with no tasks or records in flight: requested, queued,
running, settled, requeued after a crash, removing, removed. `AgentQueue`
implements it (`Life == INSTANCE JobLifecycle WITH status <- ...`) as long as
callers use operations that write a row once: create, remove,
setMaximumConcurrentDownloads. Job actions and reordering write a record read
an await earlier and really do break the life cycle (section 3.4), so the run and
the theorem leave them out.

A job is *removing* from the moment removeJob cancels its task until its delete
reaches the store. The status of the row means nothing in between: the task that
was cancelled, or an older one, may be past its last look at the cancellation and
write once more, so that a row goes from queued to completed while its delete is
pending. The stage is what makes the refinement true with more than one task of
a job, and a crash then finds the row in whatever state that write left it
(`Forget`).

### 2.3 CloudControl and CommandLife

One device and its commands 1..N in creation order. A *heartbeat* is ordered
by (connected_at, sequence) in the code; only that order matters, so the model
names a heartbeat by its age: 0 is the newest the agent has sent, and all ages
grow by one when it sends the next. This keeps the state space finite although
heartbeats never stop; requests older than MaxLate are taken as lost.

*Control plane.* `PersistHeartbeat` is the one SQL statement of
persistGatewayHeartbeat (114-234): presence order, acknowledgements,
projection. `NextGatewayCommand` (624-691) expires auth commands, selects the
earliest open one for the newest heartbeat only, and marks it running. The
sender is `CreateCommand` and `CommandForOwnedDevice`, which expires an overdue
command when it is polled.

*Gateway.* `Beat` includes the acceptance (index.ts:255), which comes before
the relay. `posts` are the relay's two requests; `RelayTimesOut` delivers a
frame without a command while the request may still be carried out later
(`awaited = FALSE`). `Deliver` writes the frame to the socket the agent waits
at. `Relayed` is the validation in protocol.ts.

*Agent.* `Connect`, `Beat`, `Receive`, `Execute`, `Complete` are the heartbeat
loop; `CompleteAsync` a background command. `receipts` and `jobs` survive a
crash; `acks`, `inflight` and `sent` do not. The bound on the acknowledgements
is AckCap; which ones are dropped is left open except that the newest stays,
which covers the code's order.

*CommandLife* says it without connections: commands take their turn, take
effect at most once, and the answer tells whether they did. One failure does not
tell: the case of a command in `Unsure` goes on after the effect (a listing of what
there is now, a second write, the report of the sign-in helper) and may fail then, so
that `Execute` lets it take effect and be answered as failed. Of the failures of all
other commands it is said that nothing happened.

### 2.4 CloudWebSocketMailbox

The mailbox actor of one connection (buffer, `waiter`, the two wake latches,
`terminal`), the pump, the completion handler, the socket, and the loop with
`timedMessage` in small steps: a task group races `next()` and a timer, the
timer may fire before `next()` has been entered ("late"), between, or after a
message was handed over, and the group waits for the cancelled child.
`owed` is history: a wake was offered after the last heartbeat began.

### 2.5 The services (`MCServices`)

Every request of the control plane is served by its own function instance: in
all these modules a SQL statement is one step and the statements of two
requests interleave. A request has a record with the step it is at and what it
has read.

*GatewaySession.* Sockets are numbered; `socket[n].attachment` is "pending"
(only in the object's memory), "stored" or lost. `Hibernate` erases the memory;
`ReceiveHello` stores the attachment. `downlink` is what is on its way to the
agent. `PostTask` is the creation of a command with its wake (`command-wake.ts`),
`HandleWake` the object's coalescing by `lastCommandWake`, `MinutePasses` ends
it. `IdleTimerFires` ends the wait of an idle agent, and nothing is asked of it: an agent
that waits may be woken by a frame or not at all, which is what makes `WokenIsServed`
say something. `RelayFails` is a relay that times out, is answered wrongly or breaks off
(index.ts:342-347): its delivery has no command although one is open. `FailWake` is a wake
request that is given up. Such calls are bounded (MaxFailedCalls); `leftToTimer` is history,
the commands that were left to the idle timer by one of them since the last relay that
went well.

*WireContract.* A command and an answer are records of the classes their
validators tell apart (the kind of URL, whether a text is short, wide in
encoded form or too long, the length of a list, the bytes of an answer). Each
hop's validator is an operator of its own, translated separately: `RouteAdmits`,
`HandlerAdmits`, `GatewayAdmits` and `AgentAdmits` for a command, `Fits`,
`GatewayAccepts` and `CloudAccepts` for an answer, `AgentSends`,
`GatewayPasses` and `CloudPersists` for a frame. The state machine sends
commands and answers through all of them.

*DeviceEnrollment, DeviceSession.* A device is named by its key, since its
thumbprint is unique. `attempt`, `pairing`, `device` and `metadata` are the
client's run, the code, the row and the file on the Mac. In `DeviceSession`
the handlers of up to three connections are at different statements at once.

*CommandCreation.* `rows` is the command table in creation order, `post` what
each request has looked up. Time is a prefix of the acknowledged rows: older
than a quarter of an hour, older than an hour.

*Collections.* `cloud` has one watch list item and one library item; `changeLog`
is ordered by number and a change may be numbered and not yet visible; `outbox`,
`local` and `cursor` are the Mac's SQLite tables; `sync` is the request under
way. `tangled` is history (see the comment at its declaration).

*Staging.* `stage` is the table, `fetch` what the fetcher will answer, `stored`
the bucket; a request that the Mac gave up keeps running. A row that is ready does not
expire.

### 2.6 The views (`MCBrowser`)

React is single-threaded: an action is a handler or a continuation up to its
next `await`, with the renders it causes; an effect's cleanup happens in the
step that changes its dependencies. A call that polls a command is a record in
a set (`calls`, `orders`, `driveCalls`, ...) that ends with an answer, a
failure, or the five minutes of `waitForCloudCommand`; whether the Mac carried
out a command whose call failed is left open. What the Mac does is one step, as
1.2 to 1.9 are modelled elsewhere.

`FeedView` is the Feed of `feed-view.tsx`, which the page `app/test` shows; the
Cloud dashboard shows `WatchApp`, whose feed is `WatchFeed`; the flag that closes its
controls is shared with the extraction of scenes, of which `WatchFeed` has the beginning
and the end (`resolves`) and `SceneResolution` the rest. In `HomeWorkspace` an extraction
may be started while one is under way, by the keyboard or the retry buttons; the runs
share the list, the preview and the session storage. `SignIn` has both
ends: the actor and its login task on the Mac, the button and the poll in the
view.

### 2.7 The two suites

`MCServices` and `MCBrowser` put machines that share no state into one
specification: in each behaviour one of them (`subject`) moves and the others
keep their initial states, so that the reachable states are the sum of those of
the machines, not the product. The fairness of the suite is that of the
machines: each condition is the module's own, over that module's variables, and asks for
steps only of the machine that is the subject.

## 3. Runs

`CHECK_DEADLOCK FALSE` is set in the `AgentQueue` configurations (API calls are
bounded by MaxCalls, and an agent with nothing queued is rightly idle), in the
two suites and in `late_session` (a page nobody touches and a service nobody
calls rightly stop). `CloudControl` never stops, and deadlock is checked.

### 3.1 What holds

| run | states | instance | what it shows |
|---|---|---|---|
| `queue_races` | 209,000 | 1 job, 2 callers, 2 calls of any kind, 2 tasks, 2 passes, all routes, progress reports, limits 0 and 9, a row left absent, queued or running | `TypeOK`, `SlotNeverLeaked`, `NoDuplicateWorkers`, `RemovedStaysRemoved` |
| `queue_lifecycle` | 122,000 | 2 jobs, limit 1 to 2, 3 calls: create, remove, limit; 2 tasks, 1 crash | `RunningHasWorker`, `AdmissionWithinLimit`, and `JobLifecycle` with its fairness is implemented |
| `queue_live` | 147,000 | 2 queued jobs, limit 1, 2 calls: job actions, create, remove | `QueuedJobStarts` |
| `cloud_faults` | 1,625,000 | 4 commands (auth, queue, background, action), room for 2 acknowledgements; one each of: late request, failed relay, broken connection, crash, job update | `TypeOK`, `SerialExecution`, `EffectsAreAnswered`, `AnswersFit`, `NoAnswerLost`, `LateHeartbeatChangesNothing`, `CommandLife` is implemented |
| `cloud_live` | 67,000 | background, queue; the same faults and a removed job | `EveryCommandAnswered`, `ProjectionCatchesUp` |
| `services` | 291,000 | the eight machines of 2.4 and 2.5 | 5 invariants, 7 action and liveness properties |
| `browser` | 328,000 | the ten machines of 2.6 | 6 invariants, 5 action and liveness properties |

Each property is also checked to fail when the code it depends on is changed in
the way an operator marked "Mutant" in the modules does (a dropped guard, a
missing reset, a receipt not kept). The modules keep a mutant for nearly every part
of a conjunction as well.

### 3.2 What each property is about

A property that has several sides is a conjunction of named parts, each with its
own comment:

| property | parts |
|---|---|
| `EffectsAreAnswered` | `EffectAtMostOnce`, `AnswersAreTrue` |
| `AnswersFit` | `OneAnswerInTransit`, `LongAnswersFit`, `AnswerIsHeld` |
| `HandshakeHolds` | `WaitingAgentHears`, `HelloIsAnsweredFirst` |
| `HopsAgree` | `SelectedIsDelivered`, `AnswersPass`, `ReadsTheAnswer`, `FramesKeepTheConnection` |
| `EnrolledOnce` | `CodeBuysOneDevice`, `KeyEnrolsOnce`, `SavedIsEnrolled`, `RevocationIsTerminal` |
| `LateRequestsChangeNothing` | `OneTokenPerChallenge`, `RevocationStopsTheDevice`, `SnapshotNeverGoesBack` |
| `IdentityIsKept` | `AnswerIsTheRequest`, `OneRowPerIdentity`, `OnlyOverlapsDuplicate` |
| `CollectionsAgree` | `MutationsApplyOnce`, `QuietCopiesAgree`, `RemovedIsNotRevived` |
| `StagesHold` | `QuotaHolds`, `DeliveredIsOnTheMac` |
| `FeedIsCurrent` | `QueueGateMatches`, `NoStaleCards` |
| `QueuedAsAsked` | `RetryQueuesOnce`, `ReloadQueuesOnce`, `SuccessIsTheRequest` |
| `ExtractionResumes` | `SessionIsResumable`, `PreviewIsComplete` |
| `RefreshesKeepOrder` | `ViewNeverGoesBack`, `ActionIsSeen` |
| `PickedIsDoneOnce` | `SentOncePerPick`, `DroppedIsDone` |
| `DestinationsAreTrue` | `FoldersAreOfThePath`, `QuietPageIsTrue` |
| `ServicesSettle` | `WakeLeadsToBeat`, `WokenIsServed`, `IdleTimerServes`, `PresenceSettles`, `EditsReachTheCloud`, `StagingEnds` |
| `ViewsSettle` | `ControlsComeBack`, `CallsEnd`, `ExtractionEnds`, `SignInIsFollowed`, `SignInEnds`, `DashboardSettles`, `ResolvingEnds`, `FeedLoadsEnd`, `TabsClose`, `LibraryOpens`, `BatchesEnd`, `BoxLoads` |

Every module has one type invariant (`...TypeOK`), those of a suite together are
`ServicesTypeOK` and `BrowserTypeOK`; where there is a lock, a continuation or a
single request in flight, the relation between the two is part of it.

*Queue.* `SlotNeverLeaked`: the registered task is one that has not ended; the
token comparison in finishDownload (790) is what it rests on, when a resume has
replaced a cancelled task that is still winding down. `NoDuplicateWorkers`: a
task that is not cancelled is the registered one, so two tasks of a job never
both mean to finish it. `RemovedStaysRemoved`: a record held by a task, an
action, a reorder or recovery while removeJob deletes the row never brings it
back. `AdmissionWithinLimit`: a pass decides from a list one await old, while
the limit and the tasks change; still no start exceeds the limit, other than a
forced one. `RunningHasWorker`: without pause, cancel and reorder, no row says
`running` unattended. `QueuedJobStarts`: whatever ends a task wakes the queue.

*Commands* (`CloudControl`). `SerialExecution`: nothing is begun before every
earlier command has its answer in the database, also when a removed job makes a
replayed answer differ from the first. `EffectAtMostOnce`, `AnswersAreTrue`:
redelivery does not repeat an effect, and the sender reads what happened, except that the
failure of a command in `Unsure` (2.3) does not say.
`NoAnswerLost`, `AnswerIsHeld`, `OneAnswerInTransit`: why a list of eight
suffices. `LongAnswersFit`: two answers of 118,000 bytes would exceed the
heartbeat's 131,072; confirmations arrive with the next command, so they never
meet. `LateHeartbeatChangesNothing`: presence and projection do not go back.
A crash between effect and receipt repeats an action, sign-in or reorder
command (`MayRepeat`), which `EffectAtMostOnce` and `AnswerIsHeld` make room for
(section 6).

*Mailbox.* `RepliesAreKept`: with wakes coalesced, the buffer never has to drop a
reply. `WakeLeadsToBeat`: a wake is followed by a heartbeat without the idle
timer; the check at CloudPresenceConnection.swift:233 is what it rests on. The
type invariant says that the one continuation is never overwritten.

*GatewaySession.* `WaitingAgentHears`: an agent that waits has an open socket
with a stored attachment, whenever the object slept. `HelloIsAnsweredFirst`: no
wake or delivery precedes the answer to the hello. `WokenIsServed`: a posted
command is executed without the idle timer, although wakes are coalesced, unless a relay
or its wake request failed since the last relay that went well. `IdleTimerServes`: then
too, as soon as an idle agent does not wait for ever.

*WireContract.* `SelectedIsDelivered`: what the control plane selects passes
every later hop. `AnswersPass`: what the agent bounded passes gateway and
control plane. `FramesKeepTheConnection`: no frame of the Mac's own makes the
gateway close the socket. `PostedIsAnswered`, `ReadsTheAnswer`: every command is
answered, with the member its view reads.

*Enrolment and sessions.* `CodeBuysOneDevice`, `KeyEnrolsOnce`: two Macs with
one code, one Mac twice, at once. `SavedIsEnrolled`: what the Mac saved exists.
`RevocationIsTerminal`, `RevocationStopsTheDevice`: requests under way at the
revocation change nothing after it. `OneTokenPerChallenge`: completion reads,
verifies and consumes in separate statements. `SnapshotNeverGoesBack`,
`PresenceSettles`: handlers of a dropped connection run late.

*CommandCreation.* `AnswerIsTheRequest`, `OneRowPerIdentity`: a request id
stands for one row and one request. `OnlyOverlapsDuplicate`: two open rows of
one read come from requests that overlapped. `QueuedWasOffered`: feed items are
queued and resolved only if a page shown within the hour, or the cloud's copy,
has them, and a destination only if the newest list of the last quarter of an
hour names it.

*Collections.* `MutationsApplyOnce`: repetition after a lost answer changes
nothing, also over an edit made in between. `QuietCopiesAgree`: at rest the Mac
has what the cloud has, unless browser writes were tangled.
`RemovedIsNotRevived`: the old job of a removed library item does not bring it
back in the cloud. `EditsReachTheCloud`: the outbox drains.

*Staging.* `QuotaHolds`: unless an abandoned request reopened a row (`crossed`).
`DeliveredIsOnTheMac`; `StagingEnds`: with a file, by the cloud or directly.

*Views.* Feed: `QueueGateMatches`, `NoStaleCards`, `ControlsComeBack`.
Queueing: `RetryQueuesOnce` (an id kept across retries), `ReloadQueuesOnce` (an
id restored from the session storage), `SuccessIsTheRequest`, `CallsEnd`. Home:
`PreviewIsComplete` (two runs share one list), `SessionIsResumable` (a reload
at any moment finds every batch once), `ExtractionEnds`. Sign-in:
`StatusNeverGoesBack`, `SignInIsFollowed`, `SignInEnds`. Dashboard:
`ViewNeverGoesBack`, `ActionIsSeen`, `DashboardSettles`. Watch:
`StreamedIsOfTheScene`, `ResolvingEnds`, `FeedLoadsEnd`,
`TabsClose`, `UntangledIsTrue`, `BatchesEnd`. Library: `SentOncePerPick`,
`DroppedIsDone`, `LibraryOpens`. Destinations: `FoldersAreOfThePath`,
`QuietPageIsTrue`, `BoxLoads`. Each is stated with its exceptions in the comment
above it.

### 3.3 Bounds, and why they are enough

- *Jobs, callers*: the races of one job need a task, its successor and two
  calls (`queue_races`: 2 tasks, 2 callers). The limit and starvation need two
  jobs and a limit of one; the life cycle needs a second task of a job that is
  being removed, which a pass with an outdated list starts. The theorems of
  section 5 hold for any number.
- *Stored* and *InitialLimit*: the statuses a table may have at launch, of
  those that matter to the run; other statuses are reached by running.
- *MaxPasses*, *MaxTasks*: a pass or task beyond the bound cannot be opened; an
  action that would open one waits. Two passes suffice for one to act on a list
  the other has outdated.
- *AckCap* 2 with four commands makes the list drop; the code's 8 is never
  reached with so few.
- *MaxLate, MaxFailures, MaxDrops, MaxCrashes, MaxUpdates*: one fault of each
  kind lets every pair of faults combine.
- *Capacity* 4: the least with which `RepliesAreKept` holds (two wakes, two
  replies); the code uses 8. With 3 a reply can be dropped. *MaxWire* 3: enough
  for two wakes around a reply.
- *MaxPriority* 1: two jobs have two priorities.
- `services`: two sockets, tasks and posts, one hibernation, so that a wake
  meets no socket, the old one or the new; one relay or wake request that fails, with a
  command open or about to be posted; two Keys, Codes and Attempts, so that
  Macs race for a code and a Mac uses two; two Requests for one Challenge; three
  connections, of which one may be late while another is established; two posts
  that overlap, two Tabs, pages of one change, so that fetching takes several;
  two stages of a device with quota 1, so that one must be refused, and two
  requests given up, so that one of them writes late.
- `browser`: two of whatever may be confused (sources, scenes, sites, lists,
  destinations, batches), two or three presses so that calls overlap and are
  repeated, and one fault of each kind (a reload, an outage, an expiry, a page
  hidden). MaxRuns 2: two extractions at once share the list and the storage; MaxResolves 1:
  an extraction of a scene begins or ends while a load runs. VoidChunk and LibraryChunk 1 let a batch of two items have more
  chunks than one; the code has chunks of three.
- *The bounds of the code that are not numbers of these constants* (500 items,
  1,024 characters, 118,000 bytes, ...) are classes in `WireContract`: at the
  limit and beyond it.

`MCBodies`, `MCOutcomes` and Phases leave out what is known to break the
contract of `WireContract`: a queue_url with an http page or with a title that is too
wide when encoded, jobs_reorder (it has its own run), webdav_add (never
selected), a folder with more than 200 subfolders, and the phase cloudStaging. The
operators translate these cases too; adding one of them to the configuration
makes the property named in section 6 fail.

Symmetry (jobs and callers are interchangeable) is used in `queue_races` only,
which has no quantifier that orders jobs and no liveness.

### 3.4 What fails, and why

| run | property | the code |
|---|---|---|
| `pause_lost` | `CancellationPersists` | processQueuedJob writes at line 598 the record it read at 552; a pause or cancel stored in between is overwritten by `running`, and the cancelled task writes nothing more. The row says `running` with nobody at work, until a restart, which downloads the paused job. AgentService.swift:747 says "Pause and cancel persist their state before cancelling the active task." |
| `remove_twice` | `RemovalReschedules` | removeJob for a row that is gone clears the entry of a task a stale pass has started, then throws before it schedules; the task finds it owns nothing and does not schedule either. A queued job waits beside a free slot. docs/SESSION_LOG.md:65 says removal "reschedules queued work". |
| `projection_lost` | `PersistenceResumes` | Job updates are recorded as sent when the gateway accepts the heartbeat, before the relay. An update whose relay failed is not sent again on the connection. docs/ARCHITECTURE.md:130 says "persistence resumes without forcing an agent reconnect". |
| `reorder_stranded` | `ReorderCrossesTheGateway` | the control plane selects jobs_reorder, the gateway has no case for it, and it stays at the head of the queue, blocking every later command. docs/SESSION_LOG.md:45 says the command goes "across Vercel, the Cloudflare gateway contract, the Agent". |
| `late_session` | `NoLateSession` | BrowserPornHubAuthHelper.login (PornHubAuthHelper.swift:183) saves the cookies after the capture without looking at the cancellation; the actor has forgotten the login. docs/CURRENT_STATUS.md:52 says "A cancelled/closed helper cannot save a late session". |

## 4. Fairness

*AgentQueue* (`FairSpec`): weak fairness of every task, pass, started API call
and of recovery: the Swift runtime resumes what can run, and the store answers.
Strong fairness of the end of a transfer: a transfer may report progress any
number of times, but its response is finite and its requests time out. Nobody
need call the API, and a crash need never happen.

*CloudControl*: the agent reconnects, beats and executes (run(_:) never
returns, commands have timeouts); a request the gateway still waits for is
answered or times out. Faults are bounded, creation of commands is not fair.
Requests nobody waits for need not be carried out.

*CloudWebSocketMailbox, GatewaySession*: the loop, the pump and the gateway make
progress, and the timer of a reply fires in the end. The idle timer is not fair
on purpose: `WakeLeadsToBeat` and `WokenIsServed` must not depend on it, and
`IdleTimerServes` has as its hypothesis that a wait ends. Relays and wake requests that
fail are bounded: one that failed for ever would leave nothing to claim.

*The other services*: a handler that has begun goes on, the connection loop
reconnects, the sync loop runs every thirty seconds, a poll is repeated, the
fetcher answers. Users, losses and faults are never fair and are bounded.

*The views*: a call that has begun goes on, which `waitForCloudCommand` and the
companion's timers guarantee, timers of the page fire and the Cloud answers. Presses are not fair. Where an action has finitely many steps
the steps of one call are under one fairness condition.

## 5. Proofs

Eight modules hold proofs. Each extends the modules it is about and proves its
theorems for every value of their constants that satisfies the assumptions those
modules name; TLC evaluates the assumptions on the instances of section 3.

### 5.1 What is proved

| module | theorem | statement |
|---|---|---|
| `AgentQueueProofs` | `TypeCorrectness` | `Spec => []TypeOK` |
| | `SlotsAreReleased` | `Spec => []SlotNeverLeaked` |
| | `OneWorkerPerJob` | `Spec => []NoDuplicateWorkers` |
| | `RemovalIsFinal` | `Spec => RemovedStaysRemoved` |
| | `AdmissionRespectsLimit` | `Spec => AdmissionWithinLimit` |
| | `RunningMeansWorked` | with `SingleWrites`: `Spec => []RunningHasWorker` |
| | `QueueImplementsLife` | with `SingleWrites`: `Spec => Life!LifeSpec` |
| `CloudControlProofs` | `CloudTypeCorrect` | `Spec => []TypeOK` |
| | `CommandsAreSerial` | `Spec => []SerialExecution` |
| | `AnswersAlwaysFit` | `Spec => []AnswersFit` |
| | `AnswersTell` | `Spec => []FirmAreTold` |
| | `EffectsHold` | with `~Removals`: `Spec => []EffectsAreAnswered` |
| | `AnswersAreKept` | `Spec => NoAnswerLost` |
| | `LateHeartbeatsAreHarmless` | `Spec => LateHeartbeatChangesNothing` |
| | `CommandsLiveOrSlip` | every step is one of `CommandLife` or of `Slips` |
| | `CommandLifeIsImplemented` | with `~Removals`: `Spec => ImplementsCommandLife` |
| `DeviceProofs` | `EnrollmentTypeCorrect`, `EnrollmentIsOnce` | `[]EnrollmentTypeOK`, `EnrolledOnce` |
| | `SessionTypeCorrect`, `LateRequestsAreHarmless` | `[]SessionTypeOK`, `LateRequestsChangeNothing` |
| `CommandCreationProofs` | `CreationTypeCorrect`, `IdentityHolds`, `OffersHold` | `[]CreationTypeOK`, `[]IdentityIsKept`, `QueuedWasOffered` |
| `CollectionsProofs` | `CollectionsStayTrue`, `CollectionTypeCorrect` | `CollectionSpec => []CollectionsAgree`, `[]CollectionTypeOK` |
| `ServicesProofs` | `MailboxTypeCorrect` | `Spec => []TypeOK`, of the mailbox |
| | `RepliesAreNeverDropped` | with `Capacity >= 4`: `Spec => RepliesAreKept` |
| | `WireTypeCorrect` | `WireSpec => []WireTypeOK` |
| | `HopsAlwaysAgree` | with `WireInputs`: `WireSpec => HopsAgree` |
| | `HandshakeIsKept`, `GatewayTypeCorrect` | `GatewaySpec => []HandshakeHolds`, `[]GatewayTypeOK` |
| | `StagesAreKept`, `StagingTypeCorrect` | `StagingSpec => []StagesHold`, `[]StagingTypeOK` |
| | `ServicesTypesHold` | `ServicesSpec => []ServicesTypeOK` |
| | `ServicesKeepTheirWord` | with both conditions: `ServicesSpec` has all its safety properties |
| `FeedViewProofs` | `FeedTypeCorrect`, `FeedStaysCurrent` | `[]FeedTypeOK`, `FeedIsCurrent` |
| | `RefreshesAreOrdered`, `DashboardTypeCorrect` | `DashboardSpec => RefreshesKeepOrder`, `[]DashboardTypeOK` |
| | `PicksAreDoneOnce`, `LibraryTypeCorrect` | `LibrarySpec => PickedIsDoneOnce`, `[]LibraryTypeOK` |
| | `QueueingIsAsAsked`, `QueueingTypeCorrect` | `ViewSpec => []QueuedAsAsked`, `[]ViewTypeOK` |
| `BrowserProofs` | `ScenesAreKept` | `ResolutionSpec => [](StreamedIsOfTheScene /\ ResolutionTypeOK)` |
| | `ExtractionsAreWhole` | `HomeSpec => [](ExtractionResumes /\ HomeTypeOK)` |
| | `UntangledScenesAreTrue` | `VoidSpec => [](UntangledIsTrue /\ VoidTypeOK)` |
| | `StatusIsCurrent` | `SignInSpec => []SignInTypeOK /\ StatusNeverGoesBack` |
| | `DestinationsAreShown` | `DriveSpec => [](DestinationsAreTrue /\ DriveTypeOK)` |
| | `WatchTypeCorrect` | `WatchSpec => []WatchTypeOK` |
| | `BrowserTypesHold` | `BrowserSpec => []BrowserTypeOK` |
| | `BrowserShowsTheTruth` | `BrowserSpec` has all its safety properties |

`DeviceProofs` and the last three modules hold the proofs of several machines, which
share no state. With them every invariant and every action property of the seven runs
of 3.1 is a theorem, on the conditions of 5.2, and so is the safety part of both
refinements; of the suites they are theorems of the composed specification, whose
machines move in any order (`ServicesMoveAlone`, `BrowserMovesAlone`).

### 5.2 From which assumptions

Of the constants: that bounds are natural numbers, that sets of identities are
finite where they are counted, that the values for "none" are not among them,
and what the code fixes (the Feeds begin with one of their sites, chunks and lists
of acknowledgements have room for at least one, reads and downloads are
different kinds). Some theorems have hypotheses of their own:

- `SingleWrites` (`RunningMeansWorked`, `QueueImplementsLife`): callers only
  create and remove jobs and set the limit, and wait for recovery. With pause,
  cancel and reorder both are false of the code: that is the run `pause_lost`,
  where a record read before the row was changed is written back.
- `~Removals` (`EffectsHold`, `CommandLifeIsImplemented`): nobody removes the job of a
  queue command, or its destination, on the device. With removals a receipt that is replayed
  may say "failed" of a job that was made, and `AnswersTell` says what is left: "completed"
  is always true, and all is told of the other kinds that can be.
- `Capacity >= 4` (`RepliesAreNeverDropped`): the code's capacity is 8
  (CloudWebSocketMailbox.swift:39). With 3 the property is false, as TLC finds.
- `WireInputs` (`HopsAlwaysAgree`): the bodies, outcomes, announcements and phases are
  not those of section 6. Texts are no longer encoded than they are in characters, a
  queue_url has a secure page, nobody posts jobs_reorder, an answer has at most 50 items and
  130 kilobytes, which leaves room for the rest of its frame, and phases are those the
  gateway knows. 50 is the bound of a page of the Feed and the least of the bounds: the
  module gives every outcome to every command, although a Drive may have 200 folders
  and the Library 100 items. The instance of `services` satisfies it.
- `CommandLifeIsImplemented` excludes one cause, removals, and `CommandsLiveOrSlip` says
  without any hypothesis that a step is one of `CommandLife` or the slip of a removal. An
  effect that is repeated after a crash is a stutter there, since `done` only says that a
  command has taken effect; how often is the matter of `EffectsHold`.

### 5.3 Along which arguments

Each invariant is strengthened to one that every step preserves; there is a
lemma for each shape of step, and the last theorems combine them.

*AgentQueue*: `IInv == TypeOK /\ SlotNeverLeaked /\ NoDuplicateWorkers`. The three
are inductive together. The step that matters is `Launch` (startDownload): a job
gets a new task when its entry names a cancelled task or none, and by
`NoDuplicateWorkers` no other task of it can be alive then; `TypeOK` says that
slots are never `NoTask`, which is what makes comparing tokens sound.
`RemovalIsFinal` follows from what `Replaced` does to a missing row, and
`AdmissionRespectsLimit` from the cardinality of what a pass starts. `LifeInv`
says for each task which status its job's row has (`Standing`), unless the row is
deleted or about to be (`Gone`), and that only a removal cancels a task
(`CancelledByRemoval`); each step of the queue is then a step of `JobLifecycle` or a
stutter under the mapping.

*CloudControl*: `CloudInv == TypeOK /\ Ordered /\ Answered /\ Held /\ LongHeld /\
Effective`. `Ordered`: a command has a receipt, or is at hand, only if its turn has
come, and of those after the one at hand nothing has begun. `Answered`: whatever
says how a command ended, in the database, in the list or under way, says what
the receipt says. `Held`: an answer the control plane needs is in the list, once.
`LongHeld`: the list has one long answer at a time. `Effective`: a job, a receipt and
an outcome stem from an effect.

*Enrolment*: `EnrollmentInv` follows the code from the browser into the row of the
device that it paid for; two devices of one code would both have consumed it.
*Sessions*: `SessionInv` says that the requests past the consumption of a challenge
are one for each, and counts the authentications by them. *Creation*:
`CreationInv` says that an id has one row, that a post is answered with a row of
its own request (`PostsFit`) and looked for one first (`LookedFirst`), so that two
open rows of a read come from requests that overlapped.

*Collections*: `CollectionInv` has four parts. `InTurn` and `SentIsFirst`: mutations take
effect in the order they were made, so that the receipts are the numbers up to some k,
the outbox holds consecutive numbers from at most k + 1 on, and the request under way
is the front of it; a repeated request therefore finds a receipt of exactly those that
took effect. `WatchHolds`, `NothingUnknown` and part of `LibraryHolds`: what the account
never had nobody has heard of, and the Mac has it only with the mutation that makes it
still to be sent. The rest of `LibraryHolds`: a removal is still to be sent, or
has been stored with its time, or a later download overtook it. `Untangled`, which holds
while no two browser requests tangled: the last change of an item says how it is, what
was read is the piece of the log behind the cursor, and the Mac agrees with the account
unless a change is still to be read or sent. The transaction of `ApplyMutations` is a
recursive function over the request; the invariant after n mutations (`StepHolds`) is
proved for the least n at which it could fail, since `<` is well founded. That page and
outbox are pieces of a sequence is a fact on the ranks in a set of numbers
(`RankIsTaken`, `PickedRun`). How many mutations there are is counted (`FewMutations`):
each edit is one, the first finished download is another, and an edit that removes a
library item leaves at most two more owed (`Owed`), which put it back when the Mac
refreshes.

*Mailbox*: `OneEach` says that no message is in the buffer twice and that a reply is in
one place between the gateway and the loop; there are four kinds of messages, so that four
places suffice. The buffer is filtered by its indices (`Picked`), of which, unlike of
`SelectSeq`, what it keeps can be proved. *Wire*: `WireInv` says that one answer is on its
way, that it answers its row, and that a row was admitted; which hop passes what is then a
case for each kind (`AdmittedPasses`, `AnswerPasses`, `ReadIsCarried`).

*Gateway*: `GatewayInv` says what is first on the way down after a hello
(`HelloFirst`) and that only a socket whose hello is stored is sent commands
(`DeliveredWhenKnown`). `QueueIsShort` counts the frames on the way by the posts whose
wakes were handled (`HandledPosts`). *Staging*: `StagingInv` says which stage and phase a
request under way may name (`Named`, `OnlyTheRequestKnows`, `JobsAsSaid`), so that
one that is written late is either of an open stage or noted in `crossed`; the
quota is a fact on cardinality.

*Feed*: `FeedInv` follows the last request. *Lustre Watch's feed*: `WatchInv` says of
each load that what was read for it is the page it asks for, and that closed controls have a
load that is not over or an extraction that runs. *Dashboard*: `RefreshInv` says that one
request is in flight, that what it read is at least as new as what is shown, as
the copies that may be taken back, and as the end of the action that waits for it;
`TimersAreCounted` says that timers and polls together are no more than the times the page
was shown. *Library*: `PickInv` keeps apart what an order has done, what is being sent and what
the Mac knows, whose job numbers only grow. Its jobs are counted by pairs of an order
and a source: one is made when a pair is no longer to come (`Came`), and an order sends a
source once (`SendsOnce`). *Queueing*: `QueueingInv` has one row for each
id and item, and counts: in the Feed the jobs of ids that were given up are as many
as what the reader was told of, and in the Home view an item had one id more than
tries that failed, into which its jobs are injected. The ids drawn and those still to be
drawn (`Drawing`) are no more than presses and items allow (`PressesAreCounted`). *Scenes*: `ResolutionInv` says that every
call but the last was aborted, and the panel is that of the last. *Home*: `HomeInv`
says that each copy of a list (of a run, or in the session storage) is its first
batches, the one waited for and the rest (`CutInThree`). *Watchlist*: `VoidInv` compares what
each call under way would put back with what is stored (`ShownIsStored`), for scenes
that only it is about. *Sign-in*: `SignInInv` says that no answer is of the
future and that a poll which is listened to is not older than what is shown.
*Destinations*: `DriveInv` says that the one call that lists them has heard what is so, or
has heard nothing.

### 5.4 What is only model-checked

- *Liveness*: `QueuedJobStarts`, `EveryCommandAnswered`, `ProjectionCatchesUp`,
  `PostedIsAnswered`, `ServicesSettle`, `ViewsSettle`, and the fairness of
  `ImplementsLifecycle`: fairness is defined with ENABLED, which the provers do not
  handle. `QueueImplementsLife` is the safety part of that refinement.

Nothing else of the runs that pass: the five runs of 3.4 state what the code violates.
What the recursive functions of the modules compute is proved where a theorem needs it
(`ApplyMutations`, by the least failure; `FrameBytes`, of a set of at most one), not in
general: the library's theorems of induction take an operator as a parameter.

## 6. Known deviations without a run

Disagreements between documents and code, or between two parts of the code, that
were met while modelling and that no run shows.

- *Overtaking*: docs/ARCHITECTURE.md:49 leaves later jobs "queued in creation
  order until capacity is available". createJob's enqueueDownload
  (AgentService.swift:774) starts the new job when a slot is free although a
  job queued earlier waits for a pass that still awaits its list.
- *Stale media link*: docs/ARCHITECTURE.md:55 says resume "queues a fresh
  resolution, never an expired CDN URL". JobStore.apply clears the
  browser-assisted link for retry only (lines 77, 86).
- *Executed twice*: docs/CLOUD_DEVICE_IDENTITY.md:27 calls commands
  "idempotently receipted". complete() (CloudRemoteControl.swift:872) writes the
  receipt after the effect; a crash in between makes a command other than
  queue_url take effect again. `EffectAtMostOnce` is therefore claimed across
  crashes for queue_url, whose job id is the command's, and for background
  commands, which change nothing outside the agent.
- *Done and answered as failed*: library_update, library_remove and library_verify
  (CloudRemoteControl.swift:521, 530, 539) change the library and answer
  `result_too_large` when the page that is listed then exceeds 118,000 bytes (695-701);
  gdrive_connect and gdrive_select_folder (632, 656) save the profile and answer as
  failed when the destinations are too many or too long (747-762). job_action,
  jobs_reorder and local_folder_choose may fail at a write after the first, and a
  sign-in whose helper is given up may have been saved. CommandLife allows this of the kinds
  action, auth and reorder (`Unsure`), that is, also of those of their commands that cannot
  do it; webdav_add, another that can, is never delivered.
- *A command left to the timer*: a relay that fails (gateway/src/index.ts:307, 319, 342)
  answers without a command although one is open, and a wake request that fails
  (command-wake.ts:22) is not repeated. The agent then sleeps for the rest of its interval.
  docs/ARCHITECTURE.md:134 says that the periodic heartbeat is the fallback when the
  notification fails; of the relay it does not say so. `WokenIsServed` excludes both, and
  `IdleTimerServes` is the sentence about the fallback.
- *A phase the gateway does not know*: gateway/src/index.ts:14 lacks
  cloudStaging. A heartbeat with a job in that phase closes the socket, at every
  reconnection (`FramesKeepTheConnection`).
- *Bodies the gateway refuses*: a queue_url with an http page, or with a title
  too wide when encoded, is accepted at creation, selected first at every
  heartbeat and never delivered (`SelectedIsDelivered`).
  docs/CLOUD_DEVICE_IDENTITY.md:29 says HTTP(S).
- *More than 200 folders*: the agent answers with all of them, the control plane
  refuses the acknowledgement with its heartbeat (`AnswersPass`).
- *webdav_add* (cloud-full-dashboard.tsx:445): created and never selected; the view
  waits for five minutes and fails.
- *Two downloads by one retry*: Lustre Watch draws a new request id at every
  press (cloud-full-dashboard.tsx:1314); docs/CURRENT_STATUS.md:92 says one id
  is retained across retry, of the cards of the Feed.
- *Older loads win*: WatchApp.loadFeed has no sequence number, so an older answer
  may replace a newer one and opens the controls; docs/CURRENT_STATUS.md:72
  says of the Feed that stale results cannot replace newer ones.
- *A browser write in two statements*: a watch list row is written without its
  change when the request ends between them, and a PATCH of a removed row brings
  it back on the Mac only.
- *An item the cloud removed* from the Library is added to the Mac's copy again
  by the next refresh.
- *A batch of saves* in Lustre Watch that cannot read the list afterwards is
  shown as running for ever (watch-app.tsx:314).
- *Connecting the Drive again* resets its upload folder to the root.
- *A mutation that is refused* (a finished job whose page is http, for one) fails the
  whole request of the collections (api/cloud/v1/collections/sync/route.ts:28), and
  nothing behind it in the outbox ever arrives; the model's mutations are acceptable.
- *A fourth pairing code*: the codes are counted and inserted by two statements
  (device-repository.ts:15), so that two requests may pass the count together; the model
  does the same.
- *An older snapshot of the Library* replaces a newer one (library-view.tsx:141), although
  it has a revision; `LibraryView` has it (`crossed`).

## 7. What the models leave out

- *Errors of the store and of the receipt file*: SQLite calls and the atomic
  write of the receipts succeed, also between the two writes of apply
  (AgentService.swift:514) and of saveLibrary (CloudCollectionStore.swift:180), and a
  queue command that is delivered again can read the jobs. Of remote commands it is
  modelled that a write after the first one fails (`Unsure`). Network and extraction errors
  are modelled.
- *SQL concurrency*: each statement is atomic, and what a transaction that was
  begun earlier sees later is modelled only for the numbers of the change log. The
  window in which SKIP LOCKED passes over the earliest command is not modelled.
- *Identity of callers*: job ids are fresh, or those of a queue command; a
  caller that reuses an id of its own gets an error in the code.
- *Removal between crash and redelivery*: a queue command whose job was created,
  whose receipt was lost in a crash and whose job was then removed is executed
  again. `EffectAtMostOnce` is checked without removals.
- *Several projected jobs*: `CloudControl` projects one job. With several, one
  that did not fit into the frame is recorded as sent (CloudPresenceConnection
  lines 208 and 301).
- *Backoff, the completion handler's reset after a connection, heartbeats in
  text frames, smoke endpoints and diagnostic records* of 1.6 and 1.8.
- *The legacy realtime route's delivery of commands*, renaming, audit rows.
- *Other users of the same account*: the watch list, the Library and the
  destinations are changed by the modelled view, and by the Mac where 1.11 says so.
- *A call that was given up*: in `WatchVoid` and `DriveDestinations` its request is
  carried out by then or never.
- *In the views*: the quality and title inputs, per-item quality of Home, and that its
  retry buttons extract single items, whose answers replace those of the same address
  (every run of the model extracts the whole list), ids that a reload of the Feed forgets, tags and the detail sheet of the
  Library, the limit of three workers in `ViewQueueing`, the WebDAV form;
  `LibraryView` has update and verify, the run gives removals and sends. Where
  a step is bounded (logins, visits), one beyond the bound is refused.
- *Components that are not modelled or only partly*, with the reason, are in
  `PROJECT.json`: file transfers (sequential file operations of one task), child
  processes (their order is fixed by Foundation, not by this source), parsing of
  third-party pages, stateless proxies, routing.
- *File contents, titles, logs, sizes, time*: abstracted. A timeout is a step
  that may happen when its timer could fire.

## 8. Plan

Done: the queue with its abstract specification, the command protocol with
`CommandLife`, the connection and the gateway's sockets, the wire contract,
enrolment and sessions, creation of commands, collections, staging, sign-in, and
the views of the dashboard, Home, Library, Destinations and Lustre Watch. All
safety properties of the runs that pass are proved.

What remains is liveness, which the provers do not handle, and to weaken the conditions of
5.2: a kind for each outcome in `WireContract` would let `WireInputs` bound each list by
its own limit, and `RunningMeansWorked` needs `SingleWrites` for as long as the code
writes a stale record at AgentService.swift:598.

To model, if the code grows there: statement-level selection (SKIP LOCKED), the
`.part` files of two tasks of a job, the subprocess runner.
