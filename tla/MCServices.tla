----------------------------- MODULE MCServices -----------------------------
(***************************************************************************)
(* The machines between the Mac and the browser, for TLC.  They share no   *)
(* state: each behaviour lets one of them move, its subject, while the     *)
(* others keep their initial states.                                       *)
(***************************************************************************)
EXTENDS CloudWebSocketMailbox, GatewaySession, WireContract, DeviceEnrollment, DeviceSession,
        CommandCreation, Collections, Staging

CONSTANT Subjects

VARIABLE subject

Ask(asked, url, text, number) == [request |-> asked, url |-> url, text |-> text, number |-> number]

Short(asked) == Ask(asked, "public", "short", 0)

\* One request of each command the Mac carries out, and those at and beyond a limit.
MCBodies ==
    {Ask("page", "public", text, 1) : text \in {"short", "long"}} \cup
    {Ask("preview", "public", "short", n) : n \in {10, 11}} \cup
    {Ask("library", "public", "short", n) : n \in {100, 101}} \cup
    {Ask("queue", "private", "short", 1), Ask("resolve", "public", "short", 1)} \cup
    {Short(asked) : asked \in {"authLogin", "destinations", "driveSelect", "driveFolders",
                             "feedQueue", "readiness", "folderChoose", "jobAction"}}

\* Small; ten items beyond the frame unless trimmed; and too large even then.
MCOutcomes == {[items |-> o[1], bytes |-> o[2], least |-> o[3]] :
                  o \in {<<1, 1, 1>>, <<10, 64, 60>>, <<50, 119, 100>>, <<20, 70, 119>>}}

\* The agent of this repository announces everything it can do.
MCAnnounced == {{"command-delivery-v1", "feed-page-v1", "destinations-list-v1", "feed-queue-v1",
                 "pornhub-auth-v1", "home-workspace-v1", "library-v1"}}

ReadKey(kind, page) == [kind |-> kind, page |-> page]

MCReadKeys == {ReadKey("feed_page", p) : p \in {"i1", "other"}} \cup
    {ReadKey(kind, "all") : kind \in {"destinations_list", "home_status", "library_list", "pornhub_auth_status"}}

servicesVars == <<vars, gatewayVars, wireVars, enrollmentVars, sessionVars, creationVars,
                  collectionVars, stagingVars, subject>>

ServicesInit ==
    /\ subject \in Subjects
    /\ Init /\ GatewayInit /\ WireInit /\ EnrollmentInit /\ SessionInit /\ CreationInit
    /\ CollectionInit /\ StagingInit
    /\ subject # "creation" => rows[1].offers = Places

\* The subject moves, and nothing else does.
Moves(name) ==
    /\ subject = name /\ UNCHANGED subject
    /\ name # "mailbox" => UNCHANGED vars
    /\ name # "gateway" => UNCHANGED gatewayVars
    /\ name # "wire" => UNCHANGED wireVars
    /\ name # "enrollment" => UNCHANGED enrollmentVars
    /\ name # "session" => UNCHANGED sessionVars
    /\ name # "creation" => UNCHANGED creationVars
    /\ name # "collections" => UNCHANGED collectionVars
    /\ name # "staging" => UNCHANGED stagingVars

ServicesNext ==
    \/ Moves("mailbox") /\ Next
    \/ Moves("gateway") /\ GatewayNext
    \/ Moves("wire") /\ WireNext
    \/ Moves("enrollment") /\ EnrollmentNext
    \/ Moves("session") /\ SessionNext
    \/ Moves("creation") /\ CreationNext
    \/ Moves("collections") /\ CollectionNext
    \/ Moves("staging") /\ StagingNext

\* The fairness of the modules, each of the machine that moves.
ServicesFairness ==
    /\ WF_vars(subject = "mailbox" /\ LoopStep)
    /\ WF_vars(subject = "mailbox" /\ Pump)
    /\ WF_vars(subject = "mailbox" /\ SendDelivery)
    /\ WF_vars(subject = "mailbox" /\ TimerFires /\ loop # "idle")
    /\ WF_gatewayVars(subject = "gateway" /\ OpenSocket)
    /\ WF_gatewayVars(subject = "gateway" /\ ReceiveHello)
    /\ WF_gatewayVars(subject = "gateway" /\ ReceiveHeartbeat)
    /\ WF_gatewayVars(subject = "gateway" /\ RelayHeartbeat)
    /\ WF_gatewayVars(subject = "gateway" /\ ReadFrame)
    /\ WF_wireVars(subject = "wire" /\ \E announced \in Announced : ConnectAgent(announced))
    /\ WF_wireVars(subject = "wire" /\ SendFrame)
    /\ WF_wireVars(subject = "wire" /\ DeliverCommand)
    /\ WF_wireVars(subject = "wire" /\ ExecuteCommand)
    /\ WF_sessionVars(subject = "session" /\ OpenRealtime)
    /\ WF_collectionVars(subject = "collections" /\ CollectionLoop)
    /\ \A n \in 1..MaxConns :
          /\ WF_gatewayVars(subject = "gateway" /\ n \in TaskIDs /\ HandleWake(n))
          /\ WF_sessionVars(subject = "session" /\ Handle(n))
          /\ WF_sessionVars(subject = "session" /\ SendHeartbeat(n))
          /\ WF_stagingVars(subject = "staging" /\ n \in StagingJobs /\ HandleRequest(n))
          /\ WF_stagingVars(subject = "staging" /\ n \in StagingJobs /\ GoOn(n))
          /\ WF_stagingVars(subject = "staging" /\ n \in Stages /\ FetchEnds(n))

\* The types of the machines, and with them which step each is at: a frame on the way has
\* its socket, a continuation its call, a row that is over its answer.
ServicesTypeOK ==
    /\ TypeOK /\ GatewayTypeOK /\ WireTypeOK /\ EnrollmentTypeOK /\ SessionTypeOK
    /\ CreationTypeOK /\ CollectionTypeOK /\ StagingTypeOK

\* What was begun between the Mac and the cloud comes to its end, whatever was lost: a wake
\* in a heartbeat and a woken command in its answer, both without the idle timer, which is
\* needed by the commands that a failed relay or wake request passed over and serves them, a
\* connection on record, an outbox that is empty, a staged download that has its file.
ServicesSettle ==
    /\ WakeLeadsToBeat /\ WokenIsServed /\ IdleTimerServes
    /\ PresenceSettles /\ EditsReachTheCloud /\ StagingEnds

ServicesSpec == ServicesInit /\ [][ServicesNext]_servicesVars /\ ServicesFairness
=============================================================================
