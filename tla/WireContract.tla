--------------------------- MODULE WireContract ---------------------------
(***************************************************************************)
(* What passes between the browser, the control plane, the gateway and the *)
(* Mac is validated at every hop by code of its own: a command by the      *)
(* route that creates it, the handler that hands it to the gateway, the    *)
(* gateway and the agent; a heartbeat by the agent that bounds it, the     *)
(* gateway and the control plane.  A hop that refuses what the hop before  *)
(* it let through does so again on every retry.                            *)
(*                                                                         *)
(* A command carries at most a URL, a text and a number (a page, or the    *)
(* length of a list), an answer a list of so many items and so many        *)
(* kilobytes; each is one of the classes the validators tell apart.        *)
(***************************************************************************)
EXTENDS Naturals, Sequences, FiniteSets

CONSTANTS
    Bodies,         \* what the browser asks for: [request, url, text, number]
    Outcomes,       \* what executing a command may give: [items, bytes, least]
    Phases,         \* the transfer phases the Mac's job goes through
    Announced,      \* the sets of capabilities an agent may announce
    MaxCommands,    \* commands that are created
    MaxLosses       \* relay requests that fail

DriveKinds == {"gdrive_folders", "gdrive_create_folder", "gdrive_select_folder"}
DestinationKinds == {"destinations_list", "gdrive_connect", "gdrive_test", "local_folder_status",
                     "local_folder_choose", "local_folder_reset"} \cup DriveKinds
AuthKinds == {"pornhub_auth_status", "pornhub_auth_login", "pornhub_auth_cancel",
              "pornhub_auth_logout"}
HomeKinds == {"home_status", "extract_preview", "feed_resolve"}
LibraryKinds == {"library_list", "library_update", "library_remove", "library_verify"}
CommandKinds == {"feed_sites", "feed_page", "queue_url", "job_action", "jobs_reorder", "webdav_add"}
                    \cup DestinationKinds \cup AuthKinds \cup HomeKinds \cup LibraryKinds

\* What the browser asks for, and the kind of command agentRequest and the views make of it.
Asks ==
    [sites |-> "feed_sites", page |-> "feed_page", queue |-> "queue_url", feedQueue |-> "queue_url",
     watchlistQueue |-> "queue_url", jobAction |-> "job_action", order |-> "jobs_reorder",
     resolve |-> "feed_resolve", watchlistResolve |-> "feed_resolve", destinations |-> "destinations_list",
     driveConnect |-> "gdrive_connect", driveFolders |-> "gdrive_folders", driveCreate |-> "gdrive_create_folder",
     driveSelect |-> "gdrive_select_folder", driveTest |-> "gdrive_test",
     folderStatus |-> "local_folder_status", folderChoose |-> "local_folder_choose", folderReset |-> "local_folder_reset",
     authStatus |-> "pornhub_auth_status", authLogin |-> "pornhub_auth_login",
     authCancel |-> "pornhub_auth_cancel", authLogout |-> "pornhub_auth_logout",
     webdav |-> "webdav_add", readiness |-> "home_status", preview |-> "extract_preview",
     library |-> "library_list", libraryUpdate |-> "library_update",
     libraryRemove |-> "library_remove", libraryVerify |-> "library_verify"]

\* "private" is a private host; "wide" a text whose length is within the limit as the
\* route measures it (in characters, before encoding) and beyond it in UTF-16 units or
\* percent-encoded.
Body == [request: DOMAIN Asks, url: {"public", "private", "http"},
         text: {"short", "wide", "long"}, number: Nat]
Kind(c) == Asks[c.request]

ASSUME WireAssumption == /\ Bodies \subseteq Body /\ {Asks[q] : q \in DOMAIN Asks} = CommandKinds
                         /\ Outcomes \subseteq [items: Nat, bytes: Nat, least: Nat]
                         /\ MaxCommands \in Nat /\ MaxLosses \in Nat

VARIABLES
    commands,       \* the command rows, in the order of creation
    capabilities,   \* what the connection has negotiated
    connected,      \* is the Mac's socket open
    frame,          \* the heartbeat under way: idle, persisted or executing a row
    unconfirmed,    \* the agent's acknowledgements the cloud has not confirmed
    jobPhase,       \* transfer phase of the Mac's job, which every heartbeat carries
    wireLosses      \* relay requests lost so far

wireVars == <<commands, capabilities, connected, frame, unconfirmed, jobPhase, wireLosses>>

-----------------------------------------------------------------------------
(* Commands, hop by hop.                                                   *)

\* POST devices/[deviceID]/commands.
RouteAdmits(c) ==
    /\ Kind(c) = "feed_page" => c.number >= 1 /\ c.text # "long"
    /\ Kind(c) = "queue_url" => c.text # "long"
    /\ Kind(c) \in {"extract_preview", "feed_resolve"} => c.url = "public" /\ c.text # "long"
    /\ Kind(c) = "extract_preview" => c.number \in 1..10
    /\ Kind(c) \in DriveKinds => c.text = "short"
    /\ Kind(c) = "jobs_reorder" => c.number \in 1..50
    /\ Kind(c) = "library_list" => c.number \in 1..100
    /\ Kind(c) = "library_update" => c.number <= 20 /\ c.text # "long"

\* The capability nextGatewayCommand requires before it selects a kind.  It selects no
\* webdav_add, which is left to the transport without the gateway.
Capability(kind) ==
    CASE kind = "feed_page" -> "feed-page-v1"
      [] kind \in DestinationKinds -> "destinations-list-v1"
      [] kind = "queue_url" -> "feed-queue-v1"
      [] kind \in AuthKinds -> "pornhub-auth-v1"
      [] kind \in HomeKinds -> "home-workspace-v1"
      [] kind \in LibraryKinds -> "library-v1"
      [] kind = "webdav_add" -> "none"
      [] OTHER -> "command-delivery-v1"

\* gatewayCommandHandler, after the row was marked running.
HandlerAdmits(c) ==
    /\ Kind(c) = "feed_page" => c.number >= 1 /\ c.text # "long"
    /\ Kind(c) = "extract_preview" => c.number \in 1..10
    /\ Kind(c) \in DriveKinds => c.text = "short"
    /\ Kind(c) = "jobs_reorder" => c.number \in 1..50
    /\ Kind(c) = "library_list" => c.number \in 1..100
    /\ Kind(c) = "library_update" => c.number <= 20

\* Mutant: the gateway bounds the Library page as it bounds a preview.
GatewayAdmitsFewPages(c) == Kind(c) = "library_list" => c.number \in 1..10

\* selectedGatewayCommand: a row it does not recognise is `undefined', an error.
GatewayAdmits(c) ==
    /\ Kind(c) # "jobs_reorder"
    /\ Capability(Kind(c)) \in capabilities
    /\ Kind(c) = "feed_page" => c.number >= 1 /\ c.text = "short"
    /\ Kind(c) = "queue_url" => c.url # "http" /\ c.text = "short"
    /\ Kind(c) \in {"extract_preview", "feed_resolve"} => c.url = "public" /\ c.text = "short"
    /\ Kind(c) = "extract_preview" => c.number \in 1..10
    /\ Kind(c) \in DriveKinds => c.text = "short"
    /\ Kind(c) = "library_list" => c.number \in 1..100
    /\ Kind(c) = "library_update" => c.number <= 20 /\ c.text # "long"

\* heartbeatLoop: a kind whose capability was not acknowledged ends the connection.
AgentAdmits(c) == Kind(c) # "jobs_reorder" /\ Capability(Kind(c)) \in capabilities

\* Mutant: the gate of the feed pages is forgotten.
NegotiatedButFeed(announced) == announced \ {"feed-page-v1"}

\* negotiated*: nothing without command delivery.
Negotiated(announced) == IF "command-delivery-v1" \in announced THEN announced ELSE {}

-----------------------------------------------------------------------------
(* Answers, hop by hop.  Sizes are in kilobytes.                           *)

ResultKind(kind) ==
    CASE kind \in {"gdrive_connect", "gdrive_select_folder"} -> "destinations_list"
      [] kind = "gdrive_folders" -> "google_drive_folders"
      [] kind \in {"gdrive_create_folder", "gdrive_test"} -> "destination_test"
      [] kind \in {"local_folder_status", "local_folder_choose", "local_folder_reset"} -> "local_download_folder"
      [] kind \in AuthKinds -> "pornhub_auth"
      [] kind \in LibraryKinds -> "library_snapshot"
      [] kind \in {"queue_url", "job_action"} -> "job"
      [] OTHER -> kind

\* A failure has a code and no result.
Failed == [kind |-> "failed", items |-> 0, bytes |-> 1]

\* boundedFeedPageAcknowledgement leaves previews out of a page that is too long, down
\* to `least'; CloudPlaybackResolution keeps the first twelve qualities.
Trimmed(kind, o) ==
    [kind |-> ResultKind(kind),
     items |-> IF kind = "feed_resolve" /\ o.items > 12 THEN 12 ELSE o.items,
     bytes |-> IF kind = "feed_page" /\ o.bytes > 118 THEN o.least ELSE o.bytes]

\* Mutant: an answer is sent whatever its size.
FitsAlways(a) == a.items >= 0

\* The agent's bounds; an answer that does not fit is replaced by a failure.  The
\* folders of a Drive are not bounded at all.
Fits(a) ==
    CASE a.kind = "feed_page" -> a.bytes <= 118
      [] a.kind = "destinations_list" -> a.items <= 64 /\ a.bytes <= 32
      [] a.kind = "extract_preview" -> a.items \in 1..10 /\ a.bytes <= 64
      [] a.kind = "feed_resolve" -> a.items >= 1 /\ a.bytes <= 64
      [] a.kind = "library_snapshot" -> a.bytes <= 118
      [] OTHER -> TRUE

Answer(kind, o) == IF Fits(Trimmed(kind, o)) THEN Trimmed(kind, o) ELSE Failed

\* heartbeatSchema and the validators of protocol.ts.
GatewayAccepts(a) ==
    CASE a.kind = "feed_page" -> a.items <= 50 /\ a.bytes <= 118
      [] a.kind = "destinations_list" -> a.items <= 64 /\ a.bytes <= 32
      [] a.kind = "google_drive_folders" -> a.items <= 200
      [] a.kind = "extract_preview" -> a.items \in 1..10 /\ a.bytes <= 64
      [] a.kind = "feed_resolve" -> a.items \in 1..12 /\ a.bytes <= 64
      [] a.kind = "library_snapshot" -> a.items <= 100 /\ a.bytes <= 118
      [] OTHER -> TRUE

\* Mutant: the control plane bounds a page by the size documented for results.
CloudAcceptsLess(a) == a.bytes <= 64

\* parseHeartbeatFrame and the validators of device-contract.ts.
CloudAccepts(a) ==
    CASE a.kind = "feed_page" -> a.items <= 50 /\ a.bytes <= 118
      [] a.kind = "destinations_list" -> a.items <= 64 /\ a.bytes <= 32
      [] a.kind = "google_drive_folders" -> a.items <= 200
      [] a.kind = "extract_preview" -> a.items \in 1..10 /\ a.bytes <= 64
      [] a.kind = "feed_resolve" -> a.items \in 1..12 /\ a.bytes <= 64
      [] a.kind = "library_snapshot" -> a.items <= 100 /\ a.bytes <= 118
      [] OTHER -> TRUE

\* The member of the result that holds the answer, as the Mac encodes it.
Carries(kind) ==
    CASE kind = "feed_sites" -> "sites" [] kind = "feed_page" -> "page"
      [] kind = "destinations_list" -> "destinations" [] kind = "google_drive_folders" -> "googleDriveFolders"
      [] kind = "local_download_folder" -> "localDownloadFolder" [] kind = "pornhub_auth" -> "pornHubAuth"
      [] kind = "feed_resolve" -> "playback" [] kind = "library_snapshot" -> "library"
      [] kind = "home_status" -> "homeReadiness" [] kind = "extract_preview" -> "homePreview"
      [] kind = "job" -> "jobID" [] OTHER -> "nothing"

\* Mutant: the folder chosen in a Drive is answered with the Drive's folders.
ReadsFolders(q) == IF q \in {"driveSelect", "driveConnect"} THEN "googleDriveFolders" ELSE "nothing"

\* The member the browser reads of a completed command, "nothing" where it needs none.
Reads(q) ==
    CASE q = "sites" -> "sites" [] q = "page" -> "page" [] q = "feedQueue" -> "jobID"
      [] q \in {"destinations", "driveConnect", "driveSelect"} -> "destinations"
      [] q = "driveFolders" -> "googleDriveFolders"
      [] q \in {"folderStatus", "folderChoose", "folderReset"} -> "localDownloadFolder"
      [] q \in {"resolve", "watchlistResolve"} -> "playback"
      [] q \in {"authStatus", "authLogin", "authCancel", "authLogout"} -> "pornHubAuth"
      [] q = "readiness" -> "homeReadiness" [] q = "preview" -> "homePreview"
      [] q \in {"library", "libraryUpdate", "libraryRemove", "libraryVerify"} -> "library"
      [] OTHER -> "nothing"

GatewayPhases == {"none", "resolving", "downloading", "materializing", "postProcessing",
                  "uploading", "verifying"}
CloudPhases == GatewayPhases \cup {"cloudStaging"}

FrameBytes ==
    LET sum[U \in SUBSET unconfirmed] ==
            IF U = {} THEN 1 ELSE LET u == CHOOSE v \in U : TRUE IN u.answer.bytes + sum[U \ {u}]
    IN  sum[unconfirmed]

\* heartbeatData throws when the acknowledgements alone do not fit a frame.
AgentSends == FrameBytes <= 131
GatewayPasses == jobPhase \in GatewayPhases /\ \A u \in unconfirmed : GatewayAccepts(u.answer)
CloudPersists == jobPhase \in CloudPhases /\ \A u \in unconfirmed : CloudAccepts(u.answer)

-----------------------------------------------------------------------------

WireInit ==
    /\ commands = <<>>
    /\ capabilities = {} /\ connected = FALSE
    /\ frame = [step |-> "idle", row |-> 0]
    /\ unconfirmed = {}
    /\ jobPhase = "none"
    /\ wireLosses = 0

\* A body the route refuses creates nothing.
PostCommand(c) ==
    /\ Len(commands) < MaxCommands
    /\ RouteAdmits(c)
    /\ commands' = Append(commands, [body |-> c, status |-> "pending", result |-> "nothing"])
    /\ UNCHANGED <<capabilities, connected, frame, unconfirmed, jobPhase, wireLosses>>

ConnectAgent(announced) ==
    /\ ~connected
    /\ connected' = TRUE
    /\ capabilities' = Negotiated(announced)
    /\ UNCHANGED <<commands, frame, unconfirmed, jobPhase, wireLosses>>

\* One relayed heartbeat: the agent fails to encode it or the gateway closes the socket
\* (4400), the control plane refuses it (no answer is confirmed), or it is persisted and
\* its answers are confirmed.
SendFrame ==
    /\ connected /\ frame.step = "idle"
    /\ IF ~AgentSends \/ ~GatewayPasses
       THEN connected' = FALSE /\ UNCHANGED <<commands, frame, unconfirmed>>
       ELSE IF CloudPersists
       THEN /\ commands' = [i \in DOMAIN commands |->
                   IF \E u \in unconfirmed : u.row = i
                   THEN LET k == (CHOOSE u \in unconfirmed : u.row = i).answer.kind
                        IN [commands[i] EXCEPT !.status = IF k = "failed" THEN "failed" ELSE "completed",
                                               !.result = Carries(k)]
                   ELSE commands[i]]
            /\ unconfirmed' = {}
            /\ frame' = [step |-> "persisted", row |-> 0]
            /\ UNCHANGED connected
       ELSE UNCHANGED <<commands, connected, frame, unconfirmed>>
    /\ UNCHANGED <<capabilities, jobPhase, wireLosses>>

LoseRelay ==
    /\ frame.step = "persisted" /\ wireLosses < MaxLosses
    /\ frame' = [step |-> "idle", row |-> 0]
    /\ wireLosses' = wireLosses + 1
    /\ UNCHANGED <<commands, capabilities, connected, unconfirmed, jobPhase>>

\* The rows nextGatewayCommand may select for this connection.
Selectable == {i \in DOMAIN commands : /\ commands[i].status \in {"pending", "running"}
                                       /\ Capability(Kind(commands[i].body)) \in capabilities}

\* The oldest selectable row is marked running and handed from hop to hop; where a hop
\* refuses it, the heartbeat ends without a command and the row stays `running'.
DeliverCommand ==
    /\ frame.step = "persisted"
    /\ IF Selectable = {}
       THEN frame' = [step |-> "idle", row |-> 0] /\ UNCHANGED <<commands, connected>>
       ELSE LET i == CHOOSE n \in Selectable : \A k \in Selectable : n <= k
                c == commands[i].body
                arrives == HandlerAdmits(c) /\ GatewayAdmits(c)
            IN /\ commands' = [commands EXCEPT ![i].status = "running"]
               /\ connected' = (arrives => AgentAdmits(c))
               /\ frame' = IF arrives /\ AgentAdmits(c)
                          THEN [step |-> "executing", row |-> i] ELSE [step |-> "idle", row |-> 0]
    /\ UNCHANGED <<capabilities, unconfirmed, jobPhase, wireLosses>>

\* The agent has executed the command and has an answer to send.
AnswerCommand(a) ==
    /\ frame.step = "executing"
    /\ unconfirmed' = unconfirmed \cup {[row |-> frame.row, answer |-> a]}
    /\ frame' = [step |-> "idle", row |-> 0]
    /\ UNCHANGED <<commands, capabilities, connected, jobPhase, wireLosses>>

ExecuteCommand ==
    \E o \in Outcomes : AnswerCommand(Failed) \/ AnswerCommand(Answer(Kind(commands[frame.row].body), o))

MoveJob(p) ==
    /\ jobPhase # p
    /\ jobPhase' = p
    /\ UNCHANGED <<commands, capabilities, connected, frame, unconfirmed, wireLosses>>

WireNext ==
    \/ \E c \in Bodies : PostCommand(c)
    \/ \E announced \in Announced : ConnectAgent(announced)
    \/ SendFrame \/ LoseRelay \/ DeliverCommand \/ ExecuteCommand
    \/ \E p \in Phases : MoveJob(p)

WireSpec == WireInit /\ [][WireNext]_wireVars

\* The agent connects again after every failure and beats whenever it can, and the
\* handlers run to their end.
WireFairness ==
    /\ WF_wireVars(\E announced \in Announced : ConnectAgent(announced))
    /\ WF_wireVars(SendFrame) /\ WF_wireVars(DeliverCommand) /\ WF_wireVars(ExecuteCommand)

-----------------------------------------------------------------------------
(* Properties.                                                             *)

AnswerKinds == {"failed"} \cup {ResultKind(kind) : kind \in CommandKinds}
Members == {"nothing"} \cup {Carries(kind) : kind \in AnswerKinds}

RowForms == [body: Bodies, status: {"pending", "running", "completed", "failed"}, result: Members]
AnswerForms == [kind: AnswerKinds, items: Nat, bytes: Nat]

WireTypeOK ==
    /\ commands \in Seq(RowForms)
    /\ Len(commands) <= MaxCommands
    /\ capabilities \in {{}} \cup Announced
    /\ connected \in BOOLEAN
    /\ frame \in [step: {"idle", "persisted"}, row: {0}]
                    \cup [step: {"executing"}, row: DOMAIN commands]
    /\ unconfirmed \subseteq [row: DOMAIN commands, answer: AnswerForms]
    /\ jobPhase \in Phases \cup {"none"}
    /\ wireLosses \in 0..MaxLosses

\* No poisonous answer: what the agent bounded is let through by the gateway and by
\* the control plane, whose bounds are written down a second and a third time.
AnswersPass == \A u \in unconfirmed : GatewayAccepts(u.answer) /\ CloudAccepts(u.answer)

\* A command the agent may be given passes every hop after the route that created it,
\* so that no row is selected and refused by each heartbeat, in front of all others.
SelectedIsDelivered ==
    \A i \in Selectable : HandlerAdmits(commands[i].body) /\ GatewayAdmits(commands[i].body)

\* The Mac's own frames never cost it the connection.
FramesKeepTheConnection == [][connected => connected']_wireVars

\* Every command is answered in the end, whatever was posted before it and whichever
\* answers and job phases the heartbeats carry.
PostedIsAnswered ==
    \A i \in 1..MaxCommands : []<>(Len(commands) >= i => commands[i].status \in {"completed", "failed"})

\* What the Mac answers is what the browser looks for: the result of a completed command
\* has the member the view that posted it reads.
ReadsTheAnswer ==
    \A i \in DOMAIN commands :
        commands[i].status = "completed" => Reads(commands[i].body.request) \in {"nothing", commands[i].result}

\* The bounds and lists of kinds that the Mac, the gateway, the control plane and the views
\* each write down for themselves agree: what one hop lets out, the next one takes.
HopsAgree == [](SelectedIsDelivered /\ AnswersPass /\ ReadsTheAnswer) /\ FramesKeepTheConnection
=============================================================================
