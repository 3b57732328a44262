-------------------------- MODULE GatewaySession --------------------------
(***************************************************************************)
(* The Durable Object that holds the WebSocket of a Mac, and the Mac's     *)
(* side of the connection: accept, hello, heartbeats, and the wake the     *)
(* control plane sends when a command was created.  What the object knows  *)
(* of a socket is first in its memory, which hibernation erases, and from  *)
(* the hello on in the attachment of the socket, which survives.           *)
(*                                                                         *)
(* The calls between the gateway and the control plane can fail: a relay   *)
(* then sends the agent an answer without a command, and a wake request    *)
(* reaches nobody.  What this leaves behind is for the agent's idle timer, *)
(* which may fire whenever the agent waits and is relied on for nothing    *)
(* else.                                                                   *)
(***************************************************************************)
EXTENDS Naturals, Sequences

CONSTANTS
    MaxSockets,     \* connections the agent opens, numbered in order
    MaxTasks,       \* commands the browser creates, numbered in order
    MaxPosts,       \* posts of a command, the first and those that find it pending
    MaxHibernations,
    MaxFailedCalls  \* relays and wake requests that fail

ASSUME GatewayAssumption ==
    /\ MaxSockets \in Nat /\ MaxTasks \in Nat /\ MaxPosts \in Nat
    /\ MaxHibernations \in Nat /\ MaxFailedCalls \in Nat

SocketIDs == 1..MaxSockets
TaskIDs == 1..MaxTasks

VARIABLES
    socket,         \* the gateway's end of a connection and its attachment
    agent,          \* the Mac: its socket, step, and is a wake in its mailbox
    uplink,         \* the agent's frame under way, or the relay of it
    downlink,       \* frames to the agent on its socket, in order
    taskRow,        \* row of a command
    taskPosts,      \* posts of a command so far
    wakeRequest,    \* is a notifyCommandWake of the command under way
    lastCommandWake,\* the command the object was woken for last, within the minute
    hibernations,
    failedCalls,
    leftToTimer     \* history: open commands a failed call passed over, until a relay succeeds

gatewayVars == <<socket, agent, uplink, downlink, taskRow, taskPosts, wakeRequest,
                 lastCommandWake, hibernations, failedCalls, leftToTimer>>

faultVars == <<failedCalls, leftToTimer>>

taskVars == <<taskRow, taskPosts, wakeRequest, lastCommandWake>>

AgentDown == [socket |-> 0, step |-> "down", wakes |-> FALSE, woken |-> FALSE]
SocketIsOpen(n) == socket[n].open

\* Mutant: frames of a connection the agent has left reach it.
IsListeningEver(n) == agent.socket = n

\* The socket the agent listens on.
IsListening(n) == agent.socket = n /\ agent.step # "down"

GatewayInit ==
    /\ socket = [n \in SocketIDs |-> [open |-> FALSE, attachment |-> "none"]]
    /\ agent = AgentDown
    /\ uplink = "none" /\ downlink = <<>>
    /\ taskRow = [c \in TaskIDs |-> "none"]
    /\ taskPosts = [c \in TaskIDs |-> 0]
    /\ wakeRequest = [c \in TaskIDs |-> FALSE]
    /\ lastCommandWake = 0
    /\ hibernations = 0
    /\ failedCalls = 0 /\ leftToTimer = {}

-----------------------------------------------------------------------------
(* The connection.                                                         *)

\* The object accepts the socket, notes it in memory, and the agent says hello.
OpenSocket ==
    /\ agent.step = "down"
    /\ \E n \in SocketIDs :
          /\ n = agent.socket + 1
          /\ socket' = [socket EXCEPT ![n] = [open |-> TRUE, attachment |-> "memory"]]
          /\ agent' = [AgentDown EXCEPT !.socket = n, !.step = "hello"]
    /\ uplink' = "hello" /\ downlink' = <<>>
    /\ UNCHANGED <<taskVars, hibernations, faultVars>>

\* Between two events the object may be evicted from memory; its sockets stay open.
Hibernate ==
    /\ uplink # "relaying" /\ hibernations < MaxHibernations
    /\ hibernations' = hibernations + 1
    /\ socket' = [n \in SocketIDs |-> IF socket[n].attachment = "memory"
                                    THEN [socket[n] EXCEPT !.attachment = "none"] ELSE socket[n]]
    /\ UNCHANGED <<agent, uplink, downlink, taskVars, faultVars>>

\* gateway_hello: what is remembered of the socket is negotiated and serialized; if
\* nothing is, the acknowledgement names no capability and nothing is serialized.
ReceiveHello ==
    LET known == socket[agent.socket].attachment = "memory" IN
    /\ uplink = "hello"
    /\ downlink' = Append(downlink, IF known THEN "ack" ELSE "bareAck")
    /\ socket' = [socket EXCEPT ![agent.socket].attachment = IF known THEN "stored" ELSE @]
    /\ uplink' = "none"
    /\ UNCHANGED <<agent, taskVars, hibernations, faultVars>>

\* Mutant: a heartbeat without an attachment is accepted and goes nowhere.
RestoresAlways(n) == n \in SocketIDs

\* deserializeAttachment gives back what the hello stored.
Restores(n) == socket[n].attachment = "stored"

\* A heartbeat: without an attachment the socket is closed (1011) and the agent connects
\* again; otherwise it is accepted and relayed.
ReceiveHeartbeat ==
    /\ uplink = "heartbeat"
    /\ IF Restores(agent.socket)
       THEN uplink' = "relaying" /\ UNCHANGED <<socket, agent, downlink>>
       ELSE /\ socket' = [socket EXCEPT ![agent.socket].open = FALSE]
            /\ agent' = [agent EXCEPT !.step = "down"]
            /\ uplink' = "none" /\ downlink' = <<>>
    /\ UNCHANGED <<taskVars, hibernations, faultVars>>

OpenTasks == {c \in TaskIDs : taskRow[c] = "open"}

\* The relay, whose requests other events of the object may overtake, selects the oldest
\* open command; one without an attachment has no one to relay for.
RelayHeartbeat ==
    LET served == Restores(agent.socket) /\ OpenTasks # {}
    IN
    /\ uplink = "relaying"
    /\ downlink' = Append(downlink, IF served THEN "command" ELSE "nothing")
    /\ uplink' = "none" /\ leftToTimer' = {}
    /\ UNCHANGED <<socket, agent, taskVars, hibernations, failedCalls>>

\* A request of the relay times out or is answered wrongly: the delivery is sent all the
\* same, without a command.
RelayFails ==
    /\ uplink = "relaying" /\ failedCalls < MaxFailedCalls
    /\ downlink' = Append(downlink, "nothing") /\ uplink' = "none"
    /\ failedCalls' = failedCalls + 1 /\ leftToTimer' = leftToTimer \cup OpenTasks
    /\ UNCHANGED <<socket, agent, taskVars, hibernations>>

\* The network fails; the gateway may not notice.  (The bound leaves a socket for every
\* hibernation to come.)
LoseSocket ==
    /\ agent.step # "down" /\ agent.socket + (MaxHibernations - hibernations) < MaxSockets
    /\ agent' = [agent EXCEPT !.step = "down"]
    /\ \E noticed \in BOOLEAN :
          socket' = [socket EXCEPT ![agent.socket].open = ~noticed]
    /\ uplink' = "none" /\ downlink' = <<>>
    /\ UNCHANGED <<taskVars, hibernations, faultVars>>

-----------------------------------------------------------------------------
(* The agent.                                                              *)

BeatsAtOnce == agent' = [agent EXCEPT !.step = "beating", !.woken = FALSE] /\ uplink' = "heartbeat"

ReadAcknowledgement ==
    /\ agent.step = "hello" /\ downlink # <<>>
    /\ agent' = [agent EXCEPT !.step = "beating", !.wakes = (Head(downlink) = "ack")]
    /\ downlink' = Tail(downlink) /\ uplink' = "heartbeat"
    /\ UNCHANGED <<socket, taskVars, hibernations, faultVars>>

\* A wake ends the wait of an idle agent and is noted by a busy one.
ReadWake ==
    /\ agent.step \in {"beating", "waiting"} /\ downlink # <<>> /\ Head(downlink) = "wake"
    /\ downlink' = Tail(downlink)
    /\ IF agent.step = "waiting" THEN BeatsAtOnce
       ELSE agent' = [agent EXCEPT !.woken = TRUE] /\ UNCHANGED uplink
    /\ UNCHANGED <<socket, taskVars, hibernations, faultVars>>

\* nextGatewayCommand: by creation.
OldestTask == CHOOSE c \in TaskIDs : taskRow[c] = "open" /\ \A b \in 1..(c - 1) : taskRow[b] # "open"

\* The delivery that ends a heartbeat: a command is executed and followed by the next
\* heartbeat at once, a wake noted meanwhile likewise; otherwise the agent waits.
ReadDelivery ==
    /\ agent.step = "beating" /\ downlink # <<>> /\ Head(downlink) \in {"command", "nothing"}
    /\ downlink' = Tail(downlink)
    /\ taskRow' = IF Head(downlink) = "command" THEN [taskRow EXCEPT ![OldestTask] = "done"] ELSE taskRow
    /\ IF Head(downlink) = "command" \/ agent.woken THEN BeatsAtOnce
       ELSE agent' = [agent EXCEPT !.step = "waiting"] /\ UNCHANGED uplink
    /\ UNCHANGED <<socket, taskPosts, wakeRequest, lastCommandWake, hibernations, faultVars>>

\* The interval of the idle agent ends.
IdleTimerFires ==
    /\ agent.step = "waiting"
    /\ BeatsAtOnce
    /\ UNCHANGED <<socket, downlink, taskVars, hibernations, faultVars>>

-----------------------------------------------------------------------------
(* Wakes.                                                                  *)

\* The route creates a command, or finds it pending, and notifies the gateway.
PostTask(c) ==
    /\ taskPosts[c] < MaxPosts /\ ~wakeRequest[c]
    /\ taskRow[c] # "done" /\ \A b \in 1..(c - 1) : taskRow[b] # "none"
    /\ taskRow' = [taskRow EXCEPT ![c] = "open"]
    /\ taskPosts' = [taskPosts EXCEPT ![c] = @ + 1]
    /\ wakeRequest' = [wakeRequest EXCEPT ![c] = TRUE]
    /\ UNCHANGED <<socket, agent, uplink, downlink, lastCommandWake, hibernations, faultVars>>

\* Mutant: any wake within the minute is coalesced, not only those of one command.
CoalescesAny(c) == c \in TaskIDs /\ lastCommandWake # 0

Coalesces(c) == lastCommandWake = c

\* Mutant: wakes go to every socket of the object, the ones without an attachment included.
NegotiatedWakesAlways(n) == SocketIsOpen(n)

\* The attachment says that the socket negotiated wakes.
NegotiatedWakes(n) == SocketIsOpen(n) /\ socket[n].attachment = "stored"

\* The control endpoint of the object.  A half-open socket swallows the frame.
HandleWake(c) ==
    /\ wakeRequest[c]
    /\ wakeRequest' = [wakeRequest EXCEPT ![c] = FALSE]
    /\ IF Coalesces(c) THEN UNCHANGED <<downlink, lastCommandWake>>
       ELSE /\ lastCommandWake' = c
            /\ downlink' = IF \E n \in SocketIDs : IsListening(n) /\ NegotiatedWakes(n)
                           THEN Append(downlink, "wake") ELSE downlink
    /\ UNCHANGED <<socket, agent, uplink, taskRow, taskPosts, hibernations, faultVars>>

\* notifyCommandWake gives its request up before the object has seen it.
FailWake(c) ==
    /\ wakeRequest[c] /\ failedCalls < MaxFailedCalls
    /\ wakeRequest' = [wakeRequest EXCEPT ![c] = FALSE]
    /\ failedCalls' = failedCalls + 1 /\ leftToTimer' = leftToTimer \cup {c}
    /\ UNCHANGED <<socket, agent, uplink, downlink, taskRow, taskPosts, lastCommandWake, hibernations>>

MinutePasses ==
    /\ lastCommandWake # 0
    /\ lastCommandWake' = 0
    /\ UNCHANGED <<socket, agent, uplink, downlink, taskRow, taskPosts, wakeRequest, hibernations,
                   faultVars>>

ReadFrame == ReadAcknowledgement \/ ReadWake \/ ReadDelivery

GatewayNext ==
    \/ OpenSocket \/ Hibernate \/ ReceiveHello \/ ReceiveHeartbeat \/ RelayHeartbeat \/ RelayFails
    \/ LoseSocket \/ ReadFrame \/ IdleTimerFires
    \/ \E c \in TaskIDs : PostTask(c) \/ HandleWake(c) \/ FailWake(c)
    \/ MinutePasses

GatewaySpec == GatewayInit /\ [][GatewayNext]_gatewayVars

\* Frames and requests arrive and the agent connects again; of the relays and the wake
\* requests no more than MaxFailedCalls fail.  Nothing is asked of the idle timer.
GatewayFairness ==
    /\ WF_gatewayVars(OpenSocket) /\ WF_gatewayVars(ReceiveHello) /\ WF_gatewayVars(ReceiveHeartbeat)
    /\ WF_gatewayVars(RelayHeartbeat)
    /\ WF_gatewayVars(ReadFrame)
    /\ \A c \in TaskIDs : WF_gatewayVars(HandleWake(c))

-----------------------------------------------------------------------------
(* Properties.                                                             *)

GatewayTypeOK ==
    /\ socket \in [SocketIDs -> [open: BOOLEAN, attachment: {"none", "memory", "stored"}]]
    /\ agent \in [socket: 0..MaxSockets, step: {"down", "hello", "beating", "waiting"},
                  wakes: BOOLEAN, woken: BOOLEAN]
    /\ uplink \in {"none", "hello", "heartbeat", "relaying"}
    /\ downlink \in Seq({"ack", "bareAck", "wake", "command", "nothing"})
    /\ Len(downlink) <= 2 + MaxTasks * MaxPosts
    /\ agent.step = "down" => uplink = "none" /\ downlink = <<>>
    /\ taskRow \in [TaskIDs -> {"none", "open", "done"}]
    /\ taskPosts \in [TaskIDs -> 0..MaxPosts]
    /\ wakeRequest \in [TaskIDs -> BOOLEAN]
    /\ lastCommandWake \in 0..MaxTasks
    /\ hibernations \in 0..MaxHibernations
    /\ failedCalls \in 0..MaxFailedCalls
    /\ leftToTimer \in SUBSET TaskIDs

\* An agent that waits can be woken: its socket is open at the gateway, with the
\* attachment that makes the object send wakes to it, whenever the object slept.
WaitingAgentHears ==
    agent.step = "waiting" =>
        agent.wakes /\ SocketIsOpen(agent.socket) /\ socket[agent.socket].attachment = "stored"

\* A command frame or a wake is never the first frame of a connection: the agent takes
\* anything before the acknowledgement of its hello for a protocol error.
HelloIsAnsweredFirst ==
    agent.step = "hello" /\ downlink # <<>> => Head(downlink) \in {"ack", "bareAck"}

\* The handshake of a connection leaves both ends with the same idea of it, wherever the
\* object hibernates.
HandshakeHolds == WaitingAgentHears /\ HelloIsAnsweredFirst

\* A posted command is executed without the help of the idle timer, although wakes of
\* one command are coalesced and a wake may find nobody connected: unless a relay failed
\* while it was open, or its wake request, and no relay has succeeded since.
WokenIsServed == \A c \in TaskIDs : []<>(taskRow[c] # "open" \/ c \in leftToTimer)

\* What the failed calls leave behind is executed too if the idle timer is one: an agent
\* that does not wait for ever executes every posted command.
IdleTimerServes ==
    []<>(agent.step # "waiting") => \A c \in TaskIDs : []<>(taskRow[c] # "open")
=============================================================================
