----------------------- MODULE CloudWebSocketMailbox -----------------------
(***************************************************************************)
(* One connection of the agent seen from inside: a receive pump and the    *)
(* completion handler of CloudRemoteControl offer messages to a bounded    *)
(* mailbox (CloudWebSocketMailbox.swift), and the heartbeat loop           *)
(* (CloudPresenceConnection.swift) takes them out, racing a timer each     *)
(* time.  Wakes must neither be lost nor crowd out the replies the loop    *)
(* cannot go on without.                                                   *)
(***************************************************************************)
EXTENDS Picks

CONSTANTS Capacity,     \* how many messages the mailbox buffers
          MaxWire       \* bound: messages in flight from the gateway

ASSUME MailboxAssumption == Capacity \in Nat \ {0} /\ MaxWire \in Nat \ {0}

VARIABLES
    buffered,   \* messages nobody has asked for yet
    waiter,     \* whether a continuation is registered
    terminal,   \* whether finish(_:) was called
    remoteWakePending, localWakePending,
    wire,       \* frames the gateway has sent and the pump not yet received
    relay,      \* whether the gateway still owes a command-delivery frame
    loop,       \* where heartbeatLoop stands
    call,       \* where its call of timedMessage stands
    result,     \* what next() returned to the task group, or "none"
    owed        \* history: a wake was offered after the last heartbeat

mailboxVars == <<buffered, waiter, terminal, remoteWakePending, localWakePending>>
vars == <<mailboxVars, wire, relay, loop, call, result, owed>>

Wakes   == {"remoteWake", "localWake"}
Replies == {"heartbeat-accepted", "command-delivery"}
Message == Wakes \cup Replies

LoopSteps == {"top", "accepted", "delivery", "handle", "check", "idle", "drain",
              "ended"}

\* The steps at which the loop is inside timedMessage.
Receiving == {"accepted", "delivery", "idle"}

-----------------------------------------------------------------------------
\* A connection after the hello exchange, with a mailbox of its own.
Init ==
    /\ buffered = <<>> /\ waiter = FALSE /\ terminal = FALSE
    /\ remoteWakePending = FALSE /\ localWakePending = FALSE
    /\ wire = <<>> /\ relay = FALSE
    /\ loop = "top" /\ call = "none" /\ result = "none"
    /\ owed = FALSE

-----------------------------------------------------------------------------
(* The mailbox.                                                            *)

\* Mutant: wakes are not coalesced.
NeverCoalesced(m) == FALSE

\* A wake of the same kind is pending already.
Coalesced(m) ==
    (m = "remoteWake" /\ remoteWakePending) \/ (m = "localWake" /\ localWakePending)

\* Mutant: a wake that finds the loop waiting leaves no trace.
LatchedIfNobodyWaits(m) ==
    /\ remoteWakePending' = (remoteWakePending \/ (m = "remoteWake" /\ ~waiter))
    /\ localWakePending' = (localWakePending \/ (m = "localWake" /\ ~waiter))

Latched(m) ==
    /\ remoteWakePending' = (remoteWakePending \/ m = "remoteWake")
    /\ localWakePending' = (localWakePending \/ m = "localWake")

\* Room is made by dropping the oldest message.
Stored(m) ==
    IF Len(buffered) = Capacity THEN Append(Tail(buffered), m)
    ELSE Append(buffered, m)

\* offer(_:).
Offer(m) ==
    /\ owed' = (owed \/ m \in Wakes)
    /\ IF Coalesced(m) THEN UNCHANGED <<mailboxVars, result>>
       ELSE /\ Latched(m)
            /\ IF waiter
               THEN waiter' = FALSE /\ result' = m /\ UNCHANGED buffered
               ELSE /\ buffered' = IF terminal THEN buffered ELSE Stored(m)
                    /\ UNCHANGED <<waiter, result>>
            /\ UNCHANGED terminal

\* What consumeWake leaves in the buffer.
Unread == Picked(buffered, {i \in 1..Len(buffered) : ~Coalesced(buffered[i])})

\* consumeWake(allowRemote: true); the loop looks at WakePending as it calls.
ConsumeWake ==
    /\ remoteWakePending' = FALSE /\ localWakePending' = FALSE
    /\ buffered' = Unread
    /\ UNCHANGED <<waiter, terminal>>

WakePending == remoteWakePending \/ localWakePending

-----------------------------------------------------------------------------
(* The gateway, the pump and the completion handler.                       *)

OutsideFrame == UNCHANGED <<loop, call>>

\* The Durable Object: the delivery follows the relay ...
SendDelivery ==
    /\ relay /\ relay' = FALSE
    /\ wire' = Append(wire, "command-delivery")
    /\ UNCHANGED <<mailboxVars, result, owed>> /\ OutsideFrame

\* ... and a wake is sent whenever the control plane asks for one.
SendWake ==
    /\ ~terminal /\ Len(wire) < MaxWire
    /\ wire' = Append(wire, "remoteWake")
    /\ UNCHANGED <<mailboxVars, relay, result, owed>> /\ OutsideFrame

\* The receive pump hands the frames over in order.
Pump ==
    /\ ~terminal /\ wire # <<>>
    /\ wire' = Tail(wire)
    /\ Offer(Head(wire))
    /\ UNCHANGED relay /\ OutsideFrame

\* completeAsync calls the completion handler.
LocalCommandCompletion ==
    /\ loop # "ended"
    /\ Offer("localWake")
    /\ UNCHANGED <<wire, relay>> /\ OutsideFrame

\* The socket breaks; what was in flight is lost.
Finish ==
    /\ ~terminal
    /\ terminal' = TRUE
    /\ buffered' = <<>>
    /\ wire' = <<>> /\ relay' = FALSE
    /\ IF waiter THEN waiter' = FALSE /\ result' = "error"
       ELSE UNCHANGED <<waiter, result>>
    /\ UNCHANGED <<remoteWakePending, localWakePending, owed>> /\ OutsideFrame

-----------------------------------------------------------------------------
(* timedMessage: next() races a timer in a task group.                     *)

\* next(): a buffered message, the terminal error, or a continuation.
TakeNext ==
    /\ call \in {"next", "late"}
    /\ call' = IF call = "next" THEN "race" ELSE "cancel"
    /\ CASE buffered # <<>> ->
              result' = Head(buffered) /\ buffered' = Tail(buffered) /\ UNCHANGED waiter
         [] buffered = <<>> /\ terminal ->
              result' = "error" /\ UNCHANGED <<buffered, waiter>>
         [] OTHER ->
              waiter' = TRUE /\ UNCHANGED <<buffered, result>>
    /\ UNCHANGED <<terminal, remoteWakePending, localWakePending, wire, relay, loop,
                   owed>>

\* The timer throws first.  The group still waits for the cancelled child: it
\* may yet enter next(), and until cancelWaiter runs, the mailbox may hand it
\* a message nobody sees.
TimerFires ==
    /\ call \in {"next", "race"}
    /\ call' = IF call = "next" THEN "late" ELSE "cancel"
    /\ UNCHANGED <<mailboxVars, wire, relay, loop, result, owed>>

\* Mutant: the continuation of a call that timed out stays registered.
TimedOutWaiting ==
    /\ call = "cancel"
    /\ call' = "none"
    /\ result' = "none"
    /\ loop' = IF loop = "idle" THEN "top" ELSE "ended"
    /\ UNCHANGED <<mailboxVars, wire, relay, owed>>

\* cancelWaiter, and what the loop makes of the timeout.
TimedOut ==
    /\ call = "cancel"
    /\ call' = "none"
    /\ result' = "none"
    /\ waiter' = FALSE
    /\ loop' = IF loop = "idle" THEN "top" ELSE "ended"
    /\ UNCHANGED <<buffered, terminal, remoteWakePending, localWakePending, wire,
                   relay, owed>>

\* The message the loop is waiting for at this step.
Expected == CASE loop = "accepted" -> "heartbeat-accepted"
              [] loop = "delivery" -> "command-delivery"
              [] OTHER             -> "none"

\* receiveExpected skips wakes; while idle, only a wake is in order.
MessageArrives ==
    /\ call = "race" /\ result # "none"
    /\ result' = "none"
    /\ \/ /\ result = Expected
          /\ loop' = IF loop = "accepted" THEN "delivery" ELSE "handle"
          /\ call' = IF loop = "accepted" THEN "next" ELSE "none"
       \/ /\ result \in Wakes /\ loop # "idle"
          /\ call' = "next" /\ UNCHANGED loop
       \/ /\ result \in Wakes /\ loop = "idle"
          /\ loop' = "drain" /\ call' = "none"
       \/ /\ result \notin Wakes \cup {Expected}
          /\ loop' = "ended" /\ call' = "none"
    /\ UNCHANGED <<mailboxVars, wire, relay, owed>>

-----------------------------------------------------------------------------
(* heartbeatLoop.                                                          *)

\* The head of the loop clears the wakes, then a heartbeat is sent and the
\* gateway answers it; on a broken socket the send throws.
Beat ==
    /\ loop = "top"
    /\ ConsumeWake
    /\ IF terminal
       THEN loop' = "ended" /\ UNCHANGED <<call, wire, relay, owed>>
       ELSE /\ loop' = "accepted" /\ call' = "next"
            /\ wire' = Append(wire, "heartbeat-accepted")
            /\ relay' = TRUE
            /\ owed' = FALSE
    /\ UNCHANGED result

\* Mutant: the loop sends no further heartbeat on its own account.
HandledAsleep ==
    /\ loop = "handle"
    /\ loop' = "idle"
    /\ UNCHANGED <<mailboxVars, wire, relay, call, result, owed>>

\* handle(_:) returned whether there is an acknowledgement to send.
Handled ==
    /\ loop = "handle"
    /\ loop' \in {"top", "check"}
    /\ UNCHANGED <<mailboxVars, wire, relay, call, result, owed>>

\* Mutant: the loop goes to sleep without another look.
CheckNothing ==
    /\ loop = "check"
    /\ loop' = "idle" /\ call' = "next"
    /\ ConsumeWake
    /\ UNCHANGED <<wire, relay, result, owed>>

CheckWake ==
    /\ loop = "check"
    /\ ConsumeWake
    /\ IF WakePending THEN loop' = "top" /\ UNCHANGED call
       ELSE loop' = "idle" /\ call' = "next"
    /\ UNCHANGED <<wire, relay, result, owed>>

DrainWake ==
    /\ loop = "drain"
    /\ ConsumeWake
    /\ loop' = "top"
    /\ UNCHANGED <<wire, relay, call, result, owed>>

\* run(_:): the next connection, after the delay of the state machine.
Reconnect ==
    /\ loop = "ended"
    /\ buffered' = <<>> /\ waiter' = FALSE /\ terminal' = FALSE
    /\ remoteWakePending' = FALSE /\ localWakePending' = FALSE
    /\ wire' = <<>> /\ relay' = FALSE
    /\ loop' = "top" /\ call' = "none" /\ result' = "none"
    /\ owed' = FALSE

LoopStep ==
    TakeNext \/ TimedOut \/ MessageArrives \/ Beat \/ Handled \/ CheckWake \/ DrainWake

Next ==
    \/ LoopStep \/ TimerFires \/ Reconnect
    \/ SendDelivery \/ SendWake \/ Pump \/ LocalCommandCompletion \/ Finish

Spec == Init /\ [][Next]_vars

\* Tasks that can run do run, a heartbeat and its replies take finite time,
\* and the timer of a reply fires in the end.  The timer of the idle wait,
\* up to thirty seconds, need not: nothing may depend on it.
Fairness ==
    /\ WF_vars(LoopStep)
    /\ WF_vars(Pump) /\ WF_vars(SendDelivery)
    /\ WF_vars(TimerFires /\ loop # "idle")

FairSpec == Spec /\ Fairness

-----------------------------------------------------------------------------
TypeOK ==
    /\ buffered \in Seq(Message) /\ Len(buffered) <= Capacity
    /\ waiter \in BOOLEAN /\ terminal \in BOOLEAN
    /\ remoteWakePending \in BOOLEAN /\ localWakePending \in BOOLEAN
    /\ wire \in Seq(Message)
    /\ relay \in BOOLEAN
    /\ loop \in LoopSteps
    /\ call \in {"none", "next", "race", "late", "cancel"}
    /\ result \in Message \cup {"none", "error"}
    /\ owed \in BOOLEAN
    /\ loop \in Receiving <=> call # "none"
    \* The one continuation is registered by one call at a time, so that none is
    \* overwritten and left waiting for ever.
    /\ waiter => call \in {"race", "cancel"} /\ result = "none"

\* However many wakes arrive, at most one of each kind is buffered, so the
\* mailbox never drops a reply to make room: it would cost the connection.
RepliesAreKept ==
    [][\A m \in Replies, i \in DOMAIN buffered :
        buffered[i] = m =>
            \/ \E k \in DOMAIN buffered' : buffered'[k] = m
            \/ result' = m \/ terminal' \/ loop = "ended"]_vars

\* A wake leads to a heartbeat, without the help of the idle timer, whenever
\* it comes: in the middle of a reply, of a command or of a timeout.
WakeLeadsToBeat == []<>(~owed \/ loop = "ended")
=============================================================================
