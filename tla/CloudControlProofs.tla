-------------------------- MODULE CloudControlProofs --------------------------
(***************************************************************************)
(* Proofs about CloudControl, for any number of commands of any kinds and  *)
(* any bounds.                                                             *)
(*                                                                         *)
(* The inductive invariant CloudInv has five parts.  Ordered says whose    *)
(* turn it is: a command that was delivered, begun or recorded has been    *)
(* reached, all earlier ones having their answers, and nothing later than  *)
(* the command in a frame or at hand was begun.  Answered relates the      *)
(* database to the receipts on the Mac, through the acknowledgements held  *)
(* and on their way.  Held says that no answer still needed is given up,   *)
(* LongHeld that an answer too long to share a heartbeat is confirmed by   *)
(* the frame that brings the next command, and Effective relates receipts  *)
(* and jobs to what took effect.                                           *)
(***************************************************************************)
EXTENDS CloudControl, FiniteSetTheorems, WellFoundedInduction, TLAPS

\* Every earlier command has its answer.
Turn(c) == \A d \in 1..(c - 1) : status[d] \in Result

Reached(c) == status[c] # "none" /\ Turn(c)

NothingLater(c) == \A d \in Commands : d > c => receipts[d] = "none" /\ d \notin inflight

\* The commands whose receipt is replayed as it is: a removed job changes a queue command's.
Firm(c) == KindOf[c] # "queue" \/ ~Removals

\* An answer says what the receipt says, or that the job or destination has gone.
Agrees(c, result) ==
    /\ receipts[c] # "none"
    /\ receipts[c] = result \/ (result = "failed" /\ ~Firm(c))

Recorded(a) == Agrees(a.id, a.status)

Ordered ==
    /\ \A c \in Commands : status[c] # "none" => \A d \in 1..(c - 1) : status[d] # "none"
    /\ \A c \in Commands : receipts[c] # "none" => Reached(c)
    /\ \A c \in inflight : KindOf[c] = "background" /\ receipts[c] = "none" /\ Reached(c)
    /\ hand # NoCommand =>
          /\ loop \in {"handle", "complete"} /\ KindOf[hand] # "background"
          /\ receipts[hand] = "none" /\ Reached(hand) /\ NothingLater(hand)
    /\ frame # NoFrame => loop = "waiting"
    /\ frame.command \in Commands =>
          /\ presence = 0 /\ Reached(frame.command) /\ NothingLater(frame.command)
          /\ KindOf[frame.command] # "auth" => Open(frame.command)

Answered ==
    /\ \A c \in Commands : status[c] \in Result =>
          (c \in overdue /\ status[c] = "failed") \/ Agrees(c, status[c])
    /\ \A a \in acks : Recorded(a)
    /\ \A p \in posts : /\ \A a \in p.acks : Recorded(a)
                        /\ \A c \in p.confirmed : status[c] \in Result
    /\ \A c \in frame.confirmed : status[c] \in Result

Held ==
    /\ \A a, b \in acks : a.id = b.id => a = b
    /\ AnswerIsHeld

\* An answer that is as long as a heartbeat allows.
Long(a) == KindOf[a.id] \in {"action", "background"}

\* Nobody but the agent has it yet.
Unsent(a) == Open(a.id) /\ \A q \in posts : \A b \in q.acks : b.id # a.id

LongHeld ==
    /\ \A a, b \in acks : Long(a) /\ Long(b) => a.id = b.id
    /\ Begun # {} => \A a \in acks : ~Long(a)
    /\ \A p \in posts : p.age = 0 /\ p.awaited /\ loop = "waiting" =>
          \A a \in acks : Long(a) =>
              \/ Unsent(a)
              \/ p.kind = "heartbeat" /\ a \in p.acks
              \/ p.kind = "next" /\ a.id \in p.confirmed
    /\ frame.command \in Commands =>
          \A a \in acks : Long(a) => a.id \in frame.confirmed \/ Open(a.id)

\* The command at hand was executed.
Executed(c) == loop = "complete" /\ hand = c /\ outcome = "completed"

\* The call of the command's case was made.
Tried(c) == receipts[c] # "none" \/ (loop = "complete" /\ hand = c)

EffectFits(c) ==
    /\ KindOf[c] = "background" => effects[c] = IF receipts[c] = "completed" THEN 1 ELSE 0
    /\ KindOf[c] = "queue" =>
          /\ effects[c] = IF c \in jobs THEN 1 ELSE 0
          /\ receipts[c] = "completed" => c \in jobs
          /\ receipts[c] = "failed" => c \notin jobs
          /\ loop = "complete" /\ hand = c => (outcome = "completed" <=> c \in jobs)
    /\ KindOf[c] \in {"action", "auth", "reorder"} =>
          /\ receipts[c] = "completed" \/ Executed(c) => effects[c] > 0
          /\ crashes = 0 => effects[c] <= 1
          /\ crashes = 0 /\ receipts[c] # "completed" /\ ~Executed(c) =>
                effects[c] = 0 \/ Tried(c)

\* A job, a receipt or an outcome is there because the command took effect.
Earned(c) == c \in jobs \/ receipts[c] = "completed" \/ Executed(c) => effects[c] > 0

Effective ==
    /\ \A c \in jobs : KindOf[c] = "queue"
    /\ \A c \in Commands : Earned(c)
    /\ \A c \in Commands : Firm(c) => EffectFits(c)

CloudInv == TypeOK /\ Ordered /\ Answered /\ Held /\ LongHeld /\ Effective

-----------------------------------------------------------------------------
(* Smallest numbers, and what the operators return.                        *)

\* A set of commands that is not empty has an earliest one.
LEMMA HasEarliest ==
    ASSUME NEW S \in SUBSET Commands, S # {}
    PROVE  Earliest(S) \in S /\ \A d \in S : Earliest(S) <= d
<1>1. S \in SUBSET Nat
  BY CloudAssumption DEF Commands
<1>2. PICK c \in S : \A d \in Nat : d < c => d \notin S
  <2>1. IsWellFoundedOn(OpToRel(<, Nat), Nat)
    BY NatLessThanWellFounded
  <2>2. \E x \in S : \A y \in S : ~ (<<y, x>> \in OpToRel(<, Nat))
    BY <1>1, <2>1, WFMin
  <2> QED
    BY <1>1, <2>2 DEF OpToRel
<1>3. \A d \in S : c <= d
  BY <1>1, <1>2
<1> QED
  BY <1>3 DEF Earliest

\* The command that is selected is a candidate, and the first of them.
LEMMA ChosenIsFirst ==
    ASSUME NEW p, Chosen(p) # NoCommand
    PROVE  /\ p.age = presence
           /\ Chosen(p) \in Candidates
           /\ \A d \in Candidates : Chosen(p) <= d
<1>1. Candidates \in SUBSET Commands
  BY DEF Candidates
<1> QED
  BY <1>1, HasEarliest DEF Chosen

LEMMA ChosenIsCommand ==
    ASSUME NEW p
    PROVE  /\ Chosen(p) \in Commands \cup {NoCommand}
           /\ Relayed(Chosen(p)) \in Commands \cup {NoCommand}
           /\ Relayed(Chosen(p)) # NoCommand => Relayed(Chosen(p)) = Chosen(p)
  BY ChosenIsFirst DEF Candidates, Relayed

\* An acknowledgement is enqueued; of the others, some may be dropped.
LEMMA EnqueuedKeeps ==
    ASSUME NEW held, NEW c, NEW result, NEW list \in Enqueued(held, c, result)
    PROVE  \E kept \in SUBSET {a \in held : a.id # c} :
               list = kept \cup {[id |-> c, status |-> result]}
<1> DEFINE others == {a \in held : a.id # c}
<1> DEFINE kepts == IF Cardinality(others) < AckCap THEN {others}
                    ELSE {S \in SUBSET others : Cardinality(S) = AckCap - 1}
<1>1. PICK kept \in kepts : list = kept \cup {[id |-> c, status |-> result]}
  BY DEF Enqueued
<1>2. kept \in SUBSET others
  BY <1>1
<1> QED
  BY <1>1, <1>2

LEMMA NoFrameIsNone ==
    /\ NoFrame.confirmed = {} /\ NoFrame.command \notin Commands
    /\ NoCommand \notin Commands
  BY CloudAssumption DEF NoFrame, Commands, NoCommand

-----------------------------------------------------------------------------
(* Types.                                                                  *)

\* What the relay asks for once the heartbeat is stored.
LEMMA RelayedPost ==
    ASSUME NEW p \in Post, NEW stored \in SUBSET Commands
    PROVE  [p EXCEPT !.kind = "next", !.acks = {}, !.job = NoUpdate,
                     !.confirmed = stored] \in Post
<1>1. NoUpdate \in 0..MaxUpdates
  BY CloudAssumption DEF NoUpdate
<1> QED
  BY <1>1 DEF Post

LEMMA PersistTypes ==
    ASSUME TypeOK, NEW p \in posts, PersistHeartbeat(p)
    PROVE  TypeOK'
<1> USE DEF Result
<1>1. p \in Post
  BY DEF TypeOK
<1>2. Persisted(p) \in [Commands -> Result \cup {"none", "pending", "running"}]
  BY <1>1 DEF TypeOK, Persisted, Post, Ack
<1>3. Confirmed(p, Persisted(p)) \in SUBSET Commands
  BY <1>1 DEF Confirmed, Post, Ack
<1>4. [p EXCEPT !.kind = "next", !.acks = {}, !.job = NoUpdate,
                !.confirmed = Confirmed(p, Persisted(p))] \in Post
  BY <1>1, <1>3, RelayedPost
<1>5. [confirmed |-> {}, command |-> NoCommand] \in Delivery
  BY DEF Delivery
<1>6. presence' \in Ages /\ projected' \in 0..MaxUpdates
  BY <1>1, CloudAssumption DEF PersistHeartbeat, TypeOK, Post, Ages, Oldest
<1>7. status' \in [Commands -> Result \cup {"none", "pending", "running"}]
  BY <1>2 DEF PersistHeartbeat, TypeOK
<1>8. posts' \in SUBSET Post
  BY <1>4 DEF PersistHeartbeat, TypeOK
<1>9. frame' \in Delivery \cup {NoFrame}
  BY <1>5 DEF PersistHeartbeat, Deliver, TypeOK
<1> QED
  BY <1>6, <1>7, <1>8, <1>9
  DEF PersistHeartbeat, TypeOK, agentVars, jobVars, faultVars

LEMMA NextTypes ==
    ASSUME TypeOK, NEW p \in posts, NextGatewayCommand(p)
    PROVE  TypeOK'
<1> USE DEF Result
<1>1. p \in Post
  BY DEF TypeOK
<1>2. [confirmed |-> p.confirmed, command |-> Relayed(Chosen(p))] \in Delivery
  BY <1>1, ChosenIsCommand DEF Post, Delivery
<1>3. frame' \in Delivery \cup {NoFrame}
  BY <1>2 DEF NextGatewayCommand, Deliver, TypeOK
<1>4. status' \in [Commands -> Result \cup {"none", "pending", "running"}]
  BY DEF NextGatewayCommand, TypeOK
<1> QED
  BY <1>3, <1>4 DEF NextGatewayCommand, TypeOK, agentVars, jobVars, faultVars

LEMMA TimeoutTypes ==
    ASSUME TypeOK, NEW p \in posts, RelayTimesOut(p)
    PROVE  TypeOK'
<1>1. p \in Post
  BY DEF TypeOK
<1>2. [confirmed |-> p.confirmed, command |-> NoCommand] \in Delivery
  BY <1>1 DEF Post, Delivery
<1>3. [p EXCEPT !.awaited = FALSE] \in Post
  BY <1>1 DEF Post
<1>4. frame' \in Delivery \cup {NoFrame} /\ posts' \in SUBSET Post
  BY <1>2, <1>3 DEF RelayTimesOut, Deliver, TypeOK
<1>5. failures' \in 0..MaxFailures
  BY CloudAssumption DEF RelayTimesOut, TypeOK
<1> QED
  BY <1>4, <1>5 DEF RelayTimesOut, TypeOK, cloudVars, agentVars, jobVars

LEMMA BeatTypes ==
    ASSUME TypeOK, Beat
    PROVE  TypeOK'
<1> DEFINE new == [kind |-> "heartbeat", age |-> 0, acks |-> acks, job |-> ChangedJob,
                   confirmed |-> {}, awaited |-> TRUE]
<1>1. \A p \in posts : p.age < MaxLate => Aged(p) \in Post
  BY CloudAssumption DEF TypeOK, Post, Aged
<1>2. new \in Post
  BY CloudAssumption DEF TypeOK, Post, ChangedJob, NoUpdate
<1>3. posts' \in SUBSET Post
  BY <1>1, <1>2 DEF Beat
<1>4. presence' \in Ages
  BY CloudAssumption DEF Beat, TypeOK, Ages, Oldest
<1> QED
  BY <1>3, <1>4 DEF Beat, TypeOK, jobVars, faultVars

LEMMA ReplayIsResult ==
    ASSUME TypeOK, NEW c \in Commands, receipts[c] # "none"
    PROVE  Replay(c) \in Result
  BY DEF TypeOK, Replay, Result

LEMMA EnqueuedTypes ==
    ASSUME NEW held \in SUBSET Ack, NEW c \in Commands, NEW result \in Result,
           NEW list \in Enqueued(held, c, result)
    PROVE  list \in SUBSET Ack
<1>1. PICK kept \in SUBSET {a \in held : a.id # c} :
          list = kept \cup {[id |-> c, status |-> result]}
  BY EnqueuedKeeps
<1>2. [id |-> c, status |-> result] \in Ack
  BY DEF Ack
<1> QED
  BY <1>1, <1>2

LEMMA ReceiveTypes ==
    ASSUME TypeOK, Receive
    PROVE  TypeOK'
<1> DEFINE kept == {a \in acks : a.id \notin frame.confirmed}
<1>1. kept \in SUBSET Ack
  BY DEF TypeOK
<1>2. acks' \in SUBSET Ack
  BY <1>1, ReplayIsResult, EnqueuedTypes DEF Receive, TypeOK
<1>3. frame' \in Delivery \cup {NoFrame}
  BY DEF Receive
<1>4. /\ loop' \in {"down", "ready", "waiting", "handle", "complete"}
      /\ hand' \in Commands \cup {NoCommand}
      /\ loop' \in {"handle", "complete"} => hand' \in Commands
      /\ inflight' \in SUBSET Commands
  BY DEF Receive, TypeOK
<1> QED
  BY <1>2, <1>3, <1>4 DEF Receive, TypeOK, cloudVars, jobVars, faultVars

LEMMA AgentTypes ==
    ASSUME TypeOK, Execute \/ Complete \/ \E c \in Commands : CompleteAsync(c)
    PROVE  TypeOK'
<1>1. CASE Execute
  BY <1>1 DEF Execute, TypeOK, Result, cloudVars, faultVars
<1>2. CASE Complete
  <2>1. acks' \in SUBSET Ack
    BY <1>2, EnqueuedTypes DEF Complete, TypeOK
  <2>2. receipts' \in [Commands -> Result \cup {"none"}]
    BY <1>2 DEF Complete, Receipts, TypeOK
  <2> QED
    BY <1>2, <2>1, <2>2 DEF Complete, TypeOK, Result, cloudVars, jobVars, faultVars
<1>3. ASSUME NEW c \in Commands, CompleteAsync(c) PROVE TypeOK'
  <2>1. PICK result \in Result :
          /\ receipts' = Receipts(c, result)
          /\ acks' \in Enqueued(acks, c, result)
          /\ effects' = [effects EXCEPT ![c] = IF result = "completed" THEN @ + 1 ELSE @]
    BY <1>3 DEF CompleteAsync
  <2>2. acks' \in SUBSET Ack
    BY <2>1, EnqueuedTypes DEF TypeOK
  <2>3. receipts' \in [Commands -> Result \cup {"none"}] /\ effects' \in [Commands -> Nat]
    BY <2>1 DEF Receipts, TypeOK
  <2> QED
    BY <1>3, <2>2, <2>3 DEF CompleteAsync, TypeOK, cloudVars, faultVars
<1> QED
  BY <1>1, <1>2, <1>3

LEMMA TypesStay ==
    ASSUME TypeOK, [Next]_vars
    PROVE  TypeOK'
<1> USE DEF Result, cloudVars, agentVars, jobVars, faultVars
<1>1. ASSUME NEW c \in Commands, CreateCommand(c) PROVE TypeOK'
  BY <1>1 DEF CreateCommand, TypeOK
<1>2. ASSUME NEW c \in Commands, BecomeOverdue(c) PROVE TypeOK'
  BY <1>2 DEF BecomeOverdue, TypeOK
<1>3. ASSUME NEW c \in Commands, CommandForOwnedDevice(c) PROVE TypeOK'
  BY <1>3 DEF CommandForOwnedDevice, TypeOK
<1>4. ASSUME NEW c \in Commands, RemoveJob(c) PROVE TypeOK'
  BY <1>4 DEF RemoveJob, TypeOK
<1>5. ASSUME NEW p \in posts, LoseRequest(p) PROVE TypeOK'
  BY <1>5 DEF LoseRequest, TypeOK
<1>6. CASE Connect
  BY <1>6, CloudAssumption DEF Connect, SentAtFirst, NoUpdate, TypeOK
<1>7. CASE Disconnect
  BY <1>7, CloudAssumption DEF Disconnect, TypeOK
<1>8. CASE Crash
  BY <1>8, CloudAssumption DEF Crash, NoUpdate, TypeOK
<1>9. CASE JobChanges
  BY <1>9, CloudAssumption DEF JobChanges, TypeOK
<1>10. CASE UNCHANGED vars
  BY <1>10 DEF vars, TypeOK
<1> QED
  BY <1>1, <1>2, <1>3, <1>4, <1>5, <1>6, <1>7, <1>8, <1>9, <1>10, AgentTypes,
     PersistTypes, NextTypes, TimeoutTypes, BeatTypes, ReceiveTypes DEF Next

LEMMA TypesAtFirst == Init => TypeOK
  BY CloudAssumption DEF Init, TypeOK, NoUpdate, Ages, Oldest, Result

\* Every variable keeps its type.
THEOREM CloudTypeCorrect == Spec => []TypeOK
  BY TypesAtFirst, TypesStay, PTL DEF Spec

-----------------------------------------------------------------------------
(* Whose turn it is.                                                       *)

\* An answer stays, and so does a command that was given.
Grows ==
    \A c \in Commands :
        /\ status[c] \in Result => status'[c] = status[c]
        /\ status[c] # "none" => status'[c] # "none"

LEMMA AnswersStay ==
    ASSUME TypeOK, [Next]_vars
    PROVE  Grows
<1> USE DEF Grows, Open, Result
<1>1. ASSUME NEW c \in Commands, CreateCommand(c) PROVE Grows
  BY <1>1 DEF CreateCommand, TypeOK
<1>2. ASSUME NEW c \in Commands, CommandForOwnedDevice(c) PROVE Grows
  BY <1>2 DEF CommandForOwnedDevice, TypeOK
<1>3. ASSUME NEW p \in posts, PersistHeartbeat(p) PROVE Grows
  <2>1. \A a \in p.acks : a.status \in Result
    BY DEF TypeOK, Post, Ack
  <2>2. status' = Persisted(p) \/ UNCHANGED status
    BY <1>3 DEF PersistHeartbeat
  <2>3. \A c \in Commands : /\ ~Open(c) => Persisted(p)[c] = status[c]
                            /\ Persisted(p)[c] \in Result \/ Persisted(p)[c] = status[c]
    BY <2>1 DEF Persisted
  <2> QED
    BY <2>2, <2>3 DEF TypeOK
<1>4. ASSUME NEW p \in posts, NextGatewayCommand(p) PROVE Grows
  <2>1. \A c \in Commands : c = Chosen(p) => Open(c)
    BY ChosenIsFirst, NoFrameIsNone DEF Candidates
  <2> QED
    BY <1>4, <2>1 DEF NextGatewayCommand, Expired, TypeOK
<1>5. CASE UNCHANGED status
  BY <1>5
<1>6. ASSUME NEW c \in Commands,
             BecomeOverdue(c) \/ CompleteAsync(c) \/ RemoveJob(c)
      PROVE  UNCHANGED status
  BY <1>6 DEF BecomeOverdue, CompleteAsync, RemoveJob, cloudVars
<1>7. ASSUME NEW p \in posts, RelayTimesOut(p) \/ LoseRequest(p) PROVE UNCHANGED status
  BY <1>7 DEF RelayTimesOut, LoseRequest, cloudVars
<1>8. ASSUME \/ Connect \/ Beat \/ Receive \/ Execute \/ Complete
             \/ Disconnect \/ Crash \/ JobChanges \/ UNCHANGED vars
      PROVE  UNCHANGED status
  BY <1>8 DEF Connect, Beat, Receive, Execute, Complete, Disconnect, Crash,
              JobChanges, vars, cloudVars
<1> QED
  BY <1>1, <1>2, <1>3, <1>4, <1>5, <1>6, <1>7, <1>8 DEF Next

LEMMA ReachedStays ==
    ASSUME Grows, NEW c \in Commands, Reached(c)
    PROVE  Reached(c)'
  BY CloudAssumption DEF Grows, Reached, Turn, Commands, Result

\* Of two commands that are reached and open, neither is the earlier one.
LEMMA OneIsOpen ==
    ASSUME NEW c \in Commands, NEW d \in Commands,
           Reached(c), Reached(d), Open(c), Open(d)
    PROVE  c = d
  BY CloudAssumption DEF Reached, Turn, Open, Commands, Result

\* A command that has a receipt or its answer is behind nothing that is open.
LEMMA SettledBefore ==
    ASSUME NEW c \in Commands, NEW d \in Commands, Reached(c), Open(d)
    PROVE  c <= d
  BY CloudAssumption DEF Reached, Turn, Open, Commands, Result

LEMMA NotOpenIsSettled ==
    ASSUME TypeOK, NEW c \in Commands, ~Open(c), status[c] # "none"
    PROVE  status[c] \in Result
  BY DEF TypeOK, Open, Result

\* A command that runs in the background is still waited for.
LEMMA InflightIsOpen ==
    ASSUME CloudInv, NEW c \in inflight
    PROVE  /\ c \in Commands /\ KindOf[c] = "background" /\ receipts[c] = "none"
           /\ Reached(c) /\ Open(c)
<1>1. c \in Commands
  BY DEF CloudInv, TypeOK
<1>2. KindOf[c] = "background" /\ receipts[c] = "none" /\ Reached(c)
  BY DEF CloudInv, Ordered
<1>3. c \notin overdue
  BY <1>2 DEF CloudInv, TypeOK, Expiring
<1>4. status[c] \notin Result
  BY <1>1, <1>2, <1>3 DEF CloudInv, Answered, Agrees
<1> QED
  BY <1>1, <1>2, <1>4 DEF CloudInv, TypeOK, Open, Reached, Result

\* ... and nothing else that is begun, or open with a receipt, exists.
LEMMA InflightAlone ==
    ASSUME CloudInv, NEW c \in inflight
    PROVE  /\ inflight = {c} /\ hand = NoCommand
           /\ \A d \in Commands : Open(d) => receipts[d] = "none"
<1>1. /\ c \in Commands /\ KindOf[c] = "background" /\ receipts[c] = "none"
      /\ Reached(c) /\ Open(c)
  BY InflightIsOpen
<1>2. ASSUME NEW d \in inflight PROVE d = c
  BY <1>1, <1>2, InflightIsOpen, OneIsOpen
<1>3. hand = NoCommand
  <2> SUFFICES ASSUME hand # NoCommand PROVE FALSE
    OBVIOUS
  <2>1. /\ hand \in Commands /\ KindOf[hand] # "background"
        /\ Reached(hand) /\ NothingLater(hand)
    BY DEF CloudInv, Ordered, TypeOK
  <2>2. hand <= c
    BY <1>1, <2>1, SettledBefore
  <2> QED
    BY <1>1, <2>1, <2>2, CloudAssumption DEF NothingLater, Commands
<1>4. ASSUME NEW d \in Commands, Open(d), receipts[d] # "none" PROVE FALSE
  <2>1. Reached(d)
    BY <1>4 DEF CloudInv, Ordered
  <2> QED
    BY <1>1, <1>4, <2>1, OneIsOpen
<1> QED
  BY <1>2, <1>3, <1>4

\* The command at hand is the only one begun, and no receipt waits.
LEMMA HandAlone ==
    ASSUME CloudInv, hand # NoCommand
    PROVE  /\ hand \in Commands /\ loop \in {"handle", "complete"} /\ frame = NoFrame
           /\ KindOf[hand] # "background" /\ receipts[hand] = "none"
           /\ Reached(hand) /\ NothingLater(hand) /\ inflight = {}
           /\ \A d \in Commands : Open(d) => receipts[d] = "none"
<1>1. /\ hand \in Commands /\ loop \in {"handle", "complete"} /\ frame = NoFrame
      /\ KindOf[hand] # "background" /\ receipts[hand] = "none"
      /\ Reached(hand) /\ NothingLater(hand)
  BY DEF CloudInv, Ordered, TypeOK
<1>2. inflight = {}
  BY InflightAlone
<1>3. ASSUME NEW d \in Commands, Open(d), receipts[d] # "none" PROVE FALSE
  BY <1>1, <1>3, SettledBefore, CloudAssumption DEF NothingLater, Commands
<1> QED
  BY <1>1, <1>2, <1>3

\* When a frame brings a command, only that one can be begun or wait with a receipt.
LEMMA FrameAlone ==
    ASSUME CloudInv, frame.command \in Commands
    PROVE  /\ loop = "waiting" /\ hand = NoCommand /\ presence = 0
           /\ Reached(frame.command) /\ NothingLater(frame.command)
           /\ inflight \subseteq {frame.command}
           /\ \A d \in Commands : Open(d) /\ receipts[d] # "none" => d = frame.command
<1>1. /\ loop = "waiting" /\ hand = NoCommand /\ presence = 0
      /\ Reached(frame.command) /\ NothingLater(frame.command)
  BY NoFrameIsNone DEF CloudInv, Ordered
<1>2. ASSUME NEW d \in inflight PROVE d = frame.command
  <2>1. d \in Commands /\ Open(d)
    BY InflightIsOpen
  <2> QED
    BY <1>1, <2>1, SettledBefore, CloudAssumption DEF NothingLater, Commands
<1>3. ASSUME NEW d \in Commands, Open(d), receipts[d] # "none" PROVE d = frame.command
  BY <1>1, <1>3, SettledBefore, CloudAssumption DEF NothingLater, Commands
<1> QED
  BY <1>1, <1>2, <1>3

LEMMA InvAtFirst == Init => CloudInv
  BY TypesAtFirst, NoFrameIsNone, CloudAssumption
  DEF Init, CloudInv, Ordered, Answered, Held, LongHeld, Effective, AnswerIsHeld,
      Open, Reached, Begun, Executed, EffectFits, Earned, NoCommand, Result, Kinds, Commands

-----------------------------------------------------------------------------
(* The sender's steps: only the status and the overdue commands change.    *)

LEMMA SenderKeeps ==
    ASSUME CloudInv, TypeOK', Grows, NEW c \in Commands,
           CreateCommand(c) \/ BecomeOverdue(c) \/ CommandForOwnedDevice(c)
    PROVE  CloudInv'
<1>1. UNCHANGED <<presence, projected, posts, frame, agentVars, jobVars, faultVars>>
  BY DEF CreateCommand, BecomeOverdue, CommandForOwnedDevice
<1> USE <1>1 DEF agentVars, jobVars, faultVars
<1>2. /\ \A d \in Commands \ {c} : status'[d] = status[d]
      /\ \/ UNCHANGED status
         \/ status[c] = "none" /\ status'[c] = "pending"
            /\ \A d \in 1..(c - 1) : status[d] # "none"
         \/ Open(c) /\ status'[c] = "failed" /\ c \in overdue
  BY DEF CreateCommand, BecomeOverdue, CommandForOwnedDevice, CloudInv, TypeOK
<1>3. overdue \subseteq overdue' /\ overdue \subseteq Expiring
  BY DEF CreateCommand, BecomeOverdue, CommandForOwnedDevice, CloudInv, TypeOK
<1>4. ASSUME NEW d \in Commands, status[d] # "none"
      PROVE  /\ Open(d)' => Open(d)
             /\ Open(d) /\ KindOf[d] # "auth" => Open(d)'
  BY <1>2, <1>3, <1>4 DEF Open, Expiring
<1>5. Ordered'
  <2>1. \A d \in Commands : status'[d] # "none" => \A e \in 1..(d - 1) : status'[e] # "none"
    BY <1>2, CloudAssumption DEF CloudInv, Ordered, Commands, Open
  <2>2. \A d \in Commands : receipts'[d] # "none" => Reached(d)'
    BY ReachedStays DEF CloudInv, Ordered
  <2>3. \A d \in inflight' : KindOf[d] = "background" /\ receipts'[d] = "none" /\ Reached(d)'
    BY ReachedStays DEF CloudInv, Ordered, TypeOK
  <2>4. hand' # NoCommand =>
          /\ loop' \in {"handle", "complete"} /\ KindOf[hand'] # "background"
          /\ receipts'[hand'] = "none" /\ Reached(hand)' /\ NothingLater(hand)'
    BY HandAlone, ReachedStays DEF NothingLater, Reached, Turn
  <2>5. frame' # NoFrame => loop' = "waiting"
    BY DEF CloudInv, Ordered
  <2>6. frame'.command \in Commands =>
          /\ presence' = 0 /\ Reached(frame.command)' /\ NothingLater(frame.command)'
          /\ KindOf[frame'.command] # "auth" => Open(frame.command)'
    <3> SUFFICES ASSUME NEW f \in Commands, f = frame.command
                 PROVE  /\ presence' = 0 /\ Reached(f)' /\ NothingLater(f)'
                        /\ KindOf[f] # "auth" => Open(f)'
      BY DEF Reached, Turn, NothingLater, Open
    <3> QED
      BY FrameAlone, ReachedStays, <1>4 DEF NothingLater, CloudInv, Ordered, Reached
  <2> QED
    BY <2>1, <2>2, <2>3, <2>4, <2>5, <2>6 DEF Ordered
<1>6. Answered'
  <2>1. \A d \in Commands : status'[d] \in Result =>
          \/ d \in overdue' /\ status'[d] = "failed"
          \/ Agrees(d, status[d])'
    BY <1>2, <1>3 DEF CloudInv, Answered, Agrees, Result
  <2>2. \A a \in acks' : Recorded(a)'
    BY DEF CloudInv, Answered, Recorded, Agrees
  <2>3. ASSUME NEW p \in posts
        PROVE  (\A a \in p.acks : Recorded(a)') /\ \A d \in p.confirmed : status'[d] \in Result
    BY DEF CloudInv, Answered, Recorded, Agrees, Grows, TypeOK, Post
  <2>4. \A d \in frame'.confirmed : status'[d] \in Result
    BY NoFrameIsNone DEF CloudInv, Answered, Grows, TypeOK, Delivery
  <2> QED
    BY <2>1, <2>2, <2>3, <2>4 DEF Answered
<1>7. Held'
  BY <1>4 DEF CloudInv, Ordered, Held, AnswerIsHeld, Reached
<1>8. ASSUME NEW a \in acks, Long(a)
      PROVE  /\ Open(a.id) => Open(a.id)'
             /\ Unsent(a) => Unsent(a)'
  <2>1. a.id \in Commands /\ KindOf[a.id] # "auth" /\ status[a.id] # "none"
    BY <1>8 DEF CloudInv, TypeOK, Ack, Long, Ordered, Answered, Recorded, Agrees, Reached
  <2> QED
    BY <2>1, <1>4 DEF Unsent
<1>9. LongHeld'
  BY <1>8 DEF CloudInv, LongHeld, Long, Begun
<1>10. Effective'
  BY DEF CloudInv, Effective, EffectFits, Earned, Executed, Tried
<1> QED
  BY <1>5, <1>6, <1>7, <1>9, <1>10 DEF CloudInv

-----------------------------------------------------------------------------
(* The steps of the control plane and the gateway: the agent does nothing. *)

\* What stays true of the order when the agent and its receipts stay the same.
LEMMA AgentStaysOrdered ==
    ASSUME CloudInv, TypeOK', Grows, UNCHANGED <<agentVars, overdue>>
    PROVE  /\ \A d \in Commands : receipts'[d] # "none" => Reached(d)'
           /\ \A d \in inflight' :
                 KindOf[d] = "background" /\ receipts'[d] = "none" /\ Reached(d)'
           /\ hand' # NoCommand =>
                 /\ loop' \in {"handle", "complete"} /\ KindOf[hand'] # "background"
                 /\ receipts'[hand'] = "none" /\ Reached(hand)' /\ NothingLater(hand)'
           /\ \A a : Recorded(a) <=> Recorded(a)'
<1> USE DEF agentVars
<1>1. \A d \in Commands : receipts'[d] # "none" => Reached(d)'
  BY ReachedStays DEF CloudInv, Ordered
<1>2. \A d \in inflight' :
         KindOf[d] = "background" /\ receipts'[d] = "none" /\ Reached(d)'
  BY ReachedStays DEF CloudInv, Ordered, TypeOK
<1>3. hand' # NoCommand =>
         /\ loop' \in {"handle", "complete"} /\ KindOf[hand'] # "background"
         /\ receipts'[hand'] = "none" /\ Reached(hand)' /\ NothingLater(hand)'
  BY HandAlone, ReachedStays DEF NothingLater, Reached, Turn
<1> QED
  BY <1>1, <1>2, <1>3 DEF Recorded, Agrees

\* The frame in flight stays in order while the newest heartbeat stays the newest.
LEMMA FrameStaysOrdered ==
    ASSUME CloudInv, TypeOK', Grows, UNCHANGED <<agentVars, frame, presence>>,
           \A d \in Commands : KindOf[d] # "auth" /\ Open(d) => Open(d)'
    PROVE  /\ frame' # NoFrame => loop' = "waiting"
           /\ frame'.command \in Commands =>
                 /\ presence' = 0 /\ Reached(frame.command)' /\ NothingLater(frame.command)'
                 /\ KindOf[frame'.command] # "auth" => Open(frame.command)'
           /\ \A d \in frame'.confirmed : status'[d] \in Result
<1> USE DEF agentVars
<1>1. ASSUME NEW f \in Commands, f = frame.command
      PROVE  /\ presence' = 0 /\ Reached(f)' /\ NothingLater(f)'
             /\ KindOf[f] # "auth" => Open(f)'
  BY <1>1, FrameAlone, ReachedStays DEF NothingLater, CloudInv, Ordered
<1>2. frame'.command \in Commands =>
         /\ presence' = 0 /\ Reached(frame.command)' /\ NothingLater(frame.command)'
         /\ KindOf[frame'.command] # "auth" => Open(frame.command)'
  BY <1>1 DEF Reached, Turn, NothingLater, Open
<1>3. \A d \in frame'.confirmed : status'[d] \in Result
  BY NoFrameIsNone DEF CloudInv, Answered, Grows, TypeOK, Delivery
<1> QED
  BY <1>2, <1>3 DEF CloudInv, Ordered

\* An acknowledgement on its way tells what the receipt of its command says.
LEMMA PersistedIsRecorded ==
    ASSUME CloudInv, NEW p \in posts, NEW d \in Commands
    PROVE  \/ Persisted(p)[d] = status[d]
              /\ (Open(d) => \A a \in p.acks : a.id # d)
           \/ /\ Open(d) /\ Persisted(p)[d] \in Result
              /\ Agrees(d, Persisted(p)[d])
              /\ \E a \in p.acks : a.id = d
<1> DEFINE own == {a \in p.acks : a.id = d}
<1>1. CASE Open(d) /\ \E a \in p.acks : a.id = d
  <2>1. PICK a \in p.acks : a.id = d /\ a = CHOOSE b \in p.acks : b.id = d
    BY <1>1
  <2>2. Persisted(p)[d] = a.status
    BY <1>1, <2>1 DEF Persisted
  <2>3. Recorded(a) /\ a.status \in Result
    BY DEF CloudInv, Answered, TypeOK, Post, Ack
  <2> QED
    BY <1>1, <2>1, <2>2, <2>3 DEF Recorded
<1>2. CASE ~(Open(d) /\ \E a \in p.acks : a.id = d)
  BY <1>2 DEF Persisted
<1> QED
  BY <1>1, <1>2

\* A long answer that is stored and was sent is confirmed.
LEMMA LongIsConfirmed ==
    ASSUME CloudInv, NEW p \in posts, NEW a \in p.acks, Long(a)
    PROVE  a.id \in Confirmed(p, Persisted(p))
<1>1. /\ a.id \in Commands /\ KindOf[a.id] \notin {"auth", "queue"} /\ a.status \in Result
      /\ receipts[a.id] # "none" /\ receipts[a.id] = a.status
  BY DEF CloudInv, TypeOK, Post, Ack, Long, Answered, Recorded, Agrees, Firm
<1>2. a.id \notin overdue
  BY <1>1 DEF CloudInv, TypeOK, Expiring
<1>3. status[a.id] # "none"
  BY <1>1 DEF CloudInv, Ordered, Reached
<1>4. a.status = Persisted(p)[a.id]
  <2>1. CASE Open(a.id)
    BY <1>1, <2>1, PersistedIsRecorded DEF Firm, Agrees
  <2>2. CASE ~Open(a.id)
    <3>1. Persisted(p)[a.id] = status[a.id]
      BY <1>1, <2>2 DEF Persisted
    <3>2. status[a.id] \in Result
      BY <1>1, <1>3, <2>2, NotOpenIsSettled DEF CloudInv
    <3>3. receipts[a.id] = status[a.id]
      BY <1>1, <1>2, <3>2 DEF CloudInv, Answered, Agrees, Firm
    <3> QED
      BY <1>1, <3>1, <3>3
  <2> QED
    BY <2>1, <2>2
<1> QED
  BY <1>4 DEF Confirmed

\* A heartbeat is stored: its answers, if they are news, and its age.
LEMMA AcceptKeeps ==
    ASSUME CloudInv, TypeOK', Grows, NEW p \in posts, PersistHeartbeat(p), Accepts(p)
    PROVE  CloudInv'
<1> USE DEF agentVars, jobVars, faultVars
<1>1. /\ p.kind = "heartbeat" /\ p.age < presence
      /\ presence' = p.age /\ status' = Persisted(p)
      /\ posts' = (posts \ {p}) \cup
            (IF p.awaited
             THEN {[p EXCEPT !.kind = "next", !.acks = {}, !.job = NoUpdate,
                             !.confirmed = Confirmed(p, Persisted(p))]}
             ELSE {})
      /\ UNCHANGED <<frame, overdue, agentVars, jobVars, faultVars>>
  BY DEF PersistHeartbeat, Accepts
<1>2. p \in Post /\ p.age \in Nat
  BY CloudAssumption DEF CloudInv, TypeOK, Post
<1>3. frame.command \notin Commands
  BY <1>1, <1>2, FrameAlone
<1>4. ASSUME NEW q \in posts' \ posts
      PROVE  /\ q.kind = "next" /\ q.acks = {} /\ p.awaited
             /\ q.confirmed = Confirmed(p, Persisted(p)) /\ q.age = p.age
  BY <1>1, <1>2, <1>4 DEF Post
<1>5. ASSUME NEW d \in Confirmed(p, Persisted(p)) PROVE status'[d] \in Result
  BY <1>1, <1>2, <1>5 DEF Confirmed, Post, Ack
<1>6. ASSUME NEW d \in Commands
      PROVE  /\ Open(d)' => Open(d)
             /\ status'[d] # "none" => status[d] # "none"
             /\ (\A a \in p.acks : a.id # d) => status'[d] = status[d]
  BY <1>1, PersistedIsRecorded DEF Open, Result
<1>7. Ordered'
  <2>1. \A d \in Commands : status'[d] # "none" => \A e \in 1..(d - 1) : status'[e] # "none"
    BY <1>6, CloudAssumption DEF CloudInv, Ordered, Commands, Grows
  <2>2. frame' # NoFrame => loop' = "waiting"
    BY <1>1 DEF CloudInv, Ordered
  <2>3. frame'.command \notin Commands
    BY <1>1, <1>3
  <2> QED
    BY <1>1, <2>1, <2>2, <2>3, AgentStaysOrdered DEF Ordered
<1>8. Answered'
  <2>1. ASSUME NEW d \in Commands, status'[d] \in Result
        PROVE  \/ d \in overdue' /\ status'[d] = "failed"
               \/ Agrees(d, status[d])'
    BY <1>1, <2>1, PersistedIsRecorded DEF CloudInv, Answered, Agrees
  <2>2. \A a \in acks' : Recorded(a)'
    BY <1>1, AgentStaysOrdered DEF CloudInv, Answered
  <2>3. ASSUME NEW q \in posts'
        PROVE  (\A a \in q.acks : Recorded(a)') /\ \A d \in q.confirmed : status'[d] \in Result
    <3>1. CASE q \in posts
      BY <1>1, <3>1, AgentStaysOrdered DEF CloudInv, Answered, Grows, TypeOK, Post
    <3>2. CASE q \notin posts
      BY <1>4, <1>5, <3>2
    <3> QED
      BY <3>1, <3>2
  <2>4. \A d \in frame'.confirmed : status'[d] \in Result
    BY <1>1, NoFrameIsNone DEF CloudInv, Answered, Grows, TypeOK, Delivery
  <2> QED
    BY <2>1, <2>2, <2>3, <2>4 DEF Answered
<1>9. Held'
  BY <1>1, <1>6 DEF CloudInv, Held, AnswerIsHeld
<1>10. LongHeld'
  <2>1. ASSUME NEW a \in acks, Unsent(a) PROVE Unsent(a)'
    <3>1. a.id \in Commands
      BY DEF CloudInv, TypeOK, Ack
    <3>2. Open(a.id)'
      BY <2>1, <3>1, <1>6 DEF Unsent, Open
    <3>3. \A q \in posts' : \A b \in q.acks : b.id # a.id
      BY <1>4, <2>1 DEF Unsent
    <3> QED
      BY <3>2, <3>3 DEF Unsent
  <2>2. ASSUME NEW q \in posts', q.age = 0, q.awaited, loop = "waiting",
               NEW a \in acks, Long(a)
        PROVE  \/ Unsent(a)'
               \/ q.kind = "heartbeat" /\ a \in q.acks
               \/ q.kind = "next" /\ a.id \in q.confirmed
    <3>1. CASE q \in posts
      BY <2>1, <2>2, <3>1 DEF CloudInv, LongHeld
    <3>2. CASE q \notin posts
      <4>1. Unsent(a) \/ a \in p.acks
        BY <1>1, <1>4, <2>2, <3>2 DEF CloudInv, LongHeld
      <4> QED
        BY <1>4, <2>1, <2>2, <3>2, <4>1, LongIsConfirmed
    <3> QED
      BY <3>1, <3>2
  <2>3. \A a, b \in acks' : Long(a) /\ Long(b) => a.id = b.id
    BY <1>1 DEF CloudInv, LongHeld
  <2>4. Begun' # {} => \A a \in acks' : ~Long(a)
    BY <1>1 DEF CloudInv, LongHeld, Begun
  <2> QED
    BY <1>1, <1>3, <2>2, <2>3, <2>4 DEF LongHeld, Long
<1>11. Effective'
  BY <1>1 DEF CloudInv, Effective, EffectFits, Earned, Executed, Tried
<1> QED
  BY <1>7, <1>8, <1>9, <1>10, <1>11 DEF CloudInv

\* Requests go away or are given up, and a frame without a command may be sent.
LEMMA PostsGoKeeps ==
    ASSUME CloudInv, TypeOK', Grows, NEW p \in posts, NEW confirmed \in SUBSET p.confirmed,
           UNCHANGED <<cloudVars, agentVars, jobVars, crashes>>,
           \A q \in posts' : q \in posts \/ (~q.awaited /\ q.acks = p.acks
                                              /\ q.confirmed = p.confirmed),
           UNCHANGED frame \/ Deliver(p, confirmed, NoCommand)
    PROVE  CloudInv'
<1> USE DEF cloudVars, agentVars, jobVars
<1>1. \/ UNCHANGED frame
      \/ /\ frame' = [confirmed |-> confirmed, command |-> NoCommand]
         /\ loop = "waiting"
  BY DEF Deliver
<1>2. Ordered'
  <2>1. \A d \in Commands : status'[d] # "none" => \A e \in 1..(d - 1) : status'[e] # "none"
    BY DEF CloudInv, Ordered
  <2>2. CASE UNCHANGED frame
    <3>1. \A d \in Commands : KindOf[d] # "auth" /\ Open(d) => Open(d)'
      BY DEF Open
    <3> QED
      BY <2>1, <2>2, <3>1, AgentStaysOrdered, FrameStaysOrdered DEF Ordered
  <2>3. CASE frame' = [confirmed |-> confirmed, command |-> NoCommand] /\ loop = "waiting"
    BY <2>1, <2>3, AgentStaysOrdered, NoFrameIsNone DEF Ordered
  <2> QED
    BY <1>1, <2>2, <2>3
<1>3. Answered'
  <2>1. \A d \in Commands : status'[d] \in Result =>
               \/ d \in overdue' /\ status'[d] = "failed"
               \/ Agrees(d, status[d])'
    BY DEF CloudInv, Answered, Agrees
  <2>2. \A a \in acks' : Recorded(a)'
    BY AgentStaysOrdered DEF CloudInv, Answered
  <2>3. ASSUME NEW q \in posts'
        PROVE  (\A a \in q.acks : Recorded(a)') /\ \A d \in q.confirmed : status'[d] \in Result
    BY AgentStaysOrdered DEF CloudInv, Answered
  <2>4. \A d \in frame'.confirmed : status'[d] \in Result
    BY <1>1 DEF CloudInv, Answered
  <2> QED
    BY <2>1, <2>2, <2>3, <2>4 DEF Answered
<1>4. Held'
  BY DEF CloudInv, Held, AnswerIsHeld, Open
<1>5. LongHeld'
  <2>1. \A a : Unsent(a) => Unsent(a)'
    BY DEF Unsent, Open
  <2>2. frame'.command \in Commands => UNCHANGED frame
    BY <1>1, NoFrameIsNone
  <2> QED
    BY <2>1, <2>2 DEF CloudInv, LongHeld, Long, Begun, Open
<1>6. Effective'
  BY DEF CloudInv, Effective, EffectFits, Earned, Executed, Tried
<1> QED
  BY <1>2, <1>3, <1>4, <1>5, <1>6 DEF CloudInv

LEMMA PersistKeeps ==
    ASSUME CloudInv, TypeOK', Grows, NEW p \in posts, PersistHeartbeat(p)
    PROVE  CloudInv'
<1>1. CASE Accepts(p)
  BY <1>1, AcceptKeeps
<1>2. CASE ~Accepts(p)
  <2>1. /\ UNCHANGED <<cloudVars, agentVars, jobVars, crashes>> /\ posts' = posts \ {p}
        /\ Deliver(p, {}, NoCommand)
    BY <1>2 DEF PersistHeartbeat, cloudVars, faultVars
  <2>2. {} \in SUBSET p.confirmed
    OBVIOUS
  <2> QED
    BY <2>1, <2>2, PostsGoKeeps
<1> QED
  BY <1>1, <1>2

LEMMA GivenUpKeeps ==
    ASSUME CloudInv, TypeOK', Grows, NEW p \in posts, RelayTimesOut(p) \/ LoseRequest(p)
    PROVE  CloudInv'
<1>1. UNCHANGED <<cloudVars, agentVars, jobVars, crashes>>
  BY DEF RelayTimesOut, LoseRequest, faultVars
<1>2. UNCHANGED frame \/ Deliver(p, p.confirmed, NoCommand)
  BY DEF RelayTimesOut, LoseRequest
<1>3. p \in Post
  BY DEF CloudInv, TypeOK
<1>4. \A q \in posts' : q \in posts \/ (~q.awaited /\ q.acks = p.acks
                                        /\ q.confirmed = p.confirmed)
  BY <1>3 DEF RelayTimesOut, LoseRequest, Post
<1>5. p.confirmed \in SUBSET p.confirmed
  OBVIOUS
<1> QED
  BY <1>1, <1>2, <1>4, <1>5, PostsGoKeeps

\* The command that is chosen is the first one open: everything before it is answered.
LEMMA ChosenIsReached ==
    ASSUME CloudInv, TypeOK', Grows, NEW p \in posts, NextGatewayCommand(p),
           NEW c \in Commands, c = Chosen(p)
    PROVE  /\ p.age = presence /\ Open(c) /\ c \notin Expired /\ status'[c] = "running"
           /\ Reached(c)' /\ NothingLater(c)'
<1>1. /\ p.age = presence /\ Chosen(p) \in Candidates
      /\ \A d \in Candidates : Chosen(p) <= d
  BY ChosenIsFirst, NoFrameIsNone
<1>3. Open(c) /\ c \notin Expired /\ status[c] # "none"
  BY <1>1 DEF Candidates, Open
<1>4. status'[c] = "running"
  BY <1>3 DEF NextGatewayCommand
<1>5. ASSUME NEW d \in 1..(c - 1) PROVE status'[d] \in Result
  <2>1. d \in Commands /\ d < c /\ status[d] # "none"
    BY <1>3, CloudAssumption DEF CloudInv, Ordered, Commands
  <2>2. d \notin Candidates
    BY <1>1, <2>1, CloudAssumption DEF Commands
  <2>3. CASE Open(d)
    <3>1. d \in Expired
      BY <2>1, <2>2, <2>3 DEF Candidates
    <3> QED
      BY <2>1, <3>1 DEF NextGatewayCommand, Result
  <2>4. CASE ~Open(d)
    BY <2>1, <2>4, NotOpenIsSettled DEF Grows, CloudInv
  <2> QED
    BY <2>3, <2>4
<1>6. ASSUME NEW d \in Commands, d > c PROVE receipts[d] = "none" /\ d \notin inflight
  <2>1. ~Reached(d)
    BY <1>3, <1>6, SettledBefore, CloudAssumption DEF Commands
  <2> QED
    BY <2>1 DEF CloudInv, Ordered
<1>7. Reached(c)' /\ NothingLater(c)'
  BY <1>4, <1>5, <1>6 DEF Reached, Turn, NothingLater, NextGatewayCommand, agentVars
<1> QED
  BY <1>1, <1>3, <1>4, <1>7

LEMMA NextKeeps ==
    ASSUME CloudInv, TypeOK', Grows, NEW p \in posts, NextGatewayCommand(p)
    PROVE  CloudInv'
<1> USE DEF agentVars, jobVars, faultVars
<1>1. /\ p.kind = "next" /\ posts' = posts \ {p}
      /\ UNCHANGED <<presence, overdue, agentVars, jobVars, faultVars>>
      /\ \A d \in Commands :
            \/ status'[d] = status[d]
            \/ Open(d) /\ d \in overdue /\ status'[d] = "failed"
            \/ Open(d) /\ status'[d] = "running"
  <2>1. ASSUME NEW d \in Commands
        PROVE  \/ status'[d] = status[d]
               \/ Open(d) /\ d \in overdue /\ status'[d] = "failed"
               \/ Open(d) /\ status'[d] = "running"
    <3>1. d = Chosen(p) => Open(d)
      BY ChosenIsFirst, NoFrameIsNone DEF Candidates
    <3> QED
      BY <3>1 DEF NextGatewayCommand, Expired
  <2> QED
    BY <2>1 DEF NextGatewayCommand
<1>2. p \in Post /\ overdue \subseteq Expiring
  BY DEF CloudInv, TypeOK
<1>3. ASSUME NEW d \in Commands
      PROVE  /\ Open(d)' => Open(d)
             /\ KindOf[d] # "auth" /\ Open(d) => Open(d)'
             /\ status'[d] # "none" => status[d] # "none"
  BY <1>1, <1>2 DEF Open, Expiring
<1>4. \/ UNCHANGED frame
      \/ /\ frame' = [confirmed |-> p.confirmed, command |-> Relayed(Chosen(p))]
         /\ p.awaited /\ p.age = 0 /\ loop = "waiting"
  BY DEF NextGatewayCommand, Deliver
<1>5. ASSUME NEW c \in Commands, frame'.command = c, ~UNCHANGED frame
      PROVE  presence' = 0 /\ Reached(c)' /\ NothingLater(c)' /\ Open(c)'
  <2>1. c = Chosen(p) /\ p.age = 0
    BY <1>4, <1>5, ChosenIsCommand, NoFrameIsNone
  <2> QED
    BY <1>1, <2>1, ChosenIsReached DEF Open
<1>6. Ordered'
  <2>1. \A d \in Commands : status'[d] # "none" => \A e \in 1..(d - 1) : status'[e] # "none"
    BY <1>3, CloudAssumption DEF CloudInv, Ordered, Commands, Grows
  <2>2. CASE UNCHANGED frame
    BY <1>1, <1>3, <2>1, <2>2, AgentStaysOrdered, FrameStaysOrdered DEF Ordered
  <2>3. CASE ~UNCHANGED frame
    <3>1. frame' # NoFrame => loop' = "waiting"
      BY <1>1, <1>4, <2>3
    <3>2. frame'.command \in Commands =>
             /\ presence' = 0 /\ Reached(frame.command)' /\ NothingLater(frame.command)'
             /\ KindOf[frame'.command] # "auth" => Open(frame.command)'
      BY <1>5, <2>3 DEF Reached, Turn, NothingLater, Open
    <3> QED
      BY <1>1, <2>1, <3>1, <3>2, AgentStaysOrdered DEF Ordered
  <2> QED
    BY <2>2, <2>3
<1>7. Answered'
  <2>1. ASSUME NEW d \in Commands, status'[d] \in Result
        PROVE  \/ d \in overdue' /\ status'[d] = "failed"
               \/ Agrees(d, status[d])'
    BY <1>1, <2>1 DEF CloudInv, Answered, Agrees, Result
  <2>2. \A a \in acks' : Recorded(a)'
    BY <1>1, AgentStaysOrdered DEF CloudInv, Answered
  <2>3. ASSUME NEW q \in posts'
        PROVE  (\A a \in q.acks : Recorded(a)') /\ \A d \in q.confirmed : status'[d] \in Result
    BY <1>1, AgentStaysOrdered DEF CloudInv, Answered, Grows, TypeOK, Post
  <2>4. \A d \in frame'.confirmed : status'[d] \in Result
    <3>1. \A d \in frame.confirmed : status'[d] \in Result
      BY NoFrameIsNone DEF CloudInv, Answered, Grows, TypeOK, Delivery
    <3>2. \A d \in p.confirmed : status'[d] \in Result
      BY <1>2 DEF CloudInv, Answered, Grows, Post
    <3> QED
      BY <1>4, <3>1, <3>2
  <2> QED
    BY <2>1, <2>2, <2>3, <2>4 DEF Answered
<1>8. Held'
  BY <1>1, <1>3 DEF CloudInv, Held, AnswerIsHeld
<1>9. ASSUME NEW a \in acks, Long(a)
      PROVE  /\ a.id \in Commands
             /\ Open(a.id) => Open(a.id)'
             /\ Unsent(a) => Unsent(a)'
  <2>1. a.id \in Commands /\ KindOf[a.id] # "auth"
    BY <1>9 DEF CloudInv, TypeOK, Ack, Long
  <2> QED
    BY <1>1, <1>3, <2>1 DEF Unsent
<1>10. LongHeld'
  <2>1. \A a, b \in acks' : Long(a) /\ Long(b) => a.id = b.id
    BY <1>1 DEF CloudInv, LongHeld
  <2>2. Begun' # {} => \A a \in acks' : ~Long(a)
    BY <1>1 DEF CloudInv, LongHeld, Begun
  <2>3. \A q \in posts' : q.age = 0 /\ q.awaited /\ loop' = "waiting" =>
          \A a \in acks' : Long(a) =>
              \/ Unsent(a)'
              \/ q.kind = "heartbeat" /\ a \in q.acks
              \/ q.kind = "next" /\ a.id \in q.confirmed
    BY <1>1, <1>9 DEF CloudInv, LongHeld
  <2>4. frame'.command \in Commands =>
          \A a \in acks' : Long(a) => a.id \in frame'.confirmed \/ Open(a.id)'
    <3>1. CASE UNCHANGED frame
      BY <1>1, <1>9, <3>1 DEF CloudInv, LongHeld
    <3>2. CASE ~UNCHANGED frame
      BY <1>1, <1>4, <1>9, <3>2 DEF CloudInv, LongHeld, Unsent
    <3> QED
      BY <3>1, <3>2
  <2> QED
    BY <2>1, <2>2, <2>3, <2>4 DEF LongHeld, Long
<1>11. Effective'
  BY <1>1 DEF CloudInv, Effective, EffectFits, Earned, Executed, Tried
<1> QED
  BY <1>6, <1>7, <1>8, <1>10, <1>11 DEF CloudInv

-----------------------------------------------------------------------------
(* The steps of the agent.                                                 *)

\* A connection comes or goes, a job changes or is removed: no answer moves.
LEMMA DeviceKeeps ==
    ASSUME CloudInv, TypeOK',
           Connect \/ Disconnect \/ JobChanges \/ \E c \in Commands : RemoveJob(c)
    PROVE  CloudInv'
<1>1. /\ UNCHANGED <<cloudVars, posts, hand, outcome, acks, receipts, inflight, effects,
                     crashes>>
      /\ \/ UNCHANGED <<frame, loop>>
         \/ /\ hand = NoCommand
            /\ loop' \in {"ready", "down"} /\ frame' = NoFrame
      /\ \/ UNCHANGED jobs
         \/ /\ Removals /\ UNCHANGED <<frame, loop>>
            /\ \E c \in jobs : jobs' = jobs \ {c}
  BY HandAlone DEF Connect, Disconnect, JobChanges, RemoveJob, agentVars, jobVars,
     faultVars, CloudInv, Ordered
<1> USE DEF cloudVars
<1>2. Ordered'
  <2>1. CASE UNCHANGED <<frame, loop>>
    BY <1>1, <2>1 DEF CloudInv, Ordered, Reached, Turn, NothingLater, Open
  <2>2. CASE hand = NoCommand /\ frame' = NoFrame
    BY <1>1, <2>2, NoFrameIsNone DEF CloudInv, Ordered, Reached, Turn
  <2> QED
    BY <1>1, <2>1, <2>2
<1>3. Answered'
  <2>1. frame'.confirmed \subseteq frame.confirmed
    BY <1>1, NoFrameIsNone
  <2> QED
    BY <1>1, <2>1 DEF CloudInv, Answered, Recorded, Agrees
<1>4. Held'
  BY <1>1 DEF CloudInv, Held, AnswerIsHeld, Open
<1>5. LongHeld'
  <2>1. frame'.command \in Commands => UNCHANGED frame
    BY <1>1, NoFrameIsNone
  <2>2. loop' = "waiting" => loop = "waiting"
    BY <1>1
  <2> QED
    BY <1>1, <2>1, <2>2 DEF CloudInv, LongHeld, Begun, Unsent, Open
<1>6. Effective'
  <2>1. \A c \in jobs' : KindOf[c] = "queue"
    BY <1>1 DEF CloudInv, Effective
  <2>2. ASSUME NEW c \in Commands, Firm(c) PROVE EffectFits(c)'
    <3>1. KindOf[c] = "queue" => UNCHANGED jobs
      BY <1>1, <2>2 DEF Firm
    <3>2. EffectFits(c)
      BY <2>2 DEF CloudInv, Effective
    <3>3. hand = c => UNCHANGED loop
      BY <1>1, NoFrameIsNone
    <3> QED
      BY <1>1, <3>1, <3>2, <3>3 DEF EffectFits, Executed, Tried
  <2>3. ASSUME NEW c \in Commands PROVE Earned(c)'
    <3>1. Earned(c)
      BY DEF CloudInv, Effective
    <3>2. c \in jobs' => c \in jobs
      BY <1>1
    <3>3. hand = c => UNCHANGED loop
      BY <1>1, NoFrameIsNone
    <3> QED
      BY <1>1, <3>1, <3>2, <3>3 DEF Earned, Executed
  <2> QED
    BY <2>1, <2>2, <2>3 DEF Effective
<1> QED
  BY <1>2, <1>3, <1>4, <1>5, <1>6 DEF CloudInv

\* A heartbeat takes along every acknowledgement that is held.
LEMMA BeatKeeps ==
    ASSUME CloudInv, TypeOK', Beat
    PROVE  CloudInv'
<1>1. /\ UNCHANGED <<status, overdue, frame, hand, outcome, acks, receipts, inflight,
                     jobVars, crashes>>
      /\ loop = "ready" /\ loop' = "waiting"
  BY DEF Beat, faultVars
<1>2. frame = NoFrame /\ hand = NoCommand
  BY <1>1, HandAlone DEF CloudInv, Ordered
<1>3. ASSUME NEW q \in posts'
      PROVE  \/ q.acks = acks /\ q.confirmed = {} /\ q.kind = "heartbeat"
             \/ /\ q.age # 0
                /\ \E p \in posts : q.acks = p.acks /\ q.confirmed = p.confirmed
  <2>1. CASE \E p \in posts : q = Aged(p)
    <3>1. PICK p \in posts : q = Aged(p)
      BY <2>1
    <3>2. p \in Post /\ p.age \in Nat
      BY CloudAssumption DEF CloudInv, TypeOK, Post
    <3> QED
      BY <3>1, <3>2 DEF Aged, Post
  <2>2. CASE ~\E p \in posts : q = Aged(p)
    BY <2>2 DEF Beat
  <2> QED
    BY <2>1, <2>2
<1> USE DEF jobVars
<1>4. Ordered'
  BY <1>1, <1>2, NoFrameIsNone DEF CloudInv, Ordered, Reached, Turn
<1>5. Answered'
  <2>1. ASSUME NEW q \in posts'
        PROVE  (\A a \in q.acks : Recorded(a)') /\ \A d \in q.confirmed : status'[d] \in Result
    BY <1>1, <1>3 DEF CloudInv, Answered, Recorded, Agrees
  <2> QED
    BY <1>1, <2>1 DEF CloudInv, Answered, Recorded, Agrees
<1>6. Held'
  BY <1>1 DEF CloudInv, Held, AnswerIsHeld, Open
<1>7. LongHeld'
  BY <1>1, <1>2, <1>3, NoFrameIsNone DEF CloudInv, LongHeld, Begun
<1>8. Effective'
  BY <1>1, <1>2, NoFrameIsNone DEF CloudInv, Effective, EffectFits, Earned, Executed, Tried
<1> QED
  BY <1>4, <1>5, <1>6, <1>7, <1>8 DEF CloudInv

\* The agent dies: what it only remembered is gone.
LEMMA CrashKeeps ==
    ASSUME CloudInv, TypeOK', Crash
    PROVE  CloudInv'
<1>1. /\ UNCHANGED <<cloudVars, posts, receipts, jobVars>> /\ crashes' = crashes + 1
      /\ loop' = "down" /\ hand' = NoCommand /\ acks' = {} /\ inflight' = {}
      /\ frame' = NoFrame
  BY DEF Crash
<1>2. crashes' # 0
  BY <1>1 DEF CloudInv, TypeOK
<1> USE DEF cloudVars, jobVars
<1>3. Ordered'
  BY <1>1, NoFrameIsNone DEF CloudInv, Ordered, Reached, Turn
<1>4. Answered'
  BY <1>1, NoFrameIsNone DEF CloudInv, Answered, Recorded, Agrees
<1>5. Held' /\ LongHeld'
  BY <1>1, <1>2, NoFrameIsNone DEF Held, LongHeld, AnswerIsHeld, Begun
<1>6. Effective'
  BY <1>1, <1>2, NoFrameIsNone DEF CloudInv, Effective, EffectFits, Earned, Executed, Tried
<1> QED
  BY <1>3, <1>4, <1>5, <1>6 DEF CloudInv

\* The call for the command at hand returns.
LEMMA ExecuteKeeps ==
    ASSUME CloudInv, TypeOK', Execute
    PROVE  CloudInv'
<1>1. /\ UNCHANGED <<cloudVars, posts, frame, hand, acks, receipts, inflight, crashes>>
      /\ loop = "handle" /\ loop' = "complete"
  BY DEF Execute, faultVars
<1>2. hand \in Commands /\ hand # NoCommand
  BY <1>1, NoFrameIsNone DEF CloudInv, TypeOK
<1>3. receipts[hand] = "none" /\ frame = NoFrame /\ KindOf[hand] # "background"
  BY <1>2, HandAlone
<1> USE DEF cloudVars
<1>4. Ordered'
  BY <1>1, <1>3, NoFrameIsNone DEF CloudInv, Ordered, Reached, Turn, NothingLater
<1>5. Answered'
  BY <1>1 DEF CloudInv, Answered, Recorded, Agrees
<1>6. Held'
  BY <1>1 DEF CloudInv, Held, AnswerIsHeld, Open
<1>7. LongHeld'
  BY <1>1, <1>3, NoFrameIsNone DEF CloudInv, LongHeld, Begun
<1>8. Effective'
  <2>1. /\ \A c \in Commands \ {hand} : effects'[c] = effects[c] /\ (c \in jobs' <=> c \in jobs)
        /\ \/ /\ KindOf[hand] = "queue" /\ hand \in jobs /\ outcome' = "completed"
              /\ effects'[hand] = effects[hand] /\ hand \in jobs'
           \/ /\ ~(KindOf[hand] = "queue" /\ hand \in jobs) /\ outcome' = "completed"
              /\ effects'[hand] = effects[hand] + 1
              /\ hand \in jobs' <=> KindOf[hand] = "queue" \/ hand \in jobs
           \/ /\ ~(KindOf[hand] = "queue" /\ hand \in jobs) /\ outcome' = "failed"
              /\ effects'[hand] = effects[hand] /\ (hand \in jobs' <=> hand \in jobs)
           \/ /\ hand \in Unsure /\ outcome' = "failed"
              /\ effects'[hand] = effects[hand] + 1 /\ (hand \in jobs' <=> hand \in jobs)
    BY <1>2 DEF Execute, CloudInv, TypeOK
  <2>2. \A c \in jobs' : KindOf[c] = "queue"
    BY <1>2 DEF Execute, CloudInv, Effective
  <2>3. ASSUME NEW c \in Commands, Firm(c), c # hand PROVE EffectFits(c)'
    <3>1. EffectFits(c)
      BY <2>3 DEF CloudInv, Effective
    <3> QED
      BY <1>1, <2>1, <2>3, <3>1 DEF EffectFits, Executed, Tried
  <2>4. ASSUME NEW c \in Commands, c = hand, Firm(c) PROVE EffectFits(c)'
    <3>1. EffectFits(c)
      BY <2>4 DEF CloudInv, Effective
    <3>2. KindOf[c] \in Kinds /\ effects[c] \in Nat
      BY CloudAssumption DEF CloudInv, TypeOK
    <3>3. KindOf[c] = "queue" => EffectFits(c)'
      BY <1>1, <1>3, <2>1, <2>4, <3>1, <3>2 DEF EffectFits, Executed, Tried, Unsure
    <3>4. KindOf[c] \in {"action", "auth", "reorder"} => EffectFits(c)'
      BY <1>1, <1>3, <2>1, <2>4, <3>1, <3>2 DEF EffectFits, Executed, Tried
    <3> QED
      BY <1>3, <2>4, <3>2, <3>3, <3>4 DEF Kinds
  <2>5. ASSUME NEW c \in Commands PROVE Earned(c)'
    <3>1. Earned(c) /\ effects[c] \in Nat
      BY DEF CloudInv, Effective, TypeOK
    <3>2. CASE c = hand
      <4>1. KindOf[c] # "queue" => c \notin jobs
        BY DEF CloudInv, Effective
      <4> QED
        BY <1>1, <2>1, <3>1, <3>2, <4>1 DEF Earned, Executed
    <3>3. CASE c # hand
      BY <1>1, <2>1, <3>1, <3>3 DEF Earned, Executed
    <3> QED
      BY <3>2, <3>3
  <2> QED
    BY <2>2, <2>3, <2>4, <2>5 DEF Effective
<1> QED
  BY <1>4, <1>5, <1>6, <1>7, <1>8 DEF CloudInv

\* What the agent still holds when a frame has confirmed what it confirms.
LEMMA KeptIsHeld ==
    ASSUME CloudInv, NEW kept, kept = {a \in acks : a.id \notin frame.confirmed}
    PROVE  /\ kept \subseteq acks
           /\ crashes = 0 => \A d \in Commands :
                 Open(d) /\ receipts[d] # "none" => \E a \in kept : a.id = d
           /\ frame.command \in Commands =>
                 \A a \in kept : Long(a) => a.id = frame.command /\ receipts[a.id] # "none"
<1>1. ASSUME crashes = 0, NEW d \in Commands, Open(d), receipts[d] # "none"
      PROVE  \E a \in kept : a.id = d
  <2>1. PICK a \in acks : a.id = d
    BY <1>1 DEF CloudInv, Held, AnswerIsHeld
  <2>2. d \notin frame.confirmed
    BY <1>1 DEF CloudInv, Answered, Open, Result
  <2> QED
    BY <2>1, <2>2
<1>2. ASSUME frame.command \in Commands, NEW a \in kept, Long(a)
      PROVE  a.id = frame.command /\ receipts[a.id] # "none"
  <2>1. a.id \in Commands /\ receipts[a.id] # "none"
    BY DEF CloudInv, TypeOK, Ack, Answered, Recorded, Agrees
  <2>2. Open(a.id)
    BY <1>2 DEF CloudInv, LongHeld
  <2> QED
    BY <1>2, <2>1, <2>2, FrameAlone
<1> QED
  BY <1>1, <1>2

\* What a delivery leaves in order, whichever way its command goes.
LEMMA ReceiveLeaves ==
    ASSUME CloudInv, TypeOK', Receive
    PROVE  /\ hand = NoCommand /\ frame' = NoFrame /\ loop = "waiting"
           /\ loop' \in {"ready", "handle"}
           /\ UNCHANGED <<cloudVars, posts, outcome, receipts, jobVars, crashes>>
           /\ \A d \in Commands : receipts'[d] # "none" => Reached(d)'
           /\ \A p \in posts' : /\ \A a \in p.acks : Recorded(a)'
                                /\ \A d \in p.confirmed : status'[d] \in Result
           /\ Effective'
<1>1. /\ frame' = NoFrame /\ loop = "waiting" /\ loop' \in {"ready", "handle"}
      /\ UNCHANGED <<cloudVars, posts, outcome, receipts, jobVars, crashes>>
  BY DEF Receive, faultVars
<1>2. hand = NoCommand
  BY <1>1 DEF CloudInv, Ordered
<1> USE DEF cloudVars, jobVars
<1>3. \A d \in Commands : receipts'[d] # "none" => Reached(d)'
  BY <1>1 DEF CloudInv, Ordered, Reached, Turn
<1>4. \A p \in posts' : /\ \A a \in p.acks : Recorded(a)'
                        /\ \A d \in p.confirmed : status'[d] \in Result
  BY <1>1 DEF CloudInv, Answered, Recorded, Agrees
<1>5. Effective'
  BY <1>1, <1>2 DEF CloudInv, Effective, EffectFits, Earned, Executed, Tried
<1> QED
  BY <1>1, <1>2, <1>3, <1>4, <1>5

\* The frame brings no command.
LEMMA ReceiveNothingKeeps ==
    ASSUME CloudInv, TypeOK', Receive, loop' = "ready", UNCHANGED <<hand, inflight>>,
           acks' = {a \in acks : a.id \notin frame.confirmed}
    PROVE  CloudInv'
<1> USE ReceiveLeaves DEF cloudVars
<1>1. Ordered'
  BY NoFrameIsNone DEF CloudInv, Ordered, Reached, Turn
<1>2. Answered'
  BY NoFrameIsNone DEF CloudInv, Answered, Recorded, Agrees
<1>3. Held'
  BY KeptIsHeld DEF CloudInv, Held, AnswerIsHeld, Open
<1>4. LongHeld'
  BY NoFrameIsNone DEF CloudInv, LongHeld, Begun
<1> QED
  BY <1>1, <1>2, <1>3, <1>4 DEF CloudInv

\* A receipt of the command exists, and is sent again.
LEMMA ReceiveAgainKeeps ==
    ASSUME CloudInv, TypeOK', Receive, loop' = "ready", UNCHANGED <<hand, inflight>>,
           NEW c \in Commands, c = frame.command, receipts[c] # "none",
           acks' \in Enqueued({a \in acks : a.id \notin frame.confirmed}, c, Replay(c))
    PROVE  CloudInv'
<1> USE ReceiveLeaves DEF cloudVars
<1> DEFINE again == [id |-> c, status |-> Replay(c)]
<1>1. PICK kept : kept = {a \in acks : a.id \notin frame.confirmed}
  OBVIOUS
<1>2. PICK others \in SUBSET {a \in kept : a.id # c} : acks' = others \cup {again}
  BY <1>1, EnqueuedKeeps
<1>3. \A a \in others : a \in acks /\ a.id # c /\ ~Long(a)
  BY <1>1, <1>2, KeptIsHeld
<1>4. again.id = c /\ again \in acks'
  BY <1>2
<1>5. inflight = {}
  <2> SUFFICES ASSUME NEW d \in inflight PROVE FALSE
    OBVIOUS
  <2>1. d = c
    BY FrameAlone
  <2> QED
    BY <2>1, InflightIsOpen
<1>6. Recorded(again)
  <2>1. Firm(c) /\ KindOf[c] = "queue" /\ c \notin jobs => receipts[c] = "failed"
    BY DEF CloudInv, TypeOK, Effective, EffectFits, Earned, Result
  <2> QED
    BY <2>1 DEF Recorded, Agrees, Replay
<1>7. Ordered'
  BY <1>5, NoFrameIsNone DEF CloudInv, Ordered, Reached, Turn
<1>8. Answered'
  <2>1. \A a \in acks' : Recorded(a)
    BY <1>2, <1>3, <1>6 DEF CloudInv, Answered
  <2>2. \A a \in acks' : Recorded(a)'
    BY <2>1 DEF Recorded, Agrees
  <2> QED
    BY <2>2, NoFrameIsNone DEF CloudInv, Answered, Agrees
<1>9. Held'
  <2>1. \A a, b \in acks' : a.id = b.id => a = b
    BY <1>2, <1>3 DEF CloudInv, Held
  <2>2. AnswerIsHeld'
    BY <1>4, FrameAlone DEF AnswerIsHeld, Open
  <2> QED
    BY <2>1, <2>2 DEF Held
<1>10. LongHeld'
  BY <1>2, <1>3, <1>5, NoFrameIsNone DEF LongHeld, Begun
<1> QED
  BY <1>7, <1>8, <1>9, <1>10 DEF CloudInv

\* The command is new: it is begun.
LEMMA ReceiveNewKeeps ==
    ASSUME CloudInv, TypeOK', Receive,
           acks' = {a \in acks : a.id \notin frame.confirmed},
           NEW c \in Commands, c = frame.command, receipts[c] = "none",
           \/ /\ KindOf[c] = "background" /\ loop' = "ready" /\ UNCHANGED hand
              /\ inflight' = inflight \cup {c}
           \/ /\ KindOf[c] # "background" /\ loop' = "handle" /\ hand' = c
              /\ UNCHANGED inflight
    PROVE  CloudInv'
<1> USE ReceiveLeaves DEF cloudVars
<1>1. /\ Reached(c) /\ NothingLater(c) /\ inflight \subseteq {c}
      /\ \A d \in Commands : Open(d) => receipts[d] = "none"
  BY FrameAlone
<1>2. \A a \in acks' : ~Long(a)
  BY KeptIsHeld
<1>3. Reached(c)'
  BY <1>1 DEF Reached, Turn
<1>4. KindOf[c] # "background" => inflight = {}
  BY <1>1, InflightIsOpen
<1>5. Ordered'
  <2>1. \A d \in inflight' : KindOf[d] = "background" /\ receipts'[d] = "none" /\ Reached(d)'
    BY <1>1, <1>3, <1>4
  <2>2. hand' # NoCommand =>
          /\ loop' \in {"handle", "complete"} /\ KindOf[hand'] # "background"
          /\ receipts'[hand'] = "none" /\ Reached(hand)' /\ NothingLater(hand)'
    <3> SUFFICES ASSUME hand' # NoCommand PROVE hand' = c /\ Reached(c)' /\ NothingLater(c)'
                        /\ KindOf[c] # "background" /\ loop' = "handle"
      BY DEF Reached, Turn, NothingLater
    <3> QED
      BY <1>1, <1>3 DEF NothingLater
  <2> QED
    BY <2>1, <2>2, NoFrameIsNone DEF CloudInv, Ordered
<1>6. Answered'
  BY NoFrameIsNone DEF CloudInv, Answered, Recorded, Agrees
<1>7. Held'
  BY <1>1 DEF CloudInv, Held, AnswerIsHeld, Open
<1>8. LongHeld'
  BY <1>2, NoFrameIsNone DEF LongHeld
<1> QED
  BY <1>5, <1>6, <1>7, <1>8 DEF CloudInv

LEMMA ReceiveKeeps ==
    ASSUME CloudInv, TypeOK', Receive
    PROVE  CloudInv'
<1> DEFINE kept == {a \in acks : a.id \notin frame.confirmed}
<1>1. \/ loop' = "ready" /\ acks' = kept /\ UNCHANGED <<hand, inflight>>
      \/ /\ frame.command \in Commands /\ receipts[frame.command] # "none"
         /\ loop' = "ready" /\ UNCHANGED <<hand, inflight>>
         /\ acks' \in Enqueued(kept, frame.command, Replay(frame.command))
      \/ /\ frame.command \in Commands /\ receipts[frame.command] = "none" /\ acks' = kept
         /\ \/ /\ KindOf[frame.command] = "background" /\ loop' = "ready"
               /\ UNCHANGED hand /\ inflight' = inflight \cup {frame.command}
            \/ /\ KindOf[frame.command] # "background" /\ loop' = "handle"
               /\ hand' = frame.command /\ UNCHANGED inflight
  BY DEF Receive
<1> QED
  BY <1>1, ReceiveNothingKeeps, ReceiveAgainKeeps, ReceiveNewKeeps

\* The receipt of a command that was begun is written, and its answer kept.
LEMMA AnsweringKeeps ==
    ASSUME CloudInv, TypeOK', UNCHANGED <<cloudVars, posts, frame, crashes>>,
           NEW c \in Commands, NEW result \in Result,
           c \in Begun, receipts' = Receipts(c, result),
           acks' \in Enqueued(acks, c, result),
           Begun' = {}, inflight' = {}, hand' = NoCommand,
           loop' = IF c = hand THEN "ready" ELSE loop
    PROVE  Ordered' /\ Answered' /\ Held' /\ LongHeld'
<1> USE DEF cloudVars
<1> DEFINE new == [id |-> c, status |-> result]
<1>1. PICK others \in SUBSET {a \in acks : a.id # c} : acks' = others \cup {new}
  BY EnqueuedKeeps
<1>2. new.id = c /\ new.status = result
  OBVIOUS
<1> HIDE DEF new
<1>3. /\ Reached(c) /\ receipts[c] = "none"
      /\ \A d \in Commands : Open(d) => receipts[d] = "none"
      /\ c = hand => frame = NoFrame /\ loop # "waiting"
      /\ frame.command \in Commands => c <= frame.command
  <2>1. CASE c \in inflight
    <3>1. c # hand
      BY <2>1, InflightAlone, NoFrameIsNone
    <3>2. frame.command \in Commands => c <= frame.command
      BY <2>1, InflightIsOpen, FrameAlone, SettledBefore
    <3> QED
      BY <2>1, <3>1, <3>2, InflightIsOpen, InflightAlone
  <2>2. CASE c \notin inflight
    <3>1. c = hand /\ hand # NoCommand
      BY <2>2 DEF Begun
    <3> QED
      BY <3>1, HandAlone, NoFrameIsNone
  <2> QED
    BY <2>1, <2>2
<1>4. /\ receipts'[c] = result /\ result # "none"
      /\ \A d \in Commands \ {c} : receipts'[d] = receipts[d]
  BY DEF Receipts, CloudInv, TypeOK, Result
<1>5. \A a : Recorded(a) /\ a.id \in Commands => Recorded(a)'
  BY <1>3, <1>4 DEF Recorded, Agrees
<1>6. \A a \in acks : ~Long(a)
  BY DEF CloudInv, LongHeld
<1>7. Ordered'
  <2>1. \A d \in Commands : receipts'[d] # "none" => Reached(d)'
    BY <1>3, <1>4 DEF CloudInv, Ordered, Reached, Turn
  <2>2. ASSUME frame'.command \in Commands
        PROVE  /\ presence' = 0 /\ Reached(frame.command)' /\ NothingLater(frame.command)'
               /\ KindOf[frame'.command] # "auth" => Open(frame.command)'
    <3>1. \A d \in Commands : d > frame.command => d # c
      BY <1>3, <2>2, CloudAssumption DEF Commands
    <3>2. NothingLater(frame.command)'
      BY <1>4, <2>2, <3>1 DEF CloudInv, Ordered, NothingLater
    <3> QED
      BY <2>2, <3>2 DEF CloudInv, Ordered, Reached, Turn, Open
  <2>3. frame' # NoFrame => loop' = "waiting"
    BY <1>3 DEF CloudInv, Ordered
  <2>4. \A d \in Commands : status'[d] # "none" => \A e \in 1..(d - 1) : status'[e] # "none"
    BY DEF CloudInv, Ordered
  <2> QED
    BY <2>1, <2>2, <2>3, <2>4 DEF Ordered
<1>8. Answered'
  <2>1. ASSUME NEW d \in Commands, status'[d] \in Result
        PROVE  \/ d \in overdue' /\ status'[d] = "failed"
               \/ Agrees(d, status[d])'
    BY <1>3, <1>4, <2>1 DEF CloudInv, Answered, Agrees
  <2>2. \A a \in acks' : Recorded(a)'
    <3>1. Recorded(new)'
      BY <1>2, <1>4 DEF Recorded, Agrees
    <3>2. \A a \in acks : Recorded(a) /\ a.id \in Commands
      BY DEF CloudInv, Answered, TypeOK, Ack
    <3> QED
      BY <1>1, <1>5, <3>1, <3>2
  <2>3. ASSUME NEW q \in posts'
        PROVE  (\A a \in q.acks : Recorded(a)') /\ \A d \in q.confirmed : status'[d] \in Result
    <3>1. \A a \in q.acks : Recorded(a) /\ a.id \in Commands
      BY DEF CloudInv, Answered, TypeOK, Post, Ack
    <3> QED
      BY <1>5, <3>1 DEF CloudInv, Answered
  <2>4. \A d \in frame'.confirmed : status'[d] \in Result
    BY DEF CloudInv, Answered
  <2> QED
    BY <2>1, <2>2, <2>3, <2>4 DEF Answered
<1>9. Held'
  <2>1. \A a, b \in acks' : a.id = b.id => a = b
    BY <1>1, <1>2 DEF CloudInv, Held
  <2>2. AnswerIsHeld'
    <3>1. ASSUME NEW d \in Commands, Open(d), receipts'[d] # "none" PROVE d = c
      BY <1>3, <1>4, <3>1
    <3> QED
      BY <1>1, <1>2, <3>1 DEF AnswerIsHeld, Open
  <2> QED
    BY <2>1, <2>2 DEF Held
<1>10. LongHeld'
  <2>1. \A a \in acks' : Long(a) => a = new
    BY <1>1, <1>6
  <2>2. KindOf[c] \in {"action", "background"} => Open(c)
    <3>1. ASSUME KindOf[c] \in {"action", "background"} PROVE status[c] \notin Result
      <4>1. c \notin overdue
        BY <3>1 DEF CloudInv, TypeOK, Expiring
      <4> QED
        BY <1>3, <4>1 DEF CloudInv, Answered, Agrees
    <3> QED
      BY <1>3, <3>1, NotOpenIsSettled DEF CloudInv, Reached
  <2>3. \A q \in posts : \A b \in q.acks : b.id # c
    BY <1>3 DEF CloudInv, Answered, Recorded, Agrees
  <2>4. Long(new) => Open(new.id)' /\ Unsent(new)'
    BY <1>2, <2>2, <2>3 DEF Long, Unsent, Open
  <2>5. \A a \in acks' : Long(a) => Unsent(a)' /\ Open(a.id)'
    BY <2>1, <2>4
  <2> QED
    BY <2>1, <2>5 DEF LongHeld
<1> QED
  BY <1>7, <1>8, <1>9, <1>10

LEMMA CompleteKeeps ==
    ASSUME CloudInv, TypeOK', Complete
    PROVE  CloudInv'
<1>1. /\ loop = "complete" /\ loop' = "ready" /\ hand' = NoCommand /\ outcome' = "failed"
      /\ receipts' = Receipts(hand, outcome) /\ acks' \in Enqueued(acks, hand, outcome)
      /\ UNCHANGED <<cloudVars, posts, frame, inflight, jobVars, crashes>>
  BY DEF Complete, faultVars
<1>2. hand \in Commands /\ hand # NoCommand /\ outcome \in Result
  BY <1>1, NoFrameIsNone DEF CloudInv, TypeOK
<1>3. inflight = {} /\ hand \in Begun /\ Begun' = {} /\ KindOf[hand] # "background"
  BY <1>1, <1>2, HandAlone DEF Begun
<1>4. Ordered' /\ Answered' /\ Held' /\ LongHeld'
  <2>1. UNCHANGED <<cloudVars, posts, frame, crashes>> /\ inflight' = {}
    BY <1>1, <1>3
  <2> QED
    BY <1>1, <1>2, <1>3, <2>1, AnsweringKeeps
<1>5. Effective'
  <2>1. /\ receipts'[hand] = outcome
        /\ \A c \in Commands \ {hand} : receipts'[c] = receipts[c]
    BY <1>1, <1>2 DEF Receipts, CloudInv, TypeOK
  <2>2. ASSUME NEW c \in Commands, Firm(c) PROVE EffectFits(c)'
    <3>1. EffectFits(c)
      BY <2>2 DEF CloudInv, Effective
    <3>2. CASE c = hand
      BY <1>1, <1>2, <1>3, <2>1, <3>1, <3>2, HandAlone
      DEF EffectFits, Executed, Tried, jobVars, Result
    <3>3. CASE c # hand
      BY <1>1, <2>1, <3>1, <3>3 DEF EffectFits, Executed, Tried, jobVars
    <3> QED
      BY <3>2, <3>3
  <2>3. ASSUME NEW c \in Commands PROVE Earned(c)'
    <3>1. Earned(c)
      BY DEF CloudInv, Effective
    <3> QED
      BY <1>1, <1>2, <2>1, <3>1 DEF Earned, Executed, jobVars
  <2> QED
    BY <1>1, <2>2, <2>3 DEF CloudInv, Effective, jobVars
<1> QED
  BY <1>4, <1>5 DEF CloudInv

LEMMA CompleteAsyncKeeps ==
    ASSUME CloudInv, TypeOK', NEW c \in Commands, CompleteAsync(c)
    PROVE  CloudInv'
<1>1. PICK result \in Result :
        /\ receipts' = Receipts(c, result)
        /\ acks' \in Enqueued(acks, c, result)
        /\ effects' = [effects EXCEPT ![c] = IF result = "completed" THEN @ + 1 ELSE @]
  BY DEF CompleteAsync
<1>2. /\ c \in inflight /\ inflight' = inflight \ {c}
      /\ UNCHANGED <<cloudVars, posts, frame, loop, hand, outcome, jobs, crashes>>
  BY DEF CompleteAsync, faultVars
<1>3. /\ inflight = {c} /\ hand = NoCommand
      /\ KindOf[c] = "background" /\ receipts[c] = "none"
  BY <1>2, InflightIsOpen, InflightAlone
<1>4. Ordered' /\ Answered' /\ Held' /\ LongHeld'
  <2>1. /\ UNCHANGED <<cloudVars, posts, frame, crashes>> /\ inflight' = {}
        /\ hand' = NoCommand /\ c # hand /\ loop' = IF c = hand THEN "ready" ELSE loop
    BY <1>2, <1>3, NoFrameIsNone
  <2>2. c \in Begun /\ Begun' = {}
    BY <1>2, <2>1 DEF Begun
  <2> QED
    BY <1>1, <2>1, <2>2, AnsweringKeeps
<1>5. Effective'
  <2>1. /\ receipts'[c] = result
        /\ effects'[c] = IF result = "completed" THEN effects[c] + 1 ELSE effects[c]
        /\ \A d \in Commands \ {c} : receipts'[d] = receipts[d] /\ effects'[d] = effects[d]
    BY <1>1 DEF Receipts, CloudInv, TypeOK
  <2>2. ASSUME NEW d \in Commands, Firm(d) PROVE EffectFits(d)'
    <3>1. EffectFits(d)
      BY <2>2 DEF CloudInv, Effective
    <3>2. CASE d = c
      BY <1>3, <2>1, <3>1, <3>2 DEF EffectFits
    <3>3. CASE d # c
      BY <1>2, <2>1, <3>1, <3>3 DEF EffectFits, Executed, Tried
    <3> QED
      BY <3>2, <3>3
  <2>3. ASSUME NEW d \in Commands PROVE Earned(d)'
    <3>1. Earned(d) /\ effects[d] \in Nat
      BY DEF CloudInv, Effective, TypeOK
    <3> QED
      BY <1>2, <2>1, <3>1 DEF Earned, Executed
  <2> QED
    BY <1>2, <2>2, <2>3 DEF CloudInv, Effective
<1> QED
  BY <1>4, <1>5 DEF CloudInv

-----------------------------------------------------------------------------
(* The inductive invariant, and what follows from it.                      *)

LEMMA InvStays ==
    ASSUME CloudInv, [Next]_vars
    PROVE  CloudInv'
<1>1. TypeOK' /\ Grows
  BY TypesStay, AnswersStay DEF CloudInv
<1>2. CASE UNCHANGED vars
  <2> USE <1>2 DEF vars, cloudVars, agentVars, jobVars, faultVars
  <2>1. Ordered'
    BY DEF CloudInv, Ordered, Reached, Turn, NothingLater, Open
  <2>2. Answered' /\ Held'
    BY DEF CloudInv, Answered, Held, Recorded, Agrees, AnswerIsHeld, Open
  <2>3. LongHeld'
    BY DEF CloudInv, LongHeld, Begun, Unsent, Open
  <2>4. Effective'
    BY DEF CloudInv, Effective, EffectFits, Earned, Executed, Tried
  <2> QED
    BY <1>1, <2>1, <2>2, <2>3, <2>4 DEF CloudInv
<1>3. CASE \E c \in Commands :
        CreateCommand(c) \/ BecomeOverdue(c) \/ CommandForOwnedDevice(c)
        \/ CompleteAsync(c) \/ RemoveJob(c)
  BY <1>1, <1>3, SenderKeeps, CompleteAsyncKeeps, DeviceKeeps
<1>4. CASE \E p \in posts :
        PersistHeartbeat(p) \/ NextGatewayCommand(p) \/ RelayTimesOut(p) \/ LoseRequest(p)
  BY <1>1, <1>4, PersistKeeps, NextKeeps, GivenUpKeeps
<1>5. CASE \/ Connect \/ Beat \/ Receive \/ Execute \/ Complete
           \/ Disconnect \/ Crash \/ JobChanges
  BY <1>1, <1>5, DeviceKeeps, BeatKeeps, ReceiveKeeps, ExecuteKeeps, CompleteKeeps,
     CrashKeeps
<1> QED
  BY <1>2, <1>3, <1>4, <1>5 DEF Next

LEMMA InvHolds == Spec => []CloudInv
  BY InvAtFirst, InvStays, PTL DEF Spec

\* One command at a time, in order (SerialExecution), however many there are.
THEOREM CommandsAreSerial == Spec => []SerialExecution
<1>1. ASSUME CloudInv PROVE SerialExecution
  <2> SUFFICES ASSUME NEW c \in Begun, NEW d \in 1..(c - 1) PROVE status[d] \in Result
    BY DEF SerialExecution
  <2>1. c \in inflight \/ (hand # NoCommand /\ c = hand)
    BY DEF Begun
  <2> QED
    BY <1>1, <2>1, InflightIsOpen, HandAlone DEF Reached, Turn
<1> QED
  BY <1>1, InvHolds, PTL

\* A set whose elements are all the same has at most one.
LEMMA AtMostOne ==
    ASSUME NEW S, \A x, y \in S : x = y
    PROVE  Cardinality(S) <= 1
<1>1. CASE S = {}
  BY <1>1, FS_EmptySet
<1>2. CASE S # {}
  <2>1. PICK x \in S : TRUE
    BY <1>2
  <2>2. S = {x}
    BY <2>1
  <2> QED
    BY <2>2, FS_Singleton
<1> QED
  BY <1>1, <1>2

\* The list of acknowledgements is long enough and its heartbeat short enough
\* (AnswersFit: appendAcknowledgement, heartbeatData), whatever the capacity is.
THEOREM AnswersAlwaysFit == Spec => []AnswersFit
<1>1. ASSUME CloudInv PROVE OneAnswerInTransit
  <2>1. ASSUME NEW a \in acks, NEW b \in acks, Open(a.id), Open(b.id) PROVE a = b
    <3>1. /\ a.id \in Commands /\ b.id \in Commands
          /\ receipts[a.id] # "none" /\ receipts[b.id] # "none"
      BY <1>1 DEF CloudInv, TypeOK, Ack, Answered, Recorded, Agrees
    <3>2. a.id = b.id
      BY <1>1, <2>1, <3>1, OneIsOpen DEF CloudInv, Ordered
    <3> QED
      BY <1>1, <3>2 DEF CloudInv, Held
  <2> QED
    BY <2>1, AtMostOne DEF OneAnswerInTransit
<1>2. ASSUME CloudInv PROVE LongAnswersFit
  <2>1. \A a, b \in {x \in acks : KindOf[x.id] \in {"action", "background"}} : a = b
    BY <1>2 DEF CloudInv, LongHeld, Long, Held
  <2> QED
    BY <2>1, AtMostOne DEF LongAnswersFit
<1>3. ASSUME CloudInv PROVE AnswersFit
  BY <1>1, <1>2, <1>3 DEF AnswersFit, CloudInv, Held
<1> QED
  BY <1>3, InvHolds, PTL

\* What EffectsAreAnswered says of one command.
Told(c) ==
    /\ effects[c] <= 1 \/ MayRepeat(c)
    /\ status[c] = "completed" => effects[c] > 0
    /\ status[c] = "failed" /\ c \notin Unsure => effects[c] = 0

FirmAreTold ==
    \A c \in Commands :
        /\ status[c] = "completed" => effects[c] > 0
        /\ Firm(c) => Told(c)

LEMMA InvTells ==
    ASSUME CloudInv, NEW c \in Commands
    PROVE  /\ status[c] = "completed" => effects[c] > 0
           /\ Firm(c) => Told(c)
<1>1. /\ EffectFits(c) \/ ~Firm(c)
      /\ Earned(c) /\ KindOf[c] \in Kinds
      /\ effects[c] \in Nat /\ crashes \in Nat
      /\ receipts[c] \in Result \cup {"none"}
  BY CloudAssumption DEF CloudInv, Effective, TypeOK
<1>2. /\ status[c] = "completed" => receipts[c] = "completed"
      /\ status[c] = "failed" /\ c \notin overdue /\ Firm(c) => receipts[c] = "failed"
  BY DEF CloudInv, Answered, Agrees, Result
<1>3. Executed(c) => receipts[c] = "none"
  BY HandAlone, NoFrameIsNone DEF Executed
<1>4. status[c] = "completed" => effects[c] > 0
  BY <1>1, <1>2 DEF Earned
<1>5. ASSUME Firm(c) PROVE Told(c)
  <2>1. CASE KindOf[c] \in {"action", "auth", "reorder"}
    BY <1>1, <1>2, <1>3, <1>4, <1>5, <2>1 DEF EffectFits, Told, MayRepeat, Unsure
  <2>2. CASE KindOf[c] \in {"queue", "background"}
    <3>1. c \notin overdue
      BY <2>2 DEF CloudInv, TypeOK, Expiring
    <3> QED
      BY <1>1, <1>2, <1>4, <1>5, <2>2, <3>1 DEF EffectFits, Told
  <2> QED
    BY <1>1, <2>1, <2>2 DEF Kinds
<1> QED
  BY <1>4, <1>5

\* A command read as completed took effect; every command whose job is not
\* removed took effect at most once, except for one that was repeated after a
\* crash; and one read as failed did not, except for the unsure ones, whose case
\* goes on after the effect (CloudRemoteControl.handle).
THEOREM AnswersTell == Spec => []FirmAreTold
<1>1. CloudInv => FirmAreTold
  BY InvTells DEF FirmAreTold
<1> QED
  BY <1>1, InvHolds, PTL

\* Where jobs and destinations are not removed on the device, that is
\* EffectsAreAnswered: one that is removed makes its command fail when the receipt
\* is replayed.
THEOREM EffectsHold == ASSUME ~Removals PROVE Spec => []EffectsAreAnswered
<1>1. CloudInv => EffectsAreAnswered
  BY InvTells DEF EffectsAreAnswered, EffectAtMostOnce, AnswersAreTrue, Told, Firm
<1> QED
  BY <1>1, InvHolds, PTL

-----------------------------------------------------------------------------
(* What no step does.                                                      *)

\* An acknowledgement that is still needed is given up in a crash only.
Neglects(a) == ~(\E b \in acks' : b.id = a.id) /\ Open(a.id)

LEMMA EnqueuedNeglects ==
    ASSUME CloudInv, NEW held \in SUBSET acks, NEW c \in Commands, NEW result \in Result,
           acks' \in Enqueued(held, c, result),
           \A a \in acks : a \in held \/ ~Open(a.id),
           \A d \in Commands : Open(d) /\ receipts[d] # "none" => d = c,
           NEW a \in acks
    PROVE  ~Neglects(a)
<1>1. a.id \in Commands /\ receipts[a.id] # "none"
  BY DEF CloudInv, TypeOK, Ack, Answered, Recorded, Agrees
<1>2. PICK others \in SUBSET {b \in held : b.id # c} :
        acks' = others \cup {[id |-> c, status |-> result]}
  BY EnqueuedKeeps
<1> DEFINE new == [id |-> c, status |-> result]
<1>3. new.id = c /\ new \in acks'
  BY <1>2
<1> QED
  BY <1>1, <1>3 DEF Neglects

LEMMA NothingNeglected ==
    ASSUME CloudInv, [Next]_vars, NEW a \in acks, Neglects(a)
    PROVE  receipts[a.id] # "none" /\ crashes' = crashes + 1
<1>1. a.id \in Commands /\ receipts[a.id] # "none"
  BY DEF CloudInv, TypeOK, Ack, Answered, Recorded, Agrees
<1>2. CASE Crash
  BY <1>1, <1>2 DEF Crash
<1>3. CASE UNCHANGED acks
  BY <1>3 DEF Neglects
<1>4. ASSUME Receive PROVE FALSE
  <2> DEFINE kept == {b \in acks : b.id \notin frame.confirmed}
  <2>1. \A b \in acks : b \in kept \/ ~Open(b.id)
    BY DEF CloudInv, Answered, Open, Result
  <2>2. \/ acks' = kept
        \/ /\ frame.command \in Commands /\ receipts[frame.command] # "none"
           /\ acks' \in Enqueued(kept, frame.command, Replay(frame.command))
    BY <1>4 DEF Receive
  <2>3. CASE acks' = kept
    BY <2>1, <2>3 DEF Neglects
  <2>4. CASE /\ frame.command \in Commands /\ receipts[frame.command] # "none"
             /\ acks' \in Enqueued(kept, frame.command, Replay(frame.command))
    <3>1. \A d \in Commands : Open(d) /\ receipts[d] # "none" => d = frame.command
      BY <2>4, FrameAlone
    <3>2. kept \in SUBSET acks
      OBVIOUS
    <3>3. Replay(frame.command) \in Result
      BY <2>4, ReplayIsResult DEF CloudInv
    <3> HIDE DEF kept
    <3> QED
      BY <2>1, <2>4, <3>1, <3>2, <3>3, EnqueuedNeglects
  <2> QED
    BY <2>2, <2>3, <2>4
<1>5. ASSUME Complete PROVE FALSE
  <2>1. hand \in Commands /\ hand # NoCommand /\ outcome \in Result
    BY <1>5, NoFrameIsNone DEF Complete, CloudInv, TypeOK
  <2>2. acks' \in Enqueued(acks, hand, outcome) /\ acks \in SUBSET acks
        /\ \A b \in acks : b \in acks \/ ~Open(b.id)
    BY <1>5 DEF Complete
  <2>3. \A d \in Commands : Open(d) => receipts[d] = "none"
    BY <2>1, HandAlone
  <2> QED
    BY <2>1, <2>2, <2>3, EnqueuedNeglects
<1>6. ASSUME NEW c \in Commands, CompleteAsync(c) PROVE FALSE
  <2>1. PICK result \in Result : acks' \in Enqueued(acks, c, result)
    BY <1>6 DEF CompleteAsync
  <2>2. \A d \in Commands : Open(d) => receipts[d] = "none"
    BY <1>6, InflightAlone DEF CompleteAsync
  <2> QED
    BY <2>1, <2>2, EnqueuedNeglects
<1>7. ASSUME NEW c \in Commands,
             CreateCommand(c) \/ BecomeOverdue(c) \/ CommandForOwnedDevice(c) \/ RemoveJob(c)
      PROVE  UNCHANGED acks
  BY <1>7 DEF CreateCommand, BecomeOverdue, CommandForOwnedDevice, RemoveJob, agentVars
<1>8. ASSUME NEW p \in posts, PersistHeartbeat(p) \/ NextGatewayCommand(p)
                              \/ RelayTimesOut(p) \/ LoseRequest(p)
      PROVE  UNCHANGED acks
  BY <1>8 DEF PersistHeartbeat, NextGatewayCommand, RelayTimesOut, LoseRequest, agentVars
<1>9. ASSUME Connect \/ Beat \/ Execute \/ Disconnect \/ JobChanges \/ UNCHANGED vars
      PROVE  UNCHANGED acks
  BY <1>9 DEF Connect, Beat, Execute, Disconnect, JobChanges, vars, agentVars
<1> QED
  BY <1>2, <1>3, <1>4, <1>5, <1>6, <1>7, <1>8, <1>9 DEF Next

\* No answer is lost while the agent lives (NoAnswerLost): neither a frame that
\* confirms it nor the limit of the list drops what its sender still waits for.
THEOREM AnswersAreKept == Spec => NoAnswerLost
<1>1. ASSUME CloudInv, [Next]_vars
      PROVE  [\A a \in acks :
                 /\ ~\E b \in acks' : b.id = a.id
                 /\ Open(a.id)
                 => receipts[a.id] # "none" /\ crashes' = crashes + 1]_vars
  BY <1>1, NothingNeglected DEF Neglects
<1> QED
  BY <1>1, InvHolds, PTL DEF Spec, NoAnswerLost

\* A late heartbeat neither becomes the current presence nor brings back an
\* older version of a job (persistGatewayHeartbeat).
THEOREM LateHeartbeatsAreHarmless == Spec => LateHeartbeatChangesNothing
<1> DEFINE Harmless == /\ presence' > presence => loop = "ready" /\ loop' = "waiting"
                       /\ projected' >= projected
<1>1. ASSUME TypeOK, [Next]_vars PROVE [Harmless]_vars
  <2> SUFFICES ASSUME Next PROVE Harmless
    BY <1>1
  <2>1. presence \in Nat /\ projected \in Nat
    BY <1>1, CloudAssumption DEF TypeOK, Ages, Oldest
  <2>2. ASSUME UNCHANGED presence, UNCHANGED projected PROVE Harmless
    BY <2>1, <2>2
  <2>3. ASSUME NEW p \in posts, PersistHeartbeat(p) PROVE Harmless
    <3>1. p.age \in Nat /\ p.job \in Nat
      BY <1>1, CloudAssumption DEF TypeOK, Post
    <3> QED
      BY <2>1, <2>3, <3>1 DEF PersistHeartbeat, Accepts
  <2>4. CASE Beat
    BY <2>1, <2>4 DEF Beat
  <2>5. ASSUME NEW c \in Commands, CreateCommand(c) \/ BecomeOverdue(c)
               \/ CommandForOwnedDevice(c) \/ CompleteAsync(c) \/ RemoveJob(c)
        PROVE  UNCHANGED presence /\ UNCHANGED projected
    BY <2>5 DEF CreateCommand, BecomeOverdue, CommandForOwnedDevice, CompleteAsync,
                RemoveJob, cloudVars
  <2>6. ASSUME NEW p \in posts, NextGatewayCommand(p) \/ RelayTimesOut(p) \/ LoseRequest(p)
        PROVE  UNCHANGED presence /\ UNCHANGED projected
    BY <2>6 DEF NextGatewayCommand, RelayTimesOut, LoseRequest, cloudVars
  <2>7. ASSUME Connect \/ Receive \/ Execute \/ Complete \/ Disconnect \/ Crash \/ JobChanges
        PROVE  UNCHANGED presence /\ UNCHANGED projected
    BY <2>7 DEF Connect, Receive, Execute, Complete, Disconnect, Crash, JobChanges,
                cloudVars
  <2> QED
    BY <2>2, <2>3, <2>4, <2>5, <2>6, <2>7 DEF Next
<1> QED
  BY <1>1, CloudTypeCorrect, PTL DEF Spec, LateHeartbeatChangesNothing

-----------------------------------------------------------------------------
(* CommandLife is implemented, step by step.                               *)

Stage == [c \in Commands |-> IF Open(c) THEN "open" ELSE status[c]]
Done  == {c \in Commands : effects[c] > 0}

\* The one way in which a command may end as failed against the abstract
\* specification: it took effect, and its job or destination was removed.
Slips(c) == ~Firm(c) /\ c \in Done /\ Life!Answer(c, "failed")

LEMMA StageIs ==
    ASSUME TypeOK
    PROVE  \A c \in Commands : Stage[c] = IF Open(c) THEN "open" ELSE status[c]
  BY DEF Stage

\* The stages of two states are those of a step of the abstract specification.
LEMMA StageChanges ==
    ASSUME NEW c \in Commands, NEW stage,
           \A d \in Commands \ {c} : Stage'[d] = Stage[d],
           Stage'[c] = stage
    PROVE  Stage' = [Stage EXCEPT ![c] = stage]
  BY DEF Stage

LEMMA SameStages ==
    ASSUME \A d \in Commands : Stage'[d] = Stage[d]
    PROVE  Stage' = Stage
  BY DEF Stage

\* An answer that is stored is that of the one command in its turn.
LEMMA AcceptIsALifeStep ==
    ASSUME CloudInv, TypeOK', NEW p \in posts, PersistHeartbeat(p), Accepts(p)
    PROVE  Life!LifeNext \/ (\E c \in Commands : Slips(c)) \/ UNCHANGED Life!lifeVars
<1> USE DEF Result
<1>1. status' = Persisted(p) /\ UNCHANGED effects
  BY DEF PersistHeartbeat, jobVars
<1>2. UNCHANGED Done
  BY <1>1 DEF Done
<1>3. CASE \E c \in Commands : status'[c] # status[c]
  <2>1. PICK c \in Commands : status'[c] # status[c]
    BY <1>3
  <2>2. /\ Open(c) /\ receipts[c] # "none" /\ status'[c] \in Result
        /\ Agrees(c, status'[c]) /\ Reached(c)
    BY <1>1, <2>1, PersistedIsRecorded DEF CloudInv, Ordered, Agrees
  <2>3. ASSUME NEW d \in Commands, d # c PROVE status'[d] = status[d]
    <3> SUFFICES ASSUME status'[d] # status[d] PROVE FALSE
      OBVIOUS
    <3>1. Open(d) /\ Reached(d)
      BY <1>1, PersistedIsRecorded DEF CloudInv, Ordered, Agrees
    <3> QED
      BY <2>2, <2>3, <3>1, OneIsOpen
  <2>4. Stage[c] = "open" /\ Stage' = [Stage EXCEPT ![c] = status'[c]]
    <3>1. \A d \in Commands \ {c} : Stage'[d] = Stage[d]
      BY <2>3 DEF Stage, Open
    <3>2. Stage[c] = "open" /\ Stage'[c] = status'[c]
      BY <2>2 DEF Stage, Open
    <3> QED
      BY <3>1, <3>2, StageChanges
  <2>5. \A d \in 1..(c - 1) : Stage[d] \in {"completed", "failed"}
    BY <2>2, CloudAssumption DEF Stage, Open, Reached, Turn, Commands
  <2>6. CASE status'[c] = "completed"
    <3>1. c \in Done
      BY <2>2, <2>6 DEF Agrees, CloudInv, Effective, Earned, Done
    <3>2. Life!Confirm(c)
      BY <1>2, <2>4, <2>6, <3>1 DEF Life!Confirm, Life!Answer, Stage, Done
    <3> QED
      BY <3>2 DEF Life!LifeNext, Commands
  <2>7. CASE status'[c] = "failed"
    <3>1. CASE c \notin Done \ Unsure
      <4>1. Life!Refuse(c)
        BY <1>2, <2>4, <2>5, <2>7, <3>1
        DEF Life!Refuse, Life!Answer, Life!Turn, Life!Settled, Stage, Done
      <4> QED
        BY <4>1 DEF Life!LifeNext, Commands
    <3>2. CASE c \in Done \ Unsure
      <4>1. Life!Answer(c, "failed")
        BY <1>2, <2>4, <2>7 DEF Life!Answer, Stage, Done
      <4>2. KindOf[c] \in {"queue", "background"} /\ effects[c] \in Nat /\ effects[c] > 0
        BY <3>2, CloudAssumption DEF Unsure, Kinds, Done, CloudInv, TypeOK
      <4>3. Firm(c) => receipts[c] = "failed" /\ EffectFits(c)
        BY <2>2, <2>7 DEF Agrees, CloudInv, Effective
      <4>4. ~Firm(c)
        BY <4>2, <4>3 DEF EffectFits
      <4> QED
        BY <3>2, <4>1, <4>4 DEF Slips
    <3> QED
      BY <3>1, <3>2
  <2> QED
    BY <2>2, <2>6, <2>7
<1>4. CASE \A c \in Commands : status'[c] = status[c]
  <2>1. Stage' = Stage
    BY <1>4, SameStages DEF Stage, Open
  <2> QED
    BY <1>2, <2>1 DEF Life!lifeVars, Stage, Done
<1> QED
  BY <1>3, <1>4

\* Commands whose time is over fail together, in whatever order they come.
LEMMA ExpiringIsALifeStep ==
    ASSUME CloudInv, TypeOK', UNCHANGED effects, NEW S \in SUBSET overdue,
           \A d \in S : Open(d) /\ status'[d] = "failed",
           \A d \in Commands \ S : \/ status'[d] = status[d]
                                   \/ Open(d) /\ Open(d)'
    PROVE  Life!Expire
<1>1. S \in SUBSET {d \in Expiring : Stage[d] = "open"}
  BY DEF CloudInv, TypeOK, Expiring, Stage
<1>2. Stage' = [d \in 1..N |-> IF d \in S THEN "failed" ELSE Stage[d]]
  BY DEF Stage, Commands, Open
<1>3. UNCHANGED Done
  BY DEF Done
<1> QED
  BY <1>1, <1>2, <1>3 DEF Life!Expire, Stage, Done

\* A command is carried out.
LEMMA EffectIsALifeStep ==
    ASSUME CloudInv, TypeOK', UNCHANGED status, NEW c \in Begun,
           effects' = [effects EXCEPT ![c] = @ + 1]
    PROVE  Life!LifeNext \/ UNCHANGED Life!lifeVars
<1>1. /\ c \in Commands /\ Reached(c) /\ receipts[c] = "none"
  BY InflightIsOpen, HandAlone DEF Begun
<1>2. UNCHANGED Stage
  BY DEF Stage, Open
<1>3. Done' = Done \cup {c}
  BY <1>1 DEF Done, CloudInv, TypeOK
<1>4. CASE c \in Done
  BY <1>2, <1>3, <1>4 DEF Life!lifeVars, Stage, Done
<1>5. CASE c \notin Done
  <2>1. Stage[c] = "open" \/ (c \in Expiring /\ Stage[c] = "failed")
    <3>1. CASE Open(c)
      BY <1>1, <3>1 DEF Stage
    <3>2. CASE ~Open(c)
      <4>1. status[c] \in Result
        BY <1>1, <3>2, NotOpenIsSettled DEF CloudInv, Reached
      <4>2. c \in overdue /\ status[c] = "failed"
        BY <1>1, <4>1 DEF CloudInv, Answered, Agrees
      <4> QED
        BY <1>1, <3>2, <4>2 DEF CloudInv, TypeOK, Stage
    <3> QED
      BY <3>1, <3>2
  <2>2. \A d \in 1..(c - 1) : Stage[d] \in {"completed", "failed"}
    BY <1>1, CloudAssumption DEF Stage, Open, Reached, Turn, Commands, Result
  <2>3. Life!Execute(c)
    BY <1>2, <1>3, <1>5, <2>1, <2>2
    DEF Life!Execute, Life!Turn, Life!Settled, Stage, Done
  <2> QED
    BY <1>1, <2>3 DEF Life!LifeNext, Commands
<1> QED
  BY <1>4, <1>5

LEMMA StatusAndEffectsStay ==
    ASSUME UNCHANGED status, UNCHANGED effects
    PROVE  UNCHANGED Life!lifeVars
  BY DEF Life!lifeVars, Open

\* Every step is one of the abstract specification, the slip, or none of it.
LEMMA StepIsALifeStep ==
    ASSUME CloudInv, TypeOK', [Next]_vars
    PROVE  Life!LifeNext \/ (\E c \in Commands : Slips(c)) \/ UNCHANGED Life!lifeVars
<1>1. ASSUME NEW c \in Commands, CreateCommand(c) PROVE Life!LifeNext
  <2>1. /\ status[c] = "none" /\ status'[c] = "pending" /\ UNCHANGED effects
        /\ \A d \in Commands \ {c} : status'[d] = status[d]
        /\ \A d \in 1..(c - 1) : status[d] # "none"
    BY <1>1 DEF CreateCommand, jobVars, CloudInv, TypeOK
  <2>2. \A d \in Commands \ {c} : Stage'[d] = Stage[d]
    BY <2>1 DEF Stage, Open
  <2>3. Stage[c] = "none" /\ Stage'[c] = "open"
    BY <2>1 DEF Stage, Open
  <2>4. Stage' = [Stage EXCEPT ![c] = "open"]
    BY <2>2, <2>3, StageChanges
  <2>5. \A d \in 1..(c - 1) : Stage[d] # "none"
    BY <2>1, CloudAssumption DEF Stage, Open, Commands
  <2>6. UNCHANGED Done
    BY <2>1 DEF Done
  <2>7. Life!Give(c)
    BY <2>3, <2>4, <2>5, <2>6 DEF Life!Give, Stage, Done
  <2> QED
    BY <2>7 DEF Life!LifeNext, Commands
<1>2. ASSUME NEW c \in Commands, CommandForOwnedDevice(c) PROVE Life!Expire
  <2> DEFINE S == {c}
  <2>1. /\ S \in SUBSET overdue /\ UNCHANGED effects
        /\ \A d \in S : Open(d) /\ status'[d] = "failed"
        /\ \A d \in Commands \ S : status'[d] = status[d]
    BY <1>2 DEF CommandForOwnedDevice, jobVars, CloudInv, TypeOK
  <2> HIDE DEF S
  <2> QED
    BY <2>1, ExpiringIsALifeStep
<1>3. ASSUME NEW p \in posts, NextGatewayCommand(p) PROVE Life!Expire
  <2>1. \A d \in Commands : d = Chosen(p) => Open(d) /\ d \notin Expired
    BY ChosenIsFirst, NoFrameIsNone DEF Candidates
  <2>2. Expired \in SUBSET overdue /\ Expired \in SUBSET Commands /\ UNCHANGED effects
    BY <1>3 DEF NextGatewayCommand, jobVars, CloudInv, TypeOK, Expired, Expiring
  <2>3. \A d \in Expired : Open(d) /\ status'[d] = "failed"
    <3>1. \A d \in Expired : Open(d)
      BY DEF Expired
    <3> QED
      BY <1>3, <2>1, <2>2, <3>1 DEF NextGatewayCommand
  <2>4. ASSUME NEW d \in Commands \ Expired
        PROVE  status'[d] = status[d] \/ (Open(d) /\ Open(d)')
    <3>1. status'[d] = status[d] \/ (d = Chosen(p) /\ status'[d] = "running")
      BY <1>3 DEF NextGatewayCommand
    <3> QED
      BY <2>1, <3>1 DEF Open
  <2> QED
    BY <2>2, <2>3, <2>4, ExpiringIsALifeStep
<1>4. ASSUME NEW p \in posts, PersistHeartbeat(p)
      PROVE  Life!LifeNext \/ (\E c \in Commands : Slips(c)) \/ UNCHANGED Life!lifeVars
  <2>1. CASE Accepts(p)
    BY <1>4, <2>1, AcceptIsALifeStep
  <2>2. CASE ~Accepts(p)
    BY <1>4, <2>2, StatusAndEffectsStay DEF PersistHeartbeat, jobVars
  <2> QED
    BY <2>1, <2>2
<1>5. ASSUME Execute PROVE Life!LifeNext \/ UNCHANGED Life!lifeVars
  <2>1. UNCHANGED status /\ hand \in Begun
    BY <1>5, NoFrameIsNone DEF Execute, cloudVars, Begun, CloudInv, TypeOK
  <2>2. UNCHANGED effects \/ effects' = [effects EXCEPT ![hand] = @ + 1]
    BY <1>5 DEF Execute
  <2> QED
    BY <2>1, <2>2, EffectIsALifeStep, StatusAndEffectsStay
<1>6. ASSUME NEW c \in Commands, CompleteAsync(c)
      PROVE  Life!LifeNext \/ UNCHANGED Life!lifeVars
  <2>1. UNCHANGED status /\ c \in Begun
    BY <1>6 DEF CompleteAsync, cloudVars, Begun
  <2>2. UNCHANGED effects \/ effects' = [effects EXCEPT ![c] = @ + 1]
    BY <1>6 DEF CompleteAsync, CloudInv, TypeOK
  <2> QED
    BY <2>1, <2>2, EffectIsALifeStep, StatusAndEffectsStay
<1>7. ASSUME NEW c \in Commands, BecomeOverdue(c) \/ RemoveJob(c)
      PROVE  UNCHANGED Life!lifeVars
  BY <1>7, StatusAndEffectsStay DEF BecomeOverdue, RemoveJob, cloudVars, jobVars
<1>8. ASSUME NEW p \in posts, RelayTimesOut(p) \/ LoseRequest(p)
      PROVE  UNCHANGED Life!lifeVars
  BY <1>8, StatusAndEffectsStay DEF RelayTimesOut, LoseRequest, cloudVars, jobVars
<1>9. ASSUME Connect \/ Beat \/ Receive \/ Complete \/ Disconnect \/ Crash \/ JobChanges
             \/ UNCHANGED vars
      PROVE  UNCHANGED Life!lifeVars
  BY <1>9, StatusAndEffectsStay DEF Connect, Beat, Receive, Complete, Disconnect, Crash,
     JobChanges, vars, cloudVars, jobVars
<1> QED
  BY <1>1, <1>2, <1>3, <1>4, <1>5, <1>6, <1>7, <1>8, <1>9 DEF Next, Life!LifeNext

\* Whatever kinds the commands have, whatever is removed and however often the
\* agent crashes, the sender sees the abstract specification or the slip.
THEOREM CommandsLiveOrSlip ==
    Spec => [][Life!LifeNext \/ \E c \in Commands : Slips(c)]_(Life!lifeVars)
<1>1. ASSUME CloudInv, TypeOK', [Next]_vars
      PROVE  [Life!LifeNext \/ \E c \in Commands : Slips(c)]_(Life!lifeVars)
  BY <1>1, StepIsALifeStep
<1> QED
  BY <1>1, InvHolds, CloudTypeCorrect, PTL DEF Spec

\* Where neither jobs nor destinations are removed, CommandLife is implemented:
\* only the failure of an unsure command leaves open whether it took effect.
THEOREM CommandLifeIsImplemented ==
    ASSUME ~Removals
    PROVE  Spec => ImplementsCommandLife
<1>1. ASSUME Init
      PROVE  Stage = [c \in 1..N |-> "none"] /\ Done = {}
  BY <1>1 DEF Init, Stage, Done, Open, Commands
<1>2. ASSUME CloudInv, TypeOK', [Next]_vars
      PROVE  [Life!LifeNext]_(Life!lifeVars)
  <2>1. \A c \in Commands : ~Slips(c)
    BY DEF Slips, Firm
  <2> QED
    BY <1>2, <2>1, StepIsALifeStep
<1> QED
  BY <1>1, <1>2, InvHolds, CloudTypeCorrect, PTL
  DEF Spec, ImplementsCommandLife, Life!LifeSpec, Stage, Done
=============================================================================
