---------------------------- MODULE ViewQueueing ----------------------------
(***************************************************************************)
(* Queueing downloads from the dashboard.  Four views do it, several items *)
(* at once: each posts a command with a request id, polls the command until*)
(* it is over or five minutes have passed, and leaves what failed to be    *)
(* tried again.  A call that failed may have created its command all the   *)
(* same; whether another try queues the item twice rests on the id it is   *)
(* posted with, and there the views differ.                                *)
(***************************************************************************)
EXTENDS Naturals, FiniteSets

CONSTANTS
    Views,          \* the views there are, of "feed", "watch", "home" and "library"
    QueueItems,     \* what can be queued
    QueueTargets,   \* the destinations
    MaxPresses      \* times the reader queues something

ASSUME ViewAssumption ==
    /\ Views \subseteq {"feed", "watch", "home", "library"} /\ Views # {}
    /\ IsFiniteSet(QueueItems)
    /\ MaxPresses \in Nat

VARIABLES
    queueView,      \* the view the reader is in
    requestIDs,     \* the ids the view keeps, 0 for none
    fresh,          \* ids drawn so far
    posted,         \* the command rows: [id, item, target, status]
    queued,         \* the Mac's jobs: [id, item, target]
    calls,          \* calls under way: [press, item, id, target, step]
    presses,
    told,           \* the (item, target) pairs the reader was told are queued
    tries           \* by item, the calls that were told to have failed

viewVars == <<queueView, requestIDs, fresh, posted, queued, calls, presses, told, tries>>

Pending == {c.item : c \in calls}
IsTold(i) == \E t \in told : t.item = i

ViewInit ==
    /\ queueView \in Views
    \* previewToReview draws the ids of the Home view when it shows the items.
    /\ requestIDs = [i \in QueueItems |-> IF queueView = "home" THEN 1 ELSE 0]
    /\ fresh = IF queueView = "home" THEN 1 ELSE 0
    /\ posted = {} /\ queued = {} /\ calls = {}
    /\ presses = 0
    /\ told = {}
    /\ tries = [i \in QueueItems |-> 0]

\* Mutant: the Home view draws the id of an item when it is queued.
IDAtPressNever(i) == 0

\* The Home view has drawn the id of an item when it showed it.
IDAtPress(i) == IF queueView = "home" THEN requestIDs[i] ELSE 0

\* The buttons of the Home view stay open while its items are on their way; those of the
\* other views do not.  (A refresh of the Library opens its buttons: that is in LibraryView.)
MayPress(i) ==
    CASE queueView = "home" -> ~IsTold(i)
      [] queueView = "library" -> calls = {}
      [] OTHER -> i \notin Pending

Press(S, d) ==
    /\ S # {} /\ \A i \in S : MayPress(i)
    /\ presses < MaxPresses
    /\ presses' = presses + 1
    /\ calls' = calls \cup {[press |-> presses + 1, item |-> i, id |-> IDAtPress(i), target |-> d,
                                step |-> "turn"] : i \in S}
    /\ UNCHANGED <<queueView, requestIDs, fresh, posted, queued, told, tries>>

\* Mutant: the Feed draws an id for every try.
KeepsIDNever(i) == FALSE

\* Does another try of this item use the id of the one before?
KeepsID(i) == queueView = "feed" /\ requestIDs[i] # 0

\* The call has its turn, and its id.
StartCall(c) ==
    /\ c.step = "turn"
    /\ LET id == IF c.id # 0 THEN c.id ELSE IF KeepsID(c.item) THEN requestIDs[c.item] ELSE fresh + 1
       IN /\ fresh' = IF id > fresh THEN id ELSE fresh
          /\ requestIDs' = IF queueView = "feed" THEN [requestIDs EXCEPT ![c.item] = id] ELSE requestIDs
          /\ calls' = (calls \ {c}) \cup {[c EXCEPT !.id = id, !.step = "post"]}
    /\ UNCHANGED <<queueView, posted, queued, presses, told, tries>>

Rows(c) == {r \in posted : r.id = c.id /\ r.item = c.item}

\* Mutant: a repeated id is joined whatever it is for.
SameRequestAnyTarget(r, c) == r.item = c.item

SameRequest(r, c) == r.item = c.item /\ r.target = c.target

Ended(c, ok) == (calls \ {c}) \cup {[c EXCEPT !.step = IF ok THEN "ok" ELSE "bad"]}

\* POST commands: the row is created or joined, and the answer may be lost; an id that
\* was used for something else is refused.
Post(c) ==
    /\ c.step = "post"
    /\ \/ /\ \A r \in Rows(c) : SameRequest(r, c)
          /\ posted' = IF Rows(c) = {} THEN posted \cup {[id |-> c.id, item |-> c.item, target |-> c.target, status |-> "pending"]}
                                       ELSE posted
          /\ calls' \in {(calls \ {c}) \cup {[c EXCEPT !.step = "wait"]}, Ended(c, FALSE)}
       \/ calls' = Ended(c, FALSE) /\ UNCHANGED posted
    /\ UNCHANGED <<queueView, requestIDs, fresh, queued, presses, told, tries>>

\* The Mac executes the command, or refuses it, or it expires.
Perform(r) ==
    /\ r.status = "pending"
    /\ \E s \in {"completed", "failed"} :
          /\ posted' = (posted \ {r}) \cup {[r EXCEPT !.status = s]}
          /\ queued' = IF s = "completed" THEN queued \cup {[id |-> r.id, item |-> r.item, target |-> r.target]} ELSE queued
    /\ UNCHANGED <<queueView, requestIDs, fresh, calls, presses, told, tries>>

\* Mutant: a command that failed is read as one that was answered.
IsCompletedOrOver(r) == r.status # "pending"

IsCompleted(r) == r.status = "completed"

\* Mutant: a command is polled until it is over.
GivesUpNever(c) == c.step = "seek"

\* After 150 polls, or 24 readings of the jobs, or when a poll fails.
GivesUp(c) == c.step \in {"wait", "seek"}

\* waitForCloudCommand, and for an item of a feed the wait for its job to be listed.
Poll(c) ==
    /\ \/ /\ c.step = "wait" /\ \E r \in Rows(c) : IsCompleted(r)
          /\ calls' = IF queueView = "feed" \/ queueView = "watch"
                      THEN (calls \ {c}) \cup {[c EXCEPT !.step = "seek"]} ELSE Ended(c, TRUE)
       \/ c.step = "wait" /\ (\E r \in Rows(c) : r.status = "failed") /\ calls' = Ended(c, FALSE)
       \/ c.step = "seek" /\ (\E j \in queued : j.id = c.id) /\ calls' = Ended(c, TRUE)
       \/ GivesUp(c) /\ calls' = Ended(c, FALSE)
    /\ UNCHANGED <<queueView, requestIDs, fresh, posted, queued, presses, told, tries>>

\* What becomes of the id: the Feed forgets the one of a success, Home renews the one of a
\* failure.
Renewed(c) ==
    CASE queueView = "feed" /\ c.step = "ok" -> 0
      [] queueView = "home" /\ c.step = "bad" -> fresh + 1
      [] OTHER -> requestIDs[c.item]

\* The reader is told how the call went.
EndCall(c) ==
    /\ c.step \in {"ok", "bad"}
    /\ calls' = calls \ {c}
    /\ requestIDs' = [requestIDs EXCEPT ![c.item] = Renewed(c)]
    /\ fresh' = IF Renewed(c) > fresh THEN Renewed(c) ELSE fresh
    /\ told' = IF c.step = "ok" THEN told \cup {[item |-> c.item, target |-> c.target, press |-> c.press]} ELSE told
    /\ tries' = IF c.step = "bad" THEN [tries EXCEPT ![c.item] = @ + 1] ELSE tries
    /\ UNCHANGED <<queueView, posted, queued, presses>>

\* The page is loaded again.  The Home view has its items and their ids in the session
\* storage; nobody waits for the calls any more.
Reload ==
    /\ queueView = "home" /\ calls # {}
    /\ calls' = {}
    /\ UNCHANGED <<queueView, requestIDs, fresh, posted, queued, presses, told, tries>>

CallGoesOn(c) == StartCall(c) \/ Post(c) \/ Poll(c) \/ EndCall(c)

ViewNext ==
    \/ \E S \in SUBSET QueueItems, d \in QueueTargets : Press(S, d)
    \/ \E c \in calls : CallGoesOn(c)
    \/ \E r \in posted : Perform(r)
    \/ Reload

ViewSpec == ViewInit /\ [][ViewNext]_viewVars

\* The browser's own steps; nothing is assumed of the Mac.
ViewFairness == WF_viewVars(\E c \in calls : CallGoesOn(c))

-----------------------------------------------------------------------------
(* Properties.                                                             *)

ViewTypeOK ==
    /\ queueView \in Views
    /\ requestIDs \in [QueueItems -> 0..fresh]
    /\ fresh \in 0..(MaxPresses * Cardinality(QueueItems) + 1)
    /\ queued \subseteq {[id |-> r.id, item |-> r.item, target |-> r.target] : r \in posted}
    /\ \A c \in calls : /\ c.item \in QueueItems /\ c.target \in QueueTargets /\ c.press \in 1..presses
                        /\ c.id = 0 => c.step = "turn"
                        /\ c.step \in {"seek", "ok"} => \E j \in queued : j.id = c.id /\ j.item = c.item
    /\ presses \in 0..MaxPresses
    /\ tries \in [QueueItems -> 0..MaxPresses]

Jobs(i) == Cardinality({j \in queued : j.item = i})
Successes(i) == Cardinality({t \in told : t.item = i})

\* An item of the Feed is queued once for every success its reader was told of, and at
\* most once more while a try is open: however its calls fail, another try does not
\* queue it twice.  (The sources of the Feed page and of Lustre Watch.)
RetryQueuesOnce == queueView = "feed" => \A i \in QueueItems : Jobs(i) <= Successes(i) + 1

\* A page that is loaded again while Home's items are on their way queues none twice.
ReloadQueuesOnce == queueView = "home" => \A i \in QueueItems : Jobs(i) <= tries[i] + 1

\* "Queued to the selected destination" is said of a download of that item, to that
\* destination.
SuccessIsTheRequest ==
    \A t \in told : \E j \in queued : j.item = t.item /\ j.target = t.target

\* What is queued is what was asked for, and as often, through retries and reloads.
QueuedAsAsked == RetryQueuesOnce /\ ReloadQueuesOnce /\ SuccessIsTheRequest

\* Every call ends, also when the Mac never answers.
CallsEnd == []<>(calls = {})
=============================================================================
