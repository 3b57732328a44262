----------------------------- MODULE WatchVoid -----------------------------
(***************************************************************************)
(* The watchlist of Lustre Watch and the batches of its two lists of       *)
(* cards.  The view shows a change before the server has made it and takes *)
(* it back, by what the card showed when it was pressed, when it hears     *)
(* that it failed; saves and Undo read the whole list again.  Nothing      *)
(* closes a card's buttons, so that any number of calls may be under way,  *)
(* of one scene too; only one batch is.                                    *)
(***************************************************************************)
EXTENDS Naturals, Sequences, FiniteSets

CONSTANTS
    VoidScenes,
    VoidChunk,    \* calls of a batch in flight at once
    MaxSpent,     \* presses of buttons that call
    MaxPicks      \* presses of buttons that select

ASSUME VoidAssumption == VoidScenes # {}

VARIABLES
    rows,         \* lustre_watchlist_items: for each scene, [state, watched]
    listed,       \* the list that is shown: for each scene its entries, by their watched flag
    voidCalls,    \* requests under way: [n, kind, scene, watched, step, read, clean]
    undos,        \* the removals whose notice offers Undo: [scene, watched]
    picks,        \* the selected cards of the two lists
    batch,        \* the batch under way: [action, of, todo, bad], or NoBatch
    results,      \* batchResolutions
    spent, picking,
    tangled       \* the scenes of which the list may be wrong: see Properties

voidVars == <<rows, listed, voidCalls, undos, picks, batch, results, spent, picking, tangled>>

Lists == {"feed", "void"}
NoBatch == [action |-> "none", of |-> "feed", todo |-> {}, bad |-> {}]
Live(s) == rows[s].state = "live"

\* What a read of the list answers.
Entries(s) == IF Live(s) THEN <<rows[s].watched>> ELSE <<>>

Loads(c) == c.step \in {"load", "read"}
Saves(c) == c.kind \in {"save", "undo", "watchlist"}
InBatch(c) == c.kind \in {"download", "extract", "watchlist", "reload"}

\* The scenes whose entries or rows a call may change.
Footprint(c) ==
    IF c.kind \in {"download", "extract"} THEN {} ELSE IF Loads(c) THEN VoidScenes ELSE {c.scene}

\* These calls are under way, and then c, new or with another step: they may disturb each
\* other, and a list that is read now is good for the scenes nobody else is about.
Meets(others, c) ==
    LET theirs == UNION {Footprint(o) : o \in others}
    IN  /\ voidCalls' = {[o EXCEPT !.clean = @ \ Footprint(c)] : o \in others} \cup
                        {[c EXCEPT !.clean = VoidScenes \ theirs]}
        /\ tangled' = tangled \cup (Footprint(c) \cap theirs)

TurnsTo(c, step) == Meets(voidCalls \ {c}, [c EXCEPT !.step = step])

Call(n, kind, s, watched) ==
    [n |-> n, kind |-> kind, scene |-> s, watched |-> watched, clean |-> {},
     step |-> IF kind \in {"open", "reload"} THEN "load" ELSE "sent",
     read |-> [x \in VoidScenes |-> <<>>]]

\* The view opens, shows nothing and reads the list.
VoidInit ==
    /\ rows \in [VoidScenes -> [state : {"none", "live"}, watched : {FALSE}]]
    /\ listed = [s \in VoidScenes |-> <<>>]
    /\ voidCalls = {[Call(0, "open", CHOOSE s \in VoidScenes : TRUE, FALSE) EXCEPT !.clean = VoidScenes]}
    /\ undos = {} /\ picks = [l \in Lists |-> {}]
    /\ batch = NoBatch /\ results = [s \in VoidScenes |-> "none"]
    /\ spent = 0 /\ picking = 0 /\ tangled = VoidScenes

Presses(kind, s, watched) ==
    /\ spent < MaxSpent /\ spent' = spent + 1
    /\ Meets(voidCalls, Call(spent + 1, kind, s, watched))

-----------------------------------------------------------------------------
(* The buttons of the cards.                                               *)

ShowsEntry(s, watched) == \E k \in DOMAIN listed[s] : listed[s][k] = watched

\* A card of the Feed.
SaveScene(s) ==
    /\ Presses("save", s, FALSE)
    /\ UNCHANGED <<rows, listed, undos, picks, batch, results, picking>>

\* Every entry of the item shows the other flag.
ToggleWatched(s, watched) ==
    /\ ShowsEntry(s, watched)
    /\ Presses("toggle", s, watched)
    /\ listed' = [listed EXCEPT ![s] = [k \in DOMAIN @ |-> ~watched]]
    /\ UNCHANGED <<rows, undos, picks, batch, results, picking>>

RemoveScene(s, watched) ==
    /\ ShowsEntry(s, watched)
    /\ Presses("remove", s, watched)
    /\ listed' = [listed EXCEPT ![s] = <<>>]
    /\ picks' = [picks EXCEPT !["void"] = @ \ {s}]
    /\ UNCHANGED <<rows, undos, batch, results, picking>>

\* The notice of a removal stays for eight seconds.
UndoRemoval(u) ==
    /\ Presses("undo", u.scene, u.watched)
    /\ undos' = undos \ {u}
    /\ UNCHANGED <<rows, listed, picks, batch, results, picking>>

-----------------------------------------------------------------------------
(* The server.                                                             *)

\* A row that was removed is found again, as watched as it was.
Upsert(s) == rows' = [rows EXCEPT ![s].state = "live"]

\* PATCH: nothing is done to a row that is removed.
PatchWatched(s, watched) == Live(s) /\ rows' = [rows EXCEPT ![s].watched = watched]

DeleteRow(s) == rows[s].state # "none" /\ rows' = [rows EXCEPT ![s].state = "deleted"]

Serves(c) ==
    \/ c.step = "sent" /\ Saves(c) /\ Upsert(c.scene)
    \/ c.step = "sent" /\ c.kind = "toggle" /\ PatchWatched(c.scene, ~c.watched)
    \/ c.step = "sent" /\ c.kind = "remove" /\ DeleteRow(c.scene)
    \/ c.step = "patch" /\ PatchWatched(c.scene, TRUE)

\* The request is carried out; a request that is refused changes nothing, and one whose
\* sender was not answered is not carried out afterwards.
ServeCall(c) ==
    /\ Serves(c)
    /\ TurnsTo(c, IF c.step = "patch" THEN "patched" ELSE "done")
    /\ UNCHANGED <<listed, undos, picks, batch, results, spent, picking>>

ServeList(c) ==
    /\ c.step = "load"
    /\ voidCalls' = (voidCalls \ {c}) \cup {[c EXCEPT !.step = "read", !.read = [s \in VoidScenes |-> Entries(s)]]}
    /\ UNCHANGED <<rows, listed, undos, picks, batch, results, spent, picking, tangled>>

-----------------------------------------------------------------------------
(* The answers.                                                            *)

\* A change is done: what was shown stays, and a removal can be undone.
HearChange(c) ==
    /\ c.step = "done" /\ c.kind \in {"toggle", "remove"}
    /\ voidCalls' = voidCalls \ {c}
    /\ undos' = IF c.kind = "remove" THEN undos \cup {[scene |-> c.scene, watched |-> c.watched]} ELSE undos
    /\ UNCHANGED <<rows, listed, picks, batch, results, spent, picking, tangled>>

\* A scene is saved: the list is read again, after the flag of an Undo is set again.
HearSaved(c) ==
    /\ c.step \in {"done", "patched"} /\ c.kind \in {"save", "undo"}
    /\ TurnsTo(c, IF c.step = "done" /\ c.kind = "undo" /\ c.watched THEN "patch" ELSE "load")
    /\ UNCHANGED <<rows, listed, undos, picks, batch, results, spent, picking>>

\* The list replaces what is shown.
LoadWatchlist(c) ==
    /\ c.step = "read"
    /\ listed' = c.read
    /\ voidCalls' = voidCalls \ {c}
    /\ tangled' = tangled \ c.clean
    /\ batch' = IF c.kind = "reload" THEN NoBatch ELSE batch
    /\ UNCHANGED <<rows, undos, picks, results, spent, picking>>

\* Mutant: only a removal is taken back.
RollbackOfRemovals(c) == IF c.kind = "remove" THEN <<c.watched>> \o listed[c.scene] ELSE listed[c.scene]

\* The entries of a scene whose change failed.  A removed item comes back beside an entry
\* that a list has brought in the meantime, unless it was Undo that failed.
Rollback(c) ==
    CASE c.kind = "toggle" -> [k \in DOMAIN listed[c.scene] |-> c.watched]
      [] c.kind = "remove" -> <<c.watched>> \o listed[c.scene]
      [] c.kind = "undo" /\ listed[c.scene] = <<>> -> <<c.watched>>
      [] OTHER -> listed[c.scene]

\* A request is refused, or its answer is lost when the row is changed already.
FailCall(c) ==
    /\ ~InBatch(c)
    /\ listed' = [listed EXCEPT ![c.scene] = Rollback(c)]
    /\ voidCalls' = voidCalls \ {c}
    /\ tangled' = IF c.kind = "undo" \/ c.step # "sent" THEN tangled \cup {c.scene} ELSE tangled
    /\ UNCHANGED <<rows, undos, picks, batch, results, spent, picking>>

-----------------------------------------------------------------------------
(* Selections and batches.                                                 *)

Cards(l) == IF l = "feed" THEN VoidScenes ELSE {s \in VoidScenes : listed[s] # <<>>}

\* One card, all of them or none; a page of the Feed that is shown selects nothing.
Pick(l, S) ==
    /\ picking < MaxPicks /\ picking' = picking + 1
    /\ picks' = [picks EXCEPT ![l] = S]
    /\ UNCHANGED <<rows, listed, voidCalls, undos, batch, results, spent, tangled>>

\* The targets are those selected now.
BeginBatch(action, l) ==
    /\ batch = NoBatch /\ spent < MaxSpent
    /\ l = "void" => action # "watchlist"
    /\ LET targets == picks[l] \cap Cards(l)
       IN /\ targets # {}
          /\ batch' = [action |-> action, of |-> l, todo |-> targets, bad |-> {}]
          /\ results' = IF action = "extract"
                          THEN [s \in VoidScenes |-> IF s \in targets THEN "extracting" ELSE "none"]
                          ELSE results
    /\ spent' = spent + 1
    /\ UNCHANGED <<rows, listed, voidCalls, undos, picks, picking, tangled>>

BatchCalls == {c \in voidCalls : InBatch(c)}
VoidChunks(todo) ==
    {C \in SUBSET todo : Cardinality(C) = VoidChunk} \cup (IF Cardinality(todo) < VoidChunk THEN {todo} ELSE {})

\* inBatches: the next calls go when all of the last are settled.
SendChunk ==
    /\ BatchCalls = {} /\ batch.todo # {}
    /\ \E C \in VoidChunks(batch.todo) :
          LET new == {[Call(spent, batch.action, s, FALSE) EXCEPT !.clean = VoidScenes] : s \in C}
              touched == UNION {Footprint(c) : c \in new}
          IN /\ voidCalls' = {[o EXCEPT !.clean = @ \ touched] : o \in voidCalls} \cup new
             /\ tangled' = tangled \cup (touched \cap UNION {Footprint(o) : o \in voidCalls})
             /\ batch' = [batch EXCEPT !.todo = @ \ C]
    /\ UNCHANGED <<rows, listed, undos, picks, results, spent, picking>>

\* Mutant: the batch waits for all its calls to succeed.
SettledByAnswer(ok) == ok

\* allSettled: a call that failed is over like any other.
Settled(ok) == TRUE

\* Mutant: a scene whose extraction failed shows no result.
ResultsOfAnswers(s, ok) == IF batch.action = "extract" /\ ok THEN [results EXCEPT ![s] = "resolved"] ELSE results

ResultsWith(s, ok) ==
    IF batch.action = "extract"
      THEN [results EXCEPT ![s] = IF ok THEN "resolved" ELSE "failed"] ELSE results

\* Saves that were made show when the list is read.
SettleCall(c, ok) ==
    /\ c.kind = batch.action /\ (c.kind = "watchlist" /\ ok => c.step = "done")
    /\ Settled(ok)
    /\ voidCalls' = voidCalls \ {c}
    /\ batch' = [batch EXCEPT !.bad = IF ok THEN @ ELSE @ \cup {c.scene}]
    /\ results' = ResultsWith(c.scene, ok)
    /\ tangled' = IF c.step = "done" THEN tangled \cup {c.scene} ELSE tangled
    /\ UNCHANGED <<rows, listed, undos, picks, spent, picking>>

\* What failed is selected, and nothing that was selected meanwhile; an extraction leaves
\* the selection.  A batch of saves reads the list before it ends.
EndBatch ==
    /\ batch.action \notin {"none", "stuck"} /\ BatchCalls = {} /\ batch.todo = {}
    /\ picks' = IF batch.action = "extract" THEN picks ELSE [picks EXCEPT ![batch.of] = batch.bad]
    /\ IF batch.action = "watchlist"
         THEN Meets(voidCalls, Call(spent, "reload", CHOOSE s \in VoidScenes : TRUE, FALSE)) /\ UNCHANGED batch
         ELSE batch' = NoBatch /\ UNCHANGED <<voidCalls, tangled>>
    /\ UNCHANGED <<rows, listed, undos, results, spent, picking>>

\* When that cannot be read, nothing clears batchAction: no batch begins until the page is
\* loaded again.
FailReload(c) ==
    /\ c.kind = "reload"
    /\ voidCalls' = voidCalls \ {c}
    /\ batch' = [batch EXCEPT !.action = "stuck"]
    /\ UNCHANGED <<rows, listed, undos, picks, results, spent, picking, tangled>>

-----------------------------------------------------------------------------
BatchSteps ==
    \/ SendChunk \/ EndBatch
    \/ \E c \in BatchCalls :
          \/ \E ok \in BOOLEAN : SettleCall(c, ok)
          \/ LoadWatchlist(c) \/ FailReload(c)

VoidNext ==
    \/ \E s \in VoidScenes :
          \/ SaveScene(s)
          \/ \E watched \in BOOLEAN : ToggleWatched(s, watched) \/ RemoveScene(s, watched)
    \/ \E u \in undos : UndoRemoval(u)
    \/ \E c \in voidCalls : ServeCall(c) \/ ServeList(c)
    \/ \E c \in voidCalls \ BatchCalls : HearChange(c) \/ HearSaved(c) \/ LoadWatchlist(c) \/ FailCall(c)
    \/ \E l \in Lists :
          \/ \E S \in SUBSET Cards(l) : Pick(l, S)
          \/ \E action \in {"download", "extract", "watchlist"} : BeginBatch(action, l)
    \/ BatchSteps

VoidSpec == VoidInit /\ [][VoidNext]_voidVars

\* The calls of a batch end, answered or not.
VoidFairness == WF_voidVars(BatchSteps)

-----------------------------------------------------------------------------
(* Properties.  A scene is tangled when two calls that may change its      *)
(* entry overlapped, when its row was changed by a call that is reported   *)
(* to have failed, and when an Undo that failed put it back; a list that   *)
(* nobody's call overlapped untangles it.  The list is tangled at first.   *)

\* Also: an item is listed twice only when its calls overlapped, and when a batch of
\* extractions is over each scene of it shows what came of it.
VoidTypeOK ==
    /\ rows \in [VoidScenes -> [state : {"none", "live", "deleted"}, watched : BOOLEAN]]
    /\ \A s \in VoidScenes : Len(listed[s]) > 1 => s \in tangled
    /\ picks \in [Lists -> SUBSET VoidScenes] /\ tangled \subseteq VoidScenes
    /\ batch.todo \cap batch.bad = {}
    /\ \A s \in VoidScenes : results[s] = "extracting" => batch.action = "extract"

\* What the view shows of a scene is what is stored, when no call about it is under way and
\* it is not tangled: changes that are refused are taken back as they were, whatever is
\* done to other scenes in the meantime, and a list that was read undisturbed repairs
\* everything.
UntangledIsTrue ==
    \A s \in VoidScenes \ tangled :
        (\A c \in voidCalls : s \notin Footprint(c)) => listed[s] = Entries(s)

\* A batch ends, whatever becomes of its calls, but for the batch of saves that cannot read
\* the list afterwards.
BatchesEnd == []<>(batch.action \in {"none", "stuck"})
=============================================================================
