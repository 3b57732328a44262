--------------------------- MODULE HomeWorkspace ---------------------------
(***************************************************************************)
(* The Home view extracts a list of pages on the Mac, ten at a time: one   *)
(* command a batch, one after the other.  What has been answered and what  *)
(* is left is kept in the session storage, and taken up again when the     *)
(* view is mounted, when the Mac reconnects and when the batch destination *)
(* is changed.  The work that was under way is not stopped by any of these *)
(* but a load of the page, so that two runs may share one list; and        *)
(* another list can be submitted meanwhile, so that two lists share the    *)
(* storage.                                                                *)
(***************************************************************************)
EXTENDS Naturals, Sequences, FiniteSets

CONSTANTS
    Batches,        \* previewURLBatches gives so many
    MaxExtractions, \* lists the reader submits
    MaxResumes,     \* times the work is taken up again
    MaxRuns         \* runs at once

ASSUME HomeAssumption ==
    Batches \in Nat \ {0} /\ MaxExtractions \in Nat /\ MaxResumes \in Nat /\ MaxRuns \in Nat

VARIABLES
    mount,          \* which mount of the view this is, 0 while it is not shown
    extracting,
    session,        \* sessionStorage: a list [list, command, current, remaining, completed], or Nothing
    runs,           \* the calls of runPreviewBatch: [number, mount, pending, step]
    previews,       \* the extract_preview commands, in order: [list, batch, status]
    shown,          \* the batches of the review, in order
    lists,          \* lists submitted so far
    resumes

homeVars == <<mount, extracting, session, runs, previews, shown, lists, resumes>>

All == [i \in 1..Batches |-> i]
Nothing == [list |-> 0, command |-> 0, current |-> 0, remaining |-> <<>>, completed |-> <<>>]

HomeInit ==
    /\ mount = 1 /\ extracting = FALSE
    /\ session = Nothing /\ runs = {} /\ previews = <<>> /\ shown = <<>>
    /\ lists = 0 /\ resumes = 0

\* runPreviewBatch is called with a list.
Started(n, m, p) == [number |-> n, mount |-> m, pending |-> p, step |-> IF p.command # 0 THEN "wait" ELSE "next"]

Replace(r, p, step) == (runs \ {r}) \cup {[r EXCEPT !.pending = p, !.step = step]}

\* The button is disabled while a list is extracted; the key of the editor and the retries
\* of the review are not.
Extract ==
    /\ mount # 0 /\ lists < MaxExtractions /\ Cardinality(runs) < MaxRuns
    /\ lists' = lists + 1
    /\ extracting' = TRUE
    /\ runs' = runs \cup {Started(lists + 1 + resumes, mount, [Nothing EXCEPT !.list = lists + 1, !.remaining = All])}
    /\ UNCHANGED <<mount, session, previews, shown, resumes>>

\* Mutant: the batch that is posted stays among the remaining ones.
DequeuedNot(p) == [p EXCEPT !.command = Len(previews) + 1, !.current = Head(p.remaining)]

Dequeued(p) == [p EXCEPT !.command = Len(previews) + 1, !.current = Head(p.remaining),
                         !.remaining = Tail(@)]

\* POST commands creates a row for every batch: an extract_preview is never joined.
PostBatch(r) ==
    /\ r.step = "next" /\ r.pending.remaining # <<>>
    /\ previews' = Append(previews, [list |-> r.pending.list, batch |-> Head(r.pending.remaining), status |-> "pending"])
    /\ runs' = Replace(r, Dequeued(r.pending), "posted")
    /\ UNCHANGED <<mount, extracting, session, shown, lists, resumes>>

KeepBatch(r) ==
    /\ r.step = "posted"
    /\ session' = r.pending
    /\ runs' = Replace(r, r.pending, "wait")
    /\ UNCHANGED <<mount, extracting, previews, shown, lists, resumes>>

\* The Mac's answer.  That the command fails shows in FailRun alone.
AnswerPreview(i) ==
    /\ previews[i].status = "pending"
    /\ previews' = [previews EXCEPT ![i].status = "completed"]
    /\ UNCHANGED <<mount, extracting, session, runs, shown, lists, resumes>>

\* Mutant: an answer takes the place of those before it.
AnsweredAlone(p) == [p EXCEPT !.command = 0, !.current = 0, !.completed = <<p.current>>]

Answered(p) == [p EXCEPT !.command = 0, !.current = 0, !.completed = Append(@, p.current)]

PollBatch(r) ==
    /\ r.step = "wait" /\ previews[r.pending.command].status = "completed"
    /\ session' = Answered(r.pending)
    /\ runs' = Replace(r, Answered(r.pending), "next")
    /\ UNCHANGED <<mount, extracting, previews, shown, lists, resumes>>

\* Mutant: the end of a run leaves the button as it is.
StillExtractingAlways(r) == extracting

\* A run that ends, of the view that is mounted, opens the button.
StillExtracting(r) == extracting /\ r.mount # mount

\* applyPreview.  A view that is no longer mounted shows nothing.
Finish(r) ==
    /\ r.step = "next" /\ r.pending.remaining = <<>> /\ r.pending.command = 0
    /\ runs' = runs \ {r}
    /\ session' = Nothing
    /\ shown' = IF r.mount = mount THEN r.pending.completed ELSE shown
    /\ extracting' = StillExtracting(r)
    /\ UNCHANGED <<mount, previews, lists, resumes>>

\* Mutant: a batch that failed is waited for.
FailsOnlyPosting(r) == r.step \in {"next", "posted"}

\* Where a run may fail: posting, and a command that failed or that was polled 150 times.
MayFail(r) == r.step \in {"next", "wait"}

FailRun(r) ==
    /\ MayFail(r)
    /\ runs' = runs \ {r}
    /\ extracting' = StillExtracting(r)
    /\ UNCHANGED <<mount, session, previews, shown, lists, resumes>>

\* The effect that takes up what the session storage holds.
TakeUp(others, m) ==
    /\ mount' = m
    /\ resumes' = resumes + 1
    /\ runs' = others \cup (IF session = Nothing THEN {} ELSE {Started(lists + resumes + 1, m, session)})
    /\ extracting' = (session # Nothing \/ (extracting /\ m = mount))

\* The Mac reconnects, or the batch destination is changed.
Resume ==
    /\ mount # 0 /\ resumes < MaxResumes /\ Cardinality(runs) < MaxRuns
    /\ TakeUp(runs, mount)
    /\ UNCHANGED <<session, previews, shown, lists>>

\* Another view is opened; then Home again, with its items from the session storage.
Leave ==
    /\ mount # 0 /\ resumes < MaxResumes
    /\ mount' = 0
    /\ UNCHANGED <<extracting, session, runs, previews, shown, lists, resumes>>

Return ==
    /\ mount = 0 /\ Cardinality(runs) < MaxRuns
    /\ TakeUp(runs, resumes + 2)
    /\ UNCHANGED <<session, previews, shown, lists>>

ReloadPage ==
    /\ mount # 0 /\ resumes < MaxResumes
    /\ TakeUp({}, resumes + 2)
    /\ UNCHANGED <<session, previews, shown, lists>>

Clear ==
    /\ mount # 0 /\ (shown # <<>> \/ session # Nothing)
    /\ shown' = <<>> /\ session' = Nothing
    /\ UNCHANGED <<mount, extracting, runs, previews, lists, resumes>>

RunSteps(r) == PostBatch(r) \/ KeepBatch(r) \/ PollBatch(r) \/ Finish(r) \/ FailRun(r)

HomeNext ==
    \/ Extract \/ Resume \/ Leave \/ Return \/ ReloadPage \/ Clear
    \/ \E r \in runs : RunSteps(r)
    \/ \E i \in DOMAIN previews : AnswerPreview(i)

HomeSpec == HomeInit /\ [][HomeNext]_homeVars

\* The runs go on; nothing is assumed of the Mac.
HomeFairness == \A m \in 1..(MaxResumes + 1) :
    WF_homeVars(\E r \in runs : r.mount = m /\ RunSteps(r))

-----------------------------------------------------------------------------
(* Properties.                                                             *)

HomeTypeOK ==
    /\ mount \in 0..(MaxResumes + 1) /\ resumes \in 0..MaxResumes /\ lists \in 0..MaxExtractions
    /\ extracting \in BOOLEAN
    /\ previews \in Seq([list: 1..lists, batch: 1..Batches, status: {"pending", "completed"}])
    /\ \A r \in runs : /\ r.step \in {"next", "posted", "wait"}
                       /\ (r.pending.command = 0) = (r.step = "next")
    \* A spinner has a run behind it.
    /\ mount # 0 /\ extracting => runs # {}

\* The review shows every batch of its list, in the order submitted, whichever of the
\* runs that shared the list came to its end.
PreviewIsComplete == shown \in {<<>>, All}

\* Wherever the page is loaded again, the session storage holds a list from which no
\* batch is missing and none is extracted twice, and the command it waits for is that of
\* its current batch.
SessionIsResumable ==
    session # Nothing =>
        /\ session.completed \o (IF session.command = 0 THEN <<>> ELSE <<session.current>>) \o session.remaining = All
        /\ session.command # 0 => /\ session.command \in DOMAIN previews
                                  /\ previews[session.command].list = session.list
                                  /\ previews[session.command].batch = session.current

\* An extraction that is interrupted and resumed is the one that was begun.
ExtractionResumes == SessionIsResumable /\ PreviewIsComplete

\* An extraction ends, with a review or an error, also when the Mac never answers.
ExtractionEnds == []<>(~extracting \/ mount = 0)
=============================================================================
