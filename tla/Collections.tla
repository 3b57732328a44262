---------------------------- MODULE Collections ----------------------------
(***************************************************************************)
(* The watchlist and the library of an account: rows of the cloud, edited  *)
(* by the browser and by the Mac, and the copy of the Mac.  The Mac edits  *)
(* its copy first and keeps the edit in an outbox; a sync sends the        *)
(* outbox, is told every change behind its cursor, and applies a page of   *)
(* them in one SQLite transaction.  The browser writes the row and records *)
(* the change in two statements, and the number of a change is drawn       *)
(* before the change is visible.                                           *)
(*                                                                         *)
(* One watchlist item and one library item stand for all: rows of other    *)
(* items never meet.                                                       *)
(***************************************************************************)
EXTENDS Picks

CONSTANTS
    Tabs,           \* browser requests that may overlap
    PageSize,       \* changes in an answer (100)
    MaxEdits,       \* edits of the browser and of the user on the Mac
    MaxClock,       \* completions of the download
    MaxSyncLosses   \* requests and answers lost

ASSUME CollectionsAssumption == PageSize \in Nat /\ MaxEdits \in Nat /\ MaxClock \in Nat /\ MaxSyncLosses \in Nat

VARIABLES
    cloud,          \* the rows of the account
    changeLog,      \* changes by number; one whose number is drawn may not be visible
    receipts,       \* mutations the cloud has a receipt of
    effects,        \* mutations in the order they were applied
    tab,            \* a browser request
    local,          \* the copy of the Mac
    outbox,         \* its mutations not acknowledged
    cursor,
    sync,           \* the synchronisation under way
    clock, jobs,    \* completions of the download by their time
    removedOn,      \* time of the user's last removal from the library
    nextMutation, edits, syncLosses,
    tangled         \* did a browser write overlap another, fail half-way or change a deleted row

collectionVars == <<cloud, changeLog, receipts, effects, tab, local, outbox, cursor, sync, clock,
                    jobs, removedOn, nextMutation, edits, syncLosses, tangled>>
cloudVars == <<cloud, changeLog, receipts, effects>>
macVars == <<local, outbox, cursor, nextMutation, clock, jobs, removedOn>>

WatchValues == {"absent", "unwatched", "watched"}
LibraryValues == {"absent", "plain", "favorite"}
NoSync == [step |-> "idle", sent |-> <<>>, acknowledged |-> {}, page |-> <<>>, cursor |-> 0, more |-> FALSE,
           bootstrap |-> [there |-> FALSE, watch |-> "absent", library |-> "absent"]]

CollectionInit ==
    /\ cloud = [watch |-> "absent", deleted |-> FALSE, library |-> "absent", favorite |-> FALSE, removedAt |-> 0]
    /\ changeLog = <<>> /\ receipts = {} /\ effects = <<>>
    /\ tab = [t \in Tabs |-> [step |-> "idle"]]
    /\ local = [watch |-> "absent", library |-> "absent"]
    /\ outbox = <<>> /\ cursor = 0 /\ sync = NoSync
    /\ clock = 0 /\ jobs = {} /\ removedOn = 0
    /\ nextMutation = 1 /\ edits = 0 /\ syncLosses = 0 /\ tangled = FALSE

Change(entity, value) == [entity |-> entity, value |-> value, visible |-> TRUE]

-----------------------------------------------------------------------------
(* The browser.                                                            *)

Busy(t) == tab[t].step # "idle"
Edit == edits < MaxEdits /\ edits' = edits + 1

\* The watchlist row as its edits leave it: POST keeps what was watched and takes a deletion
\* back, PATCH does not look at the deletion.
Edited(row, method, value) ==
    CASE method = "POST" -> [row EXCEPT !.watch = IF @ = "absent" THEN "unwatched" ELSE @, !.deleted = FALSE]
      [] method = "PATCH" -> [row EXCEPT !.watch = value]
      [] method = "DELETE" -> [row EXCEPT !.deleted = TRUE]

\* A request writes the row first; there must be one to change or to delete ...
WriteWatchlist(t) ==
    /\ ~Busy(t) /\ Edit
    /\ \E method \in {"POST", "PATCH", "DELETE"}, value \in {"unwatched", "watched"} :
          /\ method # "POST" => cloud.watch # "absent"
          /\ cloud' = Edited(cloud, method, value)
          /\ tab' = [tab EXCEPT ![t] = [step |-> "written", value |-> IF method = "DELETE" THEN "absent" ELSE cloud'.watch]]
          /\ tangled' = (tangled \/ (\E u \in Tabs : Busy(u)) \/ (method = "PATCH" /\ cloud.deleted))
    /\ UNCHANGED <<changeLog, receipts, effects, macVars, sync, syncLosses>>

\* ... and record the change with another statement, which draws its number ...
NumberChange(t) ==
    /\ tab[t].step = "written"
    /\ changeLog' = Append(changeLog, [Change("watch", tab[t].value) EXCEPT !.visible = FALSE])
    /\ tab' = [tab EXCEPT ![t] = [step |-> "numbered", number |-> Len(changeLog) + 1]]
    /\ UNCHANGED <<cloud, receipts, effects, macVars, sync, edits, syncLosses, tangled>>

\* ... and commits.
CommitChange(t) ==
    /\ tab[t].step = "numbered"
    /\ changeLog' = [changeLog EXCEPT ![tab[t].number].visible = TRUE]
    /\ tab' = [tab EXCEPT ![t] = [step |-> "idle"]]
    /\ UNCHANGED <<cloud, receipts, effects, macVars, sync, edits, syncLosses, tangled>>

\* The function is stopped between its statements: the change is never recorded.
AbandonWrite(t) ==
    /\ tab[t].step = "written"
    /\ tab' = [tab EXCEPT ![t] = [step |-> "idle"]]
    /\ tangled' = TRUE
    /\ UNCHANGED <<cloudVars, macVars, sync, edits, syncLosses>>

-----------------------------------------------------------------------------
(* The Mac's copy.                                                         *)

Queue(kind, value, time) ==
    /\ outbox' = Append(outbox, [id |-> nextMutation, kind |-> kind, value |-> value, completedAt |-> time])
    /\ nextMutation' = nextMutation + 1

SaveWatchlist == \E value \in WatchValues \ {"absent"} :
    /\ Edit /\ local' = [local EXCEPT !.watch = value] /\ Queue("watchlist_upsert", value, 0)
    /\ UNCHANGED <<cloudVars, tab, cursor, sync, clock, jobs, removedOn, syncLosses, tangled>>

RemoveWatchlist ==
    /\ Edit /\ local' = [local EXCEPT !.watch = "absent"] /\ Queue("watchlist_delete", "absent", 0)
    /\ UNCHANGED <<cloudVars, tab, cursor, sync, clock, jobs, removedOn, syncLosses, tangled>>

OrganizeLibrary ==
    /\ local.library = "plain"
    /\ Edit /\ local' = [local EXCEPT !.library = "favorite"] /\ Queue("library_organize", "favorite", 0)
    /\ UNCHANGED <<cloudVars, tab, cursor, sync, clock, jobs, removedOn, syncLosses, tangled>>

RemoveLibrary ==
    /\ local.library # "absent"
    /\ Edit /\ local' = [local EXCEPT !.library = "absent"] /\ Queue("library_delete", "absent", 0)
    /\ removedOn' = clock
    /\ UNCHANGED <<cloudVars, tab, cursor, sync, clock, jobs, syncLosses, tangled>>

DownloadCompletes ==
    /\ clock < MaxClock
    /\ clock' = clock + 1 /\ jobs' = jobs \cup {clock + 1}
    /\ UNCHANGED <<cloudVars, tab, local, outbox, cursor, sync, removedOn, nextMutation, edits, syncLosses, tangled>>

-----------------------------------------------------------------------------
(* A synchronisation.                                                      *)

\* refreshLocalProjection: a completed download that is not in the library is put there.
RefreshLocalProjection ==
    /\ sync.step = "idle"
    /\ IF jobs = {} \/ local.library # "absent" THEN UNCHANGED <<local, outbox, nextMutation>>
       ELSE \E time \in jobs : local' = [local EXCEPT !.library = "plain"] /\ Queue("library_upsert", "plain", time)
    /\ sync' = [NoSync EXCEPT !.step = "refreshed"]
    /\ UNCHANGED <<cloudVars, tab, cursor, clock, jobs, removedOn, edits, syncLosses, tangled>>

SendOutbox ==
    /\ sync.step = "refreshed"
    /\ sync' = [NoSync EXCEPT !.step = "sent", !.sent = outbox, !.cursor = cursor]
    /\ UNCHANGED <<cloudVars, macVars, tab, edits, syncLosses, tangled>>

\* Mutant: a removed item comes back with any upload of its completion.
IsStaleNever(row, time) == time < row.removedAt

\* staleDeletedCompletion.
IsStale(row, time) == row.library = "removed" /\ time <= row.removedAt

\* Mutant: the receipts are not looked at.
IsNewAlways(m, known) == known = known

IsNew(m, known) == m.id \notin known

\* A mutation on the row, and the change it records: none of one that found no row.
Applied(row, m) ==
    CASE m.kind = "watchlist_upsert" -> [row EXCEPT !.watch = m.value, !.deleted = FALSE]
      [] m.kind = "watchlist_delete" -> [row EXCEPT !.deleted = row.watch # "absent"]
      [] m.kind = "library_upsert" /\ ~IsStale(row, m.completedAt) -> [row EXCEPT !.library = "there"]
      [] m.kind = "library_organize" /\ row.library = "there" -> [row EXCEPT !.favorite = TRUE]
      [] m.kind = "library_delete" /\ row.library # "absent" -> [row EXCEPT !.library = "removed", !.removedAt = clock]
      [] OTHER -> row
WatchValue(row) == IF row.deleted THEN "absent" ELSE row.watch
LibraryValue(row) == IF row.library # "there" THEN "absent" ELSE IF row.favorite THEN "favorite" ELSE "plain"
Recorded(row, m) ==
    CASE m.kind = "watchlist_delete" /\ row.watch = "absent" -> <<>>
      [] m.kind = "watchlist_delete" /\ row.watch # "absent" -> <<Change("watch", "absent")>>
      [] m.kind = "watchlist_upsert" -> <<Change("watch", WatchValue(Applied(row, m)))>>
      [] m.kind = "library_upsert" /\ IsStale(row, m.completedAt) -> <<>>
      [] m.kind \in {"library_organize", "library_delete"} /\ row.library = "absent" -> <<>>
      [] m.kind = "library_organize" /\ row.library = "removed" -> <<>>
      [] OTHER -> <<Change("library", LibraryValue(Applied(row, m)))>>

\* Mutant: only the mutations this request applied are acknowledged.
AcknowledgedNew(sent, known) == {sent[i].id : i \in 1..Len(sent)} \ known

\* Every mutation of the request is acknowledged, those an earlier request applied too.
Acknowledged(sent, known) == {sent[i].id : i \in 1..Len(sent)}

\* The account after a mutation, which is skipped if there is a receipt of it.
Mutated(before, m) ==
    IF ~IsNew(m, before.receipts) THEN before
    ELSE [cloud |-> Applied(before.cloud, m), log |-> before.log \o Recorded(before.cloud, m),
          receipts |-> before.receipts \cup {m.id}, effects |-> Append(before.effects, m.id)]

\* The transaction of synchronizeCollections: the mutations of the request, in order.
ApplyMutations ==
    LET steps[n \in 0..Len(sync.sent)] ==
            IF n = 0 THEN [cloud |-> cloud, log |-> changeLog, receipts |-> receipts, effects |-> effects]
            ELSE Mutated(steps[n - 1], sync.sent[n])
        last == steps[Len(sync.sent)]
    IN
    /\ sync.step = "sent"
    /\ cloud' = last.cloud /\ changeLog' = last.log /\ receipts' = last.receipts /\ effects' = last.effects
    /\ sync' = [sync EXCEPT !.step = "committed", !.acknowledged = Acknowledged(sync.sent, receipts)]
    /\ tangled' = (tangled \/ (sync.sent # <<>> /\ \E t \in Tabs : Busy(t)))
    /\ UNCHANGED <<macVars, tab, edits, syncLosses>>

Behind(n) == {k \in (n + 1)..Len(changeLog) : changeLog[k].visible}

\* Mutant: the cursor of the answer is the newest change, not the last of the page.
NextCursorNewest(page) ==
    IF page = {} THEN sync.cursor ELSE CHOOSE n \in Behind(sync.cursor) : \A k \in Behind(sync.cursor) : k <= n

NextCursor(page) == IF page = {} THEN sync.cursor ELSE CHOOSE n \in page : \A k \in page : k <= n

\* Mutant: the changes are not limited.
FitsPageAlways(n, behind) == n \in behind

FitsPage(n, behind) == Cardinality({k \in behind : k <= n}) <= PageSize

\* The first changes behind the cursor.
ReadChanges ==
    LET behind == Behind(sync.cursor)
        page == {n \in behind : FitsPage(n, behind)}
    IN
    /\ sync.step = "committed"
    /\ sync' = [sync EXCEPT !.step = IF sync.cursor = 0 /\ sync.sent = <<>> THEN "bootstrap" ELSE "answered",
                            !.page = Picked(changeLog, page),
                            !.cursor = NextCursor(page), !.more = (page # behind)]
    /\ UNCHANGED <<cloudVars, macVars, tab, edits, syncLosses, tangled>>

\* A first sync is given the rows as they are too.
ReadBootstrap ==
    /\ sync.step = "bootstrap"
    /\ sync' = [sync EXCEPT !.step = "answered",
                            !.bootstrap = [there |-> TRUE, watch |-> WatchValue(cloud), library |-> LibraryValue(cloud)]]
    /\ UNCHANGED <<cloudVars, macVars, tab, edits, syncLosses, tangled>>

\* The bootstrap, which removes nothing, then the page, in order: the last change of an
\* entity stands.
After(entity, before) ==
    LET given == sync.bootstrap[entity]
        mine == {i \in 1..Len(sync.page) : sync.page[i].entity = entity}
    IN IF mine # {} THEN sync.page[CHOOSE i \in mine : \A j \in mine : j <= i].value
       ELSE IF sync.bootstrap.there /\ given # "absent" THEN given ELSE before

\* CloudCollectionStore.apply: changes, acknowledgements and cursor in one transaction.
ApplyChanges ==
    /\ sync.step = "answered"
    /\ local' = [watch |-> After("watch", local.watch), library |-> After("library", local.library)]
    /\ outbox' = Picked(outbox, {i \in 1..Len(outbox) : outbox[i].id \notin sync.acknowledged})
    /\ cursor' = sync.cursor
    /\ sync' = IF sync.more THEN [NoSync EXCEPT !.step = "refreshed"] ELSE NoSync
    /\ UNCHANGED <<cloudVars, tab, nextMutation, clock, jobs, removedOn, edits, syncLosses, tangled>>

\* The request or its answer is lost, or the agent stops; the outbox and the cursor stay.
LoseSync ==
    /\ sync.step # "idle" /\ syncLosses < MaxSyncLosses
    /\ syncLosses' = syncLosses + 1 /\ sync' = NoSync
    /\ UNCHANGED <<cloudVars, macVars, tab, edits, tangled>>

\* The loop of CloudCollectionSync.
CollectionLoop ==
    RefreshLocalProjection \/ SendOutbox \/ ApplyMutations \/ ReadChanges \/ ReadBootstrap \/ ApplyChanges

CollectionNext ==
    \/ \E t \in Tabs : WriteWatchlist(t) \/ NumberChange(t) \/ CommitChange(t) \/ AbandonWrite(t)
    \/ SaveWatchlist \/ RemoveWatchlist \/ OrganizeLibrary \/ RemoveLibrary \/ DownloadCompletes
    \/ CollectionLoop \/ LoseSync

CollectionSpec == CollectionInit /\ [][CollectionNext]_collectionVars

\* The loop of the agent runs every thirty seconds and its requests are answered or time out.
CollectionFairness == WF_collectionVars(CollectionLoop)

-----------------------------------------------------------------------------
(* Properties.                                                             *)

CollectionTypeOK ==
    /\ cloud \in [watch: WatchValues, deleted: BOOLEAN, library: {"absent", "there", "removed"}, favorite: BOOLEAN, removedAt: 0..MaxClock]
    /\ \A n \in 1..Len(changeLog) :
          changeLog[n] \in [entity: {"watch", "library"}, value: WatchValues \cup LibraryValues, visible: BOOLEAN]
    /\ receipts = {effects[i] : i \in 1..Len(effects)} /\ receipts \subseteq 1..(nextMutation - 1)
    /\ \A t \in Tabs : tab[t].step \in {"idle", "written", "numbered"}
    /\ local \in [watch: WatchValues, library: LibraryValues]
    /\ cursor \in 0..Len(changeLog)
    /\ Len(sync.page) <= PageSize /\ sync.acknowledged \subseteq receipts
    /\ sync.step \in {"idle", "refreshed", "sent", "committed", "bootstrap", "answered"}
    /\ jobs \subseteq 1..clock /\ clock \in 0..MaxClock /\ removedOn \in 0..clock
    /\ nextMutation \in 1..(2 + 3 * MaxEdits) /\ edits \in 0..MaxEdits /\ syncLosses \in 0..MaxSyncLosses

\* No mutation takes effect twice, however often its request is repeated after a lost
\* answer: an edit made meanwhile in the browser is not undone by the repetition.
MutationsApplyOnce == Cardinality(receipts) = Len(effects)

IsQuiet ==
    /\ sync.step = "idle" /\ outbox = <<>> /\ Behind(cursor) = {}
    /\ \A t \in Tabs : ~Busy(t)

\* When nothing is under way and the Mac has read every change, its copy is the cloud's:
\* the watchlist item, and a library item the cloud lists.  Not after browser writes that
\* overlapped other writes or stopped half-way, whose changes are recorded in an order of
\* their own or not at all, or that marked a deleted item, whose change revives it on the
\* Mac only; and a library item the cloud removed may be back on the Mac.
QuietCopiesAgree ==
    IsQuiet /\ ~tangled =>
        /\ local.watch = WatchValue(cloud)
        /\ cloud.library = "there" => local.library = LibraryValue(cloud)

\* The library item of the cloud comes back only with a download completed after its user
\* removed it, although every sync finds the old download on the Mac and uploads it again.
RemovedIsNotRevived ==
    cloud.library = "there" /\ (\A i \in 1..Len(outbox) : outbox[i].kind # "library_delete")
        => \E time \in jobs : time > removedOn \/ removedOn = 0

\* The Mac and the cloud come to agree on the collections, by mutations that are sent again
\* and changes that are read in pages.
CollectionsAgree == MutationsApplyOnce /\ QuietCopiesAgree /\ RemovedIsNotRevived

\* The outbox drains, whatever requests and answers were lost, if the cloud accepts what is
\* in it.
EditsReachTheCloud == []<>(outbox = <<>>)
=============================================================================
