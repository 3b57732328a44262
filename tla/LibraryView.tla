---------------------------- MODULE LibraryView ----------------------------
(***************************************************************************)
(* The Library.  The Mac derives it from its jobs: one item for each       *)
(* source, known by the id of the source's newest job, so that sending a   *)
(* source again gives its item another id.  The view shows the copy that   *)
(* the cloud keeps, then what the Mac answers; it sends the Mac commands   *)
(* about one item or, three at a time, about the items that are selected.  *)
(* Every answer is a snapshot of the whole, and the view shows whichever it*)
(* heard last.                                                             *)
(***************************************************************************)
EXTENDS Naturals, Sequences, FiniteSets

CONSTANTS
    Sources,          \* the sources that were downloaded
    OrderKinds,       \* the commands the reader gives
    LibraryChunk,     \* commands of a batch in flight at once
    MaxOrders,        \* presses of the buttons that send commands
    MaxRefreshes,
    MaxToggles        \* items selected or no longer selected by hand

ASSUME LibraryAssumption ==
    /\ OrderKinds \subseteq {"library_update", "library_remove", "library_verify", "queue_url"}
    /\ LibraryChunk \in Nat \ {0} /\ IsFiniteSet(Sources)
    /\ MaxOrders \in Nat

VARIABLES
    library,          \* the items of the Mac: [source, job]
    newest,           \* the last job of the Mac
    asks,             \* the command rows the Mac has not carried out: [kind, item, order]
    listing,          \* the items the view shows
    cachedListing,    \* the snapshot the cloud keeps
    selected,
    libraryBusy,
    orders,           \* presses under way: [n, kind, todo, ok, bad]
    libraryCalls,     \* their calls: [order, item, step, heard]
    refreshes,        \* refreshes under way: [n, step, heard]
    pressed, refreshed, toggled,
    sentItems,        \* reported sent, and not selected since
    crossed           \* two orders were under way at once, or one could not read the jobs

macVars == <<library, newest>>
libraryVars == <<macVars, asks, listing, cachedListing, selected, libraryBusy, orders,
                 libraryCalls, refreshes, pressed, refreshed, toggled, sentItems, crossed>>

Item(s, n) == [source |-> s, job |-> n]
Items == {Item(s, n) : s \in Sources, n \in 0..(MaxOrders * Cardinality(Sources))}
NoItem == Item("none", 0)

\* The selection is that of the session storage.
LibraryInit ==
    /\ library = {Item(s, 0) : s \in Sources} /\ newest = 0
    /\ asks = <<>> /\ listing = {} /\ cachedListing = library
    /\ selected \in SUBSET library
    /\ libraryBusy = FALSE /\ orders = {} /\ libraryCalls = {} /\ refreshes = {}
    /\ pressed = 0 /\ refreshed = 0 /\ toggled = 0
    /\ sentItems = {} /\ crossed = FALSE

-----------------------------------------------------------------------------
(* The Mac carries the commands out in the order of their rows.            *)

\* Mutant: jobs of one source are items of their own.
RequeuedBeside(i) == newest' = newest + 1 /\ library' = library \cup {Item(i.source, newest + 1)}

\* The source has another job, which is the newest: its item, also one that was removed,
\* goes by that job's id from now on.
Requeued(i) ==
    /\ newest' = newest + 1
    /\ library' = {j \in library : j.source # i.source} \cup {Item(i.source, newest + 1)}

Done(r) ==
    CASE r.kind = "queue_url" -> Requeued(r.item)
      [] r.kind = "library_remove" -> library' = library \ {r.item} /\ UNCHANGED newest
      [] OTHER -> UNCHANGED macVars

\* Those who wait for the row learn how it ended.
Reports(r, status) ==
    /\ libraryCalls' = {IF c.step = "wait" /\ c.order = r.order /\ c.item = r.item
                          THEN [c EXCEPT !.step = status, !.heard = library'] ELSE c : c \in libraryCalls}
    /\ refreshes' = {IF f.step = "wait" /\ r.kind = "library_list"
                       THEN [f EXCEPT !.step = status, !.heard = library'] ELSE f : f \in refreshes}

\* An item nobody knows is refused, and a row may expire.  What was done may be too large
\* to report.
CarryOut ==
    /\ asks # <<>>
    /\ asks' = Tail(asks)
    /\ LET r == Head(asks)
       IN \/ /\ r.kind \in {"library_list", "queue_url"} \/ r.item \in library
             /\ Done(r)
             /\ \E status \in {"completed", "failed"} : Reports(r, status)
          \/ UNCHANGED macVars /\ Reports(r, "failed")
    /\ UNCHANGED <<listing, cachedListing, selected, libraryBusy, orders, pressed, refreshed,
                   toggled, sentItems, crossed>>

-----------------------------------------------------------------------------
(* The view's commands.                                                    *)

\* Sending is about the selected items that are shown.
Targets(kind) == IF kind = "queue_url" THEN listing \cap selected ELSE selected

Begins(kind, todo) ==
    /\ ~libraryBusy /\ pressed < MaxOrders
    /\ pressed' = pressed + 1
    /\ libraryBusy' = TRUE
    /\ crossed' = (crossed \/ orders # {})
    /\ orders' = orders \cup {[n |-> pressed + 1, kind |-> kind, todo |-> todo, ok |-> {}, bad |-> {}]}
    /\ UNCHANGED <<macVars, asks, listing, cachedListing, selected, libraryCalls, refreshes,
                   refreshed, toggled, sentItems>>

\* Save Organization, Favorite, Verify Copies and Remove of the item that is open.
Mutate(kind, i) == i \in listing /\ kind # "queue_url" /\ Begins(kind, {i})

\* Send, Verify Copies and Remove of those that are selected.
MutateSelected(kind) == selected # {} /\ kind # "library_update" /\ Begins(kind, Targets(kind))

CallsOf(o) == {c \in libraryCalls : c.order = o.n}
Chunks(todo) ==
    {C \in SUBSET todo : Cardinality(C) = LibraryChunk} \cup
    (IF Cardinality(todo) < LibraryChunk THEN {todo} ELSE {})

StartChunk(o) ==
    /\ CallsOf(o) = {} /\ o.todo # {}
    /\ \E C \in Chunks(o.todo) :
          /\ libraryCalls' = libraryCalls \cup
                 {[order |-> o.n, item |-> i, step |-> "post", heard |-> {}] : i \in C}
          /\ orders' = (orders \ {o}) \cup {[o EXCEPT !.todo = @ \ C]}
    /\ UNCHANGED <<macVars, asks, listing, cachedListing, selected, libraryBusy, refreshes,
                   pressed, refreshed, toggled, sentItems, crossed>>

\* begin.  The post may fail; that its answer is lost when the row is there is a wait that
\* is given up at once.
PostOrder(o, c) ==
    /\ c.step = "post"
    /\ \/ /\ asks' = Append(asks, [kind |-> o.kind, item |-> c.item, order |-> o.n])
          /\ libraryCalls' = (libraryCalls \ {c}) \cup {[c EXCEPT !.step = "wait"]}
       \/ libraryCalls' = (libraryCalls \ {c}) \cup {[c EXCEPT !.step = "failed"]} /\ UNCHANGED asks
    /\ UNCHANGED <<macVars, listing, cachedListing, selected, libraryBusy, orders, refreshes, pressed,
                   refreshed, toggled, sentItems, crossed>>

WasAnswered(step) == step = "completed"

\* wait: until the command is over, a poll fails or the attempts are used up.
HearOrder(o, c) ==
    /\ \/ /\ WasAnswered(c.step)
          /\ listing' = IF o.kind = "queue_url" THEN listing ELSE c.heard
          /\ orders' = (orders \ {o}) \cup {[o EXCEPT !.ok = @ \cup {c.item}]}
       \/ /\ c.step # "post"
          /\ orders' = (orders \ {o}) \cup {[o EXCEPT !.bad = @ \cup {c.item}]}
          /\ UNCHANGED listing
    /\ libraryCalls' = libraryCalls \ {c}
    /\ UNCHANGED <<macVars, asks, cachedListing, selected, libraryBusy, refreshes, pressed,
                   refreshed, toggled, sentItems, crossed>>

\* Mutant: the selection becomes what failed.
KeepsFailures(o) == o.bad

\* Mutant: what was done stays selected.
KeepsAll(o) == selected

\* What stays selected when an order ends.
Keeps(o) == IF o.kind \in {"library_remove", "queue_url"} THEN selected \ o.ok ELSE selected

\* Mutant: the buttons open again when all went well.
StaysBusyOnFailure(o) == o.bad # {}

\* Are the buttons closed still?
StaysBusy(o) == FALSE

\* After a success of Send the jobs are read again, and when they cannot be, the selection
\* is left as it is.
EndOrder(o) ==
    /\ o.todo = {} /\ CallsOf(o) = {}
    /\ orders' = orders \ {o}
    /\ \/ selected' = Keeps(o) /\ UNCHANGED crossed
       \/ o.kind = "queue_url" /\ o.ok # {} /\ crossed' = TRUE /\ UNCHANGED selected
    /\ libraryBusy' = StaysBusy(o)
    /\ sentItems' = IF o.kind = "queue_url" THEN sentItems \cup o.ok ELSE sentItems
    /\ UNCHANGED <<macVars, asks, listing, cachedListing, libraryCalls, refreshes, pressed, refreshed,
                   toggled>>

-----------------------------------------------------------------------------
(* Refreshing and selecting.                                               *)

RefreshFrame ==
    UNCHANGED <<macVars, cachedListing, selected, orders, libraryCalls, pressed, toggled, sentItems, crossed>>

\* By the button, or when the view opens and whenever the Mac comes or goes, whatever is
\* under way.
Refresh ==
    /\ refreshed < MaxRefreshes
    /\ refreshed' = refreshed + 1
    /\ refreshes' = refreshes \cup {[n |-> refreshed + 1, step |-> "cache", heard |-> {}]}
    /\ UNCHANGED <<asks, listing, libraryBusy>> /\ RefreshFrame

\* What is shown after the copy was asked for: it, or what was, when the call fails or no
\* copy is kept.
CachedAnswers == {listing, cachedListing}

\* The copy the cloud keeps is shown; without a connection, or when the cloud cannot be
\* reached, that is all.
LoadCache(f) ==
    /\ f.step = "cache"
    /\ listing' \in CachedAnswers
    /\ \/ refreshes' = refreshes \ {f} /\ UNCHANGED libraryBusy
       \/ refreshes' = (refreshes \ {f}) \cup {[f EXCEPT !.step = "post"]} /\ libraryBusy' = TRUE
    /\ UNCHANGED <<asks, refreshed>> /\ RefreshFrame

\* A list that is asked for already is joined.
ListIsAsked == \E k \in DOMAIN asks : asks[k].kind = "library_list"

AskForList(f) ==
    /\ f.step = "post"
    /\ asks' = IF ListIsAsked THEN asks ELSE Append(asks, [kind |-> "library_list", item |-> NoItem, order |-> 0])
    /\ refreshes' = (refreshes \ {f}) \cup {[f EXCEPT !.step = "wait"]}
    /\ UNCHANGED <<listing, libraryBusy, refreshed>> /\ RefreshFrame

\* Answered or not, the buttons open, whatever else is under way.
EndRefresh(f) ==
    /\ f.step # "cache"
    /\ \/ WasAnswered(f.step) /\ listing' = f.heard
       \/ UNCHANGED listing
    /\ refreshes' = refreshes \ {f}
    /\ libraryBusy' = FALSE
    /\ UNCHANGED <<asks, refreshed>> /\ RefreshFrame

Toggle(i) ==
    /\ i \in listing /\ toggled < MaxToggles
    /\ toggled' = toggled + 1
    /\ IF i \in selected THEN selected' = selected \ {i} /\ UNCHANGED sentItems
       ELSE selected' = selected \cup {i} /\ sentItems' = sentItems \ {i}
    /\ UNCHANGED <<macVars, asks, listing, cachedListing, libraryBusy, orders, libraryCalls,
                   refreshes, pressed, refreshed, crossed>>

\* When the calls of a chunk are over, what follows is done before anything else, unless
\* it waits for the jobs.
IsTurn(o) == CallsOf(o) = {} /\ (o.todo # {} \/ o.kind # "queue_url" \/ o.ok = {})

OrderCalls(o) == \E c \in CallsOf(o) : PostOrder(o, c) \/ HearOrder(o, c)
OrderSteps(o) == StartChunk(o) \/ EndOrder(o)
RefreshSteps(f) == LoadCache(f) \/ AskForList(f) \/ EndRefresh(f)

LibraryNext ==
    \/ \E o \in orders : OrderSteps(o)
    \/ /\ \A o \in orders : ~IsTurn(o)
       /\ \/ CarryOut
          \/ \E kind \in OrderKinds, i \in Items : Mutate(kind, i)
          \/ \E kind \in OrderKinds : MutateSelected(kind)
          \/ \E o \in orders : OrderCalls(o)
          \/ Refresh
          \/ \E f \in refreshes : RefreshSteps(f)
          \/ \E i \in Items : Toggle(i)

LibrarySpec == LibraryInit /\ [][LibraryNext]_libraryVars

\* The browser's own steps; nothing is assumed of the Mac.
LibraryFairness ==
    WF_libraryVars((\E o \in orders : OrderSteps(o) \/ OrderCalls(o)) \/ (\E f \in refreshes : RefreshSteps(f)))

-----------------------------------------------------------------------------
(* Properties.                                                             *)

LibraryTypeOK ==
    /\ library \subseteq Items /\ listing \subseteq Items /\ selected \subseteq Items
    /\ \A i, j \in library : i.source = j.source => i = j
    /\ \A o \in orders : o.n \in 1..pressed /\ o.ok \cap o.bad = {}
    /\ \A c \in libraryCalls : \E o \in orders : o.n = c.order /\ c.item \notin o.todo \cup o.ok \cup o.bad
    /\ Cardinality({k \in DOMAIN asks : asks[k].kind = "library_list"}) <= 1
    /\ orders # {} => libraryBusy \/ refreshed > 0
    /\ sentItems \subseteq Items

\* An item leaves the selection by itself only when what was asked of it was done, so that
\* the Mac knows it no more: it is removed, or its source has a newer job.  What failed, and
\* what was selected in the meantime, is there to be tried.  ("Retry will submit failed
\* items only.")
DroppedIsDone == [][\A i \in selected \ selected' : orders' # orders => i \notin library]_libraryVars

\* An item that was sent is not sent again unless it is selected again, however often
\* sending the selection is tried: but for two batches under way at once, or jobs that could
\* not be read after one.  ("Successful items were not resubmitted.")
SentOncePerPick ==
    \A o \in orders : o.kind = "queue_url" /\ ~crossed =>
        sentItems \cap (o.todo \cup o.ok \cup o.bad \cup {c.item : c \in CallsOf(o)}) = {}

\* A batch of the Library does once what was picked, and keeps what it could not do.
PickedIsDoneOnce == []SentOncePerPick /\ DroppedIsDone

\* The buttons always open again, also when the Mac never answers.
LibraryOpens == []<>~libraryBusy
=============================================================================
