----------------------------- MODULE WatchFeed -----------------------------
(***************************************************************************)
(* The Feed of Lustre Watch, the one the Cloud dashboard shows.  A page of *)
(* a site is asked of the Cloud, which keeps answers for five minutes.  The*)
(* site that refuses the Cloud is read by the companion extension: the page*)
(* and the extension exchange messages that carry the request's id, the    *)
(* extension reads a tab of its own, and the Cloud keeps what was read.    *)
(* Nothing puts the loads in order: a site may be chosen while one runs.   *)
(* The flag that closes the controls is also that of the extraction of a   *)
(* scene (SceneResolution), whose end opens them while a load runs.        *)
(***************************************************************************)
EXTENDS Naturals, Sequences

CONSTANTS
    WatchSites, FirstWatchSite,
    GuardedSite,   \* the site that wants a browser
    WatchQueries,  \* what may be typed, with NoText
    NoText,
    LastPage,
    MaxLoads,
    MaxExpiries,
    MaxResolves

\* The page is at no site until something is shown, and the query may be left empty.
ASSUME WatchAssumption ==
    /\ FirstWatchSite \in WatchSites /\ "none" \notin WatchSites /\ NoText \in WatchQueries
    /\ LastPage \in Nat \ {0} /\ MaxLoads \in Nat /\ MaxResolves \in Nat

VARIABLES
    watchSite,
    feedPage,     \* what is shown: [site, query, page]
    feedBusy,     \* busy
    resolves,     \* calls of resolve: how many began, and how many run
    loads,        \* the calls of loadFeed: [key, step, read]
    feedCache,    \* lustre_feed_cache: for each key, what was stored, or Nowhere
    tabs,         \* the extension's capture of a load: "none", "open", "done"
    expiries

watchVars == <<watchSite, feedPage, feedBusy, resolves, loads, feedCache, tabs, expiries>>

Keys == [site: WatchSites, query: WatchQueries, page: 1..LastPage]
Nowhere == [site |-> "none", query |-> NoText, page |-> 1]

Loading(s, q, p) == [key |-> [site |-> s, query |-> q, page |-> p], step |-> "asking", read |-> Nowhere]

WatchInit ==
    /\ watchSite = FirstWatchSite /\ feedPage = Nowhere
    /\ feedBusy = FALSE /\ loads = <<>>
    /\ resolves = [begun |-> 0, running |-> 0]
    /\ feedCache = [k \in Keys |-> Nowhere]
    /\ tabs = [n \in 1..MaxLoads |-> "none"] /\ expiries = 0

\* A load takes the query that is typed when it begins.
LoadFeed(s, q, p) ==
    /\ Len(loads) < MaxLoads
    /\ loads' = Append(loads, Loading(s, q, p))
    /\ feedBusy' = TRUE
    /\ UNCHANGED <<feedPage, resolves, feedCache, tabs, expiries>>

\* The effect when the view is opened.
OpenFeed == loads = <<>> /\ LoadFeed(watchSite, NoText, 1) /\ UNCHANGED watchSite

\* The effect that follows the site: the site buttons are open while a load runs.
ChooseSite(s, q) == loads # <<>> /\ s # watchSite /\ watchSite' = s /\ LoadFeed(s, q, 1)

SearchFeed(q) == loads # <<>> /\ ~feedBusy /\ LoadFeed(watchSite, q, 1) /\ UNCHANGED watchSite

\* Previous and Next: a page beside the one shown, of the query that is typed now.
TurnPage(q, p) ==
    /\ loads # <<>> /\ ~feedBusy /\ (p = feedPage.page + 1 \/ p + 1 = feedPage.page)
    /\ LoadFeed(watchSite, q, p)
    /\ UNCHANGED watchSite

ResolveBegins ==
    /\ loads # <<>> /\ resolves.begun < MaxResolves
    /\ resolves' = [begun |-> resolves.begun + 1, running |-> resolves.running + 1]
    /\ feedBusy' = TRUE
    /\ UNCHANGED <<watchSite, feedPage, loads, feedCache, tabs, expiries>>

\* The finally of resolve.
ResolveEnds ==
    /\ resolves.running > 0
    /\ resolves' = [resolves EXCEPT !.running = @ - 1]
    /\ feedBusy' = FALSE
    /\ UNCHANGED <<watchSite, feedPage, loads, feedCache, tabs, expiries>>

Step(n, from, to) == loads[n].step = from /\ loads' = [loads EXCEPT ![n].step = to]

\* Mutant: the controls are opened again by what was shown only.
EndsOnSuccess(n, from, success) ==
    /\ loads[n].step = from
    /\ loads' = [loads EXCEPT ![n] = [key |-> Nowhere, step |-> "over", read |-> Nowhere]]
    /\ feedBusy' = (feedBusy /\ ~success)

\* The finally of loadFeed; nothing of the call is left.
Ends(n, from, success) ==
    /\ loads[n].step = from
    /\ loads' = [loads EXCEPT ![n] = [key |-> Nowhere, step |-> "over", read |-> Nowhere]]
    /\ feedBusy' = FALSE

\* GET feed: what is kept, else the provider's page, which is kept.
FeedAnswers(n) ==
    LET key == loads[n].key
        content == IF feedCache[key] # Nowhere THEN feedCache[key] ELSE key
    IN  /\ Ends(n, "asking", TRUE)
        /\ feedPage' = content
        /\ feedCache' = [feedCache EXCEPT ![key] = content]
        /\ UNCHANGED <<watchSite, resolves, tabs, expiries>>

FeedFails(n) ==
    /\ Ends(n, "asking", FALSE)
    /\ UNCHANGED <<watchSite, feedPage, resolves, feedCache, tabs, expiries>>

\* The provider wants a browser: the page asks whether the extension is there.
FeedIsGuarded(n) ==
    /\ loads[n].key.site = GuardedSite /\ feedCache[loads[n].key] = Nowhere
    /\ Step(n, "asking", "pinging")
    /\ UNCHANGED <<watchSite, feedPage, feedBusy, resolves, feedCache, tabs, expiries>>

\* ready, then capture_allpornstream_feed: the extension opens a tab.  An older one is
\* ready too, and ignores the request.
ExtensionReady(n) ==
    /\ Step(n, "pinging", "capturing")
    /\ \E tab \in {"open", "none"} : tabs' = [tabs EXCEPT ![n] = tab]
    /\ UNCHANGED <<watchSite, feedPage, feedBusy, resolves, feedCache, expiries>>

\* Mutant: the page takes the extension's answer to any request.
TakesAny(m, n) == loads[m].step = "capturing"

\* message.requestID === requestID, by the listener that cleanup has not removed.
Takes(m, n) == loads[m].step = "capturing" /\ m = n

\* Mutant: a capture that fails leaves its tab.
ClosesOnSuccess(content) == IF content = Nowhere THEN "open" ELSE "done"

\* The finally of captureFeed.
Closes(content) == "done"

\* The tab is read, or did not load in time, or shows no cards.  The answer is heard by
\* the load that asked, if it still listens.  The address of the tab holds page and query.
CaptureFeed(n, content) ==
    /\ tabs[n] = "open"
    /\ tabs' = [tabs EXCEPT ![n] = Closes(content)]
    /\ loads' = [m \in DOMAIN loads |->
           IF Takes(m, n) THEN [loads[m] EXCEPT !.step = "keeping", !.read = content] ELSE loads[m]]
    /\ UNCHANGED <<watchSite, feedPage, feedBusy, resolves, feedCache, expiries>>

\* POST feed/capture, with the page and the query of the load: another page number is
\* refused, another query would not be noticed.
KeepCapture(n) ==
    LET key == loads[n].key
        read == loads[n].read
    IN  /\ read # Nowhere /\ read.page = key.page
        /\ Ends(n, "keeping", TRUE)
        /\ feedCache' = [feedCache EXCEPT ![key] = read]
        /\ feedPage' = read
        /\ UNCHANGED <<watchSite, resolves, tabs, expiries>>

\* Nothing was read, or the POST failed.
DropCapture(n) ==
    /\ Ends(n, "keeping", FALSE)
    /\ UNCHANGED <<watchSite, feedPage, resolves, feedCache, tabs, expiries>>

\* Mutant: only the wait for the extension's presence has a timer.
TimesOutPinging(n) == loads[n].step = "pinging"

\* One second for the extension to be there, thirty for its answer.
TimesOutWaiting(n) == loads[n].step \in {"pinging", "capturing"}

ExtensionTimesOut(n) ==
    /\ TimesOutWaiting(n)
    /\ Ends(n, loads[n].step, FALSE)
    /\ UNCHANGED <<watchSite, feedPage, resolves, feedCache, tabs, expiries>>

\* Five minutes after it was stored.
ExpirePage(k) ==
    /\ feedCache[k] # Nowhere /\ expiries < MaxExpiries
    /\ feedCache' = [feedCache EXCEPT ![k] = Nowhere]
    /\ expiries' = expiries + 1
    /\ UNCHANGED <<watchSite, feedPage, feedBusy, resolves, loads, tabs>>

LoadStep(n) ==
    \/ FeedAnswers(n) \/ FeedFails(n) \/ FeedIsGuarded(n)
    \/ ExtensionReady(n) \/ ExtensionTimesOut(n)
    \/ KeepCapture(n) \/ DropCapture(n)

\* The tab of a request that is over goes on, and nobody hears of it.
TabStep(n) == \E content \in Keys \cup {Nowhere} :
    /\ content \in {loads[n].key, Nowhere}
    /\ CaptureFeed(n, content)

WatchNext ==
    \/ OpenFeed \/ ResolveBegins \/ ResolveEnds
    \/ \E q \in WatchQueries :
           \/ SearchFeed(q)
           \/ \E s \in WatchSites : ChooseSite(s, q)
           \/ \E p \in 1..LastPage : TurnPage(q, p)
    \/ \E n \in DOMAIN loads : LoadStep(n) \/ TabStep(n)
    \/ \E k \in Keys : ExpirePage(k)

WatchSpec == WatchInit /\ [][WatchNext]_watchVars

LoadGoesOn(n) ==
    \/ FeedFails(n) \/ FeedAnswers(n) \/ KeepCapture(n) \/ DropCapture(n) \/ ExtensionTimesOut(n)

\* Requests are answered or time out, and an extraction ends (ResolvingEnds).  Of the tab
\* nothing is assumed but that it ends.
WatchFairness ==
    /\ \A n \in 1..MaxLoads : WF_watchVars(n \in DOMAIN loads /\ LoadGoesOn(n))
    /\ WF_watchVars(ResolveEnds)
    /\ WF_watchVars(\E n \in DOMAIN loads : TabStep(n))

-----------------------------------------------------------------------------
(* Properties.                                                             *)

\* Also: a load that is over, by an answer or not, has left the controls open, unless
\* another or an extraction has begun since; and what is kept under a site, a query and a page is the page
\* of that site and query, however many captures run at once (the Cloud checks the page
\* number alone).
WatchTypeOK ==
    /\ watchSite \in WatchSites
    /\ feedPage \in Keys \cup {Nowhere}
    /\ \A k \in Keys : feedCache[k] \in {k, Nowhere}
    /\ feedBusy => resolves.running > 0 \/ \E n \in DOMAIN loads : loads[n].step # "over"
    /\ \A n \in 1..MaxLoads : tabs[n] # "none" => n \in DOMAIN loads

\* The controls come back, also when the extension never answers.
FeedLoadsEnd == []<>~feedBusy

\* A tab that the extension opened is closed again, whatever became of the capture.
TabsClose == \A n \in 1..MaxLoads : []<>(tabs[n] # "open")
=============================================================================
