------------------------------ MODULE FeedView ------------------------------
(***************************************************************************)
(* The Feed of the dashboard.  A page is asked for twice at once: what the *)
(* control plane has cached is shown at once, what the Mac answers replaces*)
(* it.  Cards of a page that is only cached may be looked at, but not      *)
(* queued; and the answers of an earlier request must not replace those of *)
(* a later one.                                                            *)
(***************************************************************************)
EXTENDS Integers

CONSTANTS
    FeedSites,      \* the sources the Mac reports
    FirstSite,      \* "hqporner", the one that is opened first
    Queries,        \* what may be searched for
    NoQuery,
    MaxFeedLoads    \* requests for a page

ASSUME FeedAssumption == FirstSite \in FeedSites /\ NoQuery \notin Queries /\ MaxFeedLoads \in Nat

NoSite == "no site"
ASSUME NoSiteAssumption == NoSite \notin FeedSites

VARIABLES
    feed,           \* what the reader is on: [site, query, page]
    cards,          \* the page the cards are of, and whether the Mac answered it
    liveReady,
    loading,
    feedLoads,      \* requests under way
    requestSequence,
    feedError

feedVars == <<feed, cards, liveReady, loading, feedLoads, requestSequence, feedError>>

Pages == 0..2
NoCards == [site |-> NoSite, query |-> NoQuery, page |-> 0, live |-> FALSE]
CardsOf(l, live) == [site |-> l.site, query |-> l.query, page |-> l.page, live |-> live]

\* initialFeedSite.
FeedInit ==
    /\ feed = [site |-> NoSite, query |-> NoQuery, page |-> 0]
    /\ cards = NoCards
    /\ liveReady = FALSE /\ loading = TRUE /\ feedError = FALSE
    /\ feedLoads = {} /\ requestSequence = 0

Request(kind, site, query, page) ==
    /\ requestSequence < MaxFeedLoads
    /\ requestSequence' = requestSequence + 1
    /\ feedLoads' = feedLoads \cup {[seq |-> requestSequence + 1, kind |-> kind, site |-> site,
                                     query |-> query, page |-> page, step |-> "asked"]}

\* The effect of the view, when it is opened.
FirstLoad ==
    /\ requestSequence = 0
    /\ Request("first", FirstSite, NoQuery, 1)
    /\ UNCHANGED <<feed, cards, liveReady, loading, feedError>>

\* The retry of a first load, which has shown no source yet.
RetryFirst ==
    /\ feedError /\ ~loading /\ feed.site = NoSite
    /\ Request("first", FirstSite, NoQuery, 1)
    /\ UNCHANGED <<feed, cards, liveReady, loading, feedError>>

\* Mutant: there is a page before the first.
NeighboursUnbounded(p) == {p - 1, p, p + 1} \cap Pages

\* What the page buttons and the retry button offer.
Neighbours(p) == {IF p = 0 THEN 1 ELSE p, p + 1, p - 1} \cap (Pages \ {0})

\* fetchPage: another page, or this one again.
FetchPage(p) ==
    /\ ~loading /\ feed.site # NoSite
    /\ p \in Neighbours(feed.page)
    /\ Request("page", feed.site, feed.query, p)
    /\ loading' = TRUE /\ liveReady' = FALSE /\ feedError' = FALSE
    /\ UNCHANGED <<feed, cards>>

\* submitSearch, and clearSearch for NoQuery.
Search(q) ==
    /\ ~loading /\ feed.site # NoSite
    /\ feed' = [feed EXCEPT !.query = q, !.page = 0]
    /\ cards' = NoCards
    /\ Request("page", feed.site, q, 1)
    /\ loading' = TRUE /\ liveReady' = FALSE /\ feedError' = FALSE

SelectSite(s) ==
    /\ ~loading /\ feed.site # NoSite
    /\ feed' = [feed EXCEPT !.site = s, !.query = NoQuery]
    /\ Request("site", s, NoQuery, 1)
    /\ loading' = TRUE /\ liveReady' = FALSE /\ feedError' = FALSE
    /\ UNCHANGED cards

\* Mutant: an answer is taken whatever was asked after it.
IsCurrentAlways(l) == l.seq <= requestSequence

\* The request is the last one.
IsCurrent(l) == l.seq = requestSequence

\* beginFeedCommand has an answer: the command was created, or joined, and a cached page
\* of the same site, query and page may come with it.
ShowCached(l) ==
    /\ l.step = "asked"
    /\ feedLoads' = (feedLoads \ {l}) \cup {[l EXCEPT !.step = "waiting"]}
    /\ \/ UNCHANGED <<feed, cards, loading>>
       \/ /\ IsCurrent(l)
          /\ feed' = [feed EXCEPT !.site = IF l.kind = "first" THEN l.site ELSE @, !.page = l.page]
          /\ cards' = CardsOf(l, FALSE)
          /\ loading' = FALSE
    /\ UNCHANGED <<liveReady, requestSequence, feedError>>

\* The Mac answers.
ShowLive(l) ==
    /\ l.step = "waiting"
    /\ feedLoads' = feedLoads \ {l}
    /\ IF IsCurrent(l)
       THEN /\ feed' = CASE l.kind = "first" -> [feed EXCEPT !.site = l.site, !.page = l.page]
                         [] l.kind = "site" -> [feed EXCEPT !.query = NoQuery, !.page = l.page]
                         [] OTHER -> [feed EXCEPT !.page = l.page]
            /\ cards' = CardsOf(l, TRUE)
            /\ liveReady' = TRUE /\ loading' = FALSE
       ELSE UNCHANGED <<feed, cards, liveReady, loading>>
    /\ UNCHANGED <<requestSequence, feedError>>

\* Mutant: a request that failed leaves the controls as they are.
EndsLoadingOnSuccess(l) == l.kind = "none"

\* Whose failure gives the controls back.
EndsLoading(l) == IsCurrent(l)

\* The command could not be created, failed, or was not answered within five minutes.
FailLoad(l) ==
    /\ feedLoads' = feedLoads \ {l}
    /\ feedError' = (feedError \/ IsCurrent(l))
    /\ loading' = (loading /\ ~EndsLoading(l))
    /\ UNCHANGED <<feed, cards, liveReady, requestSequence>>

FeedSteps(l) == ShowCached(l) \/ ShowLive(l) \/ FailLoad(l)

FeedNext ==
    \/ FirstLoad \/ RetryFirst
    \/ \E p \in Pages : FetchPage(p)
    \/ \E q \in Queries \cup {NoQuery} : Search(q)
    \/ \E s \in FeedSites : SelectSite(s)
    \/ \E l \in feedLoads : FeedSteps(l)

FeedSpec == FeedInit /\ [][FeedNext]_feedVars

\* Every request ends: a command is waited for at most 150 times.
FeedFairness == WF_feedVars(\E l \in feedLoads : FeedSteps(l))

-----------------------------------------------------------------------------
(* Properties.                                                             *)

FeedTypeOK ==
    /\ feed \in [site: FeedSites \cup {NoSite}, query: Queries \cup {NoQuery}, page: Pages]
    /\ cards \in [site: FeedSites \cup {NoSite}, query: Queries \cup {NoQuery}, page: Pages, live: BOOLEAN]
    /\ requestSequence \in 0..MaxFeedLoads
    /\ \A l \in feedLoads : l.seq <= requestSequence /\ l.step \in {"asked", "waiting"} /\ l.page # 0
    /\ {liveReady, loading, feedError} \subseteq BOOLEAN
    /\ feed.site = NoSite => cards = NoCards

\* The queue controls are open only while the cards shown are the Mac's own answer to what
\* the reader is on: this source, this search and this page.
QueueGateMatches ==
    liveReady => cards = [site |-> feed.site, query |-> feed.query, page |-> feed.page, live |-> TRUE]

\* An answer never puts back the cards of a request that a later one had replaced.
NoStaleCards ==
    [][cards' # cards /\ cards' # NoCards =>
          \E l \in feedLoads : l.seq = requestSequence /\ cards'.site = l.site
                               /\ cards'.query = l.query /\ cards'.page = l.page]_feedVars

\* The Feed shows, and lets queue, what the reader is on, in whatever order the sources
\* answer.
FeedIsCurrent == []QueueGateMatches /\ NoStaleCards

\* The controls come back: a reader is not locked out by a request that failed or was
\* overtaken.
ControlsComeBack == []<>(loading => requestSequence = 0)
=============================================================================
