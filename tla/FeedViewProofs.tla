--------------------------- MODULE FeedViewProofs ---------------------------
(***************************************************************************)
(* Proofs about the Feed, for any sources, searches and number of requests, *)
(* and about what stands beside it in the dashboard: the refreshes of its  *)
(* rows, the Library, and the queueing of downloads.                       *)
(*                                                                         *)
(* The inductive invariant of the Feed follows the last request.  It is the *)
(* only one of its number, it asks for what the reader is on (a first request *)
(* before any source is shown), and while it is under way the queue controls *)
(* are closed.  An answer that is shown is that of the last request, so what *)
(* it shows is what the reader is on.                                      *)
(***************************************************************************)
EXTENDS FeedView, DashboardRefresh, LibraryView, ViewQueueing, FiniteSetTheorems,
        SequenceTheorems, FunctionTheorems, TLAPS

FeedLoad == [seq: 1..MaxFeedLoads, kind: {"first", "page", "site"}, site: FeedSites,
             query: Queries \cup {NoQuery}, page: Pages \ {0}, step: {"asked", "waiting"}]

\* What a request asks for is what the reader is on.
IsOfTheReader(l) ==
    \/ l.kind = "first" /\ l.query = feed.query
    \/ l.kind = "page" /\ l.site = feed.site /\ l.query = feed.query
    \/ l.kind = "site" /\ l.site = feed.site /\ l.query = feed.query /\ l.query = NoQuery

LastLoad ==
    /\ \A l, m \in feedLoads : l.seq = m.seq => l = m
    /\ \A l \in feedLoads : l.seq = requestSequence => IsOfTheReader(l) /\ ~liveReady

\* Before a source is shown nothing is searched for, and there are no cards to queue.
NothingYet ==
    /\ requestSequence = 0 => feed.site = NoSite
    /\ feed.site = NoSite => feed.query = NoQuery /\ cards = NoCards /\ ~liveReady

FeedInv ==
    /\ FeedTypeOK /\ feedLoads \subseteq FeedLoad
    /\ \A l \in feedLoads : l.seq <= requestSequence
    /\ LastLoad /\ NothingYet /\ QueueGateMatches

Feed == [site: FeedSites \cup {NoSite}, query: Queries \cup {NoQuery}, page: Pages]

FeedCards == [site: FeedSites \cup {NoSite}, query: Queries \cup {NoQuery}, page: Pages, live: BOOLEAN]

\* The invariant, spelled out as the steps establish it.
LEMMA FeedInvParts ==
    FeedInv <=>
        /\ feed \in Feed /\ cards \in FeedCards
        /\ requestSequence \in 0..MaxFeedLoads
        /\ liveReady \in BOOLEAN /\ loading \in BOOLEAN /\ feedError \in BOOLEAN
        /\ feedLoads \subseteq FeedLoad
        /\ \A l \in feedLoads : l.seq <= requestSequence
        /\ LastLoad /\ NothingYet /\ QueueGateMatches
BY DEF FeedInv, FeedTypeOK, Feed, FeedCards, FeedLoad, NothingYet

LEMMA FeedInvPartsNext ==
    FeedInv' <=>
        (/\ feed \in Feed /\ cards \in FeedCards
         /\ requestSequence \in 0..MaxFeedLoads
         /\ liveReady \in BOOLEAN /\ loading \in BOOLEAN /\ feedError \in BOOLEAN
         /\ feedLoads \subseteq FeedLoad
         /\ \A l \in feedLoads : l.seq <= requestSequence
         /\ LastLoad /\ NothingYet /\ QueueGateMatches)'
BY FeedInvParts, PTL

-----------------------------------------------------------------------------
(* Steps.                                                                  *)

LEMMA FeedStarts == FeedInit => FeedInv
<1> SUFFICES ASSUME FeedInit PROVE FeedInv
  OBVIOUS
<1>1. feed \in Feed /\ cards \in FeedCards
  BY DEF FeedInit, Feed, FeedCards, NoCards, Pages
<1>2. requestSequence \in 0..MaxFeedLoads
  BY FeedAssumption DEF FeedInit
<1>3. LastLoad /\ NothingYet /\ QueueGateMatches
  BY DEF FeedInit, LastLoad, NothingYet, QueueGateMatches
<1> QED BY <1>1, <1>2, <1>3, FeedInvParts DEF FeedInit

\* A request gets a number of its own, above all others.
LEMMA RequestIsLast ==
    ASSUME FeedInv, NEW kind \in {"first", "page", "site"}, NEW site \in FeedSites,
           NEW query \in Queries \cup {NoQuery}, NEW page \in Pages \ {0},
           Request(kind, site, query, page)
    PROVE  /\ requestSequence' \in 0..MaxFeedLoads /\ requestSequence' # 0
           /\ feedLoads' \subseteq FeedLoad
           /\ \A l \in feedLoads' : l.seq <= requestSequence'
           /\ \A l, m \in feedLoads' : l.seq = m.seq => l = m
           /\ \A l \in feedLoads' : l.seq = requestSequence' =>
                 l.kind = kind /\ l.site = site /\ l.query = query
<1> DEFINE new == [seq |-> requestSequence + 1, kind |-> kind, site |-> site,
                   query |-> query, page |-> page, step |-> "asked"]
<1>1. /\ requestSequence' = requestSequence + 1 /\ feedLoads' = feedLoads \cup {new}
      /\ requestSequence < MaxFeedLoads
  BY DEF Request
<1>2. requestSequence \in Nat /\ requestSequence + 1 \in 1..MaxFeedLoads
  BY <1>1, FeedAssumption DEF FeedInv, FeedTypeOK
<1>3. new \in FeedLoad /\ new.seq = requestSequence + 1
  BY <1>2 DEF FeedLoad
<1>4. \A l \in feedLoads : l \in FeedLoad /\ l.seq \in Nat /\ l.seq <= requestSequence
  BY FeedAssumption DEF FeedInv, FeedLoad
<1>5. \A l, m \in feedLoads : l.seq = m.seq => l = m
  BY DEF FeedInv, LastLoad
<1>6. \A l \in feedLoads' : l.seq = requestSequence' => l = new
  BY <1>1, <1>2, <1>3, <1>4
<1>7. \A l, m \in feedLoads' : l.seq = m.seq => l = m
  BY <1>1, <1>2, <1>3, <1>4, <1>5
<1>8. \A l \in feedLoads' : l \in FeedLoad /\ l.seq <= requestSequence'
  BY <1>1, <1>2, <1>3, <1>4
<1> HIDE DEF new
<1>9. new.kind = kind /\ new.site = site /\ new.query = query
  BY DEF new
<1> QED BY <1>1, <1>2, <1>6, <1>7, <1>8, <1>9

LEMMA OpeningKeeps ==
    ASSUME FeedInv, FirstLoad \/ RetryFirst
    PROVE  FeedInv'
<1>1. feed.site = NoSite /\ UNCHANGED <<feed, cards, liveReady, loading, feedError>>
  BY DEF FirstLoad, RetryFirst, FeedInv, NothingYet
<1>2. /\ Request("first", FirstSite, NoQuery, 1) /\ FirstSite \in FeedSites
      /\ 1 \in Pages \ {0}
  BY FeedAssumption DEF FirstLoad, RetryFirst, Pages
<1>3. /\ requestSequence' \in 0..MaxFeedLoads /\ requestSequence' # 0
      /\ feedLoads' \subseteq FeedLoad
      /\ \A l \in feedLoads' : l.seq <= requestSequence'
      /\ \A l, m \in feedLoads' : l.seq = m.seq => l = m
      /\ \A l \in feedLoads' : l.seq = requestSequence' =>
            l.kind = "first" /\ l.query = NoQuery
  BY <1>2, RequestIsLast
<1>4. feed.query = NoQuery /\ ~liveReady /\ cards = NoCards
  BY <1>1 DEF FeedInv, NothingYet
<1>5. LastLoad'
  BY <1>1, <1>3, <1>4 DEF LastLoad, IsOfTheReader
<1>6. NothingYet' /\ QueueGateMatches'
  BY <1>1, <1>3, <1>4 DEF NothingYet, QueueGateMatches
<1> QED BY <1>1, <1>3, <1>5, <1>6, FeedInvParts, FeedInvPartsNext

LEMMA ReaderKeeps ==
    ASSUME FeedInv,
           \/ \E p \in Pages : FetchPage(p)
           \/ \E q \in Queries \cup {NoQuery} : Search(q)
           \/ \E s \in FeedSites : SelectSite(s)
    PROVE  FeedInv'
<1> USE FeedInvParts
<1>1. feed.site \in FeedSites
  BY DEF FetchPage, Search, SelectSite, Feed
<1> DEFINE Moved == /\ feed' \in Feed /\ feed'.site \in FeedSites /\ cards' \in FeedCards
                    /\ liveReady' = FALSE /\ loading' = TRUE /\ feedError' = FALSE
<1>2. Moved
  <2>1. ASSUME NEW p \in Pages, FetchPage(p)
        PROVE  Moved
    BY <1>1, <2>1 DEF FetchPage
  <2>2. ASSUME NEW q \in Queries \cup {NoQuery}, Search(q)
        PROVE  Moved
    <3>1. feed' = [feed EXCEPT !.query = q, !.page = 0] /\ cards' = NoCards
      BY <2>2 DEF Search
    <3>2. feed' = [site |-> feed.site, query |-> q, page |-> 0]
      BY <3>1 DEF Feed
    <3>4. feed' \in Feed /\ feed'.site \in FeedSites
      BY <1>1, <3>2 DEF Feed, Pages
    <3>3. cards' \in FeedCards
      BY <3>1 DEF FeedCards, NoCards, Pages
    <3> QED BY <2>2, <3>4, <3>3 DEF Search
  <2>3. ASSUME NEW s \in FeedSites, SelectSite(s)
        PROVE  Moved
    BY <1>1, <2>3 DEF SelectSite, Feed
  <2> QED BY <2>1, <2>2, <2>3
<1>3. \E kind \in {"page", "site"}, page \in Pages \ {0} :
          /\ Request(kind, feed'.site, feed'.query, page)
          /\ kind = "site" => feed'.query = NoQuery
  <2>1. ASSUME NEW p \in Pages, FetchPage(p)
        PROVE  \E page \in Pages \ {0} : Request("page", feed'.site, feed'.query, page)
    <3>1. p \in Pages \ {0}
      BY <2>1 DEF FetchPage, Neighbours
    <3> QED BY <2>1, <3>1 DEF FetchPage
  <2>2. ASSUME NEW q \in Queries \cup {NoQuery}, Search(q)
        PROVE  Request("page", feed'.site, feed'.query, 1)
    BY <2>2 DEF Search, Feed
  <2>3. ASSUME NEW s \in FeedSites, SelectSite(s)
        PROVE  Request("site", feed'.site, feed'.query, 1) /\ feed'.query = NoQuery
    BY <2>3 DEF SelectSite, Feed
  <2>4. 1 \in Pages \ {0}
    BY DEF Pages
  <2> QED BY <2>1, <2>2, <2>3, <2>4
<1>4. feed'.query \in Queries \cup {NoQuery}
  BY <1>2 DEF Feed
<1>5. PICK kind \in {"page", "site"}, page \in Pages \ {0} :
          /\ Request(kind, feed'.site, feed'.query, page)
          /\ kind = "site" => feed'.query = NoQuery
  BY <1>3
<1>6. /\ requestSequence' \in 0..MaxFeedLoads /\ requestSequence' # 0
      /\ feedLoads' \subseteq FeedLoad
      /\ \A l \in feedLoads' : l.seq <= requestSequence'
      /\ \A l, m \in feedLoads' : l.seq = m.seq => l = m
      /\ \A l \in feedLoads' : l.seq = requestSequence' =>
            l.kind = kind /\ l.site = feed'.site /\ l.query = feed'.query
  <2> DEFINE site == feed'.site
             query == feed'.query
  <2>1. site \in FeedSites /\ query \in Queries \cup {NoQuery} /\ Request(kind, site, query, page)
    BY <1>2, <1>4, <1>5
  <2> HIDE DEF site, query
  <2>2. /\ requestSequence' \in 0..MaxFeedLoads /\ requestSequence' # 0
        /\ feedLoads' \subseteq FeedLoad
        /\ \A l \in feedLoads' : l.seq <= requestSequence'
        /\ \A l, m \in feedLoads' : l.seq = m.seq => l = m
        /\ \A l \in feedLoads' : l.seq = requestSequence' =>
              l.kind = kind /\ l.site = site /\ l.query = query
    BY <2>1, RequestIsLast
  <2> QED BY <2>2 DEF site, query
<1>7. LastLoad'
  BY <1>2, <1>5, <1>6 DEF LastLoad, IsOfTheReader
<1>8. NothingYet' /\ QueueGateMatches'
  BY <1>2, <1>6, NoSiteAssumption DEF NothingYet, QueueGateMatches
<1> QED BY <1>2, <1>6, <1>7, <1>8, FeedInvPartsNext

\* An answer of the last request is shown: it is what the reader is on, or the first.
LEMMA ShownIsOfTheReader ==
    ASSUME FeedInv, NEW l \in feedLoads, l.seq = requestSequence
    PROVE  /\ l \in FeedLoad
           /\ l.kind # "first" => l.site = feed.site
           /\ l.query = feed.query
           /\ l.kind # "first" => feed.site # NoSite
           /\ CardsOf(l, TRUE) \in FeedCards /\ CardsOf(l, FALSE) \in FeedCards
           /\ ~liveReady
<1>1. l \in FeedLoad /\ IsOfTheReader(l) /\ ~liveReady
  BY DEF FeedInv, LastLoad
<1>2. CardsOf(l, TRUE) \in FeedCards /\ CardsOf(l, FALSE) \in FeedCards
  BY <1>1 DEF CardsOf, FeedCards, FeedLoad
<1> QED BY <1>1, <1>2, NoSiteAssumption DEF IsOfTheReader, FeedLoad

\* A request that goes on without the reader being moved.
LEMMA FeedLoadGoesOn ==
    ASSUME FeedInv, NEW l \in feedLoads, UNCHANGED <<feed, cards, liveReady, requestSequence>>,
           loading' \in BOOLEAN, feedError' \in BOOLEAN,
           \/ feedLoads' = feedLoads \ {l}
           \/ feedLoads' = (feedLoads \ {l}) \cup {[l EXCEPT !.step = "waiting"]}
    PROVE  FeedInv'
<1> DEFINE w == [l EXCEPT !.step = "waiting"]
<1>1. l \in FeedLoad
  BY DEF FeedInv
<1>2. w \in FeedLoad /\ w.seq = l.seq /\ (IsOfTheReader(l) => IsOfTheReader(w))
  BY <1>1 DEF FeedLoad, IsOfTheReader
<1> HIDE DEF w
<1>3. feedLoads' = feedLoads \ {l} \/ feedLoads' = (feedLoads \ {l}) \cup {w}
  BY DEF w
<1>4. feedLoads' \subseteq FeedLoad /\ \A m \in feedLoads' : m.seq <= requestSequence
  BY <1>2, <1>3 DEF FeedInv
<1>5. \A m \in feedLoads' : IsOfTheReader(m)' <=> IsOfTheReader(m)
  BY DEF IsOfTheReader
<1>6. LastLoad'
  <2>1. \A k, m \in feedLoads' : k.seq = m.seq => k = m
    BY <1>2, <1>3 DEF FeedInv, LastLoad
  <2>2. \A m \in feedLoads' : m.seq = requestSequence => IsOfTheReader(m) /\ ~liveReady
    BY <1>2, <1>3 DEF FeedInv, LastLoad
  <2> QED BY <2>1, <2>2, <1>5 DEF LastLoad
<1>7. NothingYet' /\ QueueGateMatches'
  BY DEF FeedInv, NothingYet, QueueGateMatches
<1> QED BY <1>4, <1>6, <1>7, FeedInvParts, FeedInvPartsNext

LEMMA CachedKeeps ==
    ASSUME FeedInv, NEW l \in feedLoads, ShowCached(l)
    PROVE  FeedInv'
<1> DEFINE w == [l EXCEPT !.step = "waiting"]
<1>1. /\ feedLoads' = (feedLoads \ {l}) \cup {w}
      /\ UNCHANGED <<liveReady, requestSequence, feedError>>
  BY DEF ShowCached
<1>2. CASE UNCHANGED <<feed, cards, loading>>
  BY <1>1, <1>2, FeedLoadGoesOn, FeedInvParts
<1>3. CASE /\ IsCurrent(l)
           /\ feed' = [feed EXCEPT !.site = IF l.kind = "first" THEN l.site ELSE @, !.page = l.page]
           /\ cards' = CardsOf(l, FALSE) /\ loading' = FALSE
  <2>1. /\ l \in FeedLoad /\ (l.kind # "first" => l.site = feed.site) /\ l.query = feed.query
        /\ (l.kind # "first" => feed.site # NoSite) /\ cards' \in FeedCards /\ ~liveReady
    BY <1>3, ShownIsOfTheReader DEF IsCurrent
  <2>2. feed' = [feed EXCEPT !.site = l.site, !.page = l.page]
    BY <1>3, <2>1, FeedInvParts DEF Feed
  <2>3. /\ feed' \in Feed /\ feed'.site = l.site /\ feed'.query = l.query
        /\ l.site \in FeedSites /\ l.site # NoSite
    BY <2>1, <2>2, FeedInvParts, NoSiteAssumption DEF Feed, FeedLoad
  <2>4. w \in FeedLoad /\ w.seq = l.seq /\ IsOfTheReader(w)'
    <3>1. w \in FeedLoad /\ w.seq = l.seq /\ w.kind = l.kind /\ w.site = l.site /\ w.query = l.query
      BY <2>1 DEF FeedLoad
    <3>2. l.kind \in {"first", "page", "site"} /\ (l.kind = "site" => l.query = NoQuery)
      BY <1>3, <2>1 DEF FeedLoad, FeedInv, LastLoad, IsOfTheReader, IsCurrent
    <3> QED BY <2>3, <3>1, <3>2 DEF IsOfTheReader
  <2> HIDE DEF w
  <2>5. feedLoads' \subseteq FeedLoad /\ \A m \in feedLoads' : m.seq <= requestSequence'
    BY <1>1, <2>4 DEF FeedInv
  <2>6. LastLoad'
    <3>1. \A m \in feedLoads' : m.seq = requestSequence' => m = w
      BY <1>1, <1>3, <2>4 DEF FeedInv, LastLoad, IsCurrent
    <3>2. \A k, m \in feedLoads' : k.seq = m.seq => k = m
      BY <1>1, <2>4 DEF FeedInv, LastLoad
    <3> QED BY <1>1, <2>1, <2>4, <3>1, <3>2 DEF LastLoad
  <2>7. NothingYet' /\ QueueGateMatches'
    <3>1. requestSequence' # 0
      BY <1>1, <1>3, <2>1, FeedAssumption DEF IsCurrent, FeedLoad
    <3> QED BY <1>1, <2>1, <2>3, <3>1 DEF NothingYet, QueueGateMatches
  <2> QED BY <1>1, <1>3, <2>1, <2>3, <2>5, <2>6, <2>7, FeedInvParts, FeedInvPartsNext
<1> QED BY <1>2, <1>3 DEF ShowCached

LEMMA LiveKeeps ==
    ASSUME FeedInv, NEW l \in feedLoads, ShowLive(l)
    PROVE  FeedInv'
<1>1. feedLoads' = feedLoads \ {l} /\ UNCHANGED <<requestSequence, feedError>>
  BY DEF ShowLive
<1>2. CASE ~IsCurrent(l)
  BY <1>1, <1>2, FeedLoadGoesOn, FeedInvParts DEF ShowLive
<1>3. CASE IsCurrent(l)
  <2>1. /\ l \in FeedLoad /\ (l.kind # "first" => l.site = feed.site) /\ l.query = feed.query
        /\ (l.kind # "first" => feed.site # NoSite) /\ CardsOf(l, TRUE) \in FeedCards
    BY <1>3, ShownIsOfTheReader DEF IsCurrent
  <2>2. cards' = CardsOf(l, TRUE) /\ liveReady' = TRUE /\ loading' = FALSE
    BY <1>3 DEF ShowLive
  <2>3. /\ feed' \in Feed /\ feed'.site = l.site /\ feed'.query = l.query
        /\ feed'.page = l.page /\ l.site \in FeedSites /\ l.site # NoSite
    <3>1. feed \in Feed /\ l.site \in FeedSites /\ l.page \in Pages /\ l.site # NoSite
      BY <2>1, FeedInvParts, NoSiteAssumption DEF FeedLoad
    <3>2. CASE l.kind = "first"
      BY <1>3, <2>1, <3>1, <3>2 DEF ShowLive, Feed
    <3>3. CASE l.kind = "site"
      <4>1. feed' = [feed EXCEPT !.query = NoQuery, !.page = l.page]
        BY <1>3, <3>3 DEF ShowLive
      <4>2. l.query = NoQuery
        BY <1>3, <3>3 DEF FeedInv, LastLoad, IsOfTheReader, IsCurrent
      <4> QED BY <2>1, <3>1, <3>3, <4>1, <4>2 DEF Feed
    <3>4. CASE l.kind = "page"
      <4>1. feed' = [feed EXCEPT !.page = l.page]
        BY <1>3, <3>4 DEF ShowLive
      <4> QED BY <2>1, <3>1, <3>4, <4>1 DEF Feed
    <3> QED BY <2>1, <3>2, <3>3, <3>4 DEF FeedLoad
  <2>4. feedLoads' \subseteq FeedLoad /\ \A m \in feedLoads' : m.seq <= requestSequence'
    BY <1>1 DEF FeedInv
  <2>5. LastLoad'
    BY <1>1, <1>3 DEF FeedInv, LastLoad, IsCurrent
  <2>6. QueueGateMatches'
    BY <2>2, <2>3 DEF QueueGateMatches, CardsOf
  <2>7. NothingYet'
    <3>1. requestSequence' # 0
      BY <1>1, <1>3, <2>1, FeedAssumption DEF IsCurrent, FeedLoad
    <3> QED BY <2>3, <3>1 DEF NothingYet
  <2> QED BY <1>1, <2>1, <2>2, <2>3, <2>4, <2>5, <2>6, <2>7, FeedInvParts, FeedInvPartsNext
<1> QED BY <1>2, <1>3

LEMMA FailureKeeps ==
    ASSUME FeedInv, NEW l \in feedLoads, FailLoad(l)
    PROVE  FeedInv'
<1>1. loading' \in BOOLEAN /\ feedError' \in BOOLEAN
  BY DEF FailLoad
<1> QED BY <1>1, FeedLoadGoesOn DEF FailLoad

LEMMA FeedStep == FeedInv /\ [FeedNext]_feedVars => FeedInv'
<1> SUFFICES ASSUME FeedInv, [FeedNext]_feedVars
             PROVE  FeedInv'
  OBVIOUS
<1>1. CASE UNCHANGED feedVars
  BY <1>1 DEF feedVars, FeedInv, FeedTypeOK, LastLoad, IsOfTheReader, NothingYet, QueueGateMatches
<1> QED BY <1>1, OpeningKeeps, ReaderKeeps, CachedKeeps, LiveKeeps, FailureKeeps
        DEF FeedNext, FeedSteps

\* FeedCards come from the answer of the last request only.
LEMMA CardsAreOfTheLast ==
    [FeedNext]_feedVars =>
        (cards' # cards /\ cards' # NoCards =>
            \E l \in feedLoads : l.seq = requestSequence /\ cards'.site = l.site
                                 /\ cards'.query = l.query /\ cards'.page = l.page)
<1> SUFFICES ASSUME [FeedNext]_feedVars, cards' # cards, cards' # NoCards
             PROVE  \E l \in feedLoads : l.seq = requestSequence /\ cards'.site = l.site
                                        /\ cards'.query = l.query /\ cards'.page = l.page
  OBVIOUS
<1>1. PICK l \in feedLoads : ShowCached(l) \/ ShowLive(l)
  BY DEF FeedNext, feedVars, FirstLoad, RetryFirst, FetchPage, Search, SelectSite, FeedSteps, FailLoad
<1>2. IsCurrent(l) /\ (cards' = CardsOf(l, TRUE) \/ cards' = CardsOf(l, FALSE))
  BY <1>1 DEF ShowCached, ShowLive
<1> QED BY <1>2 DEF IsCurrent, CardsOf

-----------------------------------------------------------------------------
(* Theorems.                                                               *)

\* The reader's place, the cards and the requests are of their types.
THEOREM FeedTypeCorrect == FeedSpec => []FeedTypeOK
<1>1. FeedInv => FeedTypeOK
  BY DEF FeedInv
<1> QED BY <1>1, FeedStarts, FeedStep, PTL DEF FeedSpec

\* In whatever order the sources and the cache answer (beginFeedCommand, fetchPage), the
\* queue controls are open only on the Mac's own answer to what the reader is on, and the
\* cards shown are never those of a request that was overtaken.
THEOREM FeedStaysCurrent == FeedSpec => FeedIsCurrent
<1> DEFINE Fresh == cards' # cards /\ cards' # NoCards =>
                        \E l \in feedLoads : l.seq = requestSequence /\ cards'.site = l.site
                                             /\ cards'.query = l.query /\ cards'.page = l.page
<1>1. FeedInv => QueueGateMatches
  BY DEF FeedInv
<1>2. [FeedNext]_feedVars => [Fresh]_feedVars
  BY CardsAreOfTheLast
<1>3. [][Fresh]_feedVars => NoStaleCards
  BY PTL DEF NoStaleCards
<1> HIDE DEF Fresh
<1> QED BY <1>1, <1>2, <1>3, FeedStarts, FeedStep, PTL DEF FeedSpec, FeedIsCurrent

-----------------------------------------------------------------------------
(* The refreshes of the dashboard.                                         *)

TruthRows == [version: 0..MaxTruth, scope: Scopes]

Flight == [scope: Scopes, owner: UserActions \cup {"poll"}, version: 0..Unread]

ActionPress ==
    [step: {"none", "asked", "refreshing", "reading", "over"},
     scope: Scopes, kept: TruthRows, floor: 0..MaxTruth]

RefreshTypes ==
    /\ truth \in 0..MaxTruth /\ scope \in Scopes /\ strays \subseteq Scopes
    /\ view \in TruthRows /\ outages \in Nat
    /\ flights \subseteq Flight
    /\ userActions \in [UserActions -> ActionPress]

\* One request at most is in flight, and a press that waits for one waits for its own.
FlightIsWaitedFor ==
    /\ \A f, g \in flights : f = g
    /\ \A a \in UserActions : userActions[a].step = "reading" <=> \E f \in flights : f.owner = a

\* Everything the page knows was in the rows once.
KnownWasTrue ==
    /\ view.version <= truth
    /\ \A a \in UserActions : userActions[a].kept.version <= truth /\ userActions[a].floor <= truth

\* What a request has read is as new as everything the page could show, and as the end of
\* the action whose press made it.
ReadingIsNewest ==
    \A f \in flights : f.version # Unread =>
        /\ view.version <= f.version /\ f.version <= truth
        /\ \A a \in UserActions : userActions[a].kept.version <= f.version
        /\ f.owner \in UserActions => userActions[f.owner].floor <= f.version

RefreshInv == RefreshTypes /\ FlightIsWaitedFor /\ KnownWasTrue /\ ReadingIsNewest

LEMMA RefreshStarts == DashboardInit => RefreshInv
<1> SUFFICES ASSUME DashboardInit PROVE RefreshInv
  OBVIOUS
<1> USE DashboardAssumption
<1>1. view \in TruthRows /\ view.version = 0
  BY DEF DashboardInit, TruthRows
<1>2. \A a \in UserActions :
         userActions[a] = [step |-> "none", scope |-> FirstScope, kept |-> view, floor |-> 0]
  BY DEF DashboardInit
<1>3. RefreshTypes
  <2>1. userActions = [a \in UserActions |-> [step |-> "none", scope |-> FirstScope, kept |-> view, floor |-> 0]]
    BY DEF DashboardInit
  <2>2. [step |-> "none", scope |-> FirstScope, kept |-> view, floor |-> 0] \in ActionPress
    BY <1>1 DEF ActionPress
  <2>3. userActions \in [UserActions -> ActionPress]
    BY <2>1, <2>2, Zenon
  <2> QED BY <1>1, <2>3 DEF DashboardInit, RefreshTypes
<1>4. FlightIsWaitedFor
  BY <1>2 DEF DashboardInit, FlightIsWaitedFor
<1>5. KnownWasTrue
  BY <1>1, <1>2 DEF DashboardInit, KnownWasTrue
<1>6. ReadingIsNewest
  BY DEF DashboardInit, ReadingIsNewest
<1> QED BY <1>3, <1>4, <1>5, <1>6 DEF RefreshInv

\* A poll asks, or joins the request in flight.
LEMMA JoinKeeps ==
    ASSUME RefreshInv, NEW s \in Scopes, Joins(s), scope' \in Scopes, strays' \subseteq Scopes,
           UNCHANGED <<truth, view, outages, userActions>>
    PROVE  RefreshInv'
<1> USE DashboardAssumption DEF RefreshInv
<1>1. flights' = flights \/ (flights = {} /\ flights' = {Beginning(s, "poll")})
  BY DEF Joins
<1>2. Beginning(s, "poll") \in Flight /\ Beginning(s, "poll").owner = "poll"
      /\ Beginning(s, "poll").version = Unread
  BY DEF Beginning, Flight, Unread
<1>3. RefreshTypes'
  BY <1>1, <1>2 DEF RefreshTypes, Unread, Flight, TruthRows, ActionPress
<1>4. FlightIsWaitedFor'
  <2>1. CASE flights' = flights
    BY <2>1 DEF FlightIsWaitedFor
  <2>2. CASE flights = {} /\ flights' = {Beginning(s, "poll")}
    BY <2>2, <1>2 DEF FlightIsWaitedFor
  <2> QED BY <1>1, <2>1, <2>2
<1>5. KnownWasTrue'
  BY DEF KnownWasTrue
<1>6. ReadingIsNewest'
  BY <1>1, <1>2 DEF ReadingIsNewest, Unread
<1> QED BY <1>3, <1>4, <1>5, <1>6

\* Nothing of the requests changes, but the rows may, and what is shown, to what it was.
LEMMA FlightsStay ==
    ASSUME RefreshInv, UNCHANGED <<flights, outages, strays>>, scope' \in Scopes,
           truth' \in 0..MaxTruth, truth <= truth',
           view' = view \/ (\E a \in UserActions : view' = userActions[a].kept),
           userActions' \in [UserActions -> ActionPress],
           \A a \in UserActions :
               /\ userActions'[a].step = "reading" <=> userActions[a].step = "reading"
               /\ userActions'[a].kept \in {userActions[a].kept, view}
               /\ userActions'[a].floor <= truth'
               /\ userActions[a].step = "reading" => userActions'[a].floor = userActions[a].floor
    PROVE  RefreshInv'
<1> USE DashboardAssumption DEF RefreshInv
<1>1. view' \in TruthRows
  BY DEF RefreshTypes, ActionPress
<1>2. RefreshTypes'
  BY <1>1 DEF RefreshTypes, Unread, Flight, TruthRows, ActionPress
<1>3. FlightIsWaitedFor'
  BY DEF FlightIsWaitedFor
<1>4. \A a \in UserActions : userActions[a].kept.version \in Nat /\ view.version \in Nat
  BY DEF RefreshTypes, ActionPress, TruthRows
<1>5. \A a \in UserActions : userActions'[a].kept.version \in {userActions[a].kept.version, view.version}
  OBVIOUS
<1>6. view'.version = view.version \/ \E a \in UserActions : view'.version = userActions[a].kept.version
  OBVIOUS
<1>7. KnownWasTrue'
  <2>1. truth \in Nat /\ truth' \in Nat /\ truth <= truth' /\ view.version \in Nat
    BY DEF RefreshTypes, TruthRows
  <2>2. view.version <= truth /\ \A a \in UserActions : userActions[a].kept.version <= truth
    BY DEF KnownWasTrue
  <2>3. view'.version <= truth'
    BY <1>4, <1>6, <2>1, <2>2
  <2>4. \A a \in UserActions : userActions'[a].kept.version <= truth'
    BY <1>4, <1>5, <2>1, <2>2
  <2> QED BY <2>3, <2>4 DEF KnownWasTrue
<1>8. ReadingIsNewest'
  <2> SUFFICES ASSUME NEW f \in flights, f.version # Unread
               PROVE  /\ view'.version <= f.version /\ f.version <= truth'
                      /\ \A a \in UserActions : userActions'[a].kept.version <= f.version
                      /\ f.owner \in UserActions => userActions'[f.owner].floor <= f.version
    BY DEF ReadingIsNewest, Unread
  <2>1. f.version \in Nat
    BY DEF RefreshTypes, Flight, Unread
  <2>2. /\ view.version <= f.version /\ f.version <= truth
        /\ \A a \in UserActions : userActions[a].kept.version <= f.version
        /\ f.owner \in UserActions => userActions[f.owner].floor <= f.version
    BY DEF ReadingIsNewest
  <2>3. f.owner \in UserActions => userActions[f.owner].step = "reading"
    BY DEF FlightIsWaitedFor
  <2>4. f.version <= truth'
    BY <2>1, <2>2 DEF RefreshTypes
  <2> QED BY <1>5, <1>6, <2>2, <2>3, <2>4
<1> QED BY <1>2, <1>3, <1>7, <1>8

LEMMA ReadKeeps == ASSUME RefreshInv, NEW f \in flights, ReadRows(f) PROVE RefreshInv'
<1> USE DashboardAssumption DEF RefreshInv
<1> DEFINE g == [f EXCEPT !.version = truth]
<1>1. flights = {f}
  BY DEF FlightIsWaitedFor
<1>2. flights' = {g} /\ UNCHANGED <<truth, scope, strays, view, outages, userActions>>
  BY <1>1 DEF ReadRows
<1>3. f \in Flight /\ truth \in 0..MaxTruth
  BY DEF RefreshTypes
<1>4. g \in Flight /\ g.version = truth /\ g.owner = f.owner
  BY <1>3 DEF Flight, Unread
<1> HIDE DEF g
<1>5. RefreshTypes'
  BY <1>2, <1>4 DEF RefreshTypes, Unread, Flight, TruthRows, ActionPress
<1>6. FlightIsWaitedFor'
  BY <1>1, <1>2, <1>4 DEF FlightIsWaitedFor
<1>7. KnownWasTrue'
  BY <1>2 DEF KnownWasTrue
<1>8. ReadingIsNewest'
  BY <1>2, <1>3, <1>4 DEF ReadingIsNewest, KnownWasTrue
<1> QED BY <1>5, <1>6, <1>7, <1>8

\* A request is over, with what it read shown or something that was kept.
LEMMA FlightEndKeeps ==
    ASSUME RefreshInv, NEW f \in flights, EndsFlight(f), UNCHANGED <<truth, scope>>,
           strays' \subseteq Scopes, outages' \in Nat, view' \in TruthRows, view'.version <= truth
    PROVE  RefreshInv'
<1> USE DashboardAssumption DEF RefreshInv
<1>1. flights = {f}
  BY DEF FlightIsWaitedFor
<1>2. flights' = {}
  BY <1>1 DEF EndsFlight
<1>3. userActions' \in [UserActions -> ActionPress]
  BY DEF RefreshTypes, EndsFlight, ActionPress
<1>4. \A a \in UserActions :
         /\ userActions'[a].step = IF a = f.owner THEN "over" ELSE userActions[a].step
         /\ userActions'[a].kept = userActions[a].kept /\ userActions'[a].floor = userActions[a].floor
  BY DEF RefreshTypes, EndsFlight, ActionPress
<1>5. RefreshTypes'
  BY <1>2, <1>3 DEF RefreshTypes, Unread, Flight, TruthRows, ActionPress
<1>6. FlightIsWaitedFor'
  BY <1>1, <1>2, <1>4 DEF FlightIsWaitedFor
<1>7. KnownWasTrue'
  BY <1>4 DEF KnownWasTrue
<1>8. ReadingIsNewest'
  BY <1>2 DEF ReadingIsNewest
<1> QED BY <1>5, <1>6, <1>7, <1>8

LEMMA ForceKeeps ==
    ASSUME RefreshInv, NEW a \in UserActions, ForceRefresh(a) PROVE RefreshInv'
<1> USE DashboardAssumption DEF RefreshInv
<1> DEFINE b == Beginning(userActions[a].scope, a)
<1>1. flights = {} /\ flights' = {b} /\ UNCHANGED <<truth, scope, strays, view, outages>>
  BY DEF ForceRefresh, Forces
<1>2. b \in Flight /\ b.owner = a /\ b.version = Unread
  BY DEF RefreshTypes, ActionPress, Beginning, Flight, Unread
<1> HIDE DEF b
<1>3. userActions' \in [UserActions -> ActionPress]
  BY DEF ForceRefresh, RefreshTypes, ActionPress
<1>4. \A x \in UserActions :
         /\ userActions'[x].step = IF x = a THEN "reading" ELSE userActions[x].step
         /\ userActions'[x].kept = userActions[x].kept /\ userActions'[x].floor = userActions[x].floor
  BY DEF ForceRefresh, RefreshTypes, ActionPress
<1>5. RefreshTypes'
  BY <1>1, <1>2, <1>3 DEF RefreshTypes, Unread, Flight, TruthRows, ActionPress
<1>6. FlightIsWaitedFor'
  BY <1>1, <1>2, <1>4 DEF FlightIsWaitedFor
<1>7. KnownWasTrue'
  BY <1>1, <1>4 DEF KnownWasTrue
<1>8. ReadingIsNewest'
  BY <1>1, <1>2 DEF ReadingIsNewest, Unread
<1> QED BY <1>5, <1>6, <1>7, <1>8

\* A press is made, its command ends or is refused.
LEMMA ActionKeeps ==
    ASSUME RefreshInv, NEW a \in UserActions, PressAction(a) \/ ActionEnds(a) \/ ActionRefused(a)
    PROVE  RefreshInv'
<1> USE DashboardAssumption DEF RefreshInv
<1>1. userActions \in [UserActions -> ActionPress] /\ truth \in 0..MaxTruth /\ view \in TruthRows /\ scope \in Scopes
  BY DEF RefreshTypes
<1>2. CASE PressAction(a)
  <2>1. userActions' \in [UserActions -> ActionPress]
    BY <1>1, <1>2 DEF PressAction, ActionPress
  <2>2. \A x \in UserActions :
           /\ x # a => userActions'[x] = userActions[x]
           /\ x = a => /\ userActions'[x].step = "asked" /\ userActions[x].step = "none"
                       /\ userActions'[x].kept = view /\ userActions'[x].floor = userActions[x].floor
    BY <1>1, <1>2 DEF PressAction, ActionPress
  <2> QED BY <1>1, <1>2, <2>1, <2>2, FlightsStay DEF PressAction, KnownWasTrue
<1>3. CASE ActionEnds(a)
  <2>1. truth' \in 0..MaxTruth /\ truth <= truth'
    BY <1>1, <1>3 DEF ActionEnds
  <2>2. userActions' \in [UserActions -> ActionPress]
    BY <1>1, <1>3, <2>1 DEF ActionEnds, ActionPress
  <2>3. \A x \in UserActions :
           /\ x # a => userActions'[x] = userActions[x]
           /\ x = a => /\ userActions'[x].step = "refreshing" /\ userActions[x].step = "asked"
                       /\ userActions'[x].kept = userActions[x].kept /\ userActions'[x].floor = truth'
    BY <1>1, <1>3 DEF ActionEnds, ActionPress
  <2>4. \A x \in UserActions : userActions'[x].floor <= truth'
    BY <1>1, <2>1, <2>3 DEF KnownWasTrue, ActionPress
  <2> QED BY <1>1, <1>3, <2>1, <2>2, <2>3, <2>4, FlightsStay DEF ActionEnds
<1>4. CASE ActionRefused(a)
  <2>1. userActions' \in [UserActions -> ActionPress]
    BY <1>1, <1>4 DEF ActionRefused, ActionPress
  <2>2. \A x \in UserActions :
           /\ x # a => userActions'[x] = userActions[x]
           /\ x = a => /\ userActions'[x].step = "over" /\ userActions[x].step = "asked"
                       /\ userActions'[x].kept = userActions[x].kept
                       /\ userActions'[x].floor = userActions[x].floor
    BY <1>1, <1>4 DEF ActionRefused, ActionPress
  <2> QED BY <1>1, <1>4, <2>1, <2>2, FlightsStay DEF ActionRefused, KnownWasTrue
<1> QED BY <1>2, <1>3, <1>4

\* The lists the effect's older timers were of are lists.
LEMMA RestartKeepsStrays ==
    ASSUME RefreshInv, NEW older, Restarts(older) \/ SetTimers PROVE strays' \subseteq Scopes
  BY DEF Restarts, SetTimers, RefreshInv, RefreshTypes

LEMMA RefreshStep == RefreshInv /\ [DashboardNext]_dashboardVars => RefreshInv'
<1> SUFFICES ASSUME RefreshInv, [DashboardNext]_dashboardVars PROVE RefreshInv'
  OBVIOUS
<1> USE DashboardAssumption
<1>0. /\ truth \in 0..MaxTruth /\ scope \in Scopes /\ strays \subseteq Scopes /\ outages \in Nat
      /\ view \in TruthRows /\ view.version <= truth
      /\ userActions \in [UserActions -> ActionPress]
      /\ \A a \in UserActions : /\ userActions[a].kept \in TruthRows
                                /\ userActions[a].kept.version <= truth /\ userActions[a].floor <= truth
  BY DEF RefreshInv, RefreshTypes, KnownWasTrue, ActionPress
<1>1. CASE UNCHANGED dashboardVars \/ HidePage \/ ShowPage
  BY <1>0, <1>1, FlightsStay DEF dashboardVars, HidePage, ShowPage
<1>2. CASE ChangeJobs
  <2>1. truth' \in 0..MaxTruth /\ truth <= truth'
    BY <1>0, <1>2 DEF ChangeJobs
  <2>2. \A a \in UserActions : userActions'[a].floor <= truth'
    BY <1>0, <1>2, <2>1 DEF ChangeJobs, ActionPress
  <2> QED BY <1>0, <1>2, <2>1, <2>2, FlightsStay DEF ChangeJobs
<1>3. ASSUME NEW f \in flights, ReadRows(f) PROVE RefreshInv'
  BY <1>3, ReadKeeps
<1>4. ASSUME NEW f \in flights, ShowRows(f) PROVE RefreshInv'
  <2>1. f \in Flight /\ f.version # Unread /\ f.version <= truth
    BY <1>4 DEF ShowRows, RefreshInv, RefreshTypes, ReadingIsNewest
  <2>2. view' \in TruthRows /\ view'.version <= truth
    BY <1>0, <1>4, <2>1 DEF ShowRows, Flight, TruthRows, Unread
  <2>3. strays' \subseteq Scopes /\ outages' \in Nat
    BY <1>0, <1>4, RestartKeepsStrays DEF ShowRows
  <2> QED BY <1>4, <2>2, <2>3, FlightEndKeeps DEF ShowRows
<1>5. ASSUME NEW f \in flights, RefreshFails(f) PROVE RefreshInv'
  <2>1. view' \in TruthRows /\ view'.version <= truth
    BY <1>0, <1>5 DEF RefreshFails
  <2>2. strays' \subseteq Scopes /\ outages' \in Nat
    BY <1>0, <1>5 DEF RefreshFails, GoesOn, SetTimers
  <2> QED BY <1>5, <2>1, <2>2, FlightEndKeeps DEF RefreshFails
<1>6. ASSUME NEW newer \in BOOLEAN, FireTimer(newer) PROVE RefreshInv'
  BY <1>0, <1>6, JoinKeeps DEF FireTimer
<1>7. ASSUME NEW s \in strays, FireStray(s) PROVE RefreshInv'
  <2>1. s \in Scopes /\ strays' \subseteq Scopes
    BY <1>0, <1>7 DEF FireStray
  <2> QED BY <1>0, <1>7, <2>1, JoinKeeps DEF FireStray
<1>8. ASSUME NEW s \in Scopes, OpenList(s) PROVE RefreshInv'
  <2>1. strays' \subseteq Scopes
    BY <1>8, RestartKeepsStrays DEF OpenList
  <2> QED BY <1>0, <1>8, <2>1 DEF OpenList, RefreshInv, RefreshTypes, FlightIsWaitedFor, KnownWasTrue,
             ReadingIsNewest, Unread, Flight, TruthRows, ActionPress
<1>9. ASSUME NEW a \in UserActions, PressAction(a) \/ ActionEnds(a) \/ ActionRefused(a) PROVE RefreshInv'
  BY <1>9, ActionKeeps
<1>10. ASSUME NEW a \in UserActions, ForceRefresh(a) PROVE RefreshInv'
  BY <1>10, ForceKeeps
<1> QED BY <1>1, <1>2, <1>3, <1>4, <1>5, <1>6, <1>7, <1>8, <1>9, <1>10 DEF DashboardNext

\* A step that changes what is shown shows a reading, or takes an order back.
LEMMA ViewMoves ==
    ASSUME RefreshInv, [DashboardNext]_dashboardVars
    PROVE  \/ view' = view
           \/ \E f \in flights : ShowRows(f)
           \/ \E a \in UserActions : view' = userActions[a].kept /\ userActions'[a].step = "over"
<1>0. userActions \in [UserActions -> ActionPress]
  BY DEF RefreshInv, RefreshTypes
<1>1. ASSUME NEW f \in flights, RefreshFails(f), view' # view
      PROVE  \E a \in UserActions : view' = userActions[a].kept /\ userActions'[a].step = "over"
  <2>1. f.owner \in UserActions /\ view' = userActions[f.owner].kept
    BY <1>1 DEF RefreshFails
  <2>2. userActions'[f.owner].step = "over"
    BY <1>0, <1>1, <2>1 DEF RefreshFails, EndsFlight, ActionPress
  <2> QED BY <2>1, <2>2
<1>2. ASSUME NEW a \in UserActions, ActionRefused(a), view' # view
      PROVE  view' = userActions[a].kept /\ userActions'[a].step = "over"
  BY <1>0, <1>2 DEF ActionRefused, ActionPress
<1>3. \/ view' = view
      \/ \E f \in flights : ShowRows(f) \/ RefreshFails(f)
      \/ \E a \in UserActions : ActionRefused(a)
  BY DEF DashboardNext, dashboardVars, ChangeJobs, HidePage, ShowPage, ReadRows, FireTimer, FireStray,
     OpenList, PressAction, ActionEnds, ForceRefresh
<1> QED BY <1>1, <1>2, <1>3

\* The request of a press ends with its rows shown, or is lost.
LEMMA WaitEnds ==
    ASSUME RefreshInv, [DashboardNext]_dashboardVars, NEW a \in UserActions,
           userActions[a].step = "reading", userActions'[a].step = "over"
    PROVE  \E f \in flights : f.owner = a /\ (ShowRows(f) \/ RefreshFails(f))
<1>0. userActions \in [UserActions -> ActionPress]
  BY DEF RefreshInv, RefreshTypes
<1>1. \/ \E f \in flights : ShowRows(f) \/ RefreshFails(f)
      \/ \E x \in UserActions : PressAction(x) \/ ActionEnds(x) \/ ActionRefused(x) \/ ForceRefresh(x)
      \/ UNCHANGED userActions
  BY DEF DashboardNext, dashboardVars, ChangeJobs, HidePage, ShowPage, ReadRows, FireTimer, FireStray, OpenList
<1>2. ASSUME NEW x \in UserActions, PressAction(x) \/ ActionEnds(x) \/ ActionRefused(x) \/ ForceRefresh(x)
      PROVE  userActions'[a].step # "over"
  <2>1. userActions[x].step # "reading" /\ x # a
    BY <1>2 DEF PressAction, ActionEnds, ActionRefused, ForceRefresh
  <2>2. userActions'[a] = userActions[a]
    BY <1>0, <1>2, <2>1 DEF PressAction, ActionEnds, ActionRefused, ForceRefresh
  <2> QED BY <2>2
<1>3. PICK f \in flights : ShowRows(f) \/ RefreshFails(f)
  BY <1>1, <1>2
<1>4. f.owner = a
  BY <1>3 DEF FlightIsWaitedFor, RefreshInv
<1> QED BY <1>3, <1>4

\* RefreshesKeepOrder: what the dashboard shows never goes back to an older reading but when
\* an order is taken back, and when the refresh of an action has succeeded what is shown was
\* read after the action; there is one request at most.
THEOREM RefreshesAreOrdered == DashboardSpec => RefreshesKeepOrder
<1>1. RefreshInv /\ [DashboardNext]_dashboardVars =>
        [\/ view'.version >= view.version
         \/ \E a \in UserActions : view' = userActions[a].kept /\ userActions'[a].step = "over"]_dashboardVars
  <2> SUFFICES ASSUME RefreshInv, [DashboardNext]_dashboardVars
               PROVE  \/ view'.version >= view.version
                      \/ \E a \in UserActions : view' = userActions[a].kept /\ userActions'[a].step = "over"
    OBVIOUS
  <2>1. view.version \in Nat
    BY DEF RefreshInv, RefreshTypes, TruthRows
  <2>2. ASSUME NEW f \in flights, ShowRows(f) PROVE view'.version >= view.version
    <3>1. f.version \in Nat /\ f.version # Unread /\ view.version <= f.version
      BY <2>2, DashboardAssumption DEF ShowRows, RefreshInv, RefreshTypes, ReadingIsNewest, Flight, Unread
    <3> QED BY <2>1, <2>2, <3>1 DEF ShowRows
  <2> QED BY <2>1, <2>2, ViewMoves
<1>2. RefreshInv /\ [DashboardNext]_dashboardVars =>
        [\A a \in UserActions :
           userActions[a].step = "reading" /\ userActions'[a].step = "over" /\ outages' = outages
             => view'.version >= userActions[a].floor]_dashboardVars
  <2> SUFFICES ASSUME RefreshInv, [DashboardNext]_dashboardVars, NEW a \in UserActions,
                      userActions[a].step = "reading", userActions'[a].step = "over", outages' = outages
               PROVE  view'.version >= userActions[a].floor
    OBVIOUS
  <2>1. outages \in Nat /\ userActions[a].floor \in Nat
    BY DEF RefreshInv, RefreshTypes, ActionPress
  <2>2. PICK f \in flights : f.owner = a /\ (ShowRows(f) \/ RefreshFails(f))
    BY WaitEnds
  <2>3. ShowRows(f)
    BY <2>1, <2>2 DEF RefreshFails
  <2>4. f.version \in Nat /\ f.version # Unread /\ userActions[a].floor <= f.version
    BY <2>2, <2>3, DashboardAssumption DEF ShowRows, RefreshInv, RefreshTypes, ReadingIsNewest, Flight, Unread
  <2> QED BY <2>1, <2>3, <2>4 DEF ShowRows
<1> QED BY <1>1, <1>2, RefreshStarts, RefreshStep, PTL
     DEF DashboardSpec, RefreshesKeepOrder, ViewNeverGoesBack, ActionIsSeen

\* Every timer and every poll of this run of the effect came of its start or of the page
\* being shown again: none is set twice for one that ended.
NewestTimer == IF timer THEN 1 ELSE 0
Watched == IF pageHidden THEN 0 ELSE 1
TimersAreCounted ==
    /\ timer \in BOOLEAN /\ pageHidden \in BOOLEAN
    /\ timers \in Nat /\ pollers \in Nat /\ hides \in 0..MaxHides
    /\ timers + pollers + NewestTimer <= hides + Watched

LEMMA TimersStep == TimersAreCounted /\ [DashboardNext]_dashboardVars => TimersAreCounted'
<1> SUFFICES ASSUME TimersAreCounted, [DashboardNext]_dashboardVars PROVE TimersAreCounted'
  OBVIOUS
<1>m. MaxHides \in Nat
  BY DashboardAssumption DEF DashboardAssumption
<1>0. /\ timer \in BOOLEAN /\ pageHidden \in BOOLEAN
      /\ timers \in Nat /\ pollers \in Nat /\ hides \in Nat /\ hides <= MaxHides
      /\ timers + pollers + NewestTimer <= hides + Watched
      /\ NewestTimer \in 0..1 /\ Watched \in 0..1
  <2>1. NewestTimer \in 0..1 /\ Watched \in 0..1
    BY DEF NewestTimer, Watched
  <2> QED BY <1>m, <2>1 DEF TimersAreCounted
<1>1. ASSUME NEW older \in Nat, Restarts(older), UNCHANGED <<pageHidden, hides>> PROVE TimersAreCounted'
  <2>1. timer' = ~pageHidden /\ timers' = 0 /\ pollers' = 0
    BY <1>1 DEF Restarts
  <2>2. timer' \in BOOLEAN /\ NewestTimer' = Watched' /\ Watched' = Watched
    BY <1>0, <1>1, <2>1, Zenon DEF NewestTimer, Watched
  <2>3. timers' + pollers' + NewestTimer' <= hides' + Watched' /\ hides' \in 0..MaxHides
    BY <1>0, <1>1, <1>m, <2>1, <2>2
  <2> QED BY <1>0, <1>1, <2>1, <2>2, <2>3 DEF TimersAreCounted
<1>2. ASSUME SetTimers, UNCHANGED <<pageHidden, hides>> PROVE TimersAreCounted'
  <2>0. Watched' = Watched /\ hides' \in 0..MaxHides
    BY <1>0, <1>2, <1>m DEF Watched
  <2>1. CASE pollers = 0 \/ pageHidden
    <3>1. timer' = timer /\ timers' = timers /\ pollers' = 0
      BY <1>0, <1>2, <2>1 DEF SetTimers, Older
    <3>2. timers' + pollers' + NewestTimer' <= hides' + Watched'
      BY <1>0, <1>2, <2>0, <3>1 DEF NewestTimer
    <3> QED BY <1>0, <1>2, <2>0, <3>1, <3>2 DEF TimersAreCounted
  <2>2. CASE ~(pollers = 0 \/ pageHidden)
    <3>1. timer' = TRUE /\ pollers' = 0 /\ timers' = timers + (pollers - (IF timer THEN 0 ELSE 1))
      <4>1. timer' = TRUE /\ pollers' = 0 /\ timers' = Older
        <5>1. pollers > 0 /\ ~pageHidden
          BY <1>0, <2>2
        <5> QED BY <1>2, <5>1, Zenon DEF SetTimers
      <4>2. Older = timers + (pollers - (IF timer THEN 0 ELSE 1))
        BY <2>2, Zenon DEF Older
      <4> QED BY <4>1, <4>2, Zenon
    <3>2. NewestTimer' = 1 /\ (IF timer THEN 0 ELSE 1) = 1 - NewestTimer
      BY <1>0, <3>1 DEF NewestTimer
    <3>3. timers' \in Nat /\ timers' + pollers' + NewestTimer' <= hides' + Watched'
      BY <1>0, <1>2, <2>0, <2>2, <3>1, <3>2
    <3> QED BY <1>0, <1>2, <2>0, <3>1, <3>3 DEF TimersAreCounted
  <2> QED BY <2>1, <2>2
<1>3. Older \in Nat
  BY <1>0 DEF Older
<1>4. CASE UNCHANGED <<timer, timers, pollers, pageHidden, hides>>
  BY <1>4 DEF TimersAreCounted, NewestTimer, Watched
<1>5. CASE HidePage
  <2>1. /\ ~pageHidden /\ hides < MaxHides /\ hides' = hides + 1 /\ pageHidden' = TRUE /\ timer' = FALSE
        /\ UNCHANGED <<timers, pollers>>
    BY <1>5 DEF HidePage
  <2>2. Watched = 1 /\ Watched' = 0 /\ NewestTimer' = 0
    BY <2>1 DEF Watched, NewestTimer
  <2>3. hides' \in 0..MaxHides /\ timers' + pollers' + NewestTimer' <= hides' + Watched'
    BY <1>0, <1>m, <2>1, <2>2
  <2> QED BY <1>0, <2>1, <2>3 DEF TimersAreCounted
<1>6. CASE ShowPage
  <2>1. pageHidden /\ pageHidden' = FALSE /\ timer' = TRUE /\ UNCHANGED <<timers, pollers, hides>>
    BY <1>6 DEF ShowPage
  <2>2. Watched = 0 /\ Watched' = 1 /\ NewestTimer' = 1
    BY <2>1 DEF Watched, NewestTimer
  <2>3. hides' \in 0..MaxHides /\ timers' + pollers' + NewestTimer' <= hides' + Watched'
    BY <1>0, <1>m, <2>1, <2>2
  <2> QED BY <1>0, <2>1, <2>3 DEF TimersAreCounted
<1>7. ASSUME NEW f \in flights, ShowRows(f) PROVE TimersAreCounted'
  BY <1>7, <1>0, <1>1, <1>2, <1>3 DEF ShowRows
<1>8. ASSUME NEW f \in flights, RefreshFails(f) PROVE TimersAreCounted'
  BY <1>8, <1>2 DEF RefreshFails, GoesOn
<1>9. ASSUME NEW isNewest \in BOOLEAN, FireTimer(isNewest) PROVE TimersAreCounted'
  <2>1. /\ IF isNewest THEN timer /\ timer' = FALSE /\ UNCHANGED timers
                      ELSE timers > 0 /\ timers' = timers - 1 /\ UNCHANGED timer
        /\ pollers' = IF pageHidden THEN pollers ELSE pollers + 1
        /\ UNCHANGED <<pageHidden, hides>>
    BY <1>9 DEF FireTimer
  <2>2. pollers' \in {pollers, pollers + 1} /\ Watched' = Watched /\ hides' = hides /\ hides' \in 0..MaxHides
    BY <1>0, <1>m, <2>1 DEF Watched
  <2>b. timer' \in BOOLEAN
    BY <1>0, <2>1
  <2>3. timers' \in Nat /\ timers' + NewestTimer' = timers + NewestTimer - 1 /\ NewestTimer' \in 0..1
    <3>1. CASE isNewest
      <4>1. timer /\ timer' = FALSE /\ timers' = timers
        BY <2>1, <3>1
      <4>2. NewestTimer = 1 /\ NewestTimer' = 0
        BY <4>1 DEF NewestTimer
      <4>3. timers' \in Nat /\ timers' + NewestTimer' = timers + NewestTimer - 1
        BY <1>0, <4>1, <4>2
      <4> QED BY <4>1, <4>2, <4>3
    <3>2. CASE ~isNewest
      <4>1. timers > 0 /\ timers' = timers - 1 /\ timer' = timer
        BY <2>1, <3>2
      <4>2. NewestTimer' = NewestTimer
        BY <4>1 DEF NewestTimer
      <4> QED BY <1>0, <4>1, <4>2
    <3> QED BY <3>1, <3>2
  <2>4. pollers' \in Nat /\ timers' + pollers' + NewestTimer' <= hides' + Watched'
    <3>1. /\ timers \in Nat /\ pollers \in Nat /\ hides \in Nat /\ NewestTimer \in 0..1 /\ Watched \in 0..1
          /\ timers + pollers + NewestTimer <= hides + Watched
      BY <1>0
    <3>2. pollers' \in Nat /\ pollers' <= pollers + 1
      BY <2>2, <3>1
    <3>3. timers' \in Nat /\ NewestTimer' \in Nat /\ timers' + NewestTimer' = timers + NewestTimer - 1
      BY <2>3
    <3>4. \A t, n, p \in Nat : p <= pollers + 1 /\ t + n = timers + NewestTimer - 1 => t + p + n <= hides + Watched
      BY <3>1
    <3>5. timers' + pollers' + NewestTimer' <= hides + Watched
      BY <3>2, <3>3, <3>4
    <3> QED BY <2>2, <3>2, <3>5
  <2> QED BY <1>0, <2>1, <2>2, <2>b, <2>3, <2>4 DEF TimersAreCounted
<1>10. ASSUME NEW s \in Scopes, OpenList(s) PROVE TimersAreCounted'
  BY <1>10, <1>0, <1>1 DEF OpenList
<1>11. CASE ChangeJobs \/ (\E f \in flights : ReadRows(f)) \/ (\E s \in strays : FireStray(s))
            \/ \E a \in UserActions : PressAction(a) \/ ActionEnds(a) \/ ActionRefused(a) \/ ForceRefresh(a)
  BY <1>4, <1>11 DEF ChangeJobs, ReadRows, FireStray, PressAction, ActionEnds, ActionRefused, ForceRefresh
<1>12. CASE UNCHANGED dashboardVars
  BY <1>4, <1>12 DEF dashboardVars
<1> QED BY <1>5, <1>6, <1>7, <1>8, <1>9, <1>10, <1>11, <1>12 DEF DashboardNext

\* DashboardTypeOK: one request at most is in flight, the press that waits for one waits for
\* its own, and the polls do not multiply (refresh, schedule and poll of the dashboard).
THEOREM DashboardTypeCorrect == DashboardSpec => []DashboardTypeOK
<1> USE DashboardAssumption DEF DashboardAssumption
<1>1. DashboardInit => TimersAreCounted
  <2> SUFFICES ASSUME DashboardInit PROVE TimersAreCounted
    OBVIOUS
  <2>1. timer = TRUE /\ pageHidden = FALSE /\ timers = 0 /\ pollers = 0 /\ hides = 0 /\ MaxHides \in Nat
    BY DEF DashboardInit
  <2>2. NewestTimer = 1 /\ Watched = 1
    BY <2>1 DEF NewestTimer, Watched
  <2>3. hides \in 0..MaxHides /\ timers + pollers + NewestTimer <= hides + Watched /\ timers \in Nat /\ pollers \in Nat
    BY <2>1, <2>2
  <2>4. timer \in BOOLEAN /\ pageHidden \in BOOLEAN
    BY <2>1
  <2> QED BY <2>3, <2>4 DEF TimersAreCounted
<1>2. RefreshInv /\ TimersAreCounted => DashboardTypeOK
  <2> SUFFICES ASSUME RefreshInv, TimersAreCounted PROVE DashboardTypeOK
    OBVIOUS
  <2>1. timers \in 0..(MaxHides + 1) /\ pollers \in 0..(MaxHides + 1)
    <3>1. NewestTimer \in 0..1 /\ Watched \in 0..1
      BY DEF NewestTimer, Watched
    <3> QED BY <3>1 DEF TimersAreCounted
  <2> QED BY <2>1 DEF RefreshInv, RefreshTypes, FlightIsWaitedFor, TruthRows, Flight, DashboardTypeOK
<1> QED BY <1>1, <1>2, TimersStep, RefreshStarts, RefreshStep, PTL DEF DashboardSpec

-----------------------------------------------------------------------------
(* The Library.                                                            *)

\* Commands that make the Mac know an item no more.
Drops == {"library_remove", "queue_url"}

\* The items the Mac has known so far, by their newest job.
Known(m) == [source: Sources, job: 0..m]

OrderSet(m, p) ==
    [n: 1..p, kind: OrderKinds, todo: SUBSET Known(m), ok: SUBSET Known(m), bad: SUBSET Known(m)]

OrderCall(m, p) ==
    [order: 1..p, item: Known(m), step: {"post", "wait", "completed", "failed"}, heard: SUBSET Known(m)]

RefreshSet(m) ==
    [n: Nat, step: {"cache", "post", "wait", "completed", "failed"}, heard: SUBSET Known(m)]

AskSet(m, p) ==
    [kind: OrderKinds, item: Known(m), order: 1..p] \cup [kind: {"library_list"}, item: {NoItem}, order: {0}]

LibraryTypes ==
    /\ newest \in Nat /\ pressed \in Nat /\ refreshed \in Nat /\ crossed \in BOOLEAN
    /\ library \subseteq Known(newest) /\ listing \subseteq Known(newest)
    /\ cachedListing \subseteq Known(newest) /\ selected \subseteq Known(newest)
    /\ orders \subseteq OrderSet(newest, pressed)
    /\ libraryCalls \subseteq OrderCall(newest, pressed)
    /\ refreshes \subseteq RefreshSet(newest)
    /\ asks \in Seq(AskSet(newest, pressed))

\* An order is known by its number, its rows are of its kind; two at once are noted.
OrdersApart ==
    /\ \A o, p \in orders : o.n = p.n => o = p
    /\ \A k \in DOMAIN asks : \A o \in orders : asks[k].order = o.n => asks[k].kind = o.kind
    /\ ~crossed => \A o, p \in orders : o = p

\* What was answered to be done is not known to the Mac any more.
DoneIsGone ==
    \A o \in orders : o.kind \in Drops =>
        /\ o.ok \cap library = {}
        /\ \A c \in libraryCalls : c.order = o.n /\ c.step = "completed" => c.item \notin library

\* The items of an order.
Concerns(o) == o.todo \cup o.ok \cup o.bad \cup {c.item : c \in CallsOf(o)}

SentApart ==
    ~crossed => /\ sentItems \cap selected = {}
                /\ \A o \in orders : o.kind = "queue_url" => sentItems \cap Concerns(o) = {}

PickInv == LibraryTypes /\ OrdersApart /\ DoneIsGone /\ SentApart

LEMMA KnownStays ==
    ASSUME NEW m \in Nat, NEW n \in Nat, m <= n, NEW p \in Nat, NEW q \in Nat, p <= q
    PROVE  /\ Known(m) \subseteq Known(n) /\ OrderSet(m, p) \subseteq OrderSet(n, q)
           /\ OrderCall(m, p) \subseteq OrderCall(n, q) /\ RefreshSet(m) \subseteq RefreshSet(n)
           /\ AskSet(m, p) \subseteq AskSet(n, q)
<1>1. Known(m) \subseteq Known(n)
  BY DEF Known
<1>2. 1..p \subseteq 1..q
  OBVIOUS
<1>3. OrderSet(m, p) \subseteq OrderSet(n, q)
  BY <1>1, <1>2 DEF OrderSet
<1>4. OrderCall(m, p) \subseteq OrderCall(n, q)
  BY <1>1, <1>2 DEF OrderCall
<1>5. RefreshSet(m) \subseteq RefreshSet(n)
  BY <1>1 DEF RefreshSet
<1>6. AskSet(m, p) \subseteq AskSet(n, q)
  BY <1>1, <1>2 DEF AskSet
<1> QED BY <1>1, <1>3, <1>4, <1>5, <1>6

\* Rows of the smaller set are rows of the larger one.
LEMMA SeqWidens == ASSUME NEW S, NEW T, S \subseteq T, NEW s \in Seq(S) PROVE s \in Seq(T)
<1>1. s \in [1..Len(s) -> S] /\ Len(s) \in Nat
  OBVIOUS
<1>2. \A i \in 1..Len(s) : s[i] \in T
  BY <1>1
<1> QED BY <1>1, <1>2

LEMMA LibraryStarts == LibraryInit => PickInv
<1> SUFFICES ASSUME LibraryInit PROVE PickInv
  OBVIOUS
<1>1. library \subseteq Known(0) /\ newest = 0
  BY DEF LibraryInit, Item, Known
<1>2. LibraryTypes
  <2>1. newest \in Nat /\ pressed \in Nat /\ refreshed \in Nat /\ crossed \in BOOLEAN /\ asks = <<>>
    BY DEF LibraryInit
  <2>2. orders = {} /\ libraryCalls = {} /\ refreshes = {} /\ listing = {} /\ cachedListing = library
        /\ selected \subseteq library
    BY DEF LibraryInit
  <2> QED BY <1>1, <2>1, <2>2 DEF LibraryTypes
<1>3. OrdersApart /\ DoneIsGone /\ SentApart
  BY DEF LibraryInit, OrdersApart, DoneIsGone, SentApart
<1> QED BY <1>2, <1>3 DEF PickInv

-----------------------------------------------------------------------------
(* Orders.                                                                 *)

LEMMA BeginKeepsPicks ==
    ASSUME PickInv, NEW kind \in OrderKinds, NEW todo \in SUBSET Known(newest), Begins(kind, todo),
           kind = "queue_url" => todo \subseteq selected
    PROVE  PickInv'
<1> USE DEF PickInv
<1> DEFINE new == [n |-> pressed + 1, kind |-> kind, todo |-> todo, ok |-> {}, bad |-> {}]
<1>1. /\ pressed' = pressed + 1 /\ orders' = orders \cup {new} /\ crossed' = (crossed \/ orders # {})
      /\ UNCHANGED <<library, newest, asks, listing, cachedListing, selected, libraryCalls, refreshes,
                     refreshed, sentItems>>
  BY DEF Begins, macVars
<1>2. newest \in Nat /\ pressed \in Nat /\ pressed' \in Nat /\ pressed <= pressed' /\ pressed + 1 \in 1..pressed'
  BY <1>1 DEF LibraryTypes
<1>3. new \in OrderSet(newest, pressed') /\ new.n = pressed + 1 /\ new.kind = kind /\ new.ok = {} /\ new.bad = {}
      /\ new.todo = todo
  BY <1>2 DEF OrderSet
<1> HIDE DEF new
<1>4. LibraryTypes'
  <2>1. asks \in Seq(AskSet(newest, pressed'))
    BY <1>2, KnownStays, SeqWidens DEF LibraryTypes
  <2>2. orders' \subseteq OrderSet(newest, pressed') /\ libraryCalls \subseteq OrderCall(newest, pressed')
    BY <1>1, <1>2, <1>3, KnownStays DEF LibraryTypes
  <2> QED BY <1>1, <1>2, <2>1, <2>2 DEF LibraryTypes
<1>5. \A o \in orders : o.n \in 1..pressed /\ o.n # pressed + 1
  BY <1>2 DEF LibraryTypes, OrderSet
<1>6. \A c \in libraryCalls : c.order # pressed + 1
  BY <1>2 DEF LibraryTypes, OrderCall
<1>7. \A k \in DOMAIN asks : asks[k].order # pressed + 1
  <2>1. \A r \in AskSet(newest, pressed) : r.order # pressed + 1
    BY <1>2 DEF AskSet
  <2> QED BY <2>1 DEF LibraryTypes
<1>8. OrdersApart'
  BY <1>1, <1>3, <1>5, <1>7 DEF OrdersApart
<1>9. DoneIsGone'
  BY <1>1, <1>3, <1>6 DEF DoneIsGone
<1>10. SentApart'
  <2>0. ~crossed' => ~crossed /\ orders = {}
    BY <1>1
  <2>4. ~crossed' => sentItems \cap selected = {}
    BY <2>0 DEF SentApart
  <2> SUFFICES ASSUME ~crossed', NEW o \in orders', o.kind = "queue_url"
               PROVE  sentItems \cap selected = {} /\ sentItems \cap Concerns(o)' = {}
    BY <1>1, <2>4 DEF SentApart
  <2>1. o = new /\ sentItems \cap selected = {}
    BY <1>1, <2>0, <2>4
  <2>2. CallsOf(o)' = {}
    BY <1>1, <1>3, <1>6, <2>1 DEF CallsOf
  <2>3. Concerns(o)' = todo
    BY <1>3, <2>1, <2>2 DEF Concerns
  <2> QED BY <1>3, <2>1, <2>3
<1> QED BY <1>4, <1>8, <1>9, <1>10

\* An order goes on: its items are those it had, what it has done is gone.
LEMMA OrderMoves ==
    ASSUME PickInv, NEW o \in orders, NEW p, orders' = (orders \ {o}) \cup {p},
           p \in OrderSet(newest, pressed), p.n = o.n, p.kind = o.kind,
           p.kind \in Drops => p.ok \cap library = {},
           Concerns(p)' \subseteq Concerns(o),
           \A c \in libraryCalls' : /\ c \in OrderCall(newest, pressed)
                                    /\ c \in libraryCalls \/ (c.order = o.n /\ c.step # "completed"),
           asks' \in Seq(AskSet(newest, pressed)),
           \A k \in DOMAIN asks' : \/ k \in DOMAIN asks /\ asks'[k] = asks[k]
                                   \/ asks'[k].kind = o.kind /\ asks'[k].order = o.n,
           listing' \subseteq Known(newest),
           UNCHANGED <<macVars, cachedListing, selected, refreshes, pressed, refreshed, sentItems, crossed>>
    PROVE  PickInv'
<1> USE DEF PickInv
<1>1. UNCHANGED <<library, newest>>
  BY DEF macVars
<1>2. LibraryTypes'
  BY <1>1 DEF LibraryTypes
<1>3. OrdersApart'
  BY DEF OrdersApart
<1>4. DoneIsGone'
  BY <1>1 DEF DoneIsGone
<1>5. SentApart'
  <2> SUFFICES ASSUME ~crossed
               PROVE  /\ sentItems \cap selected = {}
                      /\ \A x \in orders' : x.kind = "queue_url" => sentItems \cap Concerns(x)' = {}
    BY DEF SentApart
  <2>1. \A x \in orders' : x = p
    BY DEF OrdersApart
  <2> QED BY <2>1 DEF SentApart
<1> QED BY <1>2, <1>3, <1>4, <1>5

LEMMA ChunkKeeps == ASSUME PickInv, NEW o \in orders, StartChunk(o) PROVE PickInv'
<1> USE DEF PickInv
<1>1. PICK C \in Chunks(o.todo) :
         /\ libraryCalls' = libraryCalls \cup
                {[order |-> o.n, item |-> i, step |-> "post", heard |-> {}] : i \in C}
         /\ orders' = (orders \ {o}) \cup {[o EXCEPT !.todo = @ \ C]}
  BY DEF StartChunk
<1>2. C \subseteq o.todo
  BY DEF Chunks
<1> DEFINE p == [o EXCEPT !.todo = @ \ C]
<1>3. o \in OrderSet(newest, pressed)
  BY DEF LibraryTypes
<1>4. p \in OrderSet(newest, pressed) /\ p.n = o.n /\ p.kind = o.kind /\ p.ok = o.ok /\ p.bad = o.bad
      /\ p.todo = o.todo \ C
  BY <1>3 DEF OrderSet
<1>5. orders' = (orders \ {o}) \cup {p}
  BY <1>1
<1> HIDE DEF p
<1>6. ASSUME NEW c \in libraryCalls'
      PROVE  /\ c \in OrderCall(newest, pressed)
             /\ c \in libraryCalls \/ (c.order = o.n /\ c.step # "completed" /\ c.item \in C)
  <2>1. \A i \in C : i \in Known(newest) /\ o.n \in 1..pressed
    BY <1>2, <1>3 DEF OrderSet
  <2> QED BY <1>1, <2>1 DEF LibraryTypes, OrderCall
<1>7. Concerns(p)' \subseteq Concerns(o)
  BY <1>2, <1>4, <1>6 DEF Concerns, CallsOf
<1>8. UNCHANGED <<macVars, asks, listing, cachedListing, selected, refreshes, pressed, refreshed, sentItems, crossed>>
  BY DEF StartChunk
<1>9. asks' \in Seq(AskSet(newest, pressed)) /\ listing' \subseteq Known(newest)
  BY <1>8 DEF LibraryTypes
<1>10. p.kind \in Drops => p.ok \cap library = {}
  BY <1>4 DEF DoneIsGone
<1> QED BY <1>4, <1>5, <1>6, <1>7, <1>8, <1>9, <1>10, OrderMoves

\* A call of an order has another step.
LEMMA OrderCallSteps ==
    ASSUME PickInv, NEW c \in libraryCalls, NEW step \in {"wait", "failed"}
    PROVE  LET d == [c EXCEPT !.step = step]
           IN  d \in OrderCall(newest, pressed) /\ d.order = c.order /\ d.item = c.item /\ d.step = step
<1>1. c \in OrderCall(newest, pressed)
  BY DEF PickInv, LibraryTypes
<1> QED BY <1>1 DEF OrderCall

LEMMA LibraryPostKeeps == ASSUME PickInv, NEW o \in orders, NEW c \in CallsOf(o), PostOrder(o, c) PROVE PickInv'
<1> USE DEF PickInv
<1>1. c \in libraryCalls /\ c.order = o.n
  BY DEF CallsOf
<1>2. PICK step \in {"wait", "failed"} :
         /\ libraryCalls' = (libraryCalls \ {c}) \cup {[c EXCEPT !.step = step]}
         /\ asks' = asks \/ asks' = Append(asks, [kind |-> o.kind, item |-> c.item, order |-> o.n])
  BY DEF PostOrder
<1> DEFINE d == [c EXCEPT !.step = step]
           r == [kind |-> o.kind, item |-> c.item, order |-> o.n]
<1>3. d \in OrderCall(newest, pressed) /\ d.order = o.n /\ d.item = c.item /\ d.step = step
  BY <1>1, OrderCallSteps
<1>4. o \in OrderSet(newest, pressed) /\ c \in OrderCall(newest, pressed)
  BY <1>1 DEF LibraryTypes
<1>5. r \in AskSet(newest, pressed) /\ r.kind = o.kind /\ r.order = o.n
  BY <1>4 DEF AskSet, OrderSet, OrderCall
<1>6. libraryCalls' = (libraryCalls \ {c}) \cup {d} /\ (asks' = asks \/ asks' = Append(asks, r))
  BY <1>2
<1> HIDE DEF d, r
<1>7. /\ asks' \in Seq(AskSet(newest, pressed))
      /\ \A k \in DOMAIN asks' : \/ k \in DOMAIN asks /\ asks'[k] = asks[k]
                                 \/ asks'[k].kind = o.kind /\ asks'[k].order = o.n
  <2>1. asks \in Seq(AskSet(newest, pressed))
    BY DEF LibraryTypes
  <2> HIDE DEF AskSet
  <2>2. CASE asks' = Append(asks, r)
    BY <1>5, <2>1, <2>2, AppendProperties
  <2>3. CASE asks' = asks
    BY <2>1, <2>3
  <2> QED BY <1>6, <2>2, <2>3
<1>8. \A x \in libraryCalls' : /\ x \in OrderCall(newest, pressed)
                               /\ x \in libraryCalls \/ (x.order = o.n /\ x.step # "completed")
  BY <1>3, <1>6 DEF LibraryTypes
<1>9. Concerns(o)' \subseteq Concerns(o)
  BY <1>1, <1>3, <1>6 DEF Concerns, CallsOf
<1>10. /\ UNCHANGED <<macVars, listing, cachedListing, selected, orders, refreshes, pressed, refreshed, sentItems, crossed>>
       /\ orders' = (orders \ {o}) \cup {o} /\ listing' \subseteq Known(newest)
  BY DEF PostOrder, LibraryTypes
<1>11. o.kind \in Drops => o.ok \cap library = {}
  BY DEF DoneIsGone
<1> QED BY <1>4, <1>7, <1>8, <1>9, <1>10, <1>11, OrderMoves

LEMMA HearOrderKeeps == ASSUME PickInv, NEW o \in orders, NEW c \in CallsOf(o), HearOrder(o, c) PROVE PickInv'
<1> USE DEF PickInv
<1>1. c \in libraryCalls /\ c.order = o.n /\ libraryCalls' = libraryCalls \ {c}
  BY DEF CallsOf, HearOrder
<1>2. o \in OrderSet(newest, pressed) /\ c \in OrderCall(newest, pressed)
  BY <1>1 DEF LibraryTypes
<1>3. PICK p \in {[o EXCEPT !.ok = @ \cup {c.item}], [o EXCEPT !.bad = @ \cup {c.item}]} :
         /\ orders' = (orders \ {o}) \cup {p}
         /\ p = [o EXCEPT !.ok = @ \cup {c.item}] => c.step = "completed" \/ p = [o EXCEPT !.bad = @ \cup {c.item}]
         /\ listing' \in {listing, c.heard}
  BY DEF HearOrder, WasAnswered
<1>4. /\ p \in OrderSet(newest, pressed) /\ p.n = o.n /\ p.kind = o.kind /\ p.todo = o.todo
      /\ \/ p.ok = o.ok /\ p.bad = o.bad \cup {c.item}
         \/ p.ok = o.ok \cup {c.item} /\ p.bad = o.bad /\ c.step = "completed"
  BY <1>2, <1>3 DEF OrderSet, OrderCall
<1>5. p.kind \in Drops => p.ok \cap library = {}
  BY <1>1, <1>4 DEF DoneIsGone
<1>6. Concerns(p)' \subseteq Concerns(o)
  <2>1. c.item \in {x.item : x \in CallsOf(o)} /\ CallsOf(p)' \subseteq CallsOf(o)
    BY <1>1, <1>4 DEF CallsOf
  <2> QED BY <1>4, <2>1 DEF Concerns
<1>7. \A x \in libraryCalls' : x \in OrderCall(newest, pressed) /\ x \in libraryCalls
  BY <1>1 DEF LibraryTypes
<1>8. listing' \subseteq Known(newest)
  BY <1>2, <1>3 DEF LibraryTypes, OrderCall
<1>9. UNCHANGED <<macVars, asks, cachedListing, selected, refreshes, pressed, refreshed, sentItems, crossed>>
  BY DEF HearOrder
<1>10. asks' \in Seq(AskSet(newest, pressed))
  BY <1>9 DEF LibraryTypes
<1> QED BY <1>3, <1>4, <1>5, <1>6, <1>7, <1>8, <1>9, <1>10, OrderMoves

\* What stays selected was not done, and what leaves the selection was.
LEMMA EndOrderKeeps ==
    ASSUME PickInv, NEW o \in orders, EndOrder(o)
    PROVE  PickInv' /\ \A i \in selected \ selected' : i \notin library
<1> USE DEF PickInv
<1>1. /\ orders' = orders \ {o} /\ CallsOf(o) = {}
      /\ \/ selected' = Keeps(o) /\ crossed' = crossed
         \/ crossed' = TRUE /\ selected' = selected
      /\ sentItems' = IF o.kind = "queue_url" THEN sentItems \cup o.ok ELSE sentItems
      /\ UNCHANGED <<library, newest, asks, listing, cachedListing, libraryCalls, refreshes, pressed, refreshed>>
  BY DEF EndOrder, macVars
<1>2. selected' \subseteq selected
  BY <1>1 DEF Keeps
<1>3. \A i \in selected \ selected' : i \notin library
  BY <1>1 DEF Keeps, DoneIsGone, Drops
<1>4. LibraryTypes'
  BY <1>1, <1>2 DEF LibraryTypes
<1>5. OrdersApart'
  BY <1>1 DEF OrdersApart
<1>6. DoneIsGone'
  BY <1>1 DEF DoneIsGone
<1>7. SentApart'
  <2> SUFFICES ASSUME ~crossed'
               PROVE  sentItems' \cap selected' = {} /\ orders' = {}
    BY DEF SentApart
  <2>1. ~crossed /\ selected' = Keeps(o)
    BY <1>1
  <2>2. orders' = {}
    BY <1>1, <2>1 DEF OrdersApart
  <2> QED BY <1>1, <2>1, <2>2 DEF SentApart, Keeps
<1> QED BY <1>3, <1>4, <1>5, <1>6, <1>7

-----------------------------------------------------------------------------
(* The Mac, refreshes and the selection.                                   *)

\* What the Mac does of a row: a row that is done and drops its item leaves it unknown, and
\* an item that is unknown stays so.
LEMMA DoneDrops ==
    ASSUME PickInv, NEW r \in AskSet(newest, pressed), Done(r)
    PROVE  /\ newest' \in Nat /\ newest <= newest' /\ library' \subseteq Known(newest')
           /\ \A i \in Known(newest) : i \notin library => i \notin library'
           /\ r.kind \in Drops => r.item \notin library'
<1> USE DEF PickInv
<1>1. newest \in Nat /\ library \subseteq Known(newest)
  BY DEF LibraryTypes
<1>2. CASE r.kind = "queue_url"
  <2>1. r.item \in Known(newest)
    BY <1>2 DEF AskSet
  <2>2. /\ newest' = newest + 1
        /\ library' = {j \in library : j.source # r.item.source} \cup {Item(r.item.source, newest + 1)}
    BY <1>2 DEF Done, Requeued
  <2>3. Item(r.item.source, newest + 1) \in Known(newest + 1) /\ Item(r.item.source, newest + 1) \notin Known(newest)
    BY <1>1, <2>1 DEF Item, Known
  <2>4. Known(newest) \subseteq Known(newest + 1)
    BY <1>1 DEF Known
  <2> QED BY <1>1, <2>1, <2>2, <2>3, <2>4
<1>3. CASE r.kind # "queue_url"
  <2>1. newest' = newest /\ (library' = library \/ library' = library \ {r.item})
        /\ (r.kind = "library_remove" => library' = library \ {r.item})
    BY <1>3 DEF Done, macVars
  <2> QED BY <1>1, <1>3, <2>1 DEF Drops
<1> QED BY <1>2, <1>3

LEMMA CarryOutKeeps == ASSUME PickInv, CarryOut PROVE PickInv'
<1> USE DEF PickInv
<1> DEFINE r == Head(asks)
<1>1. /\ asks # <<>> /\ asks' = Tail(asks)
      /\ UNCHANGED <<listing, cachedListing, selected, orders, pressed, refreshed, sentItems, crossed>>
  BY DEF CarryOut
<1>2. asks \in Seq(AskSet(newest, pressed)) /\ pressed \in Nat /\ newest \in Nat
  BY DEF LibraryTypes
<1>3. /\ r = asks[1] /\ 1 \in DOMAIN asks /\ r \in AskSet(newest, pressed)
      /\ asks' \in Seq(AskSet(newest, pressed))
      /\ \A k \in DOMAIN asks' : k + 1 \in DOMAIN asks /\ asks'[k] = asks[k + 1]
  <2> HIDE DEF AskSet
  <2> QED BY <1>1, <1>2
<1> HIDE DEF r
<1>4. PICK status \in {"completed", "failed"} :
         /\ Reports(r, status) /\ (Done(r) \/ UNCHANGED macVars)
         /\ status = "completed" => Done(r)
  BY DEF CarryOut, r
<1>5. /\ newest' \in Nat /\ newest <= newest' /\ library' \subseteq Known(newest')
      /\ \A i \in Known(newest) : i \notin library => i \notin library'
      /\ r.kind \in Drops /\ status = "completed" => r.item \notin library'
  <2>1. CASE Done(r)
    BY <1>3, <2>1, DoneDrops
  <2>2. CASE UNCHANGED macVars /\ status # "completed"
    BY <2>2 DEF macVars, LibraryTypes
  <2> QED BY <1>4, <2>1, <2>2
<1>6. /\ Known(newest) \subseteq Known(newest') /\ OrderSet(newest, pressed) \subseteq OrderSet(newest', pressed)
      /\ OrderCall(newest, pressed) \subseteq OrderCall(newest', pressed) /\ RefreshSet(newest) \subseteq RefreshSet(newest')
      /\ AskSet(newest, pressed) \subseteq AskSet(newest', pressed)
  BY <1>2, <1>5, KnownStays
<1>7. ASSUME NEW d \in libraryCalls'
      PROVE  /\ d \in OrderCall(newest', pressed)
             /\ \E c \in libraryCalls :
                   /\ d.order = c.order /\ d.item = c.item
                   /\ d = c \/ (c.order = r.order /\ c.item = r.item /\ d.step = status)
  <2>1. PICK c \in libraryCalls :
           d = IF c.step = "wait" /\ c.order = r.order /\ c.item = r.item
                 THEN [c EXCEPT !.step = status, !.heard = library'] ELSE c
    BY <1>4 DEF Reports
  <2>2. c \in OrderCall(newest', pressed)
    BY <1>6 DEF LibraryTypes
  <2>3. CASE d = c
    BY <2>2, <2>3
  <2>4. CASE d = [c EXCEPT !.step = status, !.heard = library'] /\ c.order = r.order /\ c.item = r.item
    <3>1. d \in OrderCall(newest', pressed) /\ d.order = c.order /\ d.item = c.item /\ d.step = status
      BY <1>5, <2>2, <2>4 DEF OrderCall
    <3> QED BY <2>4, <3>1
  <2> QED BY <2>1, <2>3, <2>4
<1>8. refreshes' \subseteq RefreshSet(newest')
  <2> SUFFICES ASSUME NEW g \in refreshes' PROVE g \in RefreshSet(newest')
    OBVIOUS
  <2>1. PICK f \in refreshes :
           g = IF f.step = "wait" /\ r.kind = "library_list"
                 THEN [f EXCEPT !.step = status, !.heard = library'] ELSE f
    BY <1>4 DEF Reports
  <2>2. f \in RefreshSet(newest')
    BY <1>6 DEF LibraryTypes
  <2> QED BY <1>5, <2>1, <2>2 DEF RefreshSet
<1>9. LibraryTypes'
  <2>1. asks' \in Seq(AskSet(newest', pressed))
    BY <1>3, <1>6, SeqWidens
  <2> QED BY <1>1, <1>5, <1>6, <1>7, <1>8, <2>1 DEF LibraryTypes
<1>10. OrdersApart'
  BY <1>1, <1>3 DEF OrdersApart
<1>11. DoneIsGone'
  <2> SUFFICES ASSUME NEW o \in orders, o.kind \in Drops
               PROVE  /\ o.ok \cap library' = {}
                      /\ \A c \in libraryCalls' : c.order = o.n /\ c.step = "completed" => c.item \notin library'
    BY <1>1 DEF DoneIsGone
  <2>1. o \in OrderSet(newest, pressed)
    BY DEF LibraryTypes
  <2>2. o.ok \cap library' = {}
    BY <1>5, <2>1 DEF DoneIsGone, OrderSet
  <2>3. ASSUME NEW d \in libraryCalls', d.order = o.n, d.step = "completed" PROVE d.item \notin library'
    <3>1. PICK c \in libraryCalls :
             /\ d.order = c.order /\ d.item = c.item
             /\ d = c \/ (c.order = r.order /\ c.item = r.item /\ d.step = status)
      BY <1>7
    <3>2. c.item \in Known(newest)
      BY DEF LibraryTypes, OrderCall
    <3>3. CASE d = c
      BY <1>5, <2>3, <3>2, <3>3 DEF DoneIsGone
    <3>4. CASE c.order = r.order /\ c.item = r.item /\ d.step = status
      <4>1. r.kind = o.kind
        BY <1>3, <2>3, <3>1, <3>4 DEF OrdersApart
      <4> QED BY <1>5, <2>3, <3>1, <3>4, <4>1
    <3> QED BY <3>1, <3>3, <3>4
  <2> QED BY <2>2, <2>3
<1>12. SentApart'
  <2>1. ASSUME NEW o \in orders PROVE Concerns(o)' \subseteq Concerns(o)
    BY <1>1, <1>7 DEF Concerns, CallsOf
  <2> QED BY <1>1, <2>1 DEF SentApart
<1> QED BY <1>9, <1>10, <1>11, <1>12

\* The listing and the refreshes change, and a list may be asked for.
LEMMA ListingMoves ==
    ASSUME PickInv, listing' \subseteq Known(newest), refreshes' \subseteq RefreshSet(newest), refreshed' \in Nat,
           asks' = asks \/ asks' = Append(asks, [kind |-> "library_list", item |-> NoItem, order |-> 0]),
           RefreshFrame
    PROVE  PickInv'
<1> USE DEF PickInv
<1> DEFINE r == [kind |-> "library_list", item |-> NoItem, order |-> 0]
<1>1. UNCHANGED <<library, newest, cachedListing, selected, orders, libraryCalls, pressed, sentItems, crossed>>
  BY DEF RefreshFrame, macVars
<1>2. r \in AskSet(newest, pressed) /\ r.order = 0
  BY DEF AskSet
<1>3. asks' = asks \/ asks' = Append(asks, r)
  OBVIOUS
<1> HIDE DEF r
<1>4. /\ asks' \in Seq(AskSet(newest, pressed))
      /\ \A k \in DOMAIN asks' : (k \in DOMAIN asks /\ asks'[k] = asks[k]) \/ asks'[k].order = 0
  <2>1. asks \in Seq(AskSet(newest, pressed))
    BY DEF LibraryTypes
  <2> HIDE DEF AskSet
  <2>2. CASE asks' = Append(asks, r)
    BY <1>2, <2>1, <2>2, AppendProperties
  <2> QED BY <1>3, <2>1, <2>2
<1>5. \A o \in orders : o.n # 0
  BY DEF LibraryTypes, OrderSet
<1>6. LibraryTypes'
  BY <1>1, <1>4 DEF LibraryTypes
<1>7. OrdersApart' /\ DoneIsGone'
  BY <1>1, <1>4, <1>5 DEF OrdersApart, DoneIsGone
<1>8. SentApart'
  BY <1>1 DEF SentApart, Concerns, CallsOf
<1> QED BY <1>6, <1>7, <1>8

LEMMA RefreshKeepsPicks ==
    ASSUME PickInv, Refresh \/ \E f \in refreshes : RefreshSteps(f)
    PROVE  PickInv'
<1>0. listing \subseteq Known(newest) /\ cachedListing \subseteq Known(newest) /\ refreshed \in Nat
      /\ refreshes \subseteq RefreshSet(newest)
  BY DEF PickInv, LibraryTypes
<1>1. CASE Refresh
  <2>1. [n |-> refreshed + 1, step |-> "cache", heard |-> {}] \in RefreshSet(newest)
    BY <1>0 DEF RefreshSet
  <2>2. refreshes' \subseteq RefreshSet(newest) /\ refreshed' \in Nat /\ listing' \subseteq Known(newest)
    <3>1. refreshes' = refreshes \cup {[n |-> refreshed + 1, step |-> "cache", heard |-> {}]}
          /\ refreshed' = refreshed + 1 /\ UNCHANGED <<listing, newest>>
      BY <1>1 DEF Refresh, RefreshFrame, macVars
    <3> HIDE DEF RefreshSet
    <3> QED BY <1>0, <2>1, <3>1
  <2> QED BY <1>1, <2>2, ListingMoves DEF Refresh
<1>2. ASSUME NEW f \in refreshes, RefreshSteps(f) PROVE PickInv'
  <2>1. f \in RefreshSet(newest)
    BY <1>0
  <2>2. [f EXCEPT !.step = "post"] \in RefreshSet(newest) /\ [f EXCEPT !.step = "wait"] \in RefreshSet(newest)
        /\ f.heard \subseteq Known(newest)
    BY <2>1 DEF RefreshSet
  <2>3. CASE LoadCache(f)
    BY <1>0, <2>2, <2>3, ListingMoves DEF LoadCache, CachedAnswers
  <2>4. CASE AskForList(f)
    BY <1>0, <2>2, <2>4, ListingMoves DEF AskForList
  <2>5. CASE EndRefresh(f)
    BY <1>0, <2>2, <2>5, ListingMoves DEF EndRefresh
  <2> QED BY <1>2, <2>3, <2>4, <2>5 DEF RefreshSteps
<1> QED BY <1>1, <1>2

LEMMA ToggleKeeps == ASSUME PickInv, NEW i, Toggle(i) PROVE PickInv'
<1> USE DEF PickInv
<1>1. /\ i \in listing
      /\ \/ selected' = selected \ {i} /\ sentItems' = sentItems
         \/ selected' = selected \cup {i} /\ sentItems' = sentItems \ {i}
      /\ UNCHANGED <<library, newest, asks, listing, cachedListing, orders, libraryCalls, refreshes,
                     pressed, refreshed, crossed>>
  BY DEF Toggle, macVars
<1>2. LibraryTypes'
  BY <1>1 DEF LibraryTypes
<1>3. OrdersApart' /\ DoneIsGone'
  BY <1>1 DEF OrdersApart, DoneIsGone
<1>4. SentApart'
  BY <1>1 DEF SentApart, Concerns, CallsOf
<1> QED BY <1>2, <1>3, <1>4

LEMMA LibraryStep ==
    ASSUME PickInv, [LibraryNext]_libraryVars
    PROVE  PickInv' /\ \A i \in selected \ selected' : orders' # orders => i \notin library
<1>1. CASE UNCHANGED libraryVars
  BY <1>1 DEF libraryVars, macVars, PickInv, LibraryTypes, OrdersApart, DoneIsGone, SentApart, Concerns, CallsOf
<1>2. ASSUME NEW o \in orders, StartChunk(o) PROVE PickInv' /\ UNCHANGED selected
  BY <1>2, ChunkKeeps DEF StartChunk
<1>3. ASSUME NEW kind \in OrderKinds, NEW i \in Items, Mutate(kind, i) PROVE PickInv' /\ UNCHANGED selected
  <2>1. {i} \in SUBSET Known(newest) /\ kind # "queue_url" /\ Begins(kind, {i})
    BY <1>3 DEF Mutate, PickInv, LibraryTypes
  <2> QED BY <2>1, BeginKeepsPicks DEF Begins
<1>4. ASSUME NEW kind \in OrderKinds, MutateSelected(kind) PROVE PickInv' /\ UNCHANGED selected
  <2>1. Targets(kind) \in SUBSET Known(newest) /\ Targets(kind) \subseteq selected /\ Begins(kind, Targets(kind))
    BY <1>4 DEF MutateSelected, Targets, PickInv, LibraryTypes
  <2> QED BY <2>1, BeginKeepsPicks DEF Begins
<1>5. ASSUME NEW o \in orders, OrderCalls(o) PROVE PickInv' /\ UNCHANGED selected
  BY <1>5, LibraryPostKeeps, HearOrderKeeps DEF OrderCalls, PostOrder, HearOrder
<1>6. CASE CarryOut
  BY <1>6, CarryOutKeeps DEF CarryOut
<1>7. CASE Refresh \/ \E f \in refreshes : RefreshSteps(f)
  BY <1>7, RefreshKeepsPicks DEF Refresh, RefreshSteps, LoadCache, AskForList, EndRefresh, RefreshFrame
<1>8. ASSUME NEW i \in Items, Toggle(i) PROVE PickInv' /\ UNCHANGED orders
  BY <1>8, ToggleKeeps DEF Toggle
<1> QED BY <1>1, <1>2, <1>3, <1>4, <1>5, <1>6, <1>7, <1>8, EndOrderKeeps DEF LibraryNext, OrderSteps

\* PickedIsDoneOnce: what leaves the selection with the end of an order is known to the Mac
\* no more, and what was sent is not sent again unless it is selected again, but for two
\* orders at once or jobs that could not be read.
THEOREM PicksAreDoneOnce == LibrarySpec => PickedIsDoneOnce
<1>1. PickInv /\ [LibraryNext]_libraryVars => PickInv'
  BY LibraryStep
<1>2. PickInv /\ [LibraryNext]_libraryVars =>
        [\A i \in selected \ selected' : orders' # orders => i \notin library]_libraryVars
  BY LibraryStep
<1>3. PickInv => SentOncePerPick
  BY DEF PickInv, SentApart, Concerns, SentOncePerPick
<1> QED BY <1>1, <1>2, <1>3, LibraryStarts, PTL DEF LibrarySpec, PickedIsDoneOnce, DroppedIsDone

-----------------------------------------------------------------------------
(* The types of the Library.                                               *)

\* A snapshot has one item of a source.
OnePerSource(S) == \A i, j \in S : i.source = j.source => i = j

\* Every snapshot there is; there is one order at once until a refresh opens the buttons; and a
\* list is asked for once.
SnapshotsFit ==
    /\ OnePerSource(library) /\ OnePerSource(listing) /\ OnePerSource(cachedListing)
    /\ \A c \in libraryCalls : OnePerSource(c.heard)
    /\ \A f \in refreshes : OnePerSource(f.heard)
    /\ sentItems \subseteq Known(newest) /\ pressed <= MaxOrders
    /\ \A k, l \in DOMAIN asks : asks[k].kind = "library_list" /\ asks[l].kind = "library_list" => k = l
    /\ refreshed = 0 => refreshes = {} /\ (orders # {} => libraryBusy) /\ \A o, p \in orders : o = p

\* An item of an order is to be sent, on its way, done or refused.
CallsFit ==
    /\ \A c \in libraryCalls : \E o \in orders : o.n = c.order /\ c.item \notin o.todo \cup o.ok \cup o.bad
    /\ \A c, d \in libraryCalls : c.order = d.order /\ c.item = d.item => c = d
    /\ \A o \in orders : o.ok \cap o.bad = {} /\ o.todo \cap (o.ok \cup o.bad) = {}

\* The call has not been posted.
IsUnsent(c) == c.step = "post"

\* An order sends a source once: it is still to do, a call, or a row, in one place only.
SendsOnce ==
    /\ \A k, l \in DOMAIN asks :
          asks[k].kind = "queue_url" /\ asks[l].kind = "queue_url" /\ asks[k].order = asks[l].order
             /\ asks[k].item.source = asks[l].item.source => k = l
    /\ \A k \in DOMAIN asks : asks[k].kind = "queue_url" =>
          /\ \A c \in libraryCalls :
                IsUnsent(c) /\ c.order = asks[k].order => c.item.source # asks[k].item.source
          /\ \A o \in orders : o.n = asks[k].order => \A i \in o.todo : i.source # asks[k].item.source
    /\ \A o \in orders : o.kind = "queue_url" =>
          /\ OnePerSource(o.todo)
          /\ \A c \in libraryCalls : IsUnsent(c) /\ c.order = o.n =>
                /\ \A i \in o.todo : i.source # c.item.source
                /\ \A d \in libraryCalls : IsUnsent(d) /\ d.order = o.n /\ d.item.source = c.item.source => c = d

\* A job of the source may still come of the order.
MayCome(n, s) ==
    \/ \E k \in DOMAIN asks : asks[k].kind = "queue_url" /\ asks[k].order = n /\ asks[k].item.source = s
    \/ \E c \in libraryCalls : IsUnsent(c) /\ c.order = n /\ c.item.source = s
    \/ \E o \in orders : o.n = n /\ \E i \in o.todo : i.source = s

\* The jobs the Mac has made are of presses and sources that are over.
Came == {x \in (1..pressed) \X Sources : ~MayCome(x[1], x[2])}

LibraryBounds == SnapshotsFit /\ CallsFit /\ SendsOnce /\ newest <= Cardinality(Came)

LEMMA PairsAreFinite ==
    ASSUME NEW p \in Nat, NEW S \in SUBSET ((1..p) \X Sources)
    PROVE  /\ IsFiniteSet((1..p) \X Sources) /\ IsFiniteSet(S) /\ Cardinality(S) \in Nat
           /\ Cardinality(S) <= p * Cardinality(Sources) /\ Cardinality(Sources) \in Nat
<1>1. IsFiniteSet(Sources)
  BY LibraryAssumption DEF LibraryAssumption
<1>2. IsFiniteSet(1..p) /\ Cardinality(1..p) = p
  <2>1. 1 \in Int /\ p \in Int
    OBVIOUS
  <2> QED BY <2>1, FS_Interval
<1>3. /\ IsFiniteSet((1..p) \X Sources)
      /\ Cardinality((1..p) \X Sources) = p * Cardinality(Sources)
  BY <1>1, <1>2, FS_Product
<1>5. IsFiniteSet(S) /\ Cardinality(S) <= Cardinality((1..p) \X Sources)
  BY <1>3, FS_Subset
<1> QED BY <1>1, <1>3, <1>5, FS_CardinalityType

LEMMA CameIsFinite ==
    ASSUME PickInv
    PROVE  /\ IsFiniteSet(Came) /\ Cardinality(Came) \in Nat
           /\ Cardinality(Came) <= pressed * Cardinality(Sources)
           /\ pressed \in Nat /\ newest \in Nat /\ Cardinality(Sources) \in Nat /\ MaxOrders \in Nat
<1>1. pressed \in Nat /\ newest \in Nat /\ MaxOrders \in Nat
  BY LibraryAssumption DEF PickInv, LibraryTypes, LibraryAssumption
<1>2. Came \in SUBSET ((1..pressed) \X Sources)
  BY DEF Came
<1> QED BY <1>1, <1>2, PairsAreFinite

\* What had come, has.
LEMMA NothingComes ==
    ASSUME PickInv, newest <= Cardinality(Came), newest' = newest, pressed <= pressed', pressed' \in Nat,
           \A n \in 1..pressed, s \in Sources : MayCome(n, s)' => MayCome(n, s)
    PROVE  newest' <= Cardinality(Came)'
<1>1. /\ IsFiniteSet(Came) /\ Cardinality(Came) \in Nat /\ pressed \in Nat /\ newest \in Nat
  BY CameIsFinite
<1>2. IsFiniteSet(Came') /\ Cardinality(Came') \in Nat
  <2>1. Came' \in SUBSET ((1..pressed') \X Sources)
    BY DEF Came
  <2> QED BY <2>1, PairsAreFinite
<1>3. Came \subseteq Came'
  <2>1. ASSUME NEW n \in 1..pressed, NEW s \in Sources, ~MayCome(n, s) PROVE n \in 1..pressed' /\ ~MayCome(n, s)'
    BY <1>1, <2>1
  <2> QED BY <2>1 DEF Came
<1>4. Cardinality(Came) <= Cardinality(Came')
  BY <1>2, <1>3, FS_Subset
<1> QED BY <1>1, <1>2, <1>4

LEMMA LibraryBoundsStart == LibraryInit => LibraryBounds
<1> SUFFICES ASSUME LibraryInit PROVE LibraryBounds
  OBVIOUS
<1>1. /\ newest = 0 /\ pressed = 0 /\ refreshed = 0 /\ asks = <<>> /\ orders = {} /\ libraryCalls = {} /\ refreshes = {}
      /\ listing = {} /\ cachedListing = library /\ sentItems = {} /\ library = {Item(s, 0) : s \in Sources}
  BY DEF LibraryInit
<1>2. DOMAIN asks = {}
  BY <1>1
<1>3. OnePerSource(library)
  BY <1>1 DEF OnePerSource, Item
<1>4. SnapshotsFit
  BY <1>1, <1>2, <1>3, LibraryAssumption DEF SnapshotsFit, OnePerSource, LibraryAssumption
<1>5. CallsFit /\ SendsOnce
  BY <1>1, <1>2 DEF CallsFit, SendsOnce
<1>6. newest <= Cardinality(Came)
  <2>1. PickInv
    BY LibraryStarts
  <2>2. Cardinality(Came) \in Nat
    BY <2>1, CameIsFinite
  <2> QED BY <1>1, <2>2
<1> QED BY <1>4, <1>5, <1>6 DEF LibraryBounds

LEMMA BeginFits ==
    ASSUME PickInv, LibraryBounds, NEW kind \in OrderKinds, NEW todo \in SUBSET Known(newest),
           Begins(kind, todo), kind = "queue_url" => OnePerSource(todo)
    PROVE  LibraryBounds'
<1> DEFINE new == [n |-> pressed + 1, kind |-> kind, todo |-> todo, ok |-> {}, bad |-> {}]
<1>1. /\ pressed < MaxOrders /\ pressed' = pressed + 1 /\ libraryBusy' = TRUE /\ ~libraryBusy
      /\ orders' = orders \cup {new}
      /\ UNCHANGED <<library, newest, asks, listing, cachedListing, libraryCalls, refreshes, refreshed, sentItems>>
  BY DEF Begins, macVars
<1>2. new.n = pressed + 1 /\ new.kind = kind /\ new.todo = todo /\ new.ok = {} /\ new.bad = {}
  OBVIOUS
<1> HIDE DEF new
<1>3. pressed \in Nat /\ MaxOrders \in Nat
  BY CameIsFinite
<1>4. /\ \A o \in orders : o.n \in 1..pressed /\ o.n # pressed + 1
      /\ \A c \in libraryCalls : c.order \in 1..pressed /\ c.order # pressed + 1
      /\ \A k \in DOMAIN asks : asks[k].order # pressed + 1
  <2>1. \A r \in AskSet(newest, pressed) : r.order # pressed + 1
    BY <1>3 DEF AskSet
  <2>2. \A k \in DOMAIN asks : asks[k] \in AskSet(newest, pressed)
    BY DEF PickInv, LibraryTypes
  <2>3. \A o \in orders : o.n \in 1..pressed
    BY DEF PickInv, LibraryTypes, OrderSet
  <2>4. \A c \in libraryCalls : c.order \in 1..pressed
    BY DEF PickInv, LibraryTypes, OrderCall
  <2> QED BY <1>3, <2>1, <2>2, <2>3, <2>4
<1>5. SnapshotsFit'
  <2>1. refreshed = 0 => orders = {}
    BY <1>1 DEF LibraryBounds, SnapshotsFit
  <2> QED BY <1>1, <1>3, <2>1 DEF LibraryBounds, SnapshotsFit
<1>6. CallsFit'
  <2>1. \A o \in orders' : o.ok \cap o.bad = {} /\ o.todo \cap (o.ok \cup o.bad) = {}
    BY <1>1, <1>2 DEF LibraryBounds, CallsFit
  <2> QED BY <1>1, <2>1 DEF LibraryBounds, CallsFit
<1>7. SendsOnce'
  <2>1. \A k \in DOMAIN asks : asks[k].kind = "queue_url" =>
          \A o \in orders' : o.n = asks[k].order => \A i \in o.todo : i.source # asks[k].item.source
    BY <1>1, <1>2, <1>4 DEF LibraryBounds, SendsOnce
  <2>2. ASSUME NEW o \in orders', o.kind = "queue_url"
        PROVE  /\ OnePerSource(o.todo)
               /\ \A c \in libraryCalls : IsUnsent(c) /\ c.order = o.n =>
                     /\ \A i \in o.todo : i.source # c.item.source
                     /\ \A d \in libraryCalls : IsUnsent(d) /\ d.order = o.n /\ d.item.source = c.item.source => c = d
    BY <1>1, <1>2, <1>4, <2>2 DEF LibraryBounds, SendsOnce
  <2> QED BY <1>1, <2>1, <2>2 DEF LibraryBounds, SendsOnce
<1>8. newest' <= Cardinality(Came)'
  <2>1. ASSUME NEW n \in 1..pressed, NEW s \in Sources, MayCome(n, s)' PROVE MayCome(n, s)
    <3>1. n # pressed + 1
      BY <1>3
    <3> QED BY <1>1, <1>2, <2>1, <3>1 DEF MayCome
  <2> QED BY <1>1, <1>3, <2>1, NothingComes DEF LibraryBounds
<1> QED BY <1>5, <1>6, <1>7, <1>8 DEF LibraryBounds

LEMMA ChunkFits ==
    ASSUME PickInv, LibraryBounds, NEW o \in orders, StartChunk(o) PROVE LibraryBounds'
<1>1. PICK C \in Chunks(o.todo) :
         /\ libraryCalls' = libraryCalls \cup
                {[order |-> o.n, item |-> i, step |-> "post", heard |-> {}] : i \in C}
         /\ orders' = (orders \ {o}) \cup {[o EXCEPT !.todo = @ \ C]}
  BY DEF StartChunk
<1>2. /\ C \subseteq o.todo /\ CallsOf(o) = {}
      /\ UNCHANGED <<library, newest, asks, listing, cachedListing, libraryBusy, refreshes, pressed, refreshed, sentItems>>
  BY DEF Chunks, StartChunk, macVars
<1> DEFINE p == [o EXCEPT !.todo = @ \ C]
           New(i) == [order |-> o.n, item |-> i, step |-> "post", heard |-> {}]
<1>3. o \in OrderSet(newest, pressed)
  BY DEF PickInv, LibraryTypes
<1>4. p.n = o.n /\ p.kind = o.kind /\ p.ok = o.ok /\ p.bad = o.bad /\ p.todo = o.todo \ C
  BY <1>3 DEF OrderSet
<1>5. \A i \in C : New(i).order = o.n /\ New(i).item = i /\ IsUnsent(New(i)) /\ New(i).heard = {}
  BY DEF IsUnsent
<1>6. orders' = (orders \ {o}) \cup {p} /\ libraryCalls' = libraryCalls \cup {New(i) : i \in C}
  BY <1>1
<1> HIDE DEF p, New
<1>7. \A c \in libraryCalls' : c \in libraryCalls \/ \E i \in C : c = New(i)
  BY <1>6
<1>8. /\ \A x \in orders : x.n = o.n => x = o
      /\ \A c \in libraryCalls : c.order # o.n
  BY <1>2 DEF PickInv, OrdersApart, CallsOf
<1>9. SnapshotsFit'
  <2>1. \A c \in libraryCalls' : OnePerSource(c.heard)
    BY <1>5, <1>7 DEF LibraryBounds, SnapshotsFit, OnePerSource
  <2>2. (orders' # {} => orders # {}) /\ ((\A x, y \in orders : x = y) => \A x, y \in orders' : x = y)
    BY <1>6
  <2> QED BY <1>2, <2>1, <2>2 DEF LibraryBounds, SnapshotsFit
<1>10. CallsFit'
  <2>1. \A x \in orders' : x.ok \cap x.bad = {} /\ x.todo \cap (x.ok \cup x.bad) = {}
    BY <1>4, <1>6 DEF LibraryBounds, CallsFit
  <2>2. \A c, d \in libraryCalls' : c.order = d.order /\ c.item = d.item => c = d
    BY <1>5, <1>7, <1>8 DEF LibraryBounds, CallsFit
  <2>3. ASSUME NEW c \in libraryCalls' PROVE \E x \in orders' : x.n = c.order /\ c.item \notin x.todo \cup x.ok \cup x.bad
    <3>1. CASE c \in libraryCalls
      BY <1>6, <1>8, <3>1 DEF LibraryBounds, CallsFit
    <3>2. CASE \E i \in C : c = New(i)
      BY <1>2, <1>4, <1>5, <1>6, <3>2 DEF LibraryBounds, CallsFit
    <3> QED BY <1>7, <3>1, <3>2
  <2> QED BY <2>1, <2>2, <2>3 DEF CallsFit
<1>11. SendsOnce'
  <2>1. ASSUME NEW k \in DOMAIN asks, asks[k].kind = "queue_url"
        PROVE  /\ \A c \in libraryCalls' : IsUnsent(c) /\ c.order = asks[k].order => c.item.source # asks[k].item.source
               /\ \A x \in orders' : x.n = asks[k].order => \A i \in x.todo : i.source # asks[k].item.source
    BY <1>2, <1>4, <1>5, <1>6, <1>7, <2>1 DEF LibraryBounds, SendsOnce
  <2>2. ASSUME NEW x \in orders', x.kind = "queue_url"
        PROVE  /\ OnePerSource(x.todo)
               /\ \A c \in libraryCalls' : IsUnsent(c) /\ c.order = x.n =>
                     /\ \A i \in x.todo : i.source # c.item.source
                     /\ \A d \in libraryCalls' : IsUnsent(d) /\ d.order = x.n /\ d.item.source = c.item.source => c = d
    <3>1. CASE x = p
      <4>1. o.kind = "queue_url" /\ OnePerSource(o.todo)
        BY <1>4, <2>2, <3>1 DEF LibraryBounds, SendsOnce
      <4>2. \A c \in libraryCalls' : c.order = o.n => \E i \in C : c = New(i)
        BY <1>7, <1>8
      <4> QED BY <1>2, <1>4, <1>5, <3>1, <4>1, <4>2 DEF OnePerSource
    <3>2. CASE x \in orders /\ x # o
      <4>1. x.n # o.n
        BY <1>8, <3>2
      <4>2. \A c \in libraryCalls' : c.order = x.n => c \in libraryCalls
        BY <1>5, <1>7, <4>1
      <4> QED BY <2>2, <3>2, <4>2 DEF LibraryBounds, SendsOnce
    <3> QED BY <1>6, <3>1, <3>2
  <2> QED BY <1>2, <2>1, <2>2 DEF LibraryBounds, SendsOnce
<1>12. newest' <= Cardinality(Came)'
  <2>1. ASSUME NEW n \in 1..pressed, NEW s \in Sources, MayCome(n, s)' PROVE MayCome(n, s)
    <3>1. CASE \E c \in libraryCalls' : IsUnsent(c) /\ c.order = n /\ c.item.source = s
      BY <1>2, <1>5, <1>7, <3>1 DEF MayCome
    <3>2. CASE \E x \in orders' : x.n = n /\ \E i \in x.todo : i.source = s
      BY <1>4, <1>6, <3>2 DEF MayCome
    <3> QED BY <1>2, <2>1, <3>1, <3>2 DEF MayCome
  <2> QED BY <1>2, <2>1, NothingComes, CameIsFinite DEF LibraryBounds
<1> QED BY <1>9, <1>10, <1>11, <1>12 DEF LibraryBounds

LEMMA LibraryPostFits ==
    ASSUME PickInv, LibraryBounds, NEW o \in orders, NEW c \in CallsOf(o), PostOrder(o, c) PROVE LibraryBounds'
<1>1. c \in libraryCalls /\ c.order = o.n /\ IsUnsent(c)
  BY DEF CallsOf, PostOrder, IsUnsent
<1>2. PICK step \in {"wait", "failed"} :
         /\ libraryCalls' = (libraryCalls \ {c}) \cup {[c EXCEPT !.step = step]}
         /\ asks' = asks \/ asks' = Append(asks, [kind |-> o.kind, item |-> c.item, order |-> o.n])
  BY DEF PostOrder
<1> DEFINE d == [c EXCEPT !.step = step]
           r == [kind |-> o.kind, item |-> c.item, order |-> o.n]
<1>3. d.order = o.n /\ d.item = c.item /\ d.step = step /\ d.heard = c.heard /\ ~IsUnsent(d)
  <2>1. c \in OrderCall(newest, pressed)
    BY <1>1 DEF PickInv, LibraryTypes
  <2> QED BY <1>1, <2>1 DEF OrderCall, IsUnsent
<1>4. /\ r \in AskSet(newest, pressed) /\ r.kind = o.kind /\ r.order = o.n /\ r.item = c.item
      /\ o.kind # "library_list" /\ o.n \in 1..pressed /\ c.item.source \in Sources
  <2>1. o \in OrderSet(newest, pressed) /\ c \in OrderCall(newest, pressed)
    BY <1>1 DEF PickInv, LibraryTypes
  <2> QED BY <2>1, LibraryAssumption DEF AskSet, OrderSet, OrderCall, Known, LibraryAssumption
<1>5. libraryCalls' = (libraryCalls \ {c}) \cup {d} /\ (asks' = asks \/ asks' = Append(asks, r))
  BY <1>2
<1>6. UNCHANGED <<library, newest, listing, cachedListing, libraryBusy, orders, refreshes, pressed, refreshed, sentItems>>
  BY DEF PostOrder, macVars
<1> HIDE DEF d, r
<1>7. \A k \in DOMAIN asks' : \/ k \in DOMAIN asks /\ asks'[k] = asks[k]
                              \/ k = Len(asks) + 1 /\ k \notin DOMAIN asks /\ asks'[k] = r
  <2>1. asks \in Seq(AskSet(newest, pressed))
    BY DEF PickInv, LibraryTypes
  <2> HIDE DEF AskSet
  <2>2. CASE asks' = Append(asks, r)
    BY <1>4, <2>1, <2>2, AppendProperties
  <2> QED BY <1>5, <2>2
<1>8. \A x \in libraryCalls' : x = d \/ (x \in libraryCalls /\ x # c)
  BY <1>5
<1>9. \A x \in orders : x.n = o.n => x = o
  BY DEF PickInv, OrdersApart
<1>10. SnapshotsFit'
  <2>1. \A x \in libraryCalls' : OnePerSource(x.heard)
    BY <1>1, <1>3, <1>8 DEF LibraryBounds, SnapshotsFit
  <2>2. \A k, l \in DOMAIN asks' : asks'[k].kind = "library_list" /\ asks'[l].kind = "library_list" => k = l
    BY <1>4, <1>7 DEF LibraryBounds, SnapshotsFit
  <2> QED BY <1>6, <2>1, <2>2 DEF LibraryBounds, SnapshotsFit
<1>11. CallsFit'
  <2>1. \A x \in libraryCalls' : \E y \in orders : y.n = x.order /\ x.item \notin y.todo \cup y.ok \cup y.bad
    BY <1>1, <1>3, <1>8 DEF LibraryBounds, CallsFit
  <2>2. \A x, y \in libraryCalls' : x.order = y.order /\ x.item = y.item => x = y
    BY <1>1, <1>3, <1>8 DEF LibraryBounds, CallsFit
  <2> QED BY <1>6, <2>1, <2>2 DEF LibraryBounds, CallsFit
<1>12. SendsOnce'
  <2>1. /\ \A i \in o.todo : o.kind = "queue_url" => i.source # c.item.source
        /\ \A x \in libraryCalls : o.kind = "queue_url" /\ IsUnsent(x) /\ x.order = o.n /\ x.item.source = c.item.source => x = c
    BY <1>1 DEF LibraryBounds, SendsOnce
  <2>2. \A k, l \in DOMAIN asks' :
          asks'[k].kind = "queue_url" /\ asks'[l].kind = "queue_url" /\ asks'[k].order = asks'[l].order
             /\ asks'[k].item.source = asks'[l].item.source => k = l
    BY <1>1, <1>4, <1>7 DEF LibraryBounds, SendsOnce
  <2>3. ASSUME NEW k \in DOMAIN asks', asks'[k].kind = "queue_url"
        PROVE  /\ \A x \in libraryCalls' : IsUnsent(x) /\ x.order = asks'[k].order => x.item.source # asks'[k].item.source
               /\ \A x \in orders : x.n = asks'[k].order => \A i \in x.todo : i.source # asks'[k].item.source
    <3>1. CASE k \in DOMAIN asks /\ asks'[k] = asks[k]
      BY <1>3, <1>8, <2>3, <3>1 DEF LibraryBounds, SendsOnce
    <3>2. CASE asks'[k] = r
      BY <1>3, <1>4, <1>8, <1>9, <2>1, <2>3, <3>2
    <3> QED BY <1>7, <3>1, <3>2
  <2>4. ASSUME NEW x \in orders, x.kind = "queue_url"
        PROVE  /\ OnePerSource(x.todo)
               /\ \A y \in libraryCalls' : IsUnsent(y) /\ y.order = x.n =>
                     /\ \A i \in x.todo : i.source # y.item.source
                     /\ \A z \in libraryCalls' : IsUnsent(z) /\ z.order = x.n /\ z.item.source = y.item.source => y = z
    BY <1>3, <1>8, <2>4 DEF LibraryBounds, SendsOnce
  <2> QED BY <1>6, <2>2, <2>3, <2>4 DEF SendsOnce, IsUnsent
<1>13. newest' <= Cardinality(Came)'
  <2>1. ASSUME NEW n \in 1..pressed, NEW s \in Sources, MayCome(n, s)' PROVE MayCome(n, s)
    <3>1. CASE \E k \in DOMAIN asks' : asks'[k].kind = "queue_url" /\ asks'[k].order = n /\ asks'[k].item.source = s
      BY <1>1, <1>4, <1>7, <3>1 DEF MayCome
    <3>2. CASE \E x \in libraryCalls' : IsUnsent(x) /\ x.order = n /\ x.item.source = s
      BY <1>3, <1>8, <3>2 DEF MayCome
    <3>3. CASE \E x \in orders : x.n = n /\ \E i \in x.todo : i.source = s
      BY <3>3 DEF MayCome
    <3> QED BY <1>6, <2>1, <3>1, <3>2, <3>3 DEF MayCome, IsUnsent
  <2> QED BY <1>6, <2>1, NothingComes, CameIsFinite DEF LibraryBounds
<1> QED BY <1>10, <1>11, <1>12, <1>13 DEF LibraryBounds

LEMMA HearOrderFits ==
    ASSUME PickInv, LibraryBounds, NEW o \in orders, NEW c \in CallsOf(o), HearOrder(o, c) PROVE LibraryBounds'
<1>1. c \in libraryCalls /\ c.order = o.n /\ libraryCalls' = libraryCalls \ {c}
  BY DEF CallsOf, HearOrder
<1>2. PICK p \in {[o EXCEPT !.ok = @ \cup {c.item}], [o EXCEPT !.bad = @ \cup {c.item}]} :
         /\ orders' = (orders \ {o}) \cup {p}
         /\ listing' \in {listing, c.heard}
  BY DEF HearOrder
<1>3. /\ p.n = o.n /\ p.kind = o.kind /\ p.todo = o.todo
      /\ \/ p.ok = o.ok /\ p.bad = o.bad \cup {c.item}
         \/ p.ok = o.ok \cup {c.item} /\ p.bad = o.bad
  <2>1. o \in OrderSet(newest, pressed)
    BY DEF PickInv, LibraryTypes
  <2> QED BY <1>2, <2>1 DEF OrderSet
<1>4. UNCHANGED <<library, newest, asks, cachedListing, libraryBusy, refreshes, pressed, refreshed, sentItems>>
  BY DEF HearOrder, macVars
<1>5. \A x \in orders : x.n = o.n => x = o
  BY DEF PickInv, OrdersApart
<1>6. c.item \notin o.todo \cup o.ok \cup o.bad /\ \A d \in libraryCalls : d.order = o.n /\ d.item = c.item => d = c
  BY <1>1, <1>5 DEF LibraryBounds, CallsFit
<1>7. SnapshotsFit'
  <2>1. OnePerSource(listing')
    BY <1>1, <1>2 DEF LibraryBounds, SnapshotsFit
  <2>2. (orders' # {} => orders # {}) /\ ((\A x, y \in orders : x = y) => \A x, y \in orders' : x = y)
    BY <1>2
  <2> QED BY <1>1, <1>4, <2>1, <2>2 DEF LibraryBounds, SnapshotsFit
<1>8. CallsFit'
  <2>1. o.ok \cap o.bad = {} /\ o.todo \cap (o.ok \cup o.bad) = {}
    BY DEF LibraryBounds, CallsFit
  <2>2. p.ok \cap p.bad = {} /\ p.todo \cap (p.ok \cup p.bad) = {}
    BY <1>3, <1>6, <2>1
  <2>3. \A x \in orders' : x.ok \cap x.bad = {} /\ x.todo \cap (x.ok \cup x.bad) = {}
    BY <1>2, <2>2 DEF LibraryBounds, CallsFit
  <2>4. ASSUME NEW d \in libraryCalls' PROVE \E x \in orders' : x.n = d.order /\ d.item \notin x.todo \cup x.ok \cup x.bad
    <3>1. PICK x \in orders : x.n = d.order /\ d.item \notin x.todo \cup x.ok \cup x.bad
      BY <1>1 DEF LibraryBounds, CallsFit
    <3>2. CASE x = o
      <4>1. d.item # c.item
        BY <1>1, <1>6, <3>1, <3>2
      <4> QED BY <1>2, <1>3, <3>1, <3>2, <4>1
    <3> QED BY <1>2, <3>1, <3>2
  <2> QED BY <1>1, <2>3, <2>4 DEF LibraryBounds, CallsFit
<1>9. SendsOnce'
  BY <1>1, <1>2, <1>3, <1>4 DEF LibraryBounds, SendsOnce
<1>10. newest' <= Cardinality(Came)'
  <2>1. ASSUME NEW n \in 1..pressed, NEW s \in Sources, MayCome(n, s)' PROVE MayCome(n, s)
    BY <1>1, <1>2, <1>3, <1>4, <2>1 DEF MayCome
  <2> QED BY <1>4, <2>1, NothingComes, CameIsFinite DEF LibraryBounds
<1> QED BY <1>7, <1>8, <1>9, <1>10 DEF LibraryBounds

LEMMA EndOrderFits ==
    ASSUME PickInv, LibraryBounds, NEW o \in orders, EndOrder(o) PROVE LibraryBounds'
<1>1. /\ orders' = orders \ {o} /\ CallsOf(o) = {}
      /\ sentItems' = IF o.kind = "queue_url" THEN sentItems \cup o.ok ELSE sentItems
      /\ UNCHANGED <<library, newest, asks, listing, cachedListing, libraryCalls, refreshes, pressed, refreshed>>
  BY DEF EndOrder, macVars
<1>2. o.ok \subseteq Known(newest)
  BY DEF PickInv, LibraryTypes, OrderSet
<1>3. \A c \in libraryCalls : c.order # o.n
  BY <1>1 DEF CallsOf
<1>4. SnapshotsFit'
  <2>1. refreshed = 0 => orders' = {}
    BY <1>1 DEF LibraryBounds, SnapshotsFit
  <2>2. sentItems' \subseteq Known(newest)
    BY <1>1, <1>2 DEF LibraryBounds, SnapshotsFit
  <2> QED BY <1>1, <2>1, <2>2 DEF LibraryBounds, SnapshotsFit
<1>5. CallsFit'
  BY <1>1, <1>3 DEF LibraryBounds, CallsFit
<1>6. SendsOnce'
  BY <1>1 DEF LibraryBounds, SendsOnce
<1>7. newest' <= Cardinality(Came)'
  <2>1. ASSUME NEW n \in 1..pressed, NEW s \in Sources, MayCome(n, s)' PROVE MayCome(n, s)
    BY <1>1, <2>1 DEF MayCome
  <2> QED BY <1>1, <2>1, NothingComes, CameIsFinite DEF LibraryBounds
<1> QED BY <1>4, <1>5, <1>6, <1>7 DEF LibraryBounds

LEMMA CarryOutFits == ASSUME PickInv, PickInv', LibraryBounds, CarryOut PROVE LibraryBounds'
<1> DEFINE r == Head(asks)
<1>1. /\ asks # <<>> /\ asks' = Tail(asks)
      /\ UNCHANGED <<listing, cachedListing, libraryBusy, orders, pressed, refreshed, sentItems>>
  BY DEF CarryOut
<1>2. asks \in Seq(AskSet(newest, pressed)) /\ pressed \in Nat /\ newest \in Nat /\ library \subseteq Known(newest)
  BY DEF PickInv, LibraryTypes
<1>3. /\ r = asks[1] /\ 1 \in DOMAIN asks /\ r \in AskSet(newest, pressed)
      /\ \A k \in DOMAIN asks' : k + 1 \in DOMAIN asks /\ k + 1 # 1 /\ asks'[k] = asks[k + 1]
      /\ \A k, l \in DOMAIN asks' : k + 1 = l + 1 => k = l
  <2> HIDE DEF AskSet
  <2> QED BY <1>1, <1>2
<1> HIDE DEF r
<1>4. PICK status \in {"completed", "failed"} :
         /\ Reports(r, status) /\ (Done(r) \/ UNCHANGED macVars)
  BY DEF CarryOut, r
<1>5. \/ /\ r.kind = "queue_url" /\ newest' = newest + 1 /\ r.item.source \in Sources /\ r.order \in 1..pressed
         /\ library' = {j \in library : j.source # r.item.source} \cup {Item(r.item.source, newest + 1)}
      \/ newest' = newest /\ library' \subseteq library
  <2>1. CASE Done(r) /\ r.kind = "queue_url"
    BY <1>3, <2>1 DEF Done, Requeued, AskSet, Known
  <2>2. CASE Done(r) /\ r.kind # "queue_url"
    BY <2>2 DEF Done, macVars
  <2>3. CASE UNCHANGED macVars
    BY <2>3 DEF macVars
  <2> QED BY <1>4, <2>1, <2>2, <2>3
<1>6. OnePerSource(library')
  <2>1. OnePerSource(library) /\ Item(r.item.source, newest + 1).source = r.item.source
    BY DEF LibraryBounds, SnapshotsFit, Item
  <2>2. CASE library' \subseteq library
    BY <2>1, <2>2 DEF OnePerSource
  <2>3. CASE library' = {j \in library : j.source # r.item.source} \cup {Item(r.item.source, newest + 1)}
    BY <2>1, <2>3 DEF OnePerSource
  <2> QED BY <1>5, <2>2, <2>3
<1>7. ASSUME NEW d \in libraryCalls'
      PROVE  \E c \in libraryCalls :
                 /\ d = IF c.step = "wait" /\ c.order = r.order /\ c.item = r.item
                          THEN [c EXCEPT !.step = status, !.heard = library'] ELSE c
                 /\ d.order = c.order /\ d.item = c.item /\ d.heard \in {c.heard, library'}
                 /\ IsUnsent(d) => d = c
  <2>1. PICK c \in libraryCalls :
           d = IF c.step = "wait" /\ c.order = r.order /\ c.item = r.item
                 THEN [c EXCEPT !.step = status, !.heard = library'] ELSE c
    BY <1>4 DEF Reports
  <2>2. c \in OrderCall(newest, pressed)
    BY DEF PickInv, LibraryTypes
  <2>3. d = c \/ (d.order = c.order /\ d.item = c.item /\ d.heard = library' /\ d.step = status)
    BY <2>1, <2>2 DEF OrderCall
  <2> QED BY <2>1, <2>3 DEF IsUnsent
<1>8. ASSUME NEW g \in refreshes' PROVE \E f \in refreshes : g.heard \in {f.heard, library'}
  <2>1. PICK f \in refreshes :
           g = IF f.step = "wait" /\ r.kind = "library_list"
                 THEN [f EXCEPT !.step = status, !.heard = library'] ELSE f
    BY <1>4 DEF Reports
  <2>2. f \in RefreshSet(newest)
    BY DEF PickInv, LibraryTypes
  <2>3. g = f \/ g.heard = library'
    BY <2>1, <2>2 DEF RefreshSet
  <2> QED BY <2>3
<1>9. refreshes = {} => refreshes' = {}
  BY <1>8
<1>10. SnapshotsFit'
  <2>1. \A d \in libraryCalls' : OnePerSource(d.heard)
    BY <1>6, <1>7 DEF LibraryBounds, SnapshotsFit
  <2>2. \A g \in refreshes' : OnePerSource(g.heard)
    BY <1>6, <1>8 DEF LibraryBounds, SnapshotsFit
  <2>3. sentItems \subseteq Known(newest')
    <3>1. newest' \in Nat /\ newest <= newest'
      BY <1>2, <1>5
    <3>2. Known(newest) \subseteq Known(newest')
      BY <1>2, <3>1 DEF Known
    <3> QED BY <3>2 DEF LibraryBounds, SnapshotsFit
  <2>4. \A k, l \in DOMAIN asks' : asks'[k].kind = "library_list" /\ asks'[l].kind = "library_list" => k = l
    <3> SUFFICES ASSUME NEW k \in DOMAIN asks', NEW l \in DOMAIN asks',
                        asks'[k].kind = "library_list", asks'[l].kind = "library_list" PROVE k = l
      OBVIOUS
    <3>1. k + 1 \in DOMAIN asks /\ l + 1 \in DOMAIN asks /\ asks[k + 1].kind = "library_list" /\ asks[l + 1].kind = "library_list"
      BY <1>3
    <3>2. k + 1 = l + 1
      BY <3>1 DEF LibraryBounds, SnapshotsFit
    <3> QED BY <1>3, <3>2
  <2> QED BY <1>1, <1>6, <1>9, <2>1, <2>2, <2>3, <2>4 DEF LibraryBounds, SnapshotsFit
<1>11. CallsFit'
  <2>1. ASSUME NEW d \in libraryCalls' PROVE \E x \in orders : x.n = d.order /\ d.item \notin x.todo \cup x.ok \cup x.bad
    <3>1. PICK c \in libraryCalls : d.order = c.order /\ d.item = c.item
      BY <1>7
    <3>2. PICK x \in orders : x.n = c.order /\ c.item \notin x.todo \cup x.ok \cup x.bad
      BY DEF LibraryBounds, CallsFit
    <3> QED BY <3>1, <3>2
  <2>2. ASSUME NEW d \in libraryCalls', NEW e \in libraryCalls', d.order = e.order, d.item = e.item PROVE d = e
    <3> DEFINE Told1(c) == IF c.step = "wait" /\ c.order = r.order /\ c.item = r.item
                             THEN [c EXCEPT !.step = status, !.heard = library'] ELSE c
    <3>1. PICK c \in libraryCalls : d = Told1(c) /\ d.order = c.order /\ d.item = c.item
      BY <1>7
    <3>2. PICK x \in libraryCalls : e = Told1(x) /\ e.order = x.order /\ e.item = x.item
      BY <1>7
    <3> HIDE DEF Told1
    <3>3. c = x
      BY <2>2, <3>1, <3>2 DEF LibraryBounds, CallsFit
    <3> QED BY <3>1, <3>2, <3>3
  <2> QED BY <1>1, <2>1, <2>2 DEF LibraryBounds, CallsFit
<1>12. \A d \in libraryCalls' : IsUnsent(d) => d \in libraryCalls
  BY <1>7
<1>13. SendsOnce'
  <2>1. ASSUME NEW k \in DOMAIN asks', NEW l \in DOMAIN asks',
               asks'[k].kind = "queue_url", asks'[l].kind = "queue_url", asks'[k].order = asks'[l].order,
               asks'[k].item.source = asks'[l].item.source
        PROVE  k = l
    <3>1. k + 1 \in DOMAIN asks /\ l + 1 \in DOMAIN asks /\ asks'[k] = asks[k + 1] /\ asks'[l] = asks[l + 1]
      BY <1>3
    <3>2. k + 1 = l + 1
      BY <2>1, <3>1 DEF LibraryBounds, SendsOnce
    <3> QED BY <1>3, <3>2
  <2>2. ASSUME NEW k \in DOMAIN asks', asks'[k].kind = "queue_url"
        PROVE  /\ \A c \in libraryCalls' : IsUnsent(c) /\ c.order = asks'[k].order => c.item.source # asks'[k].item.source
               /\ \A x \in orders : x.n = asks'[k].order => \A i \in x.todo : i.source # asks'[k].item.source
    <3>1. k + 1 \in DOMAIN asks /\ asks'[k] = asks[k + 1]
      BY <1>3
    <3> QED BY <1>12, <2>2, <3>1 DEF LibraryBounds, SendsOnce
  <2>3. ASSUME NEW x \in orders, x.kind = "queue_url"
        PROVE  /\ OnePerSource(x.todo)
               /\ \A y \in libraryCalls' : IsUnsent(y) /\ y.order = x.n =>
                     /\ \A i \in x.todo : i.source # y.item.source
                     /\ \A z \in libraryCalls' : IsUnsent(z) /\ z.order = x.n /\ z.item.source = y.item.source => y = z
    BY <1>12, <2>3 DEF LibraryBounds, SendsOnce
  <2> QED BY <1>1, <2>1, <2>2, <2>3 DEF SendsOnce, IsUnsent
<1>14. newest' <= Cardinality(Came)'
  <2>1. ASSUME NEW n \in 1..pressed, NEW s \in Sources, MayCome(n, s)' PROVE MayCome(n, s)
    <3>1. CASE \E k \in DOMAIN asks' : asks'[k].kind = "queue_url" /\ asks'[k].order = n /\ asks'[k].item.source = s
      BY <1>3, <3>1 DEF MayCome
    <3>2. CASE \E x \in libraryCalls' : IsUnsent(x) /\ x.order = n /\ x.item.source = s
      BY <1>12, <3>2 DEF MayCome
    <3>3. CASE \E x \in orders : x.n = n /\ \E i \in x.todo : i.source = s
      BY <3>3 DEF MayCome
    <3> QED BY <1>1, <2>1, <3>1, <3>2, <3>3 DEF MayCome, IsUnsent
  <2>2. CASE newest' = newest
    BY <1>1, <1>2, <2>1, <2>2, NothingComes DEF LibraryBounds
  <2>3. CASE r.kind = "queue_url" /\ newest' = newest + 1 /\ r.item.source \in Sources /\ r.order \in 1..pressed
    <3>0. PICK n \in 1..pressed, s \in Sources : n = r.order /\ s = r.item.source
      BY <2>3
    <3>1. MayCome(n, s)
      BY <1>3, <2>3, <3>0 DEF MayCome
    <3>2. ~MayCome(n, s)'
      <4>1. \A k \in DOMAIN asks' : ~(asks'[k].kind = "queue_url" /\ asks'[k].order = n /\ asks'[k].item.source = s)
        <5> SUFFICES ASSUME NEW k \in DOMAIN asks', asks'[k].kind = "queue_url", asks'[k].order = n, asks'[k].item.source = s
                     PROVE FALSE
          OBVIOUS
        <5>1. k + 1 \in DOMAIN asks /\ k + 1 # 1 /\ asks'[k] = asks[k + 1]
          BY <1>3
        <5> QED BY <1>3, <2>3, <3>0, <5>1 DEF LibraryBounds, SendsOnce
      <4>2. \A c \in libraryCalls' : ~(IsUnsent(c) /\ c.order = n /\ c.item.source = s)
        BY <1>3, <1>12, <2>3, <3>0 DEF LibraryBounds, SendsOnce
      <4>3. \A y \in orders : y.n = n => \A i \in y.todo : i.source # s
        BY <1>3, <2>3, <3>0 DEF LibraryBounds, SendsOnce
      <4> QED BY <1>1, <4>1, <4>2, <4>3 DEF MayCome, IsUnsent
    <3>3. Came' \in SUBSET ((1..pressed) \X Sources) /\ Came \cup {<<n, s>>} \subseteq Came' /\ <<n, s>> \notin Came
      <4>1. \A m \in 1..pressed, u \in Sources : ~MayCome(m, u) => ~MayCome(m, u)'
        BY <2>1
      <4>2. Came' = {x \in (1..pressed) \X Sources : ~MayCome(x[1], x[2])'}
        BY <1>1 DEF Came
      <4> QED BY <3>1, <3>2, <4>1, <4>2 DEF Came
    <3>4. /\ IsFiniteSet(Came') /\ Cardinality(Came') \in Nat
          /\ IsFiniteSet(Came) /\ Cardinality(Came) \in Nat
      BY <1>2, <3>3, PairsAreFinite, CameIsFinite
    <3>5. Cardinality(Came \cup {<<n, s>>}) = Cardinality(Came) + 1
      BY <3>3, <3>4, FS_AddElement
    <3>6. Cardinality(Came \cup {<<n, s>>}) <= Cardinality(Came')
      BY <3>3, <3>4, FS_Subset
    <3>7. newest <= Cardinality(Came)
      BY DEF LibraryBounds
    <3> QED BY <1>2, <2>3, <3>4, <3>5, <3>6, <3>7
  <2> QED BY <1>5, <2>2, <2>3
<1> QED BY <1>10, <1>11, <1>13, <1>14 DEF LibraryBounds
\* The listing, the buttons and the refreshes change; a list may be asked for, once.
LEMMA RefreshFits ==
    ASSUME PickInv, LibraryBounds, Refresh \/ \E f \in refreshes : RefreshSteps(f)
    PROVE  LibraryBounds'
<1>1. UNCHANGED <<library, newest, cachedListing, orders, libraryCalls, pressed, sentItems>>
  BY DEF Refresh, RefreshSteps, LoadCache, AskForList, EndRefresh, RefreshFrame, macVars
<1> DEFINE r == [kind |-> "library_list", item |-> NoItem, order |-> 0]
<1>2. asks' = asks \/ (~ListIsAsked /\ asks' = Append(asks, r))
  BY DEF Refresh, RefreshSteps, LoadCache, AskForList, EndRefresh
<1>3. r.kind = "library_list" /\ r \in AskSet(newest, pressed)
  BY DEF AskSet
<1> HIDE DEF r
<1>4. \A k \in DOMAIN asks' : \/ k \in DOMAIN asks /\ asks'[k] = asks[k]
                              \/ k = Len(asks) + 1 /\ asks'[k] = r /\ ~ListIsAsked
  <2>1. asks \in Seq(AskSet(newest, pressed))
    BY DEF PickInv, LibraryTypes
  <2> HIDE DEF AskSet
  <2>2. CASE asks' = Append(asks, r)
    BY <1>2, <1>3, <2>1, <2>2, AppendProperties
  <2> QED BY <1>2, <2>2
<1>5. \A k \in DOMAIN asks' : asks'[k].kind = "queue_url" => k \in DOMAIN asks /\ asks'[k] = asks[k]
  BY <1>3, <1>4
<1>6. /\ OnePerSource(listing') /\ \A g \in refreshes' : OnePerSource(g.heard)
      /\ refreshed' # 0 /\ refreshed' \in Nat
  <2>0. /\ OnePerSource(listing) /\ OnePerSource(cachedListing) /\ \A f \in refreshes : OnePerSource(f.heard)
        /\ (refreshes # {} => refreshed # 0) /\ refreshed \in Nat /\ refreshes \subseteq RefreshSet(newest)
    BY DEF LibraryBounds, SnapshotsFit, PickInv, LibraryTypes
  <2>1. CASE Refresh
    <3>1. OnePerSource([n |-> refreshed + 1, step |-> "cache", heard |-> {}].heard)
      BY DEF OnePerSource
    <3> QED BY <2>0, <2>1, <3>1 DEF Refresh
  <2>2. ASSUME NEW f \in refreshes, RefreshSteps(f) PROVE OnePerSource(listing') /\ \A g \in refreshes' : OnePerSource(g.heard)
    <3>1. f \in RefreshSet(newest) /\ OnePerSource(f.heard)
      BY <2>0
    <3>2. \A step \in {"post", "wait"} : [f EXCEPT !.step = step].heard = f.heard
      BY <3>1 DEF RefreshSet
    <3>3. listing' \in {listing, cachedListing, f.heard}
      BY <2>2 DEF RefreshSteps, LoadCache, AskForList, EndRefresh, CachedAnswers
    <3>4. \A g \in refreshes' : g \in refreshes \/ \E step \in {"post", "wait"} : g = [f EXCEPT !.step = step]
      BY <2>2 DEF RefreshSteps, LoadCache, AskForList, EndRefresh
    <3> QED BY <2>0, <3>1, <3>2, <3>3, <3>4
  <2>3. (\E f \in refreshes : RefreshSteps(f)) => refreshed' = refreshed
    BY DEF RefreshSteps, LoadCache, AskForList, EndRefresh
  <2> QED BY <2>0, <2>1, <2>2, <2>3
<1>7. SnapshotsFit'
  <2>1. \A k, l \in DOMAIN asks' : asks'[k].kind = "library_list" /\ asks'[l].kind = "library_list" => k = l
    BY <1>4 DEF LibraryBounds, SnapshotsFit, ListIsAsked
  <2> QED BY <1>1, <1>6, <2>1 DEF LibraryBounds, SnapshotsFit
<1>8. CallsFit'
  BY <1>1 DEF LibraryBounds, CallsFit
<1>9. SendsOnce'
  BY <1>1, <1>5 DEF LibraryBounds, SendsOnce, IsUnsent
<1>10. newest' <= Cardinality(Came)'
  <2>1. ASSUME NEW n \in 1..pressed, NEW s \in Sources, MayCome(n, s)' PROVE MayCome(n, s)
    BY <1>1, <1>5, <2>1 DEF MayCome, IsUnsent
  <2> QED BY <1>1, <2>1, NothingComes, CameIsFinite DEF LibraryBounds
<1> QED BY <1>7, <1>8, <1>9, <1>10 DEF LibraryBounds

LEMMA LibraryBoundsStep == PickInv /\ LibraryBounds /\ [LibraryNext]_libraryVars => LibraryBounds'
<1> SUFFICES ASSUME PickInv, LibraryBounds, [LibraryNext]_libraryVars PROVE LibraryBounds'
  OBVIOUS
<1>0. PickInv'
  BY LibraryStep
<1>s. ASSUME UNCHANGED <<library, newest, asks, listing, cachedListing, libraryBusy, orders, libraryCalls, refreshes,
                         pressed, refreshed>>, sentItems' \subseteq sentItems
      PROVE  LibraryBounds'
  BY <1>s DEF LibraryBounds, SnapshotsFit, CallsFit, SendsOnce, Came, MayCome, IsUnsent
<1>1. CASE UNCHANGED libraryVars
  BY <1>1, <1>s DEF libraryVars, macVars
<1>2. ASSUME NEW o \in orders, OrderSteps(o) PROVE LibraryBounds'
  BY <1>2, ChunkFits, EndOrderFits DEF OrderSteps
<1>3. ASSUME NEW kind \in OrderKinds, NEW i \in Items, Mutate(kind, i) PROVE LibraryBounds'
  <2>1. {i} \in SUBSET Known(newest) /\ kind # "queue_url" /\ Begins(kind, {i})
    BY <1>3 DEF Mutate, PickInv, LibraryTypes
  <2> QED BY <2>1, BeginFits
<1>4. ASSUME NEW kind \in OrderKinds, MutateSelected(kind) PROVE LibraryBounds'
  <2>1. Targets(kind) \in SUBSET Known(newest) /\ Begins(kind, Targets(kind))
    BY <1>4 DEF MutateSelected, Targets, PickInv, LibraryTypes
  <2>2. kind = "queue_url" => OnePerSource(Targets(kind))
    BY DEF Targets, LibraryBounds, SnapshotsFit, OnePerSource
  <2> QED BY <2>1, <2>2, BeginFits
<1>5. ASSUME NEW o \in orders, OrderCalls(o) PROVE LibraryBounds'
  BY <1>5, LibraryPostFits, HearOrderFits DEF OrderCalls
<1>6. CASE CarryOut
  BY <1>0, <1>6, CarryOutFits
<1>7. CASE Refresh \/ \E f \in refreshes : RefreshSteps(f)
  BY <1>7, RefreshFits
<1>8. ASSUME NEW i \in Items, Toggle(i) PROVE LibraryBounds'
  <2>1. sentItems' \subseteq sentItems
    BY <1>8 DEF Toggle
  <2> QED BY <1>8, <1>s, <2>1 DEF Toggle, macVars
<1> QED BY <1>1, <1>2, <1>3, <1>4, <1>5, <1>6, <1>7, <1>8 DEF LibraryNext

\* LibraryTypeOK: a source is one item of the Library however often it was sent, an item of
\* an order is in one place, and the buttons are closed while an order is under way but for
\* what a refresh opens (mutate, mutateSelected and refresh of the Library view).
THEOREM LibraryTypeCorrect == LibrarySpec => []LibraryTypeOK
<1>1. PickInv /\ LibraryBounds => LibraryTypeOK
  <2> SUFFICES ASSUME PickInv, LibraryBounds PROVE LibraryTypeOK
    OBVIOUS
  <2>1. Known(newest) \subseteq Items
    <3>1. /\ Cardinality(Came) \in Nat /\ Cardinality(Came) <= pressed * Cardinality(Sources)
          /\ pressed \in Nat /\ newest \in Nat /\ Cardinality(Sources) \in Nat /\ MaxOrders \in Nat
          /\ pressed <= MaxOrders /\ newest <= Cardinality(Came)
      BY CameIsFinite DEF LibraryBounds, SnapshotsFit
    <3>2. pressed * Cardinality(Sources) <= MaxOrders * Cardinality(Sources) /\ MaxOrders * Cardinality(Sources) \in Nat
          /\ pressed * Cardinality(Sources) \in Nat
      <4>1. ASSUME NEW p \in Nat, NEW m \in Nat, NEW n \in Nat, p <= m PROVE p * n <= m * n /\ m * n \in Nat /\ p * n \in Nat
        <5>1. PICK k \in Nat : m = p + k
          BY <4>1
        <5>2. m * n = p * n + k * n /\ p * n \in Nat /\ k * n \in Nat
          BY <5>1
        <5> QED BY <5>2
      <4> QED BY <3>1, <4>1
    <3>3. newest <= MaxOrders * Cardinality(Sources)
      BY <3>1, <3>2
    <3>4. 0..newest \subseteq 0..(MaxOrders * Cardinality(Sources))
      BY <3>1, <3>2, <3>3
    <3>5. ASSUME NEW i \in Known(newest) PROVE i \in Items
      <4>1. i = Item(i.source, i.job) /\ i.source \in Sources /\ i.job \in 0..(MaxOrders * Cardinality(Sources))
        BY <3>4 DEF Known, Item
      <4> QED BY <4>1 DEF Items
    <3> QED BY <3>5
  <2>2. library \subseteq Items /\ listing \subseteq Items /\ selected \subseteq Items /\ sentItems \subseteq Items
    BY <2>1 DEF PickInv, LibraryTypes, LibraryBounds, SnapshotsFit
  <2>3. \A i, j \in library : i.source = j.source => i = j
    BY DEF LibraryBounds, SnapshotsFit, OnePerSource
  <2>4. \A o \in orders : o.n \in 1..pressed /\ o.ok \cap o.bad = {}
    BY DEF PickInv, LibraryTypes, OrderSet, LibraryBounds, CallsFit
  <2>5. \A c \in libraryCalls : \E o \in orders : o.n = c.order /\ c.item \notin o.todo \cup o.ok \cup o.bad
    BY DEF LibraryBounds, CallsFit
  <2>6. Cardinality({k \in DOMAIN asks : asks[k].kind = "library_list"}) <= 1
    <3> DEFINE lists == {k \in DOMAIN asks : asks[k].kind = "library_list"}
    <3>1. \A k, l \in lists : k = l
      BY DEF LibraryBounds, SnapshotsFit
    <3>2. lists = {} \/ \E k : lists = {k}
      BY <3>1
    <3> HIDE DEF lists
    <3>3. Cardinality({}) = 0 /\ \A k : Cardinality({k}) = 1
      BY FS_EmptySet, FS_Singleton
    <3>4. Cardinality(lists) \in {0, 1}
      BY <3>2, <3>3
    <3> QED BY <3>4 DEF lists
  <2>7. orders # {} => libraryBusy \/ refreshed > 0
    BY DEF LibraryBounds, SnapshotsFit, PickInv, LibraryTypes
  <2> QED BY <2>2, <2>3, <2>4, <2>5, <2>6, <2>7 DEF LibraryTypeOK
<1>2. PickInv /\ [LibraryNext]_libraryVars => PickInv'
  BY LibraryStep
<1>3. LibrarySpec => [](PickInv /\ LibraryBounds)
  BY <1>2, LibraryStarts, LibraryBoundsStart, LibraryBoundsStep, PTL DEF LibrarySpec
<1> QED BY <1>1, <1>3, PTL

-----------------------------------------------------------------------------
(* Queueing downloads.                                                     *)

QueueCall ==
    [press: Nat, item: QueueItems, id: Nat, target: QueueTargets,
     step: {"turn", "post", "wait", "seek", "ok", "bad"}]

CommandRow == [id: Nat, item: QueueItems, target: QueueTargets, status: {"pending", "completed", "failed"}]
QueuedJob == [id: Nat, item: QueueItems, target: QueueTargets]
ToldPair == [item: QueueItems, target: QueueTargets, press: Nat]

\* The job that a row, or the row of a call, makes.
JobOf(r) == [id |-> r.id, item |-> r.item, target |-> r.target]

QueueTypes ==
    /\ queueView \in Views /\ fresh \in Nat /\ presses \in Nat
    /\ requestIDs \in [QueueItems -> Nat] /\ tries \in [QueueItems -> Nat]
    /\ calls \subseteq QueueCall /\ posted \subseteq CommandRow /\ queued \subseteq QueuedJob /\ told \subseteq ToldPair

\* There is one row of an item with an id, and a job for each that was completed.
RowsAreOne ==
    /\ \A r, s \in posted : r.id = s.id /\ r.item = s.item => r = s
    /\ \A j \in queued : \E r \in posted : j = JobOf(r) /\ r.status = "completed"
    /\ \A r \in posted : r.status = "completed" => JobOf(r) \in queued
    /\ \A r \in posted : r.id \in 1..fresh

\* A call that waits has a row for its own target; one that got past it has its job.
CallsHaveRows ==
    /\ \A c \in calls :
         /\ c.id <= fresh /\ (c.step # "turn" => c.id # 0)
         /\ c.step = "wait" => Rows(c) # {} /\ \A r \in Rows(c) : r.target = c.target
         /\ c.step \in {"seek", "ok"} => JobOf(c) \in queued
    /\ \A i \in QueueItems : requestIDs[i] <= fresh

\* The jobs of an item whose ids are not in use any more, and what was told of it.
Past(i) == {j \in queued : j.item = i /\ j.id # requestIDs[i]}
ToldOf(i) == {t \in told : t.item = i}

\* The Feed has one call of an item at once, with the id it keeps; a row of another id is
\* over, and the job of every id it gave up was told of.
FeedKeeps == queueView = "feed" =>
    /\ \A c, d \in calls : c.item = d.item => c = d
    /\ \A c \in calls : c.id = IF c.step = "turn" THEN 0 ELSE requestIDs[c.item]
    /\ \A r \in posted : r.status = "pending" => r.id = requestIDs[r.item]
    /\ \A c \in calls : c.press <= presses /\ \A t \in told : t.item = c.item => t.press # c.press
    /\ \A t \in told : t.press <= presses
    /\ \A i \in QueueItems : /\ IsFiniteSet(Past(i)) /\ IsFiniteSet(ToldOf(i))
                             /\ Cardinality(Past(i)) <= Cardinality(ToldOf(i))

\* The ids an item was given, as far as they are known to a row or a call, and the one it has.
IDsOf(i) == {r.id : r \in {x \in posted : x.item = i}} \cup {c.id : c \in {x \in calls : x.item = i}}
              \cup {requestIDs[i]}

\* An item of the Home view has had an id for each try that failed and one more.
HomeKeeps == queueView = "home" =>
    /\ \A i \in QueueItems : requestIDs[i] # 0
    /\ \A c \in calls : c.id # 0
    /\ \A i \in QueueItems : IsFiniteSet(IDsOf(i)) /\ Cardinality(IDsOf(i)) <= tries[i] + 1

QueueingInv ==
    QueueTypes /\ RowsAreOne /\ CallsHaveRows /\ SuccessIsTheRequest /\ FeedKeeps /\ HomeKeeps

LEMMA QueueingStarts == ViewInit => QueueingInv
<1> SUFFICES ASSUME ViewInit PROVE QueueingInv
  OBVIOUS
<1>1. /\ queueView \in Views /\ posted = {} /\ queued = {} /\ calls = {} /\ told = {} /\ presses = 0
      /\ fresh \in Nat /\ (queueView = "home" => fresh = 1) /\ (queueView # "home" => fresh = 0)
      /\ requestIDs \in [QueueItems -> Nat] /\ \A i \in QueueItems : requestIDs[i] = fresh
      /\ tries \in [QueueItems -> Nat] /\ \A i \in QueueItems : tries[i] = 0
  BY DEF ViewInit
<1>2. QueueTypes /\ RowsAreOne /\ CallsHaveRows /\ SuccessIsTheRequest
  BY <1>1 DEF QueueTypes, RowsAreOne, CallsHaveRows, SuccessIsTheRequest
<1>3. FeedKeeps
  <2>1. \A i \in QueueItems : Past(i) = {} /\ ToldOf(i) = {}
    BY <1>1 DEF Past, ToldOf
  <2>2. IsFiniteSet({}) /\ Cardinality({}) = 0
    BY FS_EmptySet
  <2>3. \A i \in QueueItems : IsFiniteSet(Past(i)) /\ IsFiniteSet(ToldOf(i)) /\ Cardinality(Past(i)) <= Cardinality(ToldOf(i))
    BY <2>1, <2>2
  <2> QED BY <1>1, <2>3 DEF FeedKeeps
<1>4. HomeKeeps
  <2> SUFFICES ASSUME queueView = "home" PROVE HomeKeeps
    BY DEF HomeKeeps
  <2>1. \A i \in QueueItems : IDsOf(i) = {1}
    BY <1>1 DEF IDsOf
  <2>2. IsFiniteSet({1}) /\ Cardinality({1}) = 1
    BY FS_Singleton
  <2>3. ASSUME NEW i \in QueueItems PROVE IsFiniteSet(IDsOf(i)) /\ Cardinality(IDsOf(i)) <= tries[i] + 1
    <3>1. tries[i] = 0 /\ IDsOf(i) = {1}
      BY <1>1, <2>1
    <3> QED BY <2>2, <3>1
  <2> QED BY <1>1, <2>3 DEF HomeKeeps
<1> QED BY <1>2, <1>3, <1>4 DEF QueueingInv

-----------------------------------------------------------------------------
(* Counting.                                                               *)

\* Fewer ids, or the same.
LEMMA FewerIDs ==
    ASSUME QueueingInv, queueView = "home", NEW i \in QueueItems, IDsOf(i)' \subseteq IDsOf(i), tries' = tries
    PROVE  IsFiniteSet(IDsOf(i))' /\ Cardinality(IDsOf(i))' <= tries[i]' + 1
<1>1. IsFiniteSet(IDsOf(i)) /\ Cardinality(IDsOf(i)) <= tries[i] + 1 /\ tries[i] \in Nat
  BY DEF QueueingInv, HomeKeeps, QueueTypes
<1>2. IsFiniteSet(IDsOf(i)') /\ Cardinality(IDsOf(i)') <= Cardinality(IDsOf(i))
  BY <1>1, FS_Subset
<1>3. Cardinality(IDsOf(i)) \in Nat /\ Cardinality(IDsOf(i)') \in Nat
  BY <1>1, <1>2, FS_CardinalityType
<1> QED BY <1>1, <1>2, <1>3

\* The same jobs of ids that were given up, and nothing new told.
LEMMA SamePast ==
    ASSUME QueueingInv, queueView = "feed", NEW i \in QueueItems, Past(i)' = Past(i), told' = told
    PROVE  IsFiniteSet(Past(i))' /\ IsFiniteSet(ToldOf(i))' /\ Cardinality(Past(i))' <= Cardinality(ToldOf(i))'
  BY DEF QueueingInv, FeedKeeps, ToldOf

\* A job is known by its id and its item.
LEMMA JobIsOne ==
    ASSUME QueueingInv, NEW j \in queued, NEW k \in queued, j.id = k.id, j.item = k.item PROVE j = k
<1>1. PICK r \in posted : j = JobOf(r)
  BY DEF QueueingInv, RowsAreOne
<1>2. PICK s \in posted : k = JobOf(s)
  BY DEF QueueingInv, RowsAreOne
<1>3. r = s
  BY <1>1, <1>2 DEF QueueingInv, RowsAreOne, JobOf
<1> QED BY <1>1, <1>2, <1>3

-----------------------------------------------------------------------------
(* The steps.                                                              *)

LEMMA PressKeepsQueue ==
    ASSUME QueueingInv, NEW S \in SUBSET QueueItems, NEW d \in QueueTargets, Press(S, d)
    PROVE  QueueingInv'
<1> USE DEF QueueingInv
<1> DEFINE New(x) == [press |-> presses + 1, item |-> x, id |-> IDAtPress(x), target |-> d, step |-> "turn"]
<1>1. /\ presses' = presses + 1 /\ calls' = calls \cup {New(i) : i \in S}
      /\ \A i \in S : MayPress(i)
      /\ UNCHANGED <<queueView, requestIDs, fresh, posted, queued, told, tries>>
  BY DEF Press
<1>2. presses \in Nat /\ presses' \in Nat /\ presses' > presses
  BY <1>1 DEF QueueTypes
<1>3. ASSUME NEW i \in S
      PROVE  /\ New(i) \in QueueCall /\ New(i).item = i /\ New(i).step = "turn" /\ New(i).press = presses + 1
             /\ New(i).id = IDAtPress(i) /\ IDAtPress(i) <= fresh
  <2>1. IDAtPress(i) \in Nat /\ IDAtPress(i) <= fresh
    BY DEF IDAtPress, QueueTypes, CallsHaveRows
  <2> QED BY <1>2, <2>1 DEF QueueCall
<1> HIDE DEF New
<1>4. \A c \in calls' : c \in calls \/ \E i \in S : c = New(i)
  BY <1>1
<1>5. QueueTypes'
  BY <1>1, <1>2, <1>3, <1>4 DEF QueueTypes
<1>6. RowsAreOne' /\ SuccessIsTheRequest'
  BY <1>1 DEF RowsAreOne, SuccessIsTheRequest
<1>7. CallsHaveRows'
  BY <1>1, <1>3, <1>4 DEF CallsHaveRows, Rows
<1>8. FeedKeeps'
  <2> SUFFICES ASSUME queueView = "feed" PROVE FeedKeeps'
    BY <1>1 DEF FeedKeeps
  <2>1. \A i \in S : i \notin Pending /\ IDAtPress(i) = 0
    BY <1>1 DEF MayPress, IDAtPress
  <2>2. \A c, e \in calls' : c.item = e.item => c = e
    BY <1>3, <1>4, <2>1 DEF FeedKeeps, Pending
  <2>3. \A c \in calls' : c.id = IF c.step = "turn" THEN 0 ELSE requestIDs[c.item]
    BY <1>3, <1>4, <2>1 DEF FeedKeeps
  <2>4. \A t \in told : t.press \in Nat /\ t.press <= presses /\ t.press <= presses'
    BY <1>2 DEF FeedKeeps, QueueTypes, ToldPair
  <2>5. ASSUME NEW c \in calls' PROVE c.press <= presses' /\ \A t \in told : t.item = c.item => t.press # c.press
    <3>1. CASE c \in calls
      <4>1. c.press \in Nat
        BY <3>1 DEF QueueTypes, QueueCall
      <4> QED BY <1>2, <3>1, <4>1 DEF FeedKeeps
    <3>2. CASE \E i \in S : c = New(i)
      BY <1>1, <1>2, <1>3, <2>4, <3>2
    <3> QED BY <1>4, <3>1, <3>2
  <2>6. \A i \in QueueItems : Past(i)' = Past(i)
    BY <1>1 DEF Past
  <2> QED BY <1>1, <2>2, <2>3, <2>4, <2>5, <2>6, SamePast DEF FeedKeeps
<1>9. HomeKeeps'
  <2> SUFFICES ASSUME queueView = "home" PROVE HomeKeeps'
    BY <1>1 DEF HomeKeeps
  <2>1. \A i \in S : IDAtPress(i) = requestIDs[i] /\ requestIDs[i] # 0
    BY DEF IDAtPress, HomeKeeps
  <2>2. \A c \in calls' : c.id # 0
    BY <1>3, <1>4, <2>1 DEF HomeKeeps
  <2>3. ASSUME NEW i \in QueueItems PROVE IDsOf(i)' \subseteq IDsOf(i)
    BY <1>1, <1>3, <1>4, <2>1 DEF IDsOf
  <2> QED BY <1>1, <2>2, <2>3, FewerIDs DEF HomeKeeps
<1> QED BY <1>5, <1>6, <1>7, <1>8, <1>9

\* The call has an id: one that is new, that is kept, or that it had.
LEMMA StartKeeps == ASSUME QueueingInv, NEW c \in calls, StartCall(c) PROVE QueueingInv'
<1> USE DEF QueueingInv
<1>1. PICK id :
         /\ id = IF c.id # 0 THEN c.id ELSE IF KeepsID(c.item) THEN requestIDs[c.item] ELSE fresh + 1
         /\ fresh' = IF id > fresh THEN id ELSE fresh
         /\ requestIDs' = IF queueView = "feed" THEN [requestIDs EXCEPT ![c.item] = id] ELSE requestIDs
         /\ calls' = (calls \ {c}) \cup {[c EXCEPT !.id = id, !.step = "post"]}
  BY DEF StartCall
<1>2. c.step = "turn" /\ UNCHANGED <<queueView, posted, queued, presses, told, tries>>
  BY DEF StartCall
<1>3. c \in QueueCall /\ c.item \in QueueItems /\ c.id \in Nat /\ c.id <= fresh /\ fresh \in Nat
      /\ requestIDs \in [QueueItems -> Nat] /\ requestIDs[c.item] \in Nat /\ requestIDs[c.item] <= fresh
  BY DEF QueueTypes, CallsHaveRows, QueueCall
<1>4. id \in Nat /\ id # 0 /\ fresh' \in Nat /\ fresh <= fresh' /\ id <= fresh'
  BY <1>1, <1>3 DEF KeepsID
<1> DEFINE d == [c EXCEPT !.id = id, !.step = "post"]
<1>5. d \in QueueCall /\ d.id = id /\ d.step = "post" /\ d.item = c.item /\ d.press = c.press /\ d.target = c.target
  BY <1>3, <1>4 DEF QueueCall
<1>6. calls' = (calls \ {c}) \cup {d}
  BY <1>1
<1> HIDE DEF d
<1>7. /\ requestIDs' \in [QueueItems -> Nat] /\ \A i \in QueueItems : requestIDs'[i] <= fresh'
      /\ \A i \in QueueItems : i # c.item => requestIDs'[i] = requestIDs[i]
  BY <1>1, <1>3, <1>4 DEF CallsHaveRows, QueueTypes
<1>8. QueueTypes'
  BY <1>2, <1>4, <1>5, <1>6, <1>7 DEF QueueTypes
<1>9. RowsAreOne' /\ SuccessIsTheRequest'
  <2>1. \A r \in posted : r.id \in 1..fresh'
    BY <1>3, <1>4 DEF RowsAreOne
  <2> QED BY <1>2, <2>1 DEF RowsAreOne, SuccessIsTheRequest
<1>10. CallsHaveRows'
  <2>1. \A x \in calls : x.id <= fresh'
    BY <1>3, <1>4 DEF CallsHaveRows, QueueTypes, QueueCall
  <2> QED BY <1>2, <1>4, <1>5, <1>6, <1>7, <2>1 DEF CallsHaveRows, Rows
<1>11. FeedKeeps'
  <2> SUFFICES ASSUME queueView = "feed" PROVE FeedKeeps'
    BY <1>2 DEF FeedKeeps
  <2>1. c.id = 0 /\ requestIDs'[c.item] = id /\ (id = requestIDs[c.item] \/ (id = fresh + 1 /\ requestIDs[c.item] = 0))
    BY <1>1, <1>2, <1>3 DEF FeedKeeps, KeepsID
  <2>2. \A x, y \in calls' : x.item = y.item => x = y
    BY <1>5, <1>6 DEF FeedKeeps
  <2>3. \A x \in calls' : x.id = IF x.step = "turn" THEN 0 ELSE requestIDs'[x.item]
    <3>1. ASSUME NEW x \in calls \ {c} PROVE x.item # c.item /\ x.item \in QueueItems
      BY DEF FeedKeeps, QueueTypes, QueueCall
    <3> QED BY <1>5, <1>6, <1>7, <2>1, <3>1 DEF FeedKeeps
  <2>4. \A r \in posted : r.item = c.item /\ r.id = requestIDs[c.item] => r.id = id
    BY <1>3, <2>1 DEF RowsAreOne
  <2>5. \A r \in posted : r.status = "pending" => r.id = requestIDs'[r.item]
    BY <1>7, <2>1, <2>4 DEF FeedKeeps, QueueTypes, CommandRow
  <2>6. \A x \in calls' : x.press <= presses /\ \A t \in told : t.item = x.item => t.press # x.press
    BY <1>5, <1>6 DEF FeedKeeps
  <2>7. ASSUME NEW i \in QueueItems PROVE Past(i)' = Past(i)
    <3>1. CASE i # c.item
      BY <1>2, <1>7, <3>1 DEF Past
    <3>2. CASE i = c.item
      <4>1. \A j \in queued : j.id \in 1..fresh
        BY DEF RowsAreOne, JobOf
      <4>2. \A j \in queued : j.id # requestIDs[i] <=> j.id # requestIDs'[i]
        BY <1>3, <2>1, <3>2, <4>1
      <4> QED BY <1>2, <4>2 DEF Past
    <3> QED BY <3>1, <3>2
  <2> QED BY <1>2, <2>2, <2>3, <2>5, <2>6, <2>7, SamePast DEF FeedKeeps
<1>12. HomeKeeps'
  <2> SUFFICES ASSUME queueView = "home" PROVE HomeKeeps'
    BY <1>2 DEF HomeKeeps
  <2>1. id = c.id /\ requestIDs' = requestIDs
    BY <1>1 DEF HomeKeeps
  <2>2. \A x \in calls' : x.id # 0
    BY <1>4, <1>5, <1>6 DEF HomeKeeps
  <2>3. ASSUME NEW i \in QueueItems PROVE IDsOf(i)' \subseteq IDsOf(i)
    BY <1>2, <1>5, <1>6, <2>1 DEF IDsOf
  <2> QED BY <1>2, <2>1, <2>2, <2>3, FewerIDs DEF HomeKeeps
<1> QED BY <1>8, <1>9, <1>10, <1>11, <1>12

\* A call has another step, and may have made its row.
LEMMA CallMoves ==
    ASSUME QueueingInv, NEW c \in calls, NEW step \in {"wait", "seek", "ok", "bad"}, c.step # "turn",
           calls' = (calls \ {c}) \cup {[c EXCEPT !.step = step]},
           \/ UNCHANGED posted
           \/ /\ Rows(c) = {}
              /\ posted' = posted \cup {[id |-> c.id, item |-> c.item, target |-> c.target, status |-> "pending"]},
           step = "wait" => Rows(c)' # {} /\ \A r \in Rows(c) : r.target = c.target,
           step \in {"seek", "ok"} => JobOf(c) \in queued,
           UNCHANGED <<queueView, requestIDs, fresh, queued, presses, told, tries>>
    PROVE  QueueingInv'
<1> USE DEF QueueingInv
<1> DEFINE d == [c EXCEPT !.step = step]
           row == [id |-> c.id, item |-> c.item, target |-> c.target, status |-> "pending"]
<1>1. c \in QueueCall /\ c.id \in Nat /\ c.item \in QueueItems /\ c.id <= fresh /\ c.id # 0 /\ fresh \in Nat
  BY DEF QueueTypes, CallsHaveRows, QueueCall
<1>2. d \in QueueCall /\ d.id = c.id /\ d.step = step /\ d.item = c.item /\ d.press = c.press /\ d.target = c.target
  BY <1>1 DEF QueueCall
<1>3. row \in CommandRow /\ row.id = c.id /\ row.item = c.item /\ row.target = c.target /\ row.status = "pending"
  BY <1>1 DEF CommandRow, QueueCall
<1>4. calls' = (calls \ {c}) \cup {d} /\ (posted' = posted \/ (Rows(c) = {} /\ posted' = posted \cup {row}))
  OBVIOUS
<1> HIDE DEF d, row
<1>5. QueueTypes'
  BY <1>2, <1>3, <1>4 DEF QueueTypes
<1>6. RowsAreOne' /\ SuccessIsTheRequest'
  <2>1. c.id \in 1..fresh
    BY <1>1
  <2>2. Rows(c) = {} => \A r \in posted : ~(r.id = row.id /\ r.item = row.item)
    BY <1>3 DEF Rows
  <2> QED BY <1>3, <1>4, <2>1, <2>2 DEF RowsAreOne, SuccessIsTheRequest
<1>7. CallsHaveRows'
  <2>1. \A x \in calls : JobOf(x)' = JobOf(x)
    BY DEF JobOf
  <2>2. ASSUME NEW x \in calls, Rows(x) # {}, \A r \in Rows(x) : r.target = x.target
        PROVE  Rows(x)' # {} /\ \A r \in Rows(x)' : r.target = x.target
    BY <1>3, <1>4, <2>2 DEF Rows
  <2>3. step = "wait" => Rows(c)' # {} /\ \A r \in Rows(c)' : r.target = c.target
    BY <1>3, <1>4 DEF Rows
  <2>4. ASSUME NEW x, x = d
        PROVE  /\ x.id <= fresh /\ x.id # 0
               /\ x.step = "wait" => Rows(x)' # {} /\ \A r \in Rows(x)' : r.target = x.target
               /\ x.step \in {"seek", "ok"} => JobOf(x) \in queued
    BY <1>1, <1>2, <2>3, <2>4 DEF Rows, JobOf
  <2>5. ASSUME NEW x \in calls' PROVE x \in calls \/ x = d
    BY <1>4
  <2> QED BY <2>2, <2>4, <2>5 DEF CallsHaveRows, JobOf
<1>8. FeedKeeps'
  <2> SUFFICES ASSUME queueView = "feed" PROVE FeedKeeps'
    BY DEF FeedKeeps
  <2>1. \A x, y \in calls' : x.item = y.item => x = y
    BY <1>2, <1>4 DEF FeedKeeps
  <2>2. \A x \in calls' : /\ x.id = IF x.step = "turn" THEN 0 ELSE requestIDs[x.item]
                          /\ x.press <= presses /\ \A t \in told : t.item = x.item => t.press # x.press
    BY <1>2, <1>4 DEF FeedKeeps
  <2>3. \A r \in posted' : r.status = "pending" => r.id = requestIDs[r.item]
    BY <1>3, <1>4 DEF FeedKeeps
  <2>4. \A i \in QueueItems : Past(i)' = Past(i)
    BY DEF Past
  <2> QED BY <2>1, <2>2, <2>3, <2>4, SamePast DEF FeedKeeps
<1>9. HomeKeeps'
  <2> SUFFICES ASSUME queueView = "home" PROVE HomeKeeps'
    BY DEF HomeKeeps
  <2>1. \A x \in calls' : x.id # 0
    BY <1>1, <1>2, <1>4 DEF HomeKeeps
  <2>2. ASSUME NEW i \in QueueItems PROVE IDsOf(i)' \subseteq IDsOf(i)
    BY <1>2, <1>3, <1>4 DEF IDsOf
  <2> QED BY <2>1, <2>2, FewerIDs DEF HomeKeeps
<1> QED BY <1>5, <1>6, <1>7, <1>8, <1>9

LEMMA PostKeepsQueue == ASSUME QueueingInv, NEW c \in calls, Post(c) PROVE QueueingInv'
<1> DEFINE row == [id |-> c.id, item |-> c.item, target |-> c.target, status |-> "pending"]
<1>1. c.step = "post" /\ UNCHANGED <<queueView, requestIDs, fresh, queued, presses, told, tries>>
  BY DEF Post
<1>2. CASE /\ \A r \in Rows(c) : SameRequest(r, c)
           /\ posted' = IF Rows(c) = {} THEN posted \cup {row} ELSE posted
           /\ calls' \in {(calls \ {c}) \cup {[c EXCEPT !.step = "wait"]}, Ended(c, FALSE)}
  <2>1. Rows(c)' # {}
    <3>1. row.id = c.id /\ row.item = c.item
      OBVIOUS
    <3> HIDE DEF row
    <3>2. CASE Rows(c) = {}
      BY <1>2, <3>1, <3>2 DEF Rows
    <3>3. CASE Rows(c) # {}
      BY <1>2, <3>3 DEF Rows
    <3> QED BY <3>2, <3>3
  <2>2. \A r \in Rows(c) : r.target = c.target
    BY <1>2 DEF SameRequest
  <2>3. PICK step \in {"wait", "bad"} : calls' = (calls \ {c}) \cup {[c EXCEPT !.step = step]}
    BY <1>2 DEF Ended
  <2>4. CASE step = "wait"
    BY <1>1, <1>2, <2>1, <2>2, <2>3, <2>4, CallMoves
  <2>5. CASE step = "bad"
    BY <1>1, <1>2, <2>3, <2>5, CallMoves
  <2> QED BY <2>3, <2>4, <2>5
<1>3. CASE calls' = Ended(c, FALSE) /\ UNCHANGED posted
  <2>1. calls' = (calls \ {c}) \cup {[c EXCEPT !.step = "bad"]}
    BY <1>3 DEF Ended
  <2> QED BY <1>1, <1>3, <2>1, CallMoves
<1> QED BY <1>2, <1>3 DEF Post

LEMMA ViewPollKeeps == ASSUME QueueingInv, NEW c \in calls, Poll(c) PROVE QueueingInv'
<1>1. UNCHANGED <<queueView, requestIDs, fresh, posted, queued, presses, told, tries>>
  BY DEF Poll
<1>2. PICK step \in {"seek", "ok", "bad"} :
         /\ calls' = (calls \ {c}) \cup {[c EXCEPT !.step = step]}
         /\ c.step \in {"wait", "seek"}
         /\ step # "bad" => c.step = "seek" \/ (c.step = "wait" /\ \E r \in Rows(c) : IsCompleted(r))
  BY DEF Poll, Ended, GivesUp
<1>3. step \in {"seek", "ok"} => JobOf(c) \in queued
  <2>1. c.step = "seek" => JobOf(c) \in queued
    BY DEF QueueingInv, CallsHaveRows
  <2>2. ASSUME c.step = "wait", NEW r \in Rows(c), IsCompleted(r) PROVE JobOf(c) \in queued
    <3>1. r.target = c.target /\ r.id = c.id /\ r.item = c.item /\ JobOf(r) \in queued
      BY <2>2 DEF QueueingInv, CallsHaveRows, RowsAreOne, Rows, IsCompleted
    <3> QED BY <3>1 DEF JobOf
  <2> QED BY <1>2, <2>1, <2>2
<1>4. step # "wait" /\ c.step # "turn"
  BY <1>2
<1> QED BY <1>1, <1>2, <1>3, <1>4, CallMoves

\* A row is over; what it was for is queued if it was completed.
LEMMA PerformKeeps == ASSUME QueueingInv, NEW r \in posted, Perform(r) PROVE QueueingInv'
<1> USE DEF QueueingInv
<1>1. PICK s \in {"completed", "failed"} :
         /\ posted' = (posted \ {r}) \cup {[r EXCEPT !.status = s]}
         /\ queued' = IF s = "completed" THEN queued \cup {JobOf(r)} ELSE queued
  BY DEF Perform, JobOf
<1>2. r.status = "pending" /\ UNCHANGED <<queueView, requestIDs, fresh, calls, presses, told, tries>>
  BY DEF Perform
<1> DEFINE q == [r EXCEPT !.status = s]
<1>3. r \in CommandRow
  BY DEF QueueTypes
<1>4. q \in CommandRow /\ q.id = r.id /\ q.item = r.item /\ q.target = r.target /\ q.status = s
  BY <1>3 DEF CommandRow
<1>5. JobOf(q) = JobOf(r) /\ JobOf(r) \in QueuedJob /\ JobOf(r).id = r.id /\ JobOf(r).item = r.item
  BY <1>3, <1>4 DEF JobOf, CommandRow, QueuedJob
<1>6. posted' = (posted \ {r}) \cup {q}
  BY <1>1
<1> HIDE DEF q
<1>7. QueueTypes'
  BY <1>1, <1>2, <1>4, <1>5, <1>6 DEF QueueTypes
<1>8. RowsAreOne'
  <2>1. \A x, y \in posted' : x.id = y.id /\ x.item = y.item => x = y
    BY <1>4, <1>6 DEF RowsAreOne
  <2>2. \A j \in queued' : \E x \in posted' : j = JobOf(x) /\ x.status = "completed"
    BY <1>1, <1>2, <1>4, <1>5, <1>6 DEF RowsAreOne
  <2>3. \A x \in posted' : x.status = "completed" => JobOf(x) \in queued'
    BY <1>1, <1>4, <1>5, <1>6 DEF RowsAreOne
  <2>4. \A x \in posted' : x.id \in 1..fresh
    BY <1>4, <1>6 DEF RowsAreOne
  <2> QED BY <1>2, <2>1, <2>2, <2>3, <2>4 DEF RowsAreOne
<1>9. SuccessIsTheRequest'
  BY <1>1, <1>2 DEF SuccessIsTheRequest
<1>10. CallsHaveRows'
  <2>1. ASSUME NEW c \in calls, Rows(c) # {}, \A x \in Rows(c) : x.target = c.target
        PROVE  Rows(c)' # {} /\ \A x \in Rows(c)' : x.target = c.target
    BY <1>2, <1>4, <1>6, <2>1 DEF Rows
  <2>2. queued \subseteq queued'
    BY <1>1
  <2> QED BY <1>2, <2>1, <2>2 DEF CallsHaveRows, JobOf
<1>11. FeedKeeps'
  <2> SUFFICES ASSUME queueView = "feed" PROVE FeedKeeps'
    BY <1>2 DEF FeedKeeps
  <2>1. r.id = requestIDs[r.item]
    BY <1>2 DEF FeedKeeps
  <2>2. ASSUME NEW i \in QueueItems PROVE Past(i)' = Past(i)
    BY <1>1, <1>2, <1>5, <2>1 DEF Past
  <2>3. \A x \in posted' : x.status = "pending" => x.id = requestIDs[x.item]
    BY <1>1, <1>4, <1>6 DEF FeedKeeps
  <2> QED BY <1>2, <2>2, <2>3, SamePast DEF FeedKeeps
<1>12. HomeKeeps'
  <2> SUFFICES ASSUME queueView = "home" PROVE HomeKeeps'
    BY <1>2 DEF HomeKeeps
  <2>1. ASSUME NEW i \in QueueItems PROVE IDsOf(i)' \subseteq IDsOf(i)
    BY <1>2, <1>4, <1>6 DEF IDsOf
  <2> QED BY <1>2, <2>1, FewerIDs DEF HomeKeeps
<1> QED BY <1>7, <1>8, <1>9, <1>10, <1>11, <1>12

\* The reader is told that an item is queued: the Feed's id of it is given up, with its job.
LEMMA SuccessKeeps == ASSUME QueueingInv, NEW c \in calls, EndCall(c), c.step = "ok" PROVE QueueingInv'
<1> USE DEF QueueingInv
<1> DEFINE telling == [item |-> c.item, target |-> c.target, press |-> c.press]
<1>1. /\ calls' = calls \ {c} /\ told' = told \cup {telling} /\ tries' = tries
      /\ UNCHANGED <<queueView, posted, queued, presses>>
      /\ requestIDs' = [requestIDs EXCEPT ![c.item] = Renewed(c)]
      /\ fresh' = IF Renewed(c) > fresh THEN Renewed(c) ELSE fresh
  BY DEF EndCall
<1>2. c \in QueueCall /\ c.item \in QueueItems /\ c.id \in Nat /\ c.id # 0 /\ fresh \in Nat
      /\ requestIDs \in [QueueItems -> Nat] /\ requestIDs[c.item] \in Nat /\ requestIDs[c.item] <= fresh
      /\ JobOf(c) \in queued
  BY DEF QueueTypes, CallsHaveRows, QueueCall
<1>3. telling \in ToldPair /\ telling.item = c.item /\ telling.target = c.target /\ telling.press = c.press
  BY <1>2 DEF ToldPair, QueueCall
<1> HIDE DEF telling
<1>4. Renewed(c) = IF queueView = "feed" THEN 0 ELSE requestIDs[c.item]
  BY DEF Renewed
<1>5. /\ fresh' = fresh /\ requestIDs' \in [QueueItems -> Nat] /\ \A i \in QueueItems : requestIDs'[i] <= fresh
      /\ \A i \in QueueItems : i # c.item => requestIDs'[i] = requestIDs[i]
      /\ requestIDs'[c.item] = (IF queueView = "feed" THEN 0 ELSE requestIDs[c.item])
  BY <1>1, <1>2, <1>4 DEF CallsHaveRows
<1>6. QueueTypes'
  BY <1>1, <1>3, <1>5 DEF QueueTypes
<1>7. RowsAreOne'
  BY <1>1, <1>5 DEF RowsAreOne
<1>8. SuccessIsTheRequest'
  <2>1. JobOf(c).item = telling.item /\ JobOf(c).target = telling.target
    BY <1>3 DEF JobOf
  <2> QED BY <1>1, <1>2, <2>1 DEF SuccessIsTheRequest
<1>9. CallsHaveRows'
  BY <1>1, <1>5 DEF CallsHaveRows, Rows
<1>10. FeedKeeps'
  <2> SUFFICES ASSUME queueView = "feed" PROVE FeedKeeps'
    BY <1>1 DEF FeedKeeps
  <2>1. requestIDs[c.item] = c.id /\ requestIDs'[c.item] = 0
    BY <1>5 DEF FeedKeeps
  <2>2. ASSUME NEW x \in calls' PROVE x \in calls /\ x.item # c.item /\ x.item \in QueueItems
    BY <1>1 DEF FeedKeeps, QueueTypes, QueueCall
  <2>3. /\ \A x, y \in calls' : x.item = y.item => x = y
        /\ \A x \in calls' : x.id = IF x.step = "turn" THEN 0 ELSE requestIDs'[x.item]
        /\ \A x \in calls' : x.press <= presses /\ \A t \in told' : t.item = x.item => t.press # x.press
    BY <1>1, <1>3, <1>5, <2>2 DEF FeedKeeps
  <2>4. ASSUME NEW r \in posted, r.status = "pending" PROVE r.id = requestIDs'[r.item]
    <3>1. r.id = requestIDs[r.item] /\ r.item \in QueueItems
      BY <2>4 DEF FeedKeeps, QueueTypes, CommandRow
    <3>2. PICK s \in posted : JobOf(c) = JobOf(s) /\ s.status = "completed"
      BY <1>2 DEF RowsAreOne
    <3>3. s.id = c.id /\ s.item = c.item
      BY <3>2 DEF JobOf
    <3>4. r.item # c.item
      BY <2>1, <2>4, <3>1, <3>2, <3>3 DEF RowsAreOne
    <3> QED BY <1>5, <3>1, <3>4
  <2>5. \A t \in told' : t.press <= presses
    BY <1>1, <1>3 DEF FeedKeeps
  <2>6. ASSUME NEW i \in QueueItems
        PROVE  IsFiniteSet(Past(i))' /\ IsFiniteSet(ToldOf(i))' /\ Cardinality(Past(i))' <= Cardinality(ToldOf(i))'
    <3>1. IsFiniteSet(Past(i)) /\ IsFiniteSet(ToldOf(i)) /\ Cardinality(Past(i)) <= Cardinality(ToldOf(i))
      BY DEF FeedKeeps
    <3>2. CASE i # c.item
      BY <1>1, <1>3, <1>5, <3>1, <3>2 DEF Past, ToldOf
    <3>3. CASE i = c.item
      <4>1. JobOf(c).id = c.id /\ JobOf(c).item = i
        BY <3>3 DEF JobOf
      <4>2. \A j \in queued : j.id # 0
        BY <1>2 DEF RowsAreOne, JobOf
      <4>3. Past(i)' = {j \in queued : j.item = i}
        BY <1>1, <2>1, <3>3, <4>2 DEF Past
      <4>4. \A j \in queued : j.item = i /\ j.id = c.id => j = JobOf(c)
        BY <1>2, <4>1, JobIsOne
      <4>5. Past(i)' = Past(i) \cup {JobOf(c)} /\ JobOf(c) \notin Past(i)
        BY <1>2, <2>1, <3>3, <4>1, <4>3, <4>4 DEF Past
      <4>6. ToldOf(i)' = ToldOf(i) \cup {telling}
        BY <1>1, <1>3, <3>3 DEF ToldOf
      <4>7. telling \notin ToldOf(i)
        BY <1>3, <3>3 DEF ToldOf, FeedKeeps
      <4>8. Cardinality(Past(i)) \in Nat /\ Cardinality(ToldOf(i)) \in Nat
        BY <3>1, FS_CardinalityType
      <4>9. IsFiniteSet(Past(i)') /\ Cardinality(Past(i)') = Cardinality(Past(i)) + 1
        BY <3>1, <4>5, FS_AddElement
      <4>10. IsFiniteSet(ToldOf(i)') /\ Cardinality(ToldOf(i)') = Cardinality(ToldOf(i)) + 1
        BY <3>1, <4>6, <4>7, FS_AddElement
      <4> QED BY <3>1, <4>8, <4>9, <4>10
    <3> QED BY <3>2, <3>3
  <2> QED BY <1>1, <2>3, <2>4, <2>5, <2>6 DEF FeedKeeps
<1>11. HomeKeeps'
  <2> SUFFICES ASSUME queueView = "home" PROVE HomeKeeps'
    BY <1>1 DEF HomeKeeps
  <2>1. requestIDs' = requestIDs
    BY <1>1, <1>2, <1>4
  <2>2. ASSUME NEW i \in QueueItems PROVE IDsOf(i)' \subseteq IDsOf(i)
    BY <1>1, <2>1 DEF IDsOf
  <2> QED BY <1>1, <2>1, <2>2, FewerIDs DEF HomeKeeps
<1> QED BY <1>6, <1>7, <1>8, <1>9, <1>10, <1>11

\* The reader is told that an item failed: the Home view draws another id of it.
LEMMA QueueFailureKeeps == ASSUME QueueingInv, NEW c \in calls, EndCall(c), c.step = "bad" PROVE QueueingInv'
<1> USE DEF QueueingInv
<1>1. /\ calls' = calls \ {c} /\ told' = told /\ tries' = [tries EXCEPT ![c.item] = @ + 1]
      /\ UNCHANGED <<queueView, posted, queued, presses>>
      /\ requestIDs' = [requestIDs EXCEPT ![c.item] = Renewed(c)]
      /\ fresh' = IF Renewed(c) > fresh THEN Renewed(c) ELSE fresh
  BY DEF EndCall
<1>2. c.item \in QueueItems /\ fresh \in Nat /\ requestIDs \in [QueueItems -> Nat] /\ tries \in [QueueItems -> Nat]
      /\ requestIDs[c.item] \in Nat /\ requestIDs[c.item] <= fresh
  BY DEF QueueTypes, CallsHaveRows, QueueCall
<1>3. Renewed(c) = IF queueView = "home" THEN fresh + 1 ELSE requestIDs[c.item]
  BY DEF Renewed
<1>4. fresh' = (IF queueView = "home" THEN fresh + 1 ELSE fresh) /\ fresh' \in Nat /\ fresh <= fresh'
  BY <1>1, <1>2, <1>3
<1>5. /\ requestIDs' \in [QueueItems -> Nat] /\ \A i \in QueueItems : requestIDs'[i] <= fresh'
      /\ \A i \in QueueItems : i # c.item => requestIDs'[i] = requestIDs[i]
      /\ requestIDs'[c.item] = (IF queueView = "home" THEN fresh + 1 ELSE requestIDs[c.item])
  BY <1>1, <1>2, <1>3, <1>4 DEF CallsHaveRows
<1>6. tries' \in [QueueItems -> Nat] /\ tries'[c.item] = tries[c.item] + 1
      /\ \A i \in QueueItems : i # c.item => tries'[i] = tries[i]
  BY <1>1, <1>2
<1>7. QueueTypes'
  BY <1>1, <1>4, <1>5, <1>6 DEF QueueTypes
<1>8. RowsAreOne' /\ SuccessIsTheRequest'
  <2>1. \A r \in posted : r.id \in 1..fresh'
    BY <1>2, <1>4 DEF RowsAreOne
  <2> QED BY <1>1, <2>1 DEF RowsAreOne, SuccessIsTheRequest
<1>9. CallsHaveRows'
  <2>1. \A x \in calls : x.id <= fresh'
    BY <1>2, <1>4 DEF CallsHaveRows, QueueTypes, QueueCall
  <2> QED BY <1>1, <1>5, <2>1 DEF CallsHaveRows, Rows, JobOf
<1>10. FeedKeeps'
  <2> SUFFICES ASSUME queueView = "feed" PROVE FeedKeeps'
    BY <1>1 DEF FeedKeeps
  <2>1. requestIDs' = requestIDs
    BY <1>1, <1>2, <1>3
  <2>2. \A i \in QueueItems : Past(i)' = Past(i)
    BY <1>1, <2>1 DEF Past
  <2> QED BY <1>1, <2>1, <2>2, SamePast DEF FeedKeeps
<1>11. HomeKeeps'
  <2> SUFFICES ASSUME queueView = "home" PROVE HomeKeeps'
    BY <1>1 DEF HomeKeeps
  <2>1. (\A i \in QueueItems : requestIDs'[i] # 0) /\ \A x \in calls' : x.id # 0
    BY <1>1, <1>2, <1>5 DEF HomeKeeps
  <2>2. ASSUME NEW i \in QueueItems PROVE IsFiniteSet(IDsOf(i))' /\ Cardinality(IDsOf(i))' <= tries[i]' + 1
    <3>1. IsFiniteSet(IDsOf(i)) /\ Cardinality(IDsOf(i)) <= tries[i] + 1 /\ Cardinality(IDsOf(i)) \in Nat
      BY FS_CardinalityType DEF HomeKeeps
    <3>2. tries[i] \in Nat /\ tries'[i] \in Nat /\ tries'[i] = (IF i = c.item THEN tries[i] + 1 ELSE tries[i])
      BY <1>2, <1>6
    <3>3. IDsOf(i)' \subseteq (IF i = c.item THEN IDsOf(i) \cup {fresh + 1} ELSE IDsOf(i))
      BY <1>1, <1>5 DEF IDsOf
    <3>4. CASE i = c.item
      <4>1. IsFiniteSet(IDsOf(i) \cup {fresh + 1}) /\ Cardinality(IDsOf(i) \cup {fresh + 1}) <= Cardinality(IDsOf(i)) + 1
            /\ Cardinality(IDsOf(i) \cup {fresh + 1}) \in Nat
        <5>1. IsFiniteSet(IDsOf(i) \cup {fresh + 1})
              /\ Cardinality(IDsOf(i) \cup {fresh + 1})
                    = IF fresh + 1 \in IDsOf(i) THEN Cardinality(IDsOf(i)) ELSE Cardinality(IDsOf(i)) + 1
          BY <3>1, FS_AddElement
        <5> QED BY <3>1, <5>1
      <4>2. IsFiniteSet(IDsOf(i)') /\ Cardinality(IDsOf(i)') <= Cardinality(IDsOf(i) \cup {fresh + 1})
            /\ Cardinality(IDsOf(i)') \in Nat
        BY <3>3, <3>4, <4>1, FS_Subset, FS_CardinalityType
      <4> QED BY <3>1, <3>2, <3>4, <4>1, <4>2
    <3>5. CASE i # c.item
      <4>1. IsFiniteSet(IDsOf(i)') /\ Cardinality(IDsOf(i)') <= Cardinality(IDsOf(i)) /\ Cardinality(IDsOf(i)') \in Nat
        BY <3>1, <3>3, <3>5, FS_Subset, FS_CardinalityType
      <4> QED BY <3>1, <3>2, <3>5, <4>1
    <3> QED BY <3>4, <3>5
  <2> QED BY <2>1, <2>2 DEF HomeKeeps
<1> QED BY <1>7, <1>8, <1>9, <1>10, <1>11

LEMMA ReloadKeepsQueue == ASSUME QueueingInv, Reload PROVE QueueingInv'
<1> USE DEF QueueingInv
<1>1. queueView = "home" /\ calls' = {} /\ UNCHANGED <<queueView, requestIDs, fresh, posted, queued, presses, told, tries>>
  BY DEF Reload
<1>2. QueueTypes' /\ RowsAreOne' /\ CallsHaveRows' /\ SuccessIsTheRequest' /\ FeedKeeps'
  BY <1>1 DEF QueueTypes, RowsAreOne, CallsHaveRows, SuccessIsTheRequest, FeedKeeps
<1>3. HomeKeeps'
  <2>1. \A i \in QueueItems : IDsOf(i)' \subseteq IDsOf(i)
    BY <1>1 DEF IDsOf
  <2> QED BY <1>1, <2>1, FewerIDs DEF HomeKeeps
<1> QED BY <1>2, <1>3

LEMMA QueueingStep == QueueingInv /\ [ViewNext]_viewVars => QueueingInv'
<1> SUFFICES ASSUME QueueingInv, [ViewNext]_viewVars PROVE QueueingInv'
  OBVIOUS
<1>1. CASE UNCHANGED viewVars
  BY <1>1 DEF viewVars, QueueingInv, QueueTypes, RowsAreOne, CallsHaveRows, SuccessIsTheRequest, FeedKeeps, HomeKeeps,
              Past, ToldOf, IDsOf, Rows
<1>2. ASSUME NEW S \in SUBSET QueueItems, NEW d \in QueueTargets, Press(S, d) PROVE QueueingInv'
  BY <1>2, PressKeepsQueue
<1>3. ASSUME NEW c \in calls, CallGoesOn(c) PROVE QueueingInv'
  <2>1. ASSUME EndCall(c) PROVE QueueingInv'
    <3>1. c.step \in {"ok", "bad"}
      BY <2>1 DEF EndCall
    <3> QED BY <2>1, <3>1, SuccessKeeps, QueueFailureKeeps
  <2> QED BY <1>3, <2>1, StartKeeps, PostKeepsQueue, ViewPollKeeps DEF CallGoesOn
<1>4. ASSUME NEW r \in posted, Perform(r) PROVE QueueingInv'
  BY <1>4, PerformKeeps
<1>5. CASE Reload
  BY <1>5, ReloadKeepsQueue
<1> QED BY <1>1, <1>2, <1>3, <1>4, <1>5 DEF ViewNext

\* An item of the Feed has one job more than the reader was told of, or as many.
LEMMA FeedJobs == ASSUME QueueingInv PROVE RetryQueuesOnce
<1> SUFFICES ASSUME queueView = "feed", NEW i \in QueueItems PROVE Jobs(i) <= Successes(i) + 1
  BY DEF RetryQueuesOnce
<1> DEFINE ofItem == {j \in queued : j.item = i}
<1>1. IsFiniteSet(Past(i)) /\ IsFiniteSet(ToldOf(i)) /\ Cardinality(Past(i)) <= Cardinality(ToldOf(i))
      /\ Cardinality(Past(i)) \in Nat /\ Cardinality(ToldOf(i)) \in Nat
  BY FS_CardinalityType DEF QueueingInv, FeedKeeps
<1>2. Jobs(i) = Cardinality(ofItem) /\ Successes(i) = Cardinality(ToldOf(i))
  BY DEF Jobs, Successes, ToldOf
<1>3. CASE \A j \in ofItem : j.id # requestIDs[i]
  <2>1. ofItem = Past(i)
    BY <1>3 DEF Past
  <2> QED BY <1>1, <1>2, <2>1
<1>4. ASSUME NEW k \in ofItem, k.id = requestIDs[i] PROVE Jobs(i) <= Successes(i) + 1
  <2>1. \A j \in ofItem : j.id = requestIDs[i] => j = k
    BY <1>4, JobIsOne
  <2>2. ofItem = Past(i) \cup {k}
    BY <1>4, <2>1 DEF Past
  <2> HIDE DEF ofItem
  <2>3. IsFiniteSet(Past(i) \cup {k})
        /\ Cardinality(Past(i) \cup {k}) = IF k \in Past(i) THEN Cardinality(Past(i)) ELSE Cardinality(Past(i)) + 1
    BY <1>1, FS_AddElement
  <2>4. Cardinality(ofItem) <= Cardinality(Past(i)) + 1 /\ Cardinality(ofItem) \in Nat
    BY <1>1, <2>2, <2>3
  <2> QED BY <1>1, <1>2, <2>4
<1> QED BY <1>3, <1>4

\* An item of the Home view has no more jobs than it had ids.
LEMMA HomeJobs == ASSUME QueueingInv PROVE ReloadQueuesOnce
<1> SUFFICES ASSUME queueView = "home", NEW i \in QueueItems PROVE Jobs(i) <= tries[i] + 1
  BY DEF ReloadQueuesOnce
<1> DEFINE ofItem == {j \in queued : j.item = i}
           f == [j \in ofItem |-> j.id]
<1>1. IsFiniteSet(IDsOf(i)) /\ Cardinality(IDsOf(i)) <= tries[i] + 1 /\ Cardinality(IDsOf(i)) \in Nat /\ tries[i] \in Nat
  BY FS_CardinalityType DEF QueueingInv, HomeKeeps, QueueTypes
<1>2. \A j \in ofItem : j.id \in IDsOf(i)
  BY DEF QueueingInv, RowsAreOne, JobOf, IDsOf
<1>3. \A j, k \in ofItem : j.id = k.id => j = k
  BY JobIsOne
<1>4. f \in [ofItem -> IDsOf(i)] /\ \A j, k \in ofItem : f[j] = f[k] => j = k
  BY <1>2, <1>3
<1>5. f \in Injection(ofItem, IDsOf(i))
  BY <1>4, Fun_IsInj
<1> HIDE DEF f
<1>6. IsFiniteSet(ofItem) /\ Cardinality(ofItem) <= Cardinality(IDsOf(i)) /\ Cardinality(ofItem) \in Nat
  BY <1>1, <1>5, FS_Injection, FS_CardinalityType
<1> QED BY <1>1, <1>6 DEF Jobs

\* What is queued is what was asked for: a retry in the Feed, and a reload of the Home view,
\* queue no item twice, and "queued" is said of a job of that item for that destination.
THEOREM QueueingIsAsAsked == ViewSpec => []QueuedAsAsked
<1>1. QueueingInv => QueuedAsAsked
  BY FeedJobs, HomeJobs DEF QueuedAsAsked, QueueingInv
<1> QED BY <1>1, QueueingStarts, QueueingStep, PTL DEF ViewSpec

-----------------------------------------------------------------------------
(* The types of the queueing.                                              *)

\* The calls of an item, and those that have an id still to be drawn: in the Home view an id
\* is drawn when a call fails, in the others when it has its turn.
CallsFor(i) == {c \in calls : c.item = i}
Drawing == {c \in calls : queueView = "home" \/ c.step = "turn"}

\* A press makes one call of an item at most; a call fails once and draws one id.
PressesAreCounted ==
    /\ presses <= MaxPresses /\ \A c \in calls : c.press \in 1..presses
    /\ IsFiniteSet(calls) /\ fresh + Cardinality(Drawing) <= presses * Cardinality(QueueItems) + 1
    /\ \A i \in QueueItems : tries[i] + Cardinality(CallsFor(i)) <= presses

\* One element for another.
LEMMA Exchanged ==
    ASSUME NEW S, IsFiniteSet(S), NEW c \in S, NEW d
    PROVE  LET T == (S \ {c}) \cup {d}
           IN  IsFiniteSet(T) /\ Cardinality(T) <= Cardinality(S) /\ Cardinality(T) \in Nat /\ Cardinality(S) \in Nat
<1>1. IsFiniteSet(S \ {c}) /\ Cardinality(S \ {c}) = Cardinality(S) - 1 /\ Cardinality(S) \in Nat
  BY FS_RemoveElement, FS_CardinalityType
<1>2. /\ IsFiniteSet((S \ {c}) \cup {d}) /\ Cardinality((S \ {c}) \cup {d}) \in Nat
      /\ Cardinality((S \ {c}) \cup {d}) <= Cardinality(S \ {c}) + 1
  <2>1. /\ IsFiniteSet((S \ {c}) \cup {d})
        /\ Cardinality((S \ {c}) \cup {d}) = IF d \in S \ {c} THEN Cardinality(S \ {c}) ELSE Cardinality(S \ {c}) + 1
    BY <1>1, FS_AddElement
  <2>2. Cardinality((S \ {c}) \cup {d}) \in Nat /\ Cardinality(S \ {c}) \in Nat
    BY <1>1, <2>1, FS_CardinalityType
  <2> QED BY <2>1, <2>2
<1> QED BY <1>1, <1>2

LEMMA CountedSets ==
    ASSUME QueueingInv, PressesAreCounted
    PROVE  /\ IsFiniteSet(Drawing) /\ Cardinality(Drawing) \in Nat
           /\ \A i \in QueueItems : IsFiniteSet(CallsFor(i)) /\ Cardinality(CallsFor(i)) \in Nat
           /\ presses \in Nat /\ fresh \in Nat /\ tries \in [QueueItems -> Nat]
           /\ Cardinality(QueueItems) \in Nat /\ MaxPresses \in Nat
           /\ presses * Cardinality(QueueItems) \in Nat
<1>1. IsFiniteSet(calls) /\ Drawing \subseteq calls /\ \A i \in QueueItems : CallsFor(i) \subseteq calls
  BY DEF PressesAreCounted, Drawing, CallsFor
<1>2. presses \in Nat /\ fresh \in Nat /\ tries \in [QueueItems -> Nat]
  BY DEF QueueingInv, QueueTypes
<1>3. Cardinality(QueueItems) \in Nat /\ MaxPresses \in Nat
  BY ViewAssumption, FS_CardinalityType DEF ViewAssumption
<1>4. \A p, n \in Nat : p * n \in Nat
  OBVIOUS
<1> QED BY <1>1, <1>2, <1>3, <1>4, FS_Subset, FS_CardinalityType

LEMMA CountsStart == ViewInit => PressesAreCounted
<1> SUFFICES ASSUME ViewInit PROVE PressesAreCounted
  OBVIOUS
<1>1. /\ calls = {} /\ presses = 0 /\ fresh \in {0, 1} /\ \A i \in QueueItems : tries[i] = 0
  BY DEF ViewInit
<1>2. Drawing = {} /\ \A i \in QueueItems : CallsFor(i) = {}
  BY <1>1 DEF Drawing, CallsFor
<1>3. IsFiniteSet({}) /\ Cardinality({}) = 0
  BY FS_EmptySet
<1>4. Cardinality(QueueItems) \in Nat /\ MaxPresses \in Nat
  BY ViewAssumption, FS_CardinalityType DEF ViewAssumption
<1>5. presses * Cardinality(QueueItems) = 0
  BY <1>1, <1>4
<1>6. fresh + Cardinality(Drawing) <= presses * Cardinality(QueueItems) + 1
  BY <1>1, <1>2, <1>3, <1>5
<1>7. presses <= MaxPresses /\ IsFiniteSet(calls) /\ \A c \in calls : c.press \in 1..presses
  BY <1>1, <1>3, <1>4
<1>8. \A i \in QueueItems : tries[i] + Cardinality(CallsFor(i)) <= presses
  BY <1>1, <1>2, <1>3
<1> QED BY <1>6, <1>7, <1>8 DEF PressesAreCounted

\* A call that goes on is of the item and the press it was, and has drawn what it draws.
LEMMA CallKeepsCounts ==
    ASSUME QueueingInv, PressesAreCounted, NEW c \in calls, NEW d, c.item \in QueueItems,
           d.item = c.item, d.press = c.press, calls' = (calls \ {c}) \cup {d},
           UNCHANGED <<queueView, presses, tries>>, fresh' \in Nat,
           IF c \in Drawing THEN (d \in Drawing' /\ fresh' = fresh) \/ (d \notin Drawing' /\ fresh' <= fresh + 1)
           ELSE d \notin Drawing' /\ fresh' = fresh
    PROVE  PressesAreCounted'
<1>1. /\ IsFiniteSet(Drawing) /\ Cardinality(Drawing) \in Nat /\ fresh \in Nat /\ presses \in Nat
      /\ \A i \in QueueItems : IsFiniteSet(CallsFor(i)) /\ Cardinality(CallsFor(i)) \in Nat /\ tries[i] \in Nat
      /\ presses * Cardinality(QueueItems) \in Nat
  BY CountedSets
<1>2. IsFiniteSet(calls') /\ presses <= MaxPresses
  BY Exchanged DEF PressesAreCounted
<1>3. \A x \in calls' : x.press \in 1..presses
  BY DEF PressesAreCounted
<1>4. ASSUME NEW i \in QueueItems PROVE tries[i] + Cardinality(CallsFor(i)') <= presses
  <2>1. CASE i = c.item
    <3>1. CallsFor(i)' = (CallsFor(i) \ {c}) \cup {d} /\ c \in CallsFor(i)
      BY <2>1 DEF CallsFor
    <3>2. Cardinality(CallsFor(i)') <= Cardinality(CallsFor(i)) /\ Cardinality(CallsFor(i)') \in Nat
      BY <1>1, <3>1, Exchanged
    <3> QED BY <1>1, <3>2 DEF PressesAreCounted
  <2>2. CASE i # c.item
    <3>1. CallsFor(i)' = CallsFor(i)
      BY <2>2 DEF CallsFor
    <3> QED BY <3>1 DEF PressesAreCounted
  <2> QED BY <2>1, <2>2
<1>5. fresh' + Cardinality(Drawing') <= presses * Cardinality(QueueItems) + 1
  <2>0. fresh + Cardinality(Drawing) <= presses * Cardinality(QueueItems) + 1
    BY DEF PressesAreCounted
  <2>1. CASE c \notin Drawing
    <3>1. Drawing' = Drawing /\ fresh' = fresh
      BY <2>1 DEF Drawing
    <3> QED BY <2>0, <3>1
  <2>2. CASE c \in Drawing /\ d \in Drawing'
    <3>1. Drawing' = (Drawing \ {c}) \cup {d} /\ fresh' = fresh
      BY <2>2 DEF Drawing
    <3>2. Cardinality(Drawing') <= Cardinality(Drawing) /\ Cardinality(Drawing') \in Nat
      BY <1>1, <2>2, <3>1, Exchanged
    <3> QED BY <1>1, <2>0, <3>1, <3>2
  <2>3. CASE c \in Drawing /\ d \notin Drawing'
    <3>1. Drawing' = Drawing \ {c} /\ fresh' <= fresh + 1
      BY <2>3 DEF Drawing
    <3>2. Cardinality(Drawing') = Cardinality(Drawing) - 1
      BY <1>1, <2>3, <3>1, FS_RemoveElement
    <3> QED BY <1>1, <2>0, <3>1, <3>2
  <2> QED BY <2>1, <2>2, <2>3
<1> QED BY <1>2, <1>3, <1>4, <1>5 DEF PressesAreCounted

LEMMA PressCounts ==
    ASSUME QueueingInv, PressesAreCounted, NEW S \in SUBSET QueueItems, NEW t \in QueueTargets, Press(S, t)
    PROVE  PressesAreCounted'
<1> DEFINE New(x) == [press |-> presses + 1, item |-> x, id |-> IDAtPress(x), target |-> t, step |-> "turn"]
           Made == {New(i) : i \in S}
           N == Cardinality(QueueItems)
<1>1. /\ presses < MaxPresses /\ presses' = presses + 1 /\ calls' = calls \cup Made
      /\ UNCHANGED <<queueView, fresh, tries>>
  BY DEF Press
<1>2. /\ IsFiniteSet(Drawing) /\ Cardinality(Drawing) \in Nat /\ fresh \in Nat /\ presses \in Nat
      /\ \A i \in QueueItems : IsFiniteSet(CallsFor(i)) /\ Cardinality(CallsFor(i)) \in Nat /\ tries[i] \in Nat
      /\ N \in Nat /\ MaxPresses \in Nat /\ presses * N \in Nat
  BY CountedSets
<1>3. \A i \in S : New(i).press = presses + 1 /\ New(i).item = i /\ New(i).step = "turn"
  OBVIOUS
<1>4. IsFiniteSet(Made) /\ Cardinality(Made) <= N /\ Cardinality(Made) \in Nat
  <2>1. IsFiniteSet(S) /\ Cardinality(S) <= N /\ Cardinality(S) \in Nat
    BY <1>2, ViewAssumption, FS_Subset, FS_CardinalityType DEF ViewAssumption
  <2>2. IsFiniteSet(Made) /\ Cardinality(Made) <= Cardinality(S)
    <3>1. [i \in S |-> New(i)] \in Surjection(S, Made)
      BY DEF Surjection
    <3> QED BY <2>1, <3>1, FS_Surjection
  <2>3. Cardinality(Made) \in Nat
    BY <2>2, FS_CardinalityType
  <2> QED BY <1>2, <2>1, <2>2, <2>3
<1>m. \A x \in Made : \E i \in S : x = New(i)
  OBVIOUS
<1>n. \A i \in S : New(i) \in Made
  OBVIOUS
<1> HIDE DEF New
<1>h. Made \subseteq {New(i) : i \in S}
  OBVIOUS
<1> HIDE DEF Made, N
<1>5. IsFiniteSet(calls') /\ presses' <= MaxPresses
  <2>1. IsFiniteSet(calls \cup Made)
    BY <1>4, FS_Union DEF PressesAreCounted
  <2> QED BY <1>1, <1>2, <2>1
<1>6. \A x \in calls' : x.press \in 1..presses'
  <2>1. \A x \in calls : x.press \in 1..(presses + 1)
    BY <1>2 DEF PressesAreCounted
  <2>2. \A x \in Made : x.press \in 1..(presses + 1)
    BY <1>2, <1>3, <1>m
  <2> QED BY <1>1, <2>1, <2>2
<1>7. fresh + Cardinality(Drawing') <= presses' * N + 1
  <2>1. Drawing' = Drawing \cup Made
    BY <1>1, <1>3, <1>m DEF Drawing
  <2>2. Cardinality(Drawing') <= Cardinality(Drawing) + Cardinality(Made) /\ Cardinality(Drawing') \in Nat
    <3>1. /\ IsFiniteSet(Drawing \cup Made)
          /\ Cardinality(Drawing \cup Made) = Cardinality(Drawing) + Cardinality(Made) - Cardinality(Drawing \cap Made)
      BY <1>2, <1>4, FS_Union
    <3>2. Cardinality(Drawing \cap Made) \in Nat
      BY <1>2, FS_Subset, FS_CardinalityType
    <3>3. Cardinality(Drawing \cup Made) \in Nat
      BY <3>1, FS_CardinalityType
    <3> QED BY <1>2, <1>4, <2>1, <3>1, <3>2, <3>3
  <2>3. \A p, n \in Nat : (p + 1) * n = p * n + n
    OBVIOUS
  <2>4. presses' * N = presses * N + N
    BY <1>1, <1>2, <2>3
  <2>5. fresh + Cardinality(Drawing) <= presses * N + 1
    BY DEF PressesAreCounted, N
  <2> QED BY <1>2, <1>4, <2>2, <2>4, <2>5
<1>8. ASSUME NEW i \in QueueItems PROVE tries[i] + Cardinality(CallsFor(i)') <= presses'
  <2>0. tries[i] + Cardinality(CallsFor(i)) <= presses
    BY DEF PressesAreCounted
  <2>1. CASE i \in S
    <3>1. CallsFor(i)' = CallsFor(i) \cup {New(i)}
      BY <1>1, <1>3, <1>m, <1>n, <2>1 DEF CallsFor
    <3>2. Cardinality(CallsFor(i)') <= Cardinality(CallsFor(i)) + 1 /\ Cardinality(CallsFor(i)') \in Nat
      <4>1. /\ IsFiniteSet(CallsFor(i) \cup {New(i)})
            /\ Cardinality(CallsFor(i) \cup {New(i)}) \in {Cardinality(CallsFor(i)), Cardinality(CallsFor(i)) + 1}
        BY <1>2, FS_AddElement
      <4> QED BY <1>2, <3>1, <4>1
    <3> QED BY <1>1, <1>2, <2>0, <3>2
  <2>2. CASE i \notin S
    <3>1. CallsFor(i)' = CallsFor(i)
      BY <1>1, <1>3, <1>m, <2>2 DEF CallsFor
    <3> QED BY <1>1, <1>2, <2>0, <3>1
  <2> QED BY <2>1, <2>2
<1> QED BY <1>1, <1>5, <1>6, <1>7, <1>8 DEF PressesAreCounted, N

LEMMA EndCounts == ASSUME QueueingInv, PressesAreCounted, NEW c \in calls, EndCall(c) PROVE PressesAreCounted'
<1>1. /\ c.step \in {"ok", "bad"} /\ calls' = calls \ {c}
      /\ fresh' = IF Renewed(c) > fresh THEN Renewed(c) ELSE fresh
      /\ tries' = IF c.step = "bad" THEN [tries EXCEPT ![c.item] = @ + 1] ELSE tries
      /\ UNCHANGED <<queueView, presses>>
  BY DEF EndCall
<1>2. /\ IsFiniteSet(Drawing) /\ Cardinality(Drawing) \in Nat /\ fresh \in Nat /\ presses \in Nat
      /\ \A i \in QueueItems : IsFiniteSet(CallsFor(i)) /\ Cardinality(CallsFor(i)) \in Nat
      /\ tries \in [QueueItems -> Nat] /\ presses * Cardinality(QueueItems) \in Nat
  BY CountedSets
<1>3. /\ c.item \in QueueItems /\ requestIDs[c.item] \in Nat /\ requestIDs[c.item] <= fresh
  BY DEF QueueingInv, QueueTypes, QueueCall, CallsHaveRows
<1>4. fresh' = fresh \/ (c \in Drawing /\ fresh' = fresh + 1)
  BY <1>1, <1>2, <1>3 DEF Renewed, Drawing
<1>5. IsFiniteSet(calls') /\ \A x \in calls' : x.press \in 1..presses
  BY <1>1, FS_Subset DEF PressesAreCounted
<1>6. fresh' + Cardinality(Drawing') <= presses * Cardinality(QueueItems) + 1
  <2>0. fresh + Cardinality(Drawing) <= presses * Cardinality(QueueItems) + 1
    BY DEF PressesAreCounted
  <2>1. CASE c \in Drawing
    <3>1. Drawing' = Drawing \ {c}
      BY <1>1 DEF Drawing
    <3>2. Cardinality(Drawing') = Cardinality(Drawing) - 1
      BY <1>2, <2>1, <3>1, FS_RemoveElement
    <3> QED BY <1>2, <1>4, <2>0, <3>2
  <2>2. CASE c \notin Drawing
    <3>1. Drawing' = Drawing
      BY <1>1, <2>2 DEF Drawing
    <3> QED BY <1>4, <2>0, <2>2, <3>1
  <2> QED BY <2>1, <2>2
<1>7. ASSUME NEW i \in QueueItems PROVE tries'[i] + Cardinality(CallsFor(i)') <= presses
  <2>0. tries[i] + Cardinality(CallsFor(i)) <= presses
    BY DEF PressesAreCounted
  <2>1. CASE i = c.item
    <3>1. CallsFor(i)' = CallsFor(i) \ {c} /\ c \in CallsFor(i)
      BY <1>1, <2>1 DEF CallsFor
    <3>2. Cardinality(CallsFor(i)') = Cardinality(CallsFor(i)) - 1
      BY <1>2, <3>1, FS_RemoveElement
    <3>3. tries'[i] \in {tries[i], tries[i] + 1} /\ tries[i] \in Nat
      BY <1>1, <1>2, <2>1
    <3> QED BY <1>2, <2>0, <3>2, <3>3
  <2>2. CASE i # c.item
    <3>1. CallsFor(i)' = CallsFor(i) /\ tries'[i] = tries[i]
      BY <1>1, <1>2, <1>3, <2>2 DEF CallsFor
    <3> QED BY <2>0, <3>1
  <2> QED BY <2>1, <2>2
<1> QED BY <1>1, <1>5, <1>6, <1>7 DEF PressesAreCounted

LEMMA CountsStep == QueueingInv /\ PressesAreCounted /\ [ViewNext]_viewVars => PressesAreCounted'
<1> SUFFICES ASSUME QueueingInv, PressesAreCounted, [ViewNext]_viewVars PROVE PressesAreCounted'
  OBVIOUS
<1>t. /\ \A c \in calls : c \in QueueCall /\ c.item \in QueueItems /\ c.id \in Nat /\ c.id <= fresh
      /\ fresh \in Nat /\ requestIDs \in [QueueItems -> Nat] /\ \A i \in QueueItems : requestIDs[i] <= fresh
  BY DEF QueueingInv, QueueTypes, QueueCall, CallsHaveRows
<1>1. ASSUME NEW S \in SUBSET QueueItems, NEW t \in QueueTargets, Press(S, t) PROVE PressesAreCounted'
  BY <1>1, PressCounts
<1>2. ASSUME NEW c \in calls, StartCall(c) PROVE PressesAreCounted'
  <2>1. PICK id :
           /\ id = IF c.id # 0 THEN c.id ELSE IF KeepsID(c.item) THEN requestIDs[c.item] ELSE fresh + 1
           /\ fresh' = IF id > fresh THEN id ELSE fresh
           /\ calls' = (calls \ {c}) \cup {[c EXCEPT !.id = id, !.step = "post"]}
           /\ c.step = "turn" /\ UNCHANGED <<queueView, presses, tries>>
    BY <1>2 DEF StartCall
  <2>2. id \in Nat /\ fresh' \in Nat /\ fresh' <= fresh + 1 /\ (queueView = "home" => fresh' = fresh)
    <3>1. queueView = "home" => c.id # 0
      BY DEF QueueingInv, HomeKeeps
    <3> QED BY <1>t, <2>1, <3>1 DEF KeepsID
  <2>3. PICK d : d = [c EXCEPT !.id = id, !.step = "post"]
    OBVIOUS
  <2>4. d.item = c.item /\ d.press = c.press /\ d.step = "post" /\ calls' = (calls \ {c}) \cup {d}
    BY <1>t, <2>1, <2>3 DEF QueueCall
  <2>5. c \in Drawing /\ ((d \in Drawing' /\ fresh' = fresh) \/ (d \notin Drawing' /\ fresh' <= fresh + 1))
    BY <2>1, <2>2, <2>4 DEF Drawing
  <2> QED BY <1>t, <2>1, <2>2, <2>4, <2>5, CallKeepsCounts
<1>3. ASSUME NEW c \in calls, Post(c) \/ Poll(c) PROVE PressesAreCounted'
  <2>1. /\ c.step # "turn" /\ UNCHANGED <<queueView, fresh, presses, tries>>
        /\ \E step \in {"wait", "seek", "ok", "bad"} : calls' = (calls \ {c}) \cup {[c EXCEPT !.step = step]}
    BY <1>3 DEF Post, Poll, Ended, GivesUp
  <2>2. PICK step \in {"wait", "seek", "ok", "bad"} : calls' = (calls \ {c}) \cup {[c EXCEPT !.step = step]}
    BY <2>1
  <2>3. PICK d : d = [c EXCEPT !.step = step]
    OBVIOUS
  <2>4. d.item = c.item /\ d.press = c.press /\ d.step # "turn" /\ calls' = (calls \ {c}) \cup {d}
    BY <1>t, <2>2, <2>3 DEF QueueCall
  <2>5. IF c \in Drawing THEN d \in Drawing' /\ fresh' = fresh ELSE d \notin Drawing' /\ fresh' = fresh
    BY <2>1, <2>4 DEF Drawing
  <2> QED BY <1>t, <2>1, <2>4, <2>5, CallKeepsCounts
<1>4. ASSUME NEW c \in calls, EndCall(c) PROVE PressesAreCounted'
  BY <1>4, EndCounts
<1>5. ASSUME UNCHANGED <<queueView, fresh, calls, presses, tries>> PROVE PressesAreCounted'
  BY <1>5 DEF PressesAreCounted, Drawing, CallsFor
<1>6. CASE Reload
  <2>1. calls' = {} /\ UNCHANGED <<queueView, fresh, presses, tries>>
    BY <1>6 DEF Reload
  <2>2. Drawing' = {} /\ \A i \in QueueItems : CallsFor(i)' = {}
    BY <2>1 DEF Drawing, CallsFor
  <2>3. IsFiniteSet({}) /\ Cardinality({}) = 0
    BY FS_EmptySet
  <2>4. fresh + 0 <= presses * Cardinality(QueueItems) + 1 /\ \A i \in QueueItems : tries[i] + 0 <= presses
    <3>1. /\ Cardinality(Drawing) \in Nat /\ fresh \in Nat /\ presses \in Nat /\ presses * Cardinality(QueueItems) \in Nat
          /\ \A i \in QueueItems : Cardinality(CallsFor(i)) \in Nat /\ tries[i] \in Nat
      BY CountedSets
    <3> QED BY <3>1 DEF PressesAreCounted
  <2>5. presses <= MaxPresses
    BY DEF PressesAreCounted
  <2> QED BY <2>1, <2>2, <2>3, <2>4, <2>5 DEF PressesAreCounted
<1>7. ASSUME NEW r \in posted, Perform(r) PROVE PressesAreCounted'
  BY <1>5, <1>7 DEF Perform
<1>8. CASE UNCHANGED viewVars
  BY <1>5, <1>8 DEF viewVars
<1> QED BY <1>1, <1>2, <1>3, <1>4, <1>6, <1>7, <1>8 DEF ViewNext, CallGoesOn

\* ViewTypeOK: a call is of a press and of an item, one that waits for its job has the job's
\* row, and ids are drawn one at most for every item of a press (the queueing hooks of the
\* four views).
THEOREM QueueingTypeCorrect == ViewSpec => []ViewTypeOK
<1>1. QueueingInv /\ PressesAreCounted => ViewTypeOK
  <2> SUFFICES ASSUME QueueingInv, PressesAreCounted PROVE ViewTypeOK
    OBVIOUS
  <2>1. /\ Cardinality(Drawing) \in Nat /\ fresh \in Nat /\ presses \in Nat /\ Cardinality(QueueItems) \in Nat
        /\ MaxPresses \in Nat /\ presses * Cardinality(QueueItems) \in Nat /\ tries \in [QueueItems -> Nat]
        /\ \A i \in QueueItems : Cardinality(CallsFor(i)) \in Nat
    BY CountedSets
  <2>2. presses <= MaxPresses
    BY DEF PressesAreCounted
  <2>3. fresh \in 0..(MaxPresses * Cardinality(QueueItems) + 1)
    <3>1. fresh + Cardinality(Drawing) <= presses * Cardinality(QueueItems) + 1
      BY DEF PressesAreCounted
    <3>2. \A p, m, n \in Nat : p <= m => p * n <= m * n /\ m * n \in Nat
      <4> SUFFICES ASSUME NEW p \in Nat, NEW m \in Nat, NEW n \in Nat, p <= m PROVE p * n <= m * n /\ m * n \in Nat
        OBVIOUS
      <4>1. PICK k \in Nat : m = p + k
        OBVIOUS
      <4>2. m * n = p * n + k * n /\ p * n \in Nat /\ k * n \in Nat
        BY <4>1
      <4> QED BY <4>2
    <3>3. presses * Cardinality(QueueItems) <= MaxPresses * Cardinality(QueueItems) /\ MaxPresses * Cardinality(QueueItems) \in Nat
      BY <2>1, <2>2, <3>2
    <3> QED BY <2>1, <3>1, <3>3
  <2>4. tries \in [QueueItems -> 0..MaxPresses]
    <3>1. ASSUME NEW i \in QueueItems PROVE tries[i] \in 0..MaxPresses
      BY <2>1, <2>2 DEF PressesAreCounted
    <3> QED BY <2>1, <3>1
  <2>5. requestIDs \in [QueueItems -> 0..fresh] /\ queueView \in Views
    BY <2>1 DEF QueueingInv, QueueTypes, CallsHaveRows
  <2>6. queued \subseteq {[id |-> r.id, item |-> r.item, target |-> r.target] : r \in posted}
    BY DEF QueueingInv, RowsAreOne, JobOf
  <2>7. ASSUME NEW c \in calls
        PROVE  /\ c.item \in QueueItems /\ c.target \in QueueTargets /\ c.press \in 1..presses
               /\ c.id = 0 => c.step = "turn"
               /\ c.step \in {"seek", "ok"} => \E j \in queued : j.id = c.id /\ j.item = c.item
    BY DEF QueueingInv, QueueTypes, QueueCall, CallsHaveRows, JobOf, PressesAreCounted
  <2> QED BY <2>1, <2>2, <2>3, <2>4, <2>5, <2>6, <2>7 DEF ViewTypeOK
<1>2. ViewSpec => [](QueueingInv /\ PressesAreCounted)
  BY QueueingStarts, QueueingStep, CountsStart, CountsStep, PTL DEF ViewSpec
<1> QED BY <1>1, <1>2, PTL
=============================================================================
