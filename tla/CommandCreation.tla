-------------------------- MODULE CommandCreation --------------------------
(***************************************************************************)
(* How the control plane turns posts of the browser into command rows: the *)
(* lookup of an earlier row and the insertion are statements of their own, *)
(* so posts interleave between them.  Reads (a feed page, the list of      *)
(* destinations, the sign-in status, ...) join a row that is still open;   *)
(* downloads carry the identity of the request, and those from the feed    *)
(* need fresh evidence that the browser was shown item and destination.    *)
(*                                                                         *)
(* Time is a prefix of the acknowledged rows: those acknowledged more than *)
(* a quarter of an hour ago and, among them, more than an hour ago.        *)
(***************************************************************************)
EXTENDS Naturals, Sequences, FiniteSets

CONSTANTS
    MaxPosted,      \* posts, in the order of their first statement
    RequestIDs,     \* identities the browser gives to downloads
    ReadKeys,       \* [kind, page] of the reads the browser asks for; page i shows item i
    FeedItems,      \* items of the feed
    Places,         \* destinations other than the local disk
    MaxRows, MaxTitles, \* rows created; titles a sync gives the watchlist item
    MaxChanges      \* changes of the world around the posts

\* Reads are not downloads or extractions, the list of destinations is one of them, and an
\* identity is never the mark for a missing one.
ASSUME CreationAssumption ==
    /\ \A key \in ReadKeys :
          key.kind \notin {"feed_queue", "watchlist_queue", "feed_resolve", "watchlist_resolve"}
    /\ [kind |-> "destinations_list", page |-> "all"] \in ReadKeys
    /\ "none" \notin RequestIDs
    /\ MaxRows \in Nat \ {0} /\ MaxTitles \in Nat \ {0} /\ MaxChanges \in Nat /\ MaxPosted \in Nat

VARIABLES
    rows,           \* command rows by creation
    acked,          \* completed rows by acknowledgement
    hourOld,        \* how many of them are older than an hour,
    quarterOld,     \* and than a quarter of an hour
    cloudFeed,      \* items in the fresh cache of the cloud's own feed
    watchTitle,     \* title of the watchlist item
    paired, online, \* is the device not revoked; was it heard of within 75 seconds
    changes,        \* how often the world changed
    post            \* what a slot was asked, how far it is, and its answer

worldVars == <<acked, hourOld, quarterOld, cloudFeed, watchTitle, paired, online, changes>>
creationVars == <<rows, worldVars, post>>

Downloads == [kind: {"feed_queue"}, item: FeedItems, place: Places \cup {"local"}]
             \cup [kind: {"watchlist_queue"}, title: 1..MaxTitles]
Extractions == [kind: {"feed_resolve"}, item: FeedItems] \cup [kind: {"watchlist_resolve"}, title: 1..MaxTitles]

PostSlots == 1..MaxPosted
RowIDs == 1..Len(rows)
IsOpenRow(n) == rows[n].status \in {"pending", "running"}
NewPost == [step |-> "new", want |-> [kind |-> "none"], id |-> "none",
            known |-> 0, cache |-> 0, answer |-> "none", row |-> 0]
Smallest(S) == CHOOSE n \in S : \A m \in S : n <= m

\* The Mac has answered one list of destinations when the posts begin.
CreationInit ==
    /\ \E there \in SUBSET Places :
          rows = << [want |-> [kind |-> "destinations_list", page |-> "all"], id |-> "none",
                     status |-> "completed", offers |-> there, known |-> 0] >>
    /\ acked = <<1>> /\ hourOld = 0 /\ quarterOld = 0
    /\ cloudFeed = {} /\ watchTitle = 1
    /\ paired = TRUE /\ online = TRUE /\ changes = 0
    /\ post = [p \in PostSlots |-> NewPost]

IsNext(p) == post[p].step = "new" /\ \A q \in 1..(p - 1) : post[q].step # "new"

-----------------------------------------------------------------------------
(* How a post proceeds.  asked is the post as it came, or as it is so far. *)

Joins(p, asked, n) == post' = [post EXCEPT ![p] = [asked EXCEPT !.step = "answered", !.answer = "row", !.row = n]]
Refuses(p, asked)  == post' = [post EXCEPT ![p] = [asked EXCEPT !.step = "answered", !.answer = "refused"]]
GoesOn(p, asked, step) == post' = [post EXCEPT ![p] = [asked EXCEPT !.step = step]]

Insert(p, asked, id) ==
    /\ Len(rows) < MaxRows
    /\ rows' = Append(rows, [want |-> asked.want, id |-> id, status |-> "pending",
                             offers |-> {}, known |-> asked.known])
    /\ Joins(p, asked, Len(rows) + 1)

\* createCommand: the device is looked up, then the row is inserted; an identity that was
\* inserted meanwhile violates the primary key.
CheckDevice(p) ==
    /\ post[p].step = "create"
    /\ IF paired THEN GoesOn(p, post[p], "insert") ELSE Refuses(p, post[p])
    /\ UNCHANGED <<rows, worldVars>>

IsTaken(id) == id # "none" /\ \E n \in RowIDs : rows[n].id = id

\* Mutant: the identity is lost on the way to the insertion.
KeptIDLost(p) == IF p \in PostSlots THEN "none" ELSE post[p].id

KeptID(p) == post[p].id

InsertRow(p) ==
    /\ post[p].step = "insert"
    /\ IF IsTaken(KeptID(p)) THEN Refuses(p, post[p]) /\ UNCHANGED rows
       ELSE Insert(p, post[p], KeptID(p))
    /\ UNCHANGED worldVars

-----------------------------------------------------------------------------
(* Reads.                                                                  *)

\* Mutant: only rows the agent was not given yet are joined.
OpenReadsPending(want) == {n \in RowIDs : rows[n].want = want /\ rows[n].status = "pending"}

OpenReads(want) == {n \in RowIDs : rows[n].want = want /\ IsOpenRow(n)}

\* Mutant: the cache does not look at the page.
FreshOfKind(want) == {k \in (hourOld + 1)..Len(acked) : rows[acked[k]].want.kind = want.kind}

\* Acknowledged within the hour, as positions in acked.
FreshResults(want) == {k \in (hourOld + 1)..Len(acked) : rows[acked[k]].want = want}

\* cachedFeedResult, which the answer carries along: the newest, 0 if there is none.
CachedResult(want) ==
    LET fresh == FreshResults(want) IN
    IF want.kind \notin {"feed_sites", "feed_page"} \/ fresh = {} THEN 0
    ELSE acked[CHOOSE k \in fresh : \A j \in fresh : j <= k]

AskRead(p, want) ==
    LET asked == [NewPost EXCEPT !.want = want, !.known = Len(rows), !.cache = CachedResult(want)]
        open == OpenReads(want)
    IN
    /\ IsNext(p)
    /\ IF open # {} THEN Joins(p, asked, Smallest(open)) ELSE GoesOn(p, asked, "create")
    /\ UNCHANGED <<rows, worldVars>>

AskFeed(p) == \E want \in ReadKeys : want.kind \in {"feed_sites", "feed_page", "destinations_list"} /\ AskRead(p, want)
AskHome(p) == \E want \in ReadKeys : want.kind = "home_status" /\ AskRead(p, want)
AskLibrary(p) == \E want \in ReadKeys : want.kind = "library_list" /\ AskRead(p, want)

\* The sign-in commands are refused while the device is not heard of.
AskSignIn(p) == \E want \in ReadKeys :
    /\ want.kind = "pornhub_auth_status"
    /\ IF online /\ paired THEN AskRead(p, want)
       ELSE /\ IsNext(p) /\ Refuses(p, [NewPost EXCEPT !.want = want])
            /\ UNCHANGED <<rows, worldVars>>

-----------------------------------------------------------------------------
(* Downloads.                                                              *)

\* Mutant: a repeated identity is answered whatever it asks for.
SameInputsAny(n, want) == n \in RowIDs /\ want \in Downloads

SameInputs(n, want) == rows[n].want = want

\* The identity was used before: for the same, whose row is the answer, or for another.
Repeat(p, asked) ==
    LET n == CHOOSE m \in RowIDs : rows[m].id = asked.id IN
    IF SameInputs(n, asked.want) THEN Joins(p, asked, n) ELSE Refuses(p, asked)

AskFeedQueue(p) ==
    \E want \in Downloads, id \in RequestIDs :
        LET asked == [NewPost EXCEPT !.want = want, !.id = id] IN
        /\ want.kind = "feed_queue" /\ IsNext(p)
        /\ IF IsTaken(id) THEN Repeat(p, asked) ELSE GoesOn(p, asked, "feed_queue")
        /\ UNCHANGED <<rows, worldVars>>

WasShown(item) ==
    \/ item \in cloudFeed
    \/ FreshResults([kind |-> "feed_page", page |-> item]) # {}

FreshLists == {k \in (quarterOld + 1)..Len(acked) : rows[acked[k]].want.kind = "destinations_list"}

\* Mutant: any list of the last quarter of an hour will do.
IsOfferedByAny(place) == place = "local" \/ \E k \in FreshLists : place \in rows[acked[k]].offers

\* The newest list offers the destination.
IsOffered(place) ==
    place = "local" \/ \E k \in FreshLists : place \in rows[acked[k]].offers /\ \A j \in FreshLists : j <= k

\* One statement checks the device and the evidence and inserts.
InsertFeedQueue(p) ==
    LET want == post[p].want IN
    /\ post[p].step = "feed_queue"
    /\ IF ~IsTaken(post[p].id) /\ paired /\ WasShown(want.item) /\ IsOffered(want.place)
       THEN Insert(p, post[p], post[p].id)
       ELSE Refuses(p, post[p]) /\ UNCHANGED rows
    /\ UNCHANGED worldVars

\* watchlistQueueCommand reads the item, which is there when it was deleted too, and
\* continues as queueURLCommand.
AskWatchlistQueue(p) ==
    \E id \in RequestIDs :
        LET asked == [NewPost EXCEPT !.id = id] IN
        /\ IsNext(p)
        /\ GoesOn(p, [asked EXCEPT !.want = [kind |-> "watchlist_queue", title |-> watchTitle]], "lookup")
        /\ UNCHANGED <<rows, worldVars>>

QueueURL(p) ==
    /\ post[p].step = "lookup"
    /\ IF IsTaken(post[p].id) THEN Repeat(p, post[p]) ELSE GoesOn(p, post[p], "create")
    /\ UNCHANGED <<rows, worldVars>>

-----------------------------------------------------------------------------
(* Extractions: one statement checks the device and the evidence and       *)
(* inserts a row for every press.                                          *)

Resolve(p, want, isThere) ==
    LET asked == [NewPost EXCEPT !.want = want, !.known = Len(rows)] IN
    /\ IsNext(p)
    /\ IF paired /\ isThere THEN Insert(p, asked, "none") ELSE Refuses(p, asked) /\ UNCHANGED rows
    /\ UNCHANGED worldVars

FeedResolve(p) == \E i \in FeedItems : Resolve(p, [kind |-> "feed_resolve", item |-> i], WasShown(i))
WatchlistResolve(p) == Resolve(p, [kind |-> "watchlist_resolve", title |-> watchTitle], TRUE)

-----------------------------------------------------------------------------
(* The device and the world.                                               *)

TakeRow(n) ==
    /\ rows[n].status = "pending" /\ online
    /\ rows' = [rows EXCEPT ![n].status = "running"]
    /\ UNCHANGED <<worldVars, post>>

\* A completed list of destinations names the ones there are.
CompleteRow(n) ==
    /\ rows[n].status = "running" /\ online
    /\ \E there \in SUBSET Places :
          rows' = [rows EXCEPT ![n].status = "completed",
                               ![n].offers = IF rows[n].want.kind = "destinations_list" THEN there ELSE {}]
    /\ acked' = Append(acked, n)
    /\ UNCHANGED <<hourOld, quarterOld, cloudFeed, watchTitle, paired, online, changes, post>>

WorldChanges == changes < MaxChanges /\ changes' = changes + 1

TimePasses ==
    /\ WorldChanges
    /\ \E quarter \in quarterOld..Len(acked), hour \in hourOld..Len(acked) :
          /\ hour <= quarter /\ hour + quarter > hourOld + quarterOld
          /\ quarterOld' = quarter /\ hourOld' = hour
    /\ UNCHANGED <<rows, acked, cloudFeed, watchTitle, paired, online, post>>

CloudFeedChanges ==
    /\ WorldChanges
    /\ \E items \in SUBSET FeedItems : cloudFeed' = items /\ items # cloudFeed
    /\ UNCHANGED <<rows, acked, hourOld, quarterOld, watchTitle, paired, online, post>>

\* A collections sync renames the watchlist item.
WatchlistChanges ==
    /\ WorldChanges /\ watchTitle < MaxTitles
    /\ watchTitle' = watchTitle + 1
    /\ UNCHANGED <<rows, acked, hourOld, quarterOld, cloudFeed, paired, online, post>>

DeviceChanges ==
    /\ WorldChanges
    /\ \/ paired' = FALSE /\ paired /\ UNCHANGED online
       \/ online' = ~online /\ UNCHANGED paired
    /\ UNCHANGED <<rows, acked, hourOld, quarterOld, cloudFeed, watchTitle, post>>

CreationNext ==
    \/ \E p \in PostSlots :
          \/ AskFeed(p) \/ AskHome(p) \/ AskLibrary(p) \/ AskSignIn(p)
          \/ AskFeedQueue(p) \/ InsertFeedQueue(p) \/ AskWatchlistQueue(p) \/ QueueURL(p)
          \/ CheckDevice(p) \/ InsertRow(p) \/ FeedResolve(p) \/ WatchlistResolve(p)
    \/ \E n \in RowIDs : TakeRow(n) \/ CompleteRow(n)
    \/ TimePasses \/ CloudFeedChanges \/ WatchlistChanges \/ DeviceChanges

CreationSpec == CreationInit /\ [][CreationNext]_creationVars

-----------------------------------------------------------------------------
(* Properties.                                                             *)

CreationTypeOK ==
    /\ Len(rows) <= MaxRows /\ Cardinality({acked[k] : k \in 1..Len(acked)}) = Len(acked)
    /\ \A n \in RowIDs :
          /\ rows[n].want \in ReadKeys \cup Downloads \cup Extractions /\ (rows[n].want \in Downloads <=> rows[n].id # "none")
          /\ rows[n].id \in RequestIDs \cup {"none"} /\ rows[n].status \in {"pending", "running", "completed"}
          /\ rows[n].offers \subseteq Places /\ rows[n].known < n
          /\ rows[n].status = "completed" <=> \E k \in 1..Len(acked) : acked[k] = n
    /\ hourOld <= quarterOld /\ quarterOld <= Len(acked)
    /\ cloudFeed \subseteq FeedItems /\ watchTitle \in 1..MaxTitles
    /\ changes \in 0..MaxChanges /\ paired \in BOOLEAN /\ online \in BOOLEAN
    /\ \A p \in PostSlots :
          /\ post[p].step \in {"new", "answered", "lookup", "create", "insert", "feed_queue"}
          /\ post[p].answer \in {"none", "row", "refused"} /\ post[p].row \in 0..Len(rows)

\* The row a post is answered with asks for what the post asked for, however often the
\* identity was used and whoever inserted the row; so does the cached page beside it.
AnswerIsTheRequest ==
    \A p \in PostSlots :
        /\ post[p].answer = "row" => rows[post[p].row].want = post[p].want
        /\ post[p].cache # 0 => rows[post[p].cache].want = post[p].want

\* Posts with one identity never make two downloads, also when both looked before either
\* inserted: those answered with a row are answered with the same one.
OneRowPerIdentity ==
    \A p, q \in PostSlots :
        post[p].id = post[q].id /\ post[p].id # "none" /\ post[p].answer = "row" /\ post[q].answer = "row"
            => post[p].row = post[q].row

\* Two rows for the same read are open together only if the posts that made them overlapped:
\* the later one looked before the earlier row was there.
OnlyOverlapsDuplicate ==
    \A m, n \in RowIDs :
        m < n /\ rows[n].want \in ReadKeys /\ rows[m].want = rows[n].want /\ IsOpenRow(m) => rows[n].known < m

\* An identity stands for one command, whatever is posted twice and at the same time.
IdentityIsKept == AnswerIsTheRequest /\ OneRowPerIdentity /\ OnlyOverlapsDuplicate

\* A download or an extraction from the feed is created for an item shown within the hour, a
\* download for a place that the newest list of the last quarter of an hour still names.
QueuedWasOffered ==
    [][\A n \in 1..Len(rows') :
          n > Len(rows) /\ rows'[n].want.kind \in {"feed_queue", "feed_resolve"} =>
              LET lists == FreshLists IN
              /\ WasShown(rows'[n].want.item)
              /\ rows'[n].want.kind = "feed_queue" /\ rows'[n].want.place # "local" =>
                    lists # {} /\ rows'[n].want.place \in rows[acked[CHOOSE k \in lists : \A j \in lists : j <= k]].offers
      ]_creationVars
=============================================================================
