------------------------ MODULE CommandCreationProofs ------------------------
(***************************************************************************)
(* Proofs about CommandCreation, for any posts, identities, reads, items,  *)
(* places and bounds.                                                      *)
(*                                                                         *)
(* The inductive invariant says what a post knows while it is between two  *)
(* statements: which rows were there when it looked, that no open one asks *)
(* for the read it will insert, and that the row it was answered with asks *)
(* for what it asks for and carries its identity.  Rows only grow, and     *)
(* what a row asks for, its identity and what its post knew never change,  *)
(* so what a post knew stays true while others insert.                     *)
(***************************************************************************)
EXTENDS CommandCreation, FiniteSetTheorems, SequenceTheorems, WellFoundedInduction, TLAPS

Wants == ReadKeys \cup Downloads \cup Extractions

Row == [want: Wants, id: RequestIDs \cup {"none"}, status: {"pending", "running", "completed"},
        offers: SUBSET Places, known: Nat]

PostRecord == [step: {"new", "answered", "lookup", "create", "insert", "feed_queue"},
               want: Wants \cup {[kind |-> "none"]}, id: RequestIDs \cup {"none"},
               known: Nat, cache: Nat, answer: {"none", "row", "refused"}, row: Nat]

UnderWay(r) == r.step \in {"lookup", "create", "insert", "feed_queue"}

\* No row that was there when the post looked asks for its read and is still open.
LookedFirst(r) ==
    r.want \in ReadKeys => \A m \in 1..r.known : rows[m].want = r.want => ~IsOpenRow(m)

\* What a post that is under way asks for, and under which step.
PostAsks(r) ==
    /\ r.want \in Wants /\ (r.want \in Downloads <=> r.id # "none")
    /\ r.known <= Len(rows) /\ LookedFirst(r)

\* What is true of a post, whatever the others do.
PostFits(r) ==
    /\ UnderWay(r) => PostAsks(r) /\ r.answer = "none"
    /\ r.step = "feed_queue" => r.want \in Downloads /\ r.want.kind = "feed_queue"
    /\ r.step \in {"lookup", "create", "insert"} => r.want.kind \notin {"feed_queue", "feed_resolve"}
    /\ r.row <= Len(rows)
    /\ r.answer = "row" => /\ r.row \in RowIDs /\ rows[r.row].want = r.want
                           /\ r.id # "none" => rows[r.row].id = r.id
    /\ r.cache # 0 => r.cache \in RowIDs /\ rows[r.cache].want = r.want

CreationRowsTyped ==
    /\ rows \in Seq(Row) /\ Len(rows) <= MaxRows
    /\ \A n \in RowIDs : rows[n].known < n /\ (rows[n].want \in Downloads <=> rows[n].id # "none")

WorldTyped ==
    /\ acked \in Seq(Nat)
    /\ hourOld \in Nat /\ quarterOld \in Nat /\ hourOld <= quarterOld /\ quarterOld <= Len(acked)
    /\ cloudFeed \subseteq FeedItems /\ watchTitle \in 1..MaxTitles
    /\ changes \in 0..MaxChanges /\ paired \in BOOLEAN /\ online \in BOOLEAN

UniqueIDs == \A m, n \in RowIDs : rows[m].id = rows[n].id /\ rows[m].id # "none" => m = n

\* The completed rows, each once.
AckedOnce ==
    /\ \A k \in 1..Len(acked) : acked[k] \in RowIDs
    /\ \A j, k \in 1..Len(acked) : acked[j] = acked[k] => j = k
    /\ \A n \in RowIDs : rows[n].status = "completed" <=> \E k \in 1..Len(acked) : acked[k] = n

PostsFit == post \in [PostSlots -> PostRecord] /\ \A p \in PostSlots : PostFits(post[p])

CreationInv ==
    CreationRowsTyped /\ WorldTyped /\ UniqueIDs /\ AckedOnce /\ PostsFit /\ OnlyOverlapsDuplicate

-----------------------------------------------------------------------------
(* Numbers, kinds and fresh results.                                       *)

LEMMA SmallestRow ==
    ASSUME NEW S \in SUBSET Nat, S # {}
    PROVE  \E n \in S : \A m \in S : n <= m
<1>1. PICK n \in S : \A m \in S : ~ (<<m, n>> \in OpToRel(<, Nat))
  BY WFMin, NatLessThanWellFounded
<1>2. \A m \in S : ~(m < n)
  BY <1>1 DEF OpToRel
<1> QED BY <1>2

LEMMA LargestRow ==
    ASSUME NEW top \in Nat, NEW S \in SUBSET (0..top), S # {}
    PROVE  \E n \in S : \A m \in S : m <= n
<1> DEFINE T == {top - n : n \in S}
<1>0. \A n \in S : n \in 0..top /\ top - n \in Nat
  OBVIOUS
<1>1. T \in SUBSET Nat /\ T # {}
  BY <1>0
<1>2. PICK t \in T : \A u \in T : t <= u
  BY <1>1, SmallestRow
<1>3. PICK n \in S : t = top - n
  BY <1>2
<1>4. ASSUME NEW m \in S PROVE m <= n
  <2>1. top - n <= top - m
    BY <1>2, <1>3
  <2> QED BY <2>1, <1>0
<1> QED BY <1>4

LEMMA Kinds ==
    /\ \A w \in Downloads : w.kind \in {"feed_queue", "watchlist_queue"}
    /\ \A w \in Extractions : w.kind \in {"feed_resolve", "watchlist_resolve"}
    /\ \A w \in ReadKeys : w.kind \notin {"feed_queue", "watchlist_queue", "feed_resolve", "watchlist_resolve"}
    /\ \A w \in ReadKeys \cup Extractions : w \notin Downloads
    /\ \A w \in Downloads \cup Extractions : w \notin ReadKeys
<1>1. \A w \in Downloads : w.kind \in {"feed_queue", "watchlist_queue"}
  BY DEF Downloads
<1>2. \A w \in Extractions : w.kind \in {"feed_resolve", "watchlist_resolve"}
  BY DEF Extractions
<1>3. \A w \in ReadKeys : w.kind \notin {"feed_queue", "watchlist_queue", "feed_resolve", "watchlist_resolve"}
  BY CreationAssumption
<1> QED BY <1>1, <1>2, <1>3

LEMMA RowFacts ==
    ASSUME rows \in Seq(Row)
    PROVE  /\ Len(rows) \in Nat /\ rows \in [1..Len(rows) -> Row]
           /\ \A n \in RowIDs : /\ n \in Nat /\ rows[n] \in Row /\ rows[n].known \in Nat
                                /\ rows[n].want \in Wants
<1>1. Len(rows) \in Nat /\ rows \in [1..Len(rows) -> Row]
  BY LenProperties
<1>2. ASSUME NEW n \in RowIDs
      PROVE  n \in Nat /\ rows[n] \in Row
  BY <1>1, <1>2 DEF RowIDs
<1>3. \A r \in Row : r.known \in Nat /\ r.want \in Wants
  BY DEF Row
<1> QED BY <1>1, <1>2, <1>3

\* The cached page is a row for the same page.
LEMMA CacheFits ==
    ASSUME CreationInv, NEW want
    PROVE  /\ CachedResult(want) \in Nat
           /\ CachedResult(want) # 0 =>
                 CachedResult(want) \in RowIDs /\ rows[CachedResult(want)].want = want
<1> DEFINE fresh == FreshResults(want)
<1>1. CASE want.kind \notin {"feed_sites", "feed_page"} \/ fresh = {}
  BY <1>1 DEF CachedResult
<1>2. CASE want.kind \in {"feed_sites", "feed_page"} /\ fresh # {}
  <2>1. hourOld \in Nat /\ Len(acked) \in Nat
    BY LenProperties DEF CreationInv, WorldTyped
  <2>2. fresh \in SUBSET (0..Len(acked)) /\ fresh \subseteq 1..Len(acked)
    BY <2>1 DEF FreshResults
  <2>3. \E k \in fresh : \A j \in fresh : j <= k
    BY <1>2, <2>1, <2>2, LargestRow
  <2> DEFINE newest == CHOOSE k \in fresh : \A j \in fresh : j <= k
  <2>4. newest \in fresh
    BY <2>3
  <2>5. CachedResult(want) = acked[newest]
    BY <1>2 DEF CachedResult
  <2> HIDE DEF newest
  <2>6. newest \in 1..Len(acked) /\ rows[acked[newest]].want = want
    BY <2>2, <2>4 DEF FreshResults
  <2>7. acked[newest] \in RowIDs
    BY <2>6 DEF CreationInv, AckedOnce
  <2> QED BY <2>5, <2>6, <2>7, RowFacts DEF CreationInv, CreationRowsTyped
<1> QED BY <1>1, <1>2

-----------------------------------------------------------------------------
(* How the rows grow.                                                      *)

\* Rows that keep their numbers and what they ask for, and are not opened again.
Grow ==
    /\ rows \in Seq(Row) /\ rows' \in Seq(Row) /\ Len(rows) <= Len(rows')
    /\ \A n \in 1..Len(rows) : /\ rows'[n].want = rows[n].want /\ rows'[n].id = rows[n].id
                               /\ rows'[n].known = rows[n].known
                               /\ IsOpenRow(n)' => IsOpenRow(n)

LEMMA PostsStayFit ==
    ASSUME Grow, NEW r \in PostRecord, PostFits(r)
    PROVE  PostFits(r)'
<1> SUFFICES /\ PostAsks(r) => PostAsks(r)'
             /\ r.row <= Len(rows)'
             /\ r.answer = "row" => /\ r.row \in RowIDs' /\ rows'[r.row].want = r.want
                                    /\ r.id # "none" => rows'[r.row].id = r.id
             /\ r.cache # 0 => r.cache \in RowIDs' /\ rows'[r.cache].want = r.want
  BY DEF PostFits, UnderWay
<1>1. Len(rows) \in Nat /\ Len(rows') \in Nat /\ r.row \in Nat /\ r.known \in Nat
  BY LenProperties DEF Grow, PostRecord
<1>2. PostAsks(r) => PostAsks(r)'
  <2> SUFFICES ASSUME PostAsks(r), r.want \in ReadKeys, NEW m \in 1..r.known, rows'[m].want = r.want
               PROVE  ~IsOpenRow(m)'
    BY <1>1 DEF PostAsks, LookedFirst, Grow
  <2>1. m \in 1..Len(rows)
    BY <1>1 DEF PostAsks
  <2> QED BY <2>1 DEF Grow, PostAsks, LookedFirst
<1>3. \A n \in RowIDs : n \in RowIDs'
  BY <1>1 DEF Grow, RowIDs
<1> QED BY <1>1, <1>2, <1>3 DEF Grow, PostFits, RowIDs

-----------------------------------------------------------------------------
(* What a post does.                                                       *)

\* A post that moves disturbs nobody else.
LEMMA PostKeeps ==
    ASSUME CreationInv, NEW p \in PostSlots, NEW r \in PostRecord, PostFits(r),
           post' = [post EXCEPT ![p] = r], UNCHANGED <<rows, worldVars>>
    PROVE  CreationInv'
<1>1. CreationRowsTyped' /\ WorldTyped' /\ UniqueIDs' /\ AckedOnce' /\ OnlyOverlapsDuplicate'
  BY DEF CreationInv, CreationRowsTyped, WorldTyped, UniqueIDs, AckedOnce, OnlyOverlapsDuplicate, RowIDs,
     IsOpenRow, worldVars
<1>2. \A x : PostFits(x)' <=> PostFits(x)
  BY DEF PostFits, PostAsks, LookedFirst, RowIDs, IsOpenRow
<1>3. PostsFit'
  BY <1>2 DEF CreationInv, PostsFit
<1> QED BY <1>1, <1>3 DEF CreationInv

\* The answers a post may get, as records.
LEMMA AnswerFits ==
    ASSUME NEW asked \in PostRecord,
           asked.cache # 0 => asked.cache \in RowIDs /\ rows[asked.cache].want = asked.want,
           rows \in Seq(Row)
    PROVE  /\ asked.row <= Len(rows) /\ asked.answer # "row" =>
                 LET r == [asked EXCEPT !.step = "answered", !.answer = "refused"] IN
                 r \in PostRecord /\ PostFits(r)
           /\ \A n \in RowIDs : rows[n].want = asked.want /\ (asked.id # "none" => rows[n].id = asked.id) =>
                 LET r == [asked EXCEPT !.step = "answered", !.answer = "row", !.row = n] IN
                 r \in PostRecord /\ PostFits(r)
<1>1. ASSUME asked.row <= Len(rows)
      PROVE  LET r == [asked EXCEPT !.step = "answered", !.answer = "refused"] IN
             r \in PostRecord /\ PostFits(r)
  <2> DEFINE r == [asked EXCEPT !.step = "answered", !.answer = "refused"]
  <2>1. /\ r \in PostRecord /\ r.step = "answered" /\ r.answer = "refused" /\ r.row = asked.row
        /\ r.cache = asked.cache /\ r.want = asked.want
    BY DEF PostRecord
  <2> QED BY <1>1, <2>1 DEF PostFits, UnderWay
<1>2. ASSUME NEW n \in RowIDs, rows[n].want = asked.want, asked.id # "none" => rows[n].id = asked.id
      PROVE  LET r == [asked EXCEPT !.step = "answered", !.answer = "row", !.row = n] IN
             r \in PostRecord /\ PostFits(r)
  <2> DEFINE r == [asked EXCEPT !.step = "answered", !.answer = "row", !.row = n]
  <2>1. n \in Nat /\ n <= Len(rows)
    BY LenProperties DEF RowIDs
  <2>2. /\ r \in PostRecord /\ r.step = "answered" /\ r.row = n /\ r.id = asked.id
        /\ r.cache = asked.cache /\ r.want = asked.want
    BY <2>1 DEF PostRecord
  <2> QED BY <1>2, <2>1, <2>2 DEF PostFits, UnderWay
<1> QED BY <1>1, <1>2

\* What an insertion makes of the rows.
LEMMA InsertGrows ==
    ASSUME rows \in Seq(Row), NEW row \in Row, rows' = Append(rows, row)
    PROVE  /\ Grow /\ Len(rows') = Len(rows) + 1 /\ rows'[Len(rows) + 1] = row
           /\ \A n \in RowIDs : rows'[n] = rows[n]
           /\ \A n \in RowIDs' : n \in RowIDs \/ n = Len(rows) + 1
<1>1. Len(rows) \in Nat /\ rows' \in Seq(Row) /\ Len(rows') = Len(rows) + 1
  BY LenProperties
<1>2. rows'[Len(rows) + 1] = row /\ \A n \in 1..Len(rows) : rows'[n] = rows[n]
  BY <1>1
<1>3. \A n \in 1..Len(rows') : n \in 1..Len(rows) \/ n = Len(rows) + 1
  BY <1>1
<1>4. Grow
  BY <1>1, <1>2 DEF Grow, IsOpenRow
<1> QED BY <1>1, <1>2, <1>3, <1>4 DEF RowIDs

LEMMA InsertKeeps ==
    ASSUME CreationInv, NEW p \in PostSlots, NEW asked \in PostRecord, PostAsks(asked),
           asked.cache # 0 => asked.cache \in RowIDs /\ rows[asked.cache].want = asked.want,
           ~IsTaken(asked.id), Insert(p, asked, asked.id), UNCHANGED worldVars
    PROVE  CreationInv'
<1> DEFINE new == [want |-> asked.want, id |-> asked.id, status |-> "pending",
                   offers |-> {}, known |-> asked.known]
           last == Len(rows) + 1
<1>1. rows \in Seq(Row) /\ Len(rows) \in Nat /\ asked.known \in Nat
  BY LenProperties DEF CreationInv, CreationRowsTyped, PostRecord
<1>2. new \in Row
  BY DEF Row, PostAsks, PostRecord
<1>3. rows' = Append(rows, new) /\ Len(rows) < MaxRows
  BY DEF Insert
<1>4. new.want = asked.want /\ new.id = asked.id /\ new.known = asked.known /\ new.status = "pending"
  OBVIOUS
<1> HIDE DEF new
<1>5. /\ Grow /\ Len(rows') = last /\ rows'[last] = new
      /\ \A n \in RowIDs : rows'[n] = rows[n]
      /\ \A n \in RowIDs' : n \in RowIDs \/ n = last
      /\ last \in RowIDs' /\ \A n \in RowIDs : n \in Nat /\ n < last /\ n \in RowIDs'
  <2>1. /\ Grow /\ Len(rows') = last /\ rows'[last] = new
        /\ \A n \in RowIDs : rows'[n] = rows[n]
        /\ \A n \in RowIDs' : n \in RowIDs \/ n = last
    BY <1>1, <1>2, <1>3, InsertGrows
  <2> QED BY <1>1, <2>1 DEF RowIDs
<1>6. CreationRowsTyped'
  <2>1. rows' \in Seq(Row) /\ Len(rows') <= MaxRows
    BY <1>1, <1>3, <1>5, CreationAssumption DEF Grow
  <2>2. ASSUME NEW n \in RowIDs'
        PROVE  rows'[n].known < n /\ (rows'[n].want \in Downloads <=> rows'[n].id # "none")
    <3>1. CASE n \in RowIDs
      BY <3>1, <1>5 DEF CreationInv, CreationRowsTyped
    <3>2. CASE n = last
      BY <3>2, <1>1, <1>4, <1>5 DEF PostAsks
    <3> QED BY <3>1, <3>2, <1>5
  <2> QED BY <2>1, <2>2 DEF CreationRowsTyped
<1>7. WorldTyped'
  BY DEF CreationInv, WorldTyped, worldVars
<1>8. UniqueIDs'
  <2>1. \A n \in RowIDs : rows[n].id # "none" => rows[n].id # new.id
    BY <1>4 DEF IsTaken
  <2> QED BY <2>1, <1>5 DEF CreationInv, UniqueIDs
<1>9. AckedOnce'
  <2>1. \A n \in RowIDs : rows[n].status = "completed" <=> \E k \in 1..Len(acked) : acked[k] = n
    BY DEF CreationInv, AckedOnce
  <2>2. \A k \in 1..Len(acked) : acked[k] \in RowIDs /\ acked[k] # last
    BY <1>5 DEF CreationInv, AckedOnce
  <2> QED BY <2>1, <2>2, <1>4, <1>5 DEF CreationInv, AckedOnce, worldVars
<1>10. OnlyOverlapsDuplicate'
  <2> SUFFICES ASSUME NEW m \in RowIDs', NEW n \in RowIDs', m < n,
                      rows'[n].want \in ReadKeys, rows'[m].want = rows'[n].want, IsOpenRow(m)'
               PROVE  rows'[n].known < m
    BY DEF OnlyOverlapsDuplicate
  <2>1. m \in RowIDs /\ IsOpenRow(m)
    BY <1>1, <1>5 DEF IsOpenRow
  <2>2. CASE n \in RowIDs
    BY <2>1, <2>2, <1>5 DEF CreationInv, OnlyOverlapsDuplicate
  <2>3. CASE n = last
    <3>1. ~(m \in 1..asked.known)
      BY <2>1, <2>3, <1>4, <1>5 DEF PostAsks, LookedFirst
    <3> QED BY <3>1, <2>1, <2>3, <1>1, <1>4, <1>5 DEF RowIDs
  <2> QED BY <2>2, <2>3, <1>5
<1>11. PostsFit'
  <2>1. PICK n \in Nat : n = last
    BY <1>1
  <2>2. PICK r : r = [asked EXCEPT !.step = "answered", !.answer = "row", !.row = n]
    OBVIOUS
  <2>3. post' = [post EXCEPT ![p] = r]
    BY <2>1, <2>2 DEF Insert, Joins
  <2>4. /\ r \in PostRecord /\ r.step = "answered" /\ r.row = n /\ r.id = asked.id
        /\ r.cache = asked.cache /\ r.want = asked.want
    BY <2>2 DEF PostRecord
  <2>5. PostFits(r)'
    BY <2>1, <2>4, <1>1, <1>4, <1>5 DEF PostFits, UnderWay
  <2>6. ASSUME NEW x \in PostRecord, PostFits(x)
        PROVE  PostFits(x)'
    BY <1>5, <2>6, PostsStayFit
  <2>7. post' \in [PostSlots -> PostRecord]
    BY <2>3, <2>4 DEF CreationInv, PostsFit
  <2>8. ASSUME NEW q \in PostSlots
        PROVE  post'[q] = r \/ (post'[q] \in PostRecord /\ PostFits(post[q]) /\ post'[q] = post[q])
    BY <2>3 DEF CreationInv, PostsFit
  <2>9. ASSUME NEW q \in PostSlots, NEW x \in PostRecord, x = post'[q]
        PROVE  PostFits(x)'
    <3>1. CASE x = r
      BY <3>1, <2>5
    <3>2. CASE x # r
      <4>1. PostFits(x)
        BY <2>8, <2>9, <3>2
      <4> QED BY <4>1, <2>6
    <3> QED BY <3>1, <3>2
  <2> QED BY <2>7, <2>9 DEF PostsFit, PostFits, PostAsks, LookedFirst, UnderWay, IsOpenRow, RowIDs
<1> QED BY <1>6, <1>7, <1>8, <1>9, <1>10, <1>11 DEF CreationInv

\* The posts and the reads when only the rows move on.
LEMMA GrowthKeeps ==
    ASSUME CreationInv, Grow, Len(rows') = Len(rows), post' = post
    PROVE  CreationRowsTyped' /\ UniqueIDs' /\ OnlyOverlapsDuplicate' /\ PostsFit'
<1>1. Len(rows) \in Nat /\ RowIDs' = RowIDs
  BY LenProperties DEF CreationInv, CreationRowsTyped, RowIDs
<1>2. CreationRowsTyped' /\ UniqueIDs' /\ OnlyOverlapsDuplicate'
  BY <1>1 DEF Grow, CreationInv, CreationRowsTyped, UniqueIDs, OnlyOverlapsDuplicate, RowIDs
<1>3. ASSUME NEW x \in PostRecord, PostFits(x)
      PROVE  PostFits(x)'
  BY <1>3, PostsStayFit
<1>4. ASSUME NEW q \in PostSlots, NEW x \in PostRecord, x = post'[q]
      PROVE  PostFits(x)'
  BY <1>3, <1>4 DEF CreationInv, PostsFit
<1> QED BY <1>2, <1>4 DEF CreationInv, PostsFit, PostFits, PostAsks, LookedFirst, UnderWay, IsOpenRow, RowIDs

LEMMA RowMoves ==
    ASSUME CreationInv, NEW n \in RowIDs, NEW e \in Row,
           e.want = rows[n].want, e.id = rows[n].id, e.known = rows[n].known,
           rows[n].status \in {"pending", "running"}, rows' = [rows EXCEPT ![n] = e]
    PROVE  /\ Grow /\ Len(rows') = Len(rows) /\ RowIDs' = RowIDs
           /\ \A m \in RowIDs : rows'[m] = IF m = n THEN e ELSE rows[m]
<1>1. rows \in Seq(Row) /\ n \in 1..Len(rows)
  BY DEF CreationInv, CreationRowsTyped, RowIDs
<1>2. /\ rows' \in Seq(Row) /\ Len(rows') = Len(rows)
      /\ \A m \in 1..Len(rows) : rows'[m] = IF m = n THEN e ELSE rows[m]
  BY <1>1, ExceptSeq
<1>3. Len(rows) \in Nat
  BY <1>1, LenProperties
<1> QED BY <1>1, <1>2, <1>3 DEF Grow, IsOpenRow, RowIDs

LEMMA DeviceKeeps ==
    ASSUME CreationInv, NEW n \in RowIDs, TakeRow(n) \/ CompleteRow(n)
    PROVE  CreationInv'
<1>1. rows[n] \in Row /\ rows \in Seq(Row) /\ rows \in [1..Len(rows) -> Row]
  BY RowFacts DEF CreationInv, CreationRowsTyped
<1>2. CASE TakeRow(n)
  <2> DEFINE e == [rows[n] EXCEPT !.status = "running"]
  <2>1. /\ e \in Row /\ e.want = rows[n].want /\ e.id = rows[n].id /\ e.known = rows[n].known
        /\ e.status = "running"
    BY <1>1 DEF Row
  <2>2. rows' = [rows EXCEPT ![n] = e] /\ rows[n].status = "pending" /\ UNCHANGED <<worldVars, post>>
    BY <1>2 DEF TakeRow
  <2> HIDE DEF e
  <2>3. /\ Grow /\ Len(rows') = Len(rows) /\ RowIDs' = RowIDs
        /\ \A m \in RowIDs : rows'[m] = IF m = n THEN e ELSE rows[m]
    BY <2>1, <2>2, RowMoves
  <2>4. AckedOnce'
    BY <2>1, <2>2, <2>3 DEF CreationInv, AckedOnce, worldVars
  <2>5. WorldTyped'
    BY <2>2 DEF CreationInv, WorldTyped, worldVars
  <2> QED BY <2>2, <2>3, <2>4, <2>5, GrowthKeeps DEF CreationInv
<1>3. CASE CompleteRow(n)
  <2>1. PICK there \in SUBSET Places :
          rows' = [rows EXCEPT ![n].status = "completed",
                               ![n].offers = IF rows[n].want.kind = "destinations_list" THEN there ELSE {}]
    BY <1>3 DEF CompleteRow
  <2> DEFINE shown == IF rows[n].want.kind = "destinations_list" THEN there ELSE {}
             e == [rows[n] EXCEPT !.status = "completed", !.offers = shown]
  <2>2. shown \in SUBSET Places
    OBVIOUS
  <2>3. rows' = [rows EXCEPT ![n] = e]
    BY <1>1, <2>1 DEF RowIDs
  <2> HIDE DEF shown
  <2>4. /\ e \in Row /\ e.want = rows[n].want /\ e.id = rows[n].id /\ e.known = rows[n].known
        /\ e.status = "completed"
    BY <1>1, <2>2 DEF Row
  <2> HIDE DEF e
  <2>5. /\ rows[n].status = "running" /\ acked' = Append(acked, n)
        /\ UNCHANGED <<hourOld, quarterOld, cloudFeed, watchTitle, paired, online, changes, post>>
    BY <1>3 DEF CompleteRow
  <2>6. /\ Grow /\ Len(rows') = Len(rows) /\ RowIDs' = RowIDs
        /\ \A m \in RowIDs : rows'[m] = IF m = n THEN e ELSE rows[m]
    BY <2>3, <2>4, <2>5, RowMoves
  <2>7. n \in Nat /\ acked \in Seq(Nat) /\ Len(acked) \in Nat
    BY LenProperties DEF CreationInv, WorldTyped, RowIDs
  <2>8. /\ acked' \in Seq(Nat) /\ Len(acked') = Len(acked) + 1 /\ acked'[Len(acked) + 1] = n
        /\ \A k \in 1..Len(acked) : acked'[k] = acked[k] /\ k \in 1..Len(acked')
        /\ \A k \in 1..Len(acked') : k \in 1..Len(acked) \/ k = Len(acked) + 1
        /\ Len(acked) + 1 \in 1..Len(acked')
    BY <2>5, <2>7
  <2>9. \A k \in 1..Len(acked) : acked[k] # n
    BY <2>5 DEF CreationInv, AckedOnce
  <2>10. AckedOnce'
    <3>1. \A k \in 1..Len(acked') : acked'[k] \in RowIDs'
      BY <2>6, <2>8 DEF CreationInv, AckedOnce
    <3>2. \A j, k \in 1..Len(acked') : acked'[j] = acked'[k] => j = k
      BY <2>8, <2>9 DEF CreationInv, AckedOnce
    <3>3. ASSUME NEW m \in RowIDs
          PROVE  rows'[m].status = "completed" <=> \E k \in 1..Len(acked') : acked'[k] = m
      <4>1. CASE m = n
        BY <4>1, <2>4, <2>6, <2>8
      <4>2. CASE m # n
        BY <4>2, <2>6, <2>8 DEF CreationInv, AckedOnce
      <4> QED BY <4>1, <4>2
    <3> QED BY <2>6, <3>1, <3>2, <3>3 DEF AckedOnce
  <2>11. WorldTyped'
    BY <2>5, <2>7, <2>8 DEF CreationInv, WorldTyped
  <2> QED BY <2>5, <2>6, <2>10, <2>11, GrowthKeeps DEF CreationInv
<1> QED BY <1>2, <1>3

LEMMA WorldKeeps ==
    ASSUME CreationInv, TimePasses \/ CloudFeedChanges \/ WatchlistChanges \/ DeviceChanges
    PROVE  CreationInv'
<1>1. UNCHANGED <<rows, acked, post>>
  BY DEF TimePasses, CloudFeedChanges, WatchlistChanges, DeviceChanges
<1>2. CreationRowsTyped' /\ UniqueIDs' /\ AckedOnce' /\ OnlyOverlapsDuplicate'
  BY <1>1 DEF CreationInv, CreationRowsTyped, UniqueIDs, AckedOnce, OnlyOverlapsDuplicate, RowIDs, IsOpenRow
<1>3. PostsFit'
  BY <1>1 DEF CreationInv, PostsFit, PostFits, PostAsks, LookedFirst, UnderWay, IsOpenRow, RowIDs
<1>4. changes' \in 0..MaxChanges
  BY CreationAssumption DEF CreationInv, WorldTyped, TimePasses, CloudFeedChanges, WatchlistChanges,
     DeviceChanges, WorldChanges
<1>5. hourOld' \in Nat /\ quarterOld' \in Nat /\ hourOld' <= quarterOld' /\ quarterOld' <= Len(acked)
  BY LenProperties DEF CreationInv, WorldTyped, TimePasses, CloudFeedChanges, WatchlistChanges, DeviceChanges
<1>6. cloudFeed' \subseteq FeedItems /\ watchTitle' \in 1..MaxTitles /\ paired' \in BOOLEAN /\ online' \in BOOLEAN
  <2>1. cloudFeed' \subseteq FeedItems
    BY DEF CreationInv, WorldTyped, TimePasses, CloudFeedChanges, WatchlistChanges, DeviceChanges
  <2>2. watchTitle' \in 1..MaxTitles
    BY CreationAssumption DEF CreationInv, WorldTyped, TimePasses, CloudFeedChanges,
       WatchlistChanges, DeviceChanges
  <2>3. paired' \in BOOLEAN /\ online' \in BOOLEAN
    <3>1. CASE DeviceChanges
      BY <3>1 DEF CreationInv, WorldTyped, DeviceChanges
    <3>2. CASE UNCHANGED <<paired, online>>
      BY <3>2 DEF CreationInv, WorldTyped
    <3> QED BY <3>1, <3>2 DEF TimePasses, CloudFeedChanges, WatchlistChanges
  <2> QED BY <2>1, <2>2, <2>3
<1>7. WorldTyped'
  BY <1>1, <1>4, <1>5, <1>6 DEF CreationInv, WorldTyped
<1> QED BY <1>2, <1>3, <1>7 DEF CreationInv

-----------------------------------------------------------------------------
(* The posts, statement by statement.                                      *)

LEMMA GoesOnKeeps ==
    ASSUME CreationInv, NEW p \in PostSlots, NEW asked \in PostRecord,
           PostAsks(asked), asked.answer = "none", asked.row <= Len(rows),
           asked.cache # 0 => asked.cache \in RowIDs /\ rows[asked.cache].want = asked.want,
           NEW step \in {"lookup", "create", "insert", "feed_queue"},
           IF step = "feed_queue" THEN asked.want \in Downloads /\ asked.want.kind = "feed_queue"
           ELSE asked.want.kind \notin {"feed_queue", "feed_resolve"},
           GoesOn(p, asked, step), UNCHANGED <<rows, worldVars>>
    PROVE  CreationInv'
<1> DEFINE r == [asked EXCEPT !.step = step]
<1>1. /\ r \in PostRecord /\ r.step = step /\ r.want = asked.want /\ r.id = asked.id
      /\ r.known = asked.known /\ r.cache = asked.cache /\ r.answer = asked.answer /\ r.row = asked.row
  BY DEF PostRecord
<1>2. post' = [post EXCEPT ![p] = r]
  BY DEF GoesOn
<1> HIDE DEF r
<1>3. PostFits(r)
  BY <1>1 DEF PostFits, UnderWay, PostAsks, LookedFirst
<1> QED BY <1>1, <1>2, <1>3, PostKeeps

LEMMA RefusalKeeps ==
    ASSUME CreationInv, NEW p \in PostSlots, NEW asked \in PostRecord,
           asked.answer # "row", asked.row <= Len(rows),
           asked.cache # 0 => asked.cache \in RowIDs /\ rows[asked.cache].want = asked.want,
           Refuses(p, asked), UNCHANGED <<rows, worldVars>>
    PROVE  CreationInv'
<1>1. PICK r : r = [asked EXCEPT !.step = "answered", !.answer = "refused"]
  OBVIOUS
<1>2. r \in PostRecord /\ PostFits(r)
  BY <1>1, AnswerFits DEF CreationInv, CreationRowsTyped
<1>3. post' = [post EXCEPT ![p] = r]
  BY <1>1 DEF Refuses
<1> QED BY <1>2, <1>3, PostKeeps

LEMMA JoinKeeps ==
    ASSUME CreationInv, NEW p \in PostSlots, NEW asked \in PostRecord, NEW n \in RowIDs,
           rows[n].want = asked.want, asked.id # "none" => rows[n].id = asked.id,
           asked.cache # 0 => asked.cache \in RowIDs /\ rows[asked.cache].want = asked.want,
           Joins(p, asked, n), UNCHANGED <<rows, worldVars>>
    PROVE  CreationInv'
<1>1. PICK r : r = [asked EXCEPT !.step = "answered", !.answer = "row", !.row = n]
  OBVIOUS
<1>2. r \in PostRecord /\ PostFits(r)
  BY <1>1, AnswerFits DEF CreationInv, CreationRowsTyped
<1>3. post' = [post EXCEPT ![p] = r]
  BY <1>1 DEF Joins
<1> QED BY <1>2, <1>3, PostKeeps

LEMMA RepeatKeeps ==
    ASSUME CreationInv, NEW p \in PostSlots, NEW asked \in PostRecord,
           IsTaken(asked.id), asked.answer # "row", asked.row <= Len(rows),
           asked.cache # 0 => asked.cache \in RowIDs /\ rows[asked.cache].want = asked.want,
           Repeat(p, asked), UNCHANGED <<rows, worldVars>>
    PROVE  CreationInv'
<1> DEFINE n == CHOOSE m \in RowIDs : rows[m].id = asked.id
<1>1. n \in RowIDs /\ rows[n].id = asked.id
  BY DEF IsTaken
<1>2. IF SameInputs(n, asked.want) THEN Joins(p, asked, n) ELSE Refuses(p, asked)
  BY DEF Repeat
<1> HIDE DEF n
<1>3. CASE SameInputs(n, asked.want)
  BY <1>1, <1>2, <1>3, JoinKeeps DEF SameInputs
<1>4. CASE ~SameInputs(n, asked.want)
  BY <1>2, <1>4, RefusalKeeps
<1> QED BY <1>3, <1>4

\* A post as it comes.
LEMMA NewPostTyped ==
    /\ NewPost \in PostRecord /\ NewPost.id = "none" /\ NewPost.known = 0 /\ NewPost.cache = 0
    /\ NewPost.answer = "none" /\ NewPost.row = 0 /\ NewPost.step = "new"
    /\ NewPost.want = [kind |-> "none"]
BY DEF NewPost, PostRecord

LEMMA AskReadKeeps ==
    ASSUME CreationInv, NEW p \in PostSlots, NEW want \in ReadKeys, AskRead(p, want)
    PROVE  CreationInv'
<1> DEFINE open == OpenReads(want)
<1>1. PICK asked : asked = [NewPost EXCEPT !.want = want, !.known = Len(rows), !.cache = CachedResult(want)]
  OBVIOUS
<1>2. /\ UNCHANGED <<rows, worldVars>>
      /\ IF open # {} THEN Joins(p, asked, Smallest(open)) ELSE GoesOn(p, asked, "create")
  BY <1>1 DEF AskRead
<1>3. Len(rows) \in Nat /\ CachedResult(want) \in Nat /\ want \in Wants
  BY RowFacts, CacheFits DEF CreationInv, CreationRowsTyped, Wants
<1>4. /\ asked \in PostRecord /\ asked.want = want /\ asked.known = Len(rows)
      /\ asked.cache = CachedResult(want) /\ asked.id = "none" /\ asked.answer = "none" /\ asked.row = 0
  BY <1>1, <1>3 DEF NewPost, PostRecord
<1>5. asked.cache # 0 => asked.cache \in RowIDs /\ rows[asked.cache].want = asked.want
  BY <1>4, CacheFits
<1>6. CASE open # {}
  <2>1. open \in SUBSET Nat
    BY RowFacts DEF CreationInv, CreationRowsTyped, OpenReads
  <2>2. Smallest(open) \in open
    BY <1>6, <2>1, SmallestRow DEF Smallest
  <2>3. PICK n \in RowIDs : n = Smallest(open) /\ rows[n].want = want
    BY <2>2 DEF OpenReads
  <2> QED BY <1>2, <1>4, <1>5, <1>6, <2>3, JoinKeeps
<1>7. CASE open = {}
  <2>1. PostAsks(asked)
    <3>1. LookedFirst(asked)
      BY <1>4, <1>7 DEF LookedFirst, OpenReads, RowIDs
    <3> QED BY <1>3, <1>4, <3>1, Kinds DEF PostAsks
  <2>2. asked.want.kind \notin {"feed_queue", "feed_resolve"}
    BY <1>4, Kinds
  <2> QED BY <1>2, <1>3, <1>4, <1>5, <1>7, <2>1, <2>2, GoesOnKeeps
<1> QED BY <1>6, <1>7

LEMMA ReadsKeep ==
    ASSUME CreationInv, NEW p \in PostSlots, AskFeed(p) \/ AskHome(p) \/ AskLibrary(p) \/ AskSignIn(p)
    PROVE  CreationInv'
<1>1. CASE \E want \in ReadKeys : AskRead(p, want)
  BY <1>1, AskReadKeeps
<1>2. ASSUME NEW want \in ReadKeys, Refuses(p, [NewPost EXCEPT !.want = want]),
             UNCHANGED <<rows, worldVars>>
      PROVE  CreationInv'
  <2>1. PICK asked : asked = [NewPost EXCEPT !.want = want]
    OBVIOUS
  <2>2. /\ asked \in PostRecord /\ asked.answer = "none" /\ asked.row = 0 /\ asked.cache = 0
    BY <2>1 DEF NewPost, PostRecord, Wants
  <2>3. asked.row <= Len(rows)
    BY <2>2, RowFacts DEF CreationInv, CreationRowsTyped
  <2> QED BY <1>2, <2>1, <2>2, <2>3, RefusalKeeps
<1> QED BY <1>1, <1>2 DEF AskFeed, AskHome, AskLibrary, AskSignIn

\* The state of a post that is under way.
LEMMA UnderWayFacts ==
    ASSUME CreationInv, NEW p \in PostSlots, UnderWay(post[p])
    PROVE  /\ post[p] \in PostRecord /\ PostAsks(post[p]) /\ post[p].answer = "none"
           /\ post[p].row <= Len(rows)
           /\ post[p].cache # 0 => post[p].cache \in RowIDs /\ rows[post[p].cache].want = post[p].want
           /\ IF post[p].step = "feed_queue" THEN post[p].want \in Downloads /\ post[p].want.kind = "feed_queue"
              ELSE post[p].want.kind \notin {"feed_queue", "feed_resolve"}
BY DEF CreationInv, PostsFit, PostFits, UnderWay

LEMMA CheckAndInsertKeeps ==
    ASSUME CreationInv, NEW p \in PostSlots, CheckDevice(p) \/ InsertRow(p) \/ InsertFeedQueue(p) \/ QueueURL(p)
    PROVE  CreationInv'
<1>1. UnderWay(post[p])
  BY DEF UnderWay, CheckDevice, InsertRow, InsertFeedQueue, QueueURL
<1>2. PICK asked \in PostRecord : asked = post[p]
  BY <1>1, UnderWayFacts
<1>3. /\ PostAsks(asked) /\ asked.answer = "none" /\ asked.row <= Len(rows)
      /\ asked.cache # 0 => asked.cache \in RowIDs /\ rows[asked.cache].want = asked.want
      /\ IF asked.step = "feed_queue" THEN asked.want \in Downloads /\ asked.want.kind = "feed_queue"
         ELSE asked.want.kind \notin {"feed_queue", "feed_resolve"}
  BY <1>1, <1>2, UnderWayFacts
<1>4. CASE CheckDevice(p)
  <2>1. /\ asked.step = "create" /\ UNCHANGED <<rows, worldVars>>
        /\ GoesOn(p, asked, "insert") \/ Refuses(p, asked)
    BY <1>2, <1>4 DEF CheckDevice
  <2> QED BY <1>3, <2>1, GoesOnKeeps, RefusalKeeps
<1>5. CASE InsertRow(p) \/ InsertFeedQueue(p)
  <2>1. /\ UNCHANGED worldVars
        /\ \/ Refuses(p, asked) /\ UNCHANGED rows
           \/ ~IsTaken(asked.id) /\ Insert(p, asked, asked.id)
    BY <1>2, <1>5 DEF InsertRow, InsertFeedQueue, KeptID
  <2> QED BY <1>3, <2>1, RefusalKeeps, InsertKeeps
<1>6. CASE QueueURL(p)
  <2>1. /\ asked.step = "lookup" /\ UNCHANGED <<rows, worldVars>>
        /\ IF IsTaken(asked.id) THEN Repeat(p, asked) ELSE GoesOn(p, asked, "create")
    BY <1>2, <1>6 DEF QueueURL
  <2>2. CASE IsTaken(asked.id)
    BY <1>3, <2>1, <2>2, RepeatKeeps
  <2>3. CASE ~IsTaken(asked.id)
    BY <1>3, <2>1, <2>3, GoesOnKeeps
  <2> QED BY <2>2, <2>3
<1> QED BY <1>4, <1>5, <1>6

\* A download as it is posted.
Download(want, id) == [NewPost EXCEPT !.want = want, !.id = id]

LEMMA DownloadsKeep ==
    ASSUME CreationInv, NEW p \in PostSlots, AskFeedQueue(p) \/ AskWatchlistQueue(p)
    PROVE  CreationInv'
<1>1. ASSUME NEW want \in Downloads, NEW id \in RequestIDs
      PROVE  LET asked == Download(want, id) IN
             /\ asked \in PostRecord /\ PostAsks(asked) /\ asked.answer = "none" /\ asked.row <= Len(rows)
             /\ asked.cache = 0 /\ asked.want = want /\ asked.id = id
  <2> DEFINE asked == Download(want, id)
  <2>1. /\ asked \in PostRecord /\ asked.want = want /\ asked.id = id /\ asked.known = 0
        /\ asked.answer = "none" /\ asked.row = 0 /\ asked.cache = 0
    BY DEF Download, NewPost, PostRecord, Wants
  <2>2. Len(rows) \in Nat
    BY RowFacts DEF CreationInv, CreationRowsTyped
  <2> HIDE DEF asked
  <2>3. PostAsks(asked)
    BY <2>1, <2>2, Kinds, CreationAssumption DEF PostAsks, LookedFirst, Wants
  <2> QED BY <2>1, <2>2, <2>3 DEF asked
<1>2. CASE AskFeedQueue(p)
  <2>1. PICK want \in Downloads, id \in RequestIDs :
          LET asked == [NewPost EXCEPT !.want = want, !.id = id] IN
          /\ want.kind = "feed_queue"
          /\ IF IsTaken(id) THEN Repeat(p, asked) ELSE GoesOn(p, asked, "feed_queue")
          /\ UNCHANGED <<rows, worldVars>>
    BY <1>2 DEF AskFeedQueue
  <2>2. PICK asked : asked = Download(want, id)
    OBVIOUS
  <2>3. /\ IF IsTaken(id) THEN Repeat(p, asked) ELSE GoesOn(p, asked, "feed_queue")
        /\ UNCHANGED <<rows, worldVars>> /\ want.kind = "feed_queue"
    BY <2>1, <2>2 DEF Download
  <2>4. /\ asked \in PostRecord /\ PostAsks(asked) /\ asked.answer = "none" /\ asked.row <= Len(rows)
        /\ asked.cache = 0 /\ asked.want = want /\ asked.id = id
    BY <1>1, <2>2
  <2>5. CASE IsTaken(id)
    BY <2>3, <2>4, <2>5, RepeatKeeps
  <2>6. CASE ~IsTaken(id)
    BY <2>3, <2>4, <2>6, GoesOnKeeps
  <2> QED BY <2>5, <2>6
<1>3. CASE AskWatchlistQueue(p)
  <2>1. PICK id \in RequestIDs :
          /\ GoesOn(p, [[NewPost EXCEPT !.id = id] EXCEPT
                           !.want = [kind |-> "watchlist_queue", title |-> watchTitle]], "lookup")
          /\ UNCHANGED <<rows, worldVars>>
    BY <1>3 DEF AskWatchlistQueue
  <2>2. PICK want : want = [kind |-> "watchlist_queue", title |-> watchTitle]
    OBVIOUS
  <2>3. want \in Downloads /\ want.kind = "watchlist_queue"
    BY <2>2 DEF Downloads, CreationInv, WorldTyped
  <2>4. PICK asked : asked = Download(want, id)
    OBVIOUS
  <2>5. asked = [[NewPost EXCEPT !.id = id] EXCEPT !.want = want]
    BY <2>4 DEF NewPost, Download
  <2>6. GoesOn(p, asked, "lookup") /\ UNCHANGED <<rows, worldVars>>
    BY <2>1, <2>2, <2>5
  <2>7. /\ asked \in PostRecord /\ PostAsks(asked) /\ asked.answer = "none" /\ asked.row <= Len(rows)
        /\ asked.cache = 0 /\ asked.want = want
    BY <1>1, <2>3, <2>4
  <2> QED BY <2>3, <2>6, <2>7, GoesOnKeeps
<1> QED BY <1>2, <1>3

LEMMA ResolveKeeps ==
    ASSUME CreationInv, NEW p \in PostSlots, FeedResolve(p) \/ WatchlistResolve(p)
    PROVE  CreationInv'
<1>1. \E want \in Extractions : \E isThere : Resolve(p, want, isThere)
  <2>1. [kind |-> "watchlist_resolve", title |-> watchTitle] \in Extractions
    BY DEF Extractions, CreationInv, WorldTyped
  <2>2. \A i \in FeedItems : [kind |-> "feed_resolve", item |-> i] \in Extractions
    BY DEF Extractions
  <2> QED BY <2>1, <2>2 DEF FeedResolve, WatchlistResolve
<1>2. PICK want \in Extractions : \E isThere : Resolve(p, want, isThere)
  BY <1>1
<1>3. PICK asked : asked = [NewPost EXCEPT !.want = want, !.known = Len(rows)]
  OBVIOUS
<1>4. Len(rows) \in Nat /\ want \in Wants
  BY RowFacts DEF CreationInv, CreationRowsTyped, Wants
<1>5. /\ asked \in PostRecord /\ asked.want = want /\ asked.id = "none" /\ asked.known = Len(rows)
      /\ asked.answer = "none" /\ asked.row = 0 /\ asked.cache = 0
  BY <1>3, <1>4 DEF NewPost, PostRecord
<1>6. PostAsks(asked) /\ ~IsTaken(asked.id) /\ asked.row <= Len(rows)
  BY <1>4, <1>5, Kinds DEF PostAsks, LookedFirst, IsTaken
<1>7. /\ UNCHANGED worldVars
      /\ Insert(p, asked, asked.id) \/ (Refuses(p, asked) /\ UNCHANGED rows)
  BY <1>2, <1>3, <1>5 DEF Resolve
<1> QED BY <1>5, <1>6, <1>7, InsertKeeps, RefusalKeeps

LEMMA CreationStarts == CreationInit => CreationInv
<1> SUFFICES ASSUME CreationInit PROVE CreationInv
  OBVIOUS
<1> DEFINE list == [kind |-> "destinations_list", page |-> "all"]
<1>1. PICK there \in SUBSET Places :
        rows = << [want |-> list, id |-> "none", status |-> "completed", offers |-> there, known |-> 0] >>
  BY DEF CreationInit
<1>2. PICK row : row = [want |-> list, id |-> "none", status |-> "completed", offers |-> there, known |-> 0]
  OBVIOUS
<1>3. list \in ReadKeys /\ list \in Wants /\ list \notin Downloads
  BY CreationAssumption, Kinds DEF Wants
<1>4. /\ row \in Row /\ row.want = list /\ row.id = "none" /\ row.status = "completed" /\ row.known = 0
  BY <1>2, <1>3 DEF Row
<1>5. rows = <<row>> /\ rows \in Seq(Row) /\ Len(rows) = 1 /\ rows[1] = row /\ RowIDs = {1}
  BY <1>1, <1>2, <1>4 DEF RowIDs
<1>6. acked = <<1>> /\ acked \in Seq(Nat) /\ Len(acked) = 1 /\ acked[1] = 1 /\ 1..Len(acked) = {1}
  BY DEF CreationInit
<1>7. CreationRowsTyped /\ UniqueIDs /\ OnlyOverlapsDuplicate
  BY <1>3, <1>4, <1>5, CreationAssumption DEF CreationRowsTyped, UniqueIDs, OnlyOverlapsDuplicate
<1>8. AckedOnce
  BY <1>4, <1>5, <1>6 DEF AckedOnce
<1>9. WorldTyped
  BY <1>6, CreationAssumption DEF CreationInit, WorldTyped
<1>10. PostFits(NewPost)
  BY <1>5, NewPostTyped DEF PostFits, UnderWay
<1>11. PostsFit
  BY <1>10, NewPostTyped DEF CreationInit, PostsFit
<1> QED BY <1>7, <1>8, <1>9, <1>11 DEF CreationInv

LEMMA CreationStep == CreationInv /\ [CreationNext]_creationVars => CreationInv'
<1> SUFFICES ASSUME CreationInv, [CreationNext]_creationVars
             PROVE  CreationInv'
  OBVIOUS
<1>1. CASE UNCHANGED creationVars
  BY <1>1 DEF creationVars, worldVars, CreationInv, CreationRowsTyped, WorldTyped, UniqueIDs, AckedOnce, PostsFit,
     PostFits, PostAsks, LookedFirst, UnderWay, OnlyOverlapsDuplicate, IsOpenRow, RowIDs
<1>2. ASSUME NEW p \in PostSlots,
             \/ AskFeed(p) \/ AskHome(p) \/ AskLibrary(p) \/ AskSignIn(p)
             \/ AskFeedQueue(p) \/ InsertFeedQueue(p) \/ AskWatchlistQueue(p) \/ QueueURL(p)
             \/ CheckDevice(p) \/ InsertRow(p) \/ FeedResolve(p) \/ WatchlistResolve(p)
      PROVE  CreationInv'
  BY <1>2, ReadsKeep, CheckAndInsertKeeps, DownloadsKeep, ResolveKeeps
<1> QED BY <1>1, <1>2, DeviceKeeps, WorldKeeps DEF CreationNext

-----------------------------------------------------------------------------
(* What follows.                                                           *)

LEMMA CompletedAreCounted ==
    ASSUME CreationInv
    PROVE  Cardinality({acked[k] : k \in 1..Len(acked)}) = Len(acked)
<1> DEFINE positions == 1..Len(acked)
           done == {acked[k] : k \in positions}
           f == [k \in positions |-> acked[k]]
<1>1. Len(acked) \in Nat
  BY LenProperties DEF CreationInv, WorldTyped
<1>2. IsFiniteSet(positions) /\ Cardinality(positions) = Len(acked)
  BY <1>1, FS_Interval
<1>3. f \in Bijection(positions, done)
  <2>1. f \in [positions -> done] /\ \A t \in done : \E k \in positions : f[k] = t
    OBVIOUS
  <2>2. \A j, k \in positions : f[j] = f[k] => j = k
    BY DEF CreationInv, AckedOnce
  <2> QED BY <2>1, <2>2 DEF Bijection, Injection, Surjection, IsInjective
<1>4. ExistsBijection(positions, done)
  BY <1>3 DEF ExistsBijection
<1> QED BY <1>2, <1>4, FS_Bijection

LEMMA TypesFollow == CreationInv => CreationTypeOK
<1> SUFFICES ASSUME CreationInv PROVE CreationTypeOK
  OBVIOUS
<1>1. /\ Len(rows) <= MaxRows
      /\ \A n \in RowIDs :
          /\ rows[n].want \in ReadKeys \cup Downloads \cup Extractions
          /\ rows[n].want \in Downloads <=> rows[n].id # "none"
          /\ rows[n].id \in RequestIDs \cup {"none"} /\ rows[n].status \in {"pending", "running", "completed"}
          /\ rows[n].offers \subseteq Places /\ rows[n].known < n
          /\ rows[n].status = "completed" <=> \E k \in 1..Len(acked) : acked[k] = n
  <2>1. \A n \in RowIDs : rows[n] \in Row
    BY RowFacts DEF CreationInv, CreationRowsTyped
  <2> QED BY <2>1 DEF CreationInv, CreationRowsTyped, AckedOnce, Row, Wants
<1>2. /\ hourOld <= quarterOld /\ quarterOld <= Len(acked)
      /\ cloudFeed \subseteq FeedItems /\ watchTitle \in 1..MaxTitles
      /\ changes \in 0..MaxChanges /\ paired \in BOOLEAN /\ online \in BOOLEAN
  BY DEF CreationInv, WorldTyped
<1>3. ASSUME NEW p \in PostSlots
      PROVE  /\ post[p].step \in {"new", "answered", "lookup", "create", "insert", "feed_queue"}
             /\ post[p].answer \in {"none", "row", "refused"} /\ post[p].row \in 0..Len(rows)
  <2>1. post[p] \in PostRecord /\ post[p].row <= Len(rows) /\ Len(rows) \in Nat
    BY RowFacts DEF CreationInv, CreationRowsTyped, PostsFit, PostFits
  <2> QED BY <2>1 DEF PostRecord
<1> QED BY <1>1, <1>2, <1>3, CompletedAreCounted DEF CreationTypeOK

LEMMA IdentityFollows == CreationInv => IdentityIsKept
<1> SUFFICES ASSUME CreationInv PROVE IdentityIsKept
  OBVIOUS
<1>1. AnswerIsTheRequest
  BY DEF CreationInv, PostsFit, PostFits, AnswerIsTheRequest
<1>2. OneRowPerIdentity
  BY DEF CreationInv, PostsFit, PostFits, UniqueIDs, OneRowPerIdentity
<1> QED BY <1>1, <1>2 DEF IdentityIsKept, CreationInv

\* A row that appears is of the post that inserted it, with the evidence it looked for.
OfferedNow ==
    \A n \in 1..Len(rows') :
        n > Len(rows) /\ rows'[n].want.kind \in {"feed_queue", "feed_resolve"} =>
            LET lists == FreshLists IN
            /\ WasShown(rows'[n].want.item)
            /\ rows'[n].want.kind = "feed_queue" /\ rows'[n].want.place # "local" =>
                  lists # {} /\ rows'[n].want.place \in rows[acked[CHOOSE k \in lists : \A j \in lists : j <= k]].offers

LEMMA OfferFollows == CreationInv /\ [CreationNext]_creationVars => OfferedNow
<1> SUFFICES ASSUME CreationInv, [CreationNext]_creationVars,
                    NEW n \in 1..Len(rows'), n > Len(rows),
                    rows'[n].want.kind \in {"feed_queue", "feed_resolve"}
             PROVE  LET lists == FreshLists IN
                    /\ WasShown(rows'[n].want.item)
                    /\ rows'[n].want.kind = "feed_queue" /\ rows'[n].want.place # "local" =>
                          /\ lists # {}
                          /\ rows'[n].want.place \in rows[acked[CHOOSE k \in lists : \A j \in lists : j <= k]].offers
  BY DEF OfferedNow
<1>1. rows \in Seq(Row) /\ Len(rows) \in Nat
  BY RowFacts DEF CreationInv, CreationRowsTyped
<1>2. ASSUME NEW p \in PostSlots, NEW asked, Insert(p, asked, asked.id) \/ Insert(p, asked, "none")
      PROVE  rows'[n].want = asked.want
  <2>1. PICK id \in {asked.id, "none"} :
           rows' = Append(rows, [want |-> asked.want, id |-> id, status |-> "pending",
                                 offers |-> {}, known |-> asked.known])
    BY <1>2 DEF Insert
  <2> QED BY <1>1, <2>1
<1>3. CASE \E p \in PostSlots : InsertRow(p)
  <2>1. PICK p \in PostSlots : InsertRow(p)
    BY <1>3
  <2>2. Insert(p, post[p], post[p].id)
    BY <1>1, <2>1 DEF InsertRow, KeptID
  <2>3. post[p].want.kind \notin {"feed_queue", "feed_resolve"}
    BY <2>1 DEF InsertRow, CreationInv, PostsFit, PostFits
  <2> QED BY <1>2, <2>2, <2>3
<1>4. CASE \E p \in PostSlots : InsertFeedQueue(p)
  <2>1. PICK p \in PostSlots : InsertFeedQueue(p)
    BY <1>4
  <2>2. Insert(p, post[p], post[p].id) /\ WasShown(post[p].want.item) /\ IsOffered(post[p].want.place)
    BY <1>1, <2>1 DEF InsertFeedQueue
  <2>3. rows'[n].want = post[p].want
    BY <1>2, <2>2
  <2>4. CASE post[p].want.place = "local"
    BY <2>2, <2>3, <2>4
  <2>5. CASE post[p].want.place # "local"
    <3> DEFINE lists == FreshLists
               newest == CHOOSE k \in lists : \A j \in lists : j <= k
    <3>1. PICK k \in lists : post[p].want.place \in rows[acked[k]].offers /\ \A j \in lists : j <= k
      BY <2>2, <2>5 DEF IsOffered
    <3>2. newest \in lists /\ \A j \in lists : j <= newest
      BY <3>1
    <3>3. hourOld \in Nat /\ quarterOld \in Nat /\ Len(acked) \in Nat
      BY LenProperties DEF CreationInv, WorldTyped
    <3>4. \A j \in lists : j \in Nat
      BY <3>3 DEF FreshLists
    <3> HIDE DEF newest
    <3>5. newest = k
      BY <3>1, <3>2, <3>4
    <3> QED BY <2>2, <2>3, <3>1, <3>5 DEF newest
  <2> QED BY <2>4, <2>5
<1>5. CASE \E p \in PostSlots : FeedResolve(p) \/ WatchlistResolve(p)
  <2>1. PICK p \in PostSlots : FeedResolve(p) \/ WatchlistResolve(p)
    BY <1>5
  <2>2. CASE FeedResolve(p)
    <3>1. PICK i \in FeedItems : Resolve(p, [kind |-> "feed_resolve", item |-> i], WasShown(i))
      BY <2>2 DEF FeedResolve
    <3>2. PICK asked : asked = [NewPost EXCEPT !.want = [kind |-> "feed_resolve", item |-> i], !.known = Len(rows)]
      OBVIOUS
    <3>3. Insert(p, asked, "none") /\ WasShown(i)
      BY <1>1, <3>1, <3>2 DEF Resolve
    <3>4. rows'[n].want = asked.want
      BY <1>2, <3>3
    <3>5. asked.want = [kind |-> "feed_resolve", item |-> i]
      BY <3>2 DEF NewPost
    <3> QED BY <3>3, <3>4, <3>5
  <2>3. CASE WatchlistResolve(p)
    <3>1. PICK asked : asked = [NewPost EXCEPT !.want = [kind |-> "watchlist_resolve", title |-> watchTitle],
                                               !.known = Len(rows)]
      OBVIOUS
    <3>2. Insert(p, asked, "none")
      BY <1>1, <2>3, <3>1 DEF WatchlistResolve, Resolve
    <3>3. rows'[n].want = asked.want
      BY <1>2, <3>2
    <3>4. asked.want = [kind |-> "watchlist_resolve", title |-> watchTitle]
      BY <3>1 DEF NewPost
    <3> QED BY <3>3, <3>4
  <2> QED BY <2>1, <2>2, <2>3
<1>6. CASE rows' = rows
  BY <1>1, <1>6
<1>7. CASE \E m \in RowIDs : TakeRow(m) \/ CompleteRow(m)
  <2>1. Len(rows') = Len(rows)
    BY <1>1, <1>7 DEF TakeRow, CompleteRow
  <2> QED BY <1>1, <2>1
<1>8. ASSUME NEW p \in PostSlots,
             \/ AskFeed(p) \/ AskHome(p) \/ AskLibrary(p) \/ AskSignIn(p)
             \/ AskFeedQueue(p) \/ AskWatchlistQueue(p) \/ QueueURL(p) \/ CheckDevice(p)
      PROVE  rows' = rows
  BY <1>8 DEF AskFeed, AskHome, AskLibrary, AskSignIn, AskRead, AskFeedQueue, AskWatchlistQueue,
     QueueURL, CheckDevice
<1>9. CASE TimePasses \/ CloudFeedChanges \/ WatchlistChanges \/ DeviceChanges \/ UNCHANGED creationVars
  BY <1>6, <1>9 DEF TimePasses, CloudFeedChanges, WatchlistChanges, DeviceChanges, creationVars
<1> QED BY <1>3, <1>4, <1>5, <1>6, <1>7, <1>8, <1>9 DEF CreationNext

-----------------------------------------------------------------------------
(* Theorems.                                                               *)

\* The rows, the posts and the world are of their types: every completed row was
\* acknowledged once, and downloads are the rows that carry an identity.
THEOREM CreationTypeCorrect == CreationSpec => []CreationTypeOK
BY CreationStarts, CreationStep, TypesFollow, PTL DEF CreationSpec

\* An identity stands for one command whatever is posted twice and at the same time
\* (createCommand, queueURLCommand): the row a post is answered with asks for what it asked
\* for, posts with one identity get one row, and a read is open twice only if the posts
\* that made the rows overlapped.
THEOREM IdentityHolds == CreationSpec => []IdentityIsKept
BY CreationStarts, CreationStep, IdentityFollows, PTL DEF CreationSpec

\* Every row from the Feed was created for an item shown within the hour, and a download
\* for a place the newest list of the last quarter of an hour offers (feedQueueCommand).
THEOREM OffersHold == CreationSpec => QueuedWasOffered
<1>1. CreationInv /\ [CreationNext]_creationVars => [OfferedNow]_creationVars
  BY OfferFollows
<1>2. [][OfferedNow]_creationVars => QueuedWasOffered
  BY PTL DEF QueuedWasOffered, OfferedNow
<1> QED BY <1>1, <1>2, CreationStarts, CreationStep, PTL DEF CreationSpec

=============================================================================
