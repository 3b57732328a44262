-------------------------- MODULE CollectionsProofs --------------------------
(***************************************************************************)
(* Proofs about Collections, for any browsers, page size and bounds.       *)
(*                                                                         *)
(* The inductive invariant has four parts.  Numbers: mutations take effect *)
(* in the order they were made, so the receipts are the numbers 1 to k,    *)
(* the outbox holds consecutive numbers, and a request is the front of it. *)
(* Beginnings: what the account never had, nobody has heard of, and the    *)
(* Mac only has it if the mutation that makes it is still to be sent.      *)
(* Removal: a removal is on its way, has been stored, or was overtaken by  *)
(* a later download.  Agreement, while no two browser requests tangled:    *)
(* the last change of an item says how it is, and the Mac shows that,      *)
(* unless a change is still to be read or sent.                            *)
(*                                                                         *)
(* ApplyMutations is a transaction over the whole request, computed by a   *)
(* recursive function.  What holds after n mutations is proved for the     *)
(* smallest n at which it could fail, since < on the naturals is well      *)
(* founded.                                                                *)
(***************************************************************************)
EXTENDS Collections, FiniteSetTheorems, NaturalsInduction, WellFoundedInduction, TLAPS

-----------------------------------------------------------------------------
(* The inductive invariant.                                                *)

Values == WatchValues \cup LibraryValues
WatchKinds == {"watchlist_upsert", "watchlist_delete"}
LibraryEdits == {"library_upsert", "library_organize", "library_delete"}
KindsOf(entity) == IF entity = "watch" THEN WatchKinds ELSE LibraryEdits
ValueOf(entity, row) == IF entity = "watch" THEN WatchValue(row) ELSE LibraryValue(row)

Entities == {"watch", "library"}
CollectionRows == [watch: WatchValues, deleted: BOOLEAN, library: {"absent", "there", "removed"}, favorite: BOOLEAN, removedAt: Nat]
ValuesOf(entity) == IF entity = "watch" THEN WatchValues ELSE LibraryValues
Entries == [entity: {"watch"}, value: WatchValues, visible: BOOLEAN] \cup
           [entity: {"library"}, value: LibraryValues, visible: BOOLEAN]
Mutations == [id: Nat, kind: WatchKinds \cup LibraryEdits, value: Values, completedAt: Nat]
Copies == [watch: WatchValues, library: LibraryValues]
SyncStates == [step: {"idle", "refreshed", "sent", "committed", "bootstrap", "answered"}, sent: Seq(Mutations),
               acknowledged: SUBSET Nat, page: Seq(Entries), cursor: Nat, more: BOOLEAN,
               bootstrap: [there: BOOLEAN, watch: WatchValues, library: LibraryValues]]
TabStates == [step: {"idle"}] \cup [step: {"written"}, value: WatchValues] \cup [step: {"numbered"}, number: Nat]

CollectionTypes ==
    /\ cloud \in CollectionRows /\ changeLog \in Seq(Entries)
    /\ effects \in Seq(Nat)
    /\ tab \in [Tabs -> TabStates]
    /\ local \in Copies /\ outbox \in Seq(Mutations) /\ cursor \in 0..Len(changeLog)
    /\ sync \in SyncStates /\ sync.cursor <= Len(changeLog)
    /\ clock \in Nat /\ jobs \subseteq 1..clock /\ removedOn \in 0..clock
    /\ nextMutation \in Nat /\ tangled \in BOOLEAN

\* How many mutations have left the outbox.
Dropped == nextMutation - 1 - Len(outbox)

\* What a mutation carries.
Sound(m) ==
    /\ m.kind = "watchlist_upsert" => m.value \in {"unwatched", "watched"}
    /\ m.kind = "watchlist_delete" => m.value = "absent"
    /\ m.kind = "library_upsert" => m.completedAt \in jobs

\* Mutations take effect in the order they were made; the outbox holds the last of them, and
\* none leaves it before it took effect.
InTurn ==
    /\ receipts = 1..Len(effects) /\ Len(effects) < nextMutation
    /\ \A i \in 1..Len(effects) : effects[i] = i
    /\ Dropped \in 0..Len(effects)
    /\ \A i \in 1..Len(outbox) : outbox[i].id = Dropped + i /\ Sound(outbox[i])

HasCommitted == sync.step \in {"committed", "bootstrap", "answered"}

\* A request holds the first mutations of the outbox, and their numbers come back.
SentIsFirst ==
    /\ Len(sync.sent) <= Len(outbox)
    /\ \A i \in 1..Len(sync.sent) : sync.sent[i] = outbox[i]
    /\ ~HasCommitted => sync.acknowledged = {}
    /\ HasCommitted =>
          /\ sync.acknowledged = (Dropped + 1)..(Dropped + Len(sync.sent))
          /\ Dropped + Len(sync.sent) <= Len(effects)

\* Is there a mutation that has not taken effect?
Waiting(done, kinds) == \E i \in 1..Len(outbox) : outbox[i].id > done /\ outbox[i].kind \in kinds

\* The library item: what is known of it before the account has it, from which downloads it
\* is there, and what became of its removal.
LibraryHolds(row, log, done) ==
    /\ row.removedAt <= clock
    /\ row.library = "absent" =>
          /\ local.library # "absent" => Waiting(done, {"library_upsert"})
          /\ \A i \in 1..Len(outbox) : outbox[i].id > done /\ outbox[i].kind = "library_delete" =>
                \E j \in 1..(i - 1) : outbox[j].id > done /\ outbox[j].kind = "library_upsert"
          /\ \A k \in 1..Len(log) : log[k].entity # "library"
    /\ row.library = "there" => jobs # {}
    /\ \/ removedOn = 0 \/ Waiting(done, {"library_delete"})
       \/ \E time \in jobs : time > removedOn
       \/ row.library = "removed" /\ removedOn <= row.removedAt

\* The watchlist item before the account has it: the Mac shows what it did last.
WatchHolds(row, log, done) ==
    row.watch = "absent" =>
        /\ ~row.deleted
        /\ \A k \in 1..Len(log) : log[k].entity # "watch"
        /\ \A i \in 1..Len(outbox) :
              /\ outbox[i].id > done /\ outbox[i].kind \in WatchKinds
              /\ \A j \in (i + 1)..Len(outbox) : outbox[j].kind \notin WatchKinds
              => local.watch = outbox[i].value
        /\ ~Waiting(done, WatchKinds) => local.watch = "absent"

\* Nothing is heard of an item that the account never had.
HeardOf(entity) ==
    sync.bootstrap[entity] # "absent" \/ \E i \in 1..Len(sync.page) : sync.page[i].entity = entity
NothingUnknown ==
    /\ cloud.library = "absent" => ~HeardOf("library")
    /\ cloud.watch = "absent" => ~HeardOf("watch") /\ \A t \in Tabs : ~Busy(t)

\* The rows are read last.
BootstrapLast == sync.bootstrap.there => sync.step = "answered"

Written(entity) == entity = "watch" /\ \E t \in Tabs : tab[t].step = "written"

\* Is there a change of the entity from this number on?
ChangedSince(log, n, entity) == \E k \in (n + 1)..Len(log) : log[k].entity = entity

\* The last change of an entity says how it is.
LatestIsTrue(row, log) ==
    \A k \in 1..Len(log) :
        ~ChangedSince(log, k, log[k].entity)
            => log[k].value = ValueOf(log[k].entity, row) \/ Written(log[k].entity)

\* The Mac agrees with the account, or has a change to read or one to send.
Agrees(entity, row, log, done) ==
    \/ ChangedSince(log, cursor, entity)
    \/ Waiting(done, KindsOf(entity))
    \/ Written(entity)
    \/ local[entity] = ValueOf(entity, row)
    \/ entity = "library" /\ row.library # "there"

\* One browser request at a time, and the change whose number it drew is the last.
OneTab ==
    /\ \A t, u \in Tabs : Busy(t) /\ Busy(u) => t = u
    /\ \A t \in Tabs : tab[t].step = "written" => tab[t].value = WatchValue(cloud)
    /\ \A t \in Tabs : tab[t].step = "numbered" =>
          /\ tab[t].number = Len(changeLog) /\ Len(changeLog) > 0 /\ ~changeLog[Len(changeLog)].visible
          /\ cursor < Len(changeLog) /\ sync.cursor < Len(changeLog)
    /\ \A k \in 1..Len(changeLog) : ~changeLog[k].visible =>
          k = Len(changeLog) /\ \E t \in Tabs : tab[t].step = "numbered"

\* What was read is the part of the log from the cursor on, and the rows as they are but for
\* what is still to be read.
ReadIsPart ==
    /\ sync.step \in {"sent", "committed"} => sync.cursor = cursor
    /\ sync.step \in {"bootstrap", "answered"} =>
          /\ sync.cursor = cursor + Len(sync.page)
          /\ \A i \in 1..Len(sync.page) : sync.page[i] = changeLog[cursor + i]
    /\ sync.bootstrap.there => \A e \in Entities :
          \/ sync.bootstrap[e] \in {"absent", ValueOf(e, cloud)}
          \/ ChangedSince(changeLog, sync.cursor, e) \/ Written(e)

\* The removals that have not taken effect, and the ones the Mac has not heard of.
DeletesOwed(done) ==
    {n \in (done + 1)..(nextMutation - 1) : \E i \in 1..Len(outbox) : outbox[i].id = n /\ outbox[i].kind = "library_delete"}
AbsentBeyond(log) == {k \in (cursor + 1)..Len(log) : log[k].entity = "library" /\ log[k].value = "absent"}
Owed(log, done) == Cardinality(DeletesOwed(done)) + Cardinality(AbsentBeyond(log))

Untangled ==
    /\ OneTab /\ ReadIsPart /\ LatestIsTrue(cloud, changeLog)
    /\ \A e \in Entities : Agrees(e, cloud, changeLog, Len(effects))

CollectionInv ==
    /\ CollectionTypes /\ InTurn /\ SentIsFirst
    /\ LibraryHolds(cloud, changeLog, Len(effects)) /\ WatchHolds(cloud, changeLog, Len(effects))
    /\ NothingUnknown /\ BootstrapLast
    /\ ~tangled => Untangled

-----------------------------------------------------------------------------
(* Numbers, ranks and sequences.                                           *)

\* A set of numbers that is not empty has a smallest.
LEMMA HasSmallest ==
    ASSUME NEW S \in SUBSET Nat, S # {}
    PROVE  \E n \in S : \A m \in S : n <= m
<1>1. PICK n \in S : \A m \in S : ~ (<<m, n>> \in OpToRel(<, Nat))
  BY WFMin, NatLessThanWellFounded
<1>2. \A m \in S : ~(m < n)
  BY <1>1 DEF OpToRel
<1> QED BY <1>2

\* One that is bounded has a largest.
LEMMA HasLargest ==
    ASSUME NEW top \in Nat, NEW S \in SUBSET (0..top), S # {}
    PROVE  \E n \in S : \A m \in S : m <= n
<1> DEFINE T == {top - n : n \in S}
<1>0. \A n \in S : n \in 0..top /\ top - n \in Nat
  OBVIOUS
<1>1. T \in SUBSET Nat /\ T # {}
  BY <1>0
<1>2. PICK t \in T : \A u \in T : t <= u
  BY <1>1, HasSmallest
<1>3. PICK n \in S : t = top - n
  BY <1>2
<1>4. ASSUME NEW m \in S PROVE m <= n
  <2>1. top - n <= top - m
    BY <1>2, <1>3
  <2> QED BY <2>1, <1>0
<1> QED BY <1>4

Rank(S, n) == Cardinality({k \in S : k <= n})

\* Every rank is that of an element.
LEMMA RankIsTaken ==
    ASSUME NEW top \in Nat, NEW S \in SUBSET (1..top), NEW i \in 1..Cardinality(S)
    PROVE  \E n \in S : Rank(S, n) = i
<1>0. /\ IsFiniteSet(S) /\ Cardinality(S) \in Nat
      /\ \A T \in SUBSET S : IsFiniteSet(T) /\ Cardinality(T) \in Nat
  <2>1. IsFiniteSet(1..top)
    BY FS_Interval
  <2>2. IsFiniteSet(S)
    BY <2>1, FS_Subset
  <2> QED BY <2>2, FS_Subset, FS_CardinalityType
<1>s. \A n \in S : n \in 1..top
  OBVIOUS
<1>1. \A n \in Nat : Rank(S, n) \in Nat
  <2> TAKE n \in Nat
  <2>1. {k \in S : k <= n} \in SUBSET S
    OBVIOUS
  <2> QED BY <2>1, <1>0 DEF Rank
<1> DEFINE High == {n \in S : Rank(S, n) >= i}
<1>2. High # {}
  <2>1. S # {}
    BY <1>0, FS_EmptySet
  <2>2. PICK n \in S : \A m \in S : m <= n
    <3>1. S \in SUBSET (0..top)
      BY <1>s
    <3> QED BY <2>1, <3>1, HasLargest
  <2>3. {k \in S : k <= n} = S
    BY <2>2
  <2> QED BY <2>3, <1>0 DEF Rank
<1>3. PICK n \in High : \A m \in High : n <= m
  <2>0. \A x \in High : x \in Nat
    BY <1>s
  <2> HIDE DEF High
  <2>1. High \in SUBSET Nat
    BY <2>0
  <2> QED BY <1>2, <2>1, HasSmallest
<1>4. ASSUME Rank(S, n) # i PROVE FALSE
  <2> DEFINE Below == {k \in S : k < n}
  <2>0. n \in S /\ n \in 1..top
    BY <1>s
  <2>a. /\ \A k \in S : k \in Nat /\ (k <= n <=> k < n \/ k = n)
        /\ n \in Nat /\ ~(n < n)
    BY <1>s, <2>0
  <2>1. {k \in S : k <= n} = Below \cup {n} /\ n \notin Below /\ Below \in SUBSET S
    BY <2>a, <2>0, Zenon
  <2>2. Rank(S, n) = Cardinality(Below) + 1
    BY <2>1, <1>0, FS_AddElement DEF Rank
  <2>3. Cardinality(Below) >= i /\ Cardinality(Below) \in Nat
    BY <2>2, <2>1, <1>0, <1>1, <1>4
  <2>4. Below # {}
    BY <2>3, FS_EmptySet
  <2>5. PICK p \in Below : \A m \in Below : m <= p
    <3>0. \A x \in Below : x \in 0..top
      BY <1>s
    <3> HIDE DEF Below
    <3>1. Below \in SUBSET (0..top)
      BY <3>0
    <3> QED BY <2>4, <3>1, HasLargest
  <2>6. {k \in S : k <= p} = Below
    <3>1. \A k \in S : k <= p <=> k < n
      BY <2>5, <2>0, <1>s
    <3> QED BY <3>1
  <2>7. p \in High /\ p < n
    BY <2>3, <2>6 DEF Rank
  <2> QED BY <2>7, <1>3
<1> QED BY <1>3, <1>4

\* What is picked from a sequence are elements of it.
LEMMA PickedAreThere ==
    ASSUME NEW T, NEW s \in Seq(T), NEW S \in SUBSET (1..Len(s))
    PROVE  /\ Picked(s, S) \in Seq(T) /\ Len(Picked(s, S)) = Cardinality(S)
           /\ \A i \in 1..Len(Picked(s, S)) : \E k \in S : Picked(s, S)[i] = s[k]
<1> DEFINE at(i) == CHOOSE n \in S : Cardinality({k \in S : k <= n}) = i
<1>0. Len(s) \in Nat /\ Cardinality(S) \in Nat
  <2>1. Len(s) \in Nat /\ IsFiniteSet(1..Len(s))
    BY FS_Interval
  <2> QED BY <2>1, FS_Subset, FS_CardinalityType
<1>1. \A i \in 1..Cardinality(S) : at(i) \in S
  <2> TAKE i \in 1..Cardinality(S)
  <2> QED BY <1>0, RankIsTaken DEF Rank
<1>2. Picked(s, S) = [i \in 1..Cardinality(S) |-> s[at(i)]]
  BY DEF Picked
<1> HIDE DEF at
<1>3. \A i \in 1..Cardinality(S) : s[at(i)] \in T
  <2>1. \A k \in S : s[k] \in T
    <3>1. \A k \in 1..Len(s) : s[k] \in T
      OBVIOUS
    <3> QED BY <3>1
  <2> QED BY <1>1, <2>1
<1>4. Picked(s, S) \in Seq(T) /\ Len(Picked(s, S)) = Cardinality(S)
  BY <1>0, <1>2, <1>3
<1> QED BY <1>1, <1>2, <1>4

\* What is picked by a run of indices is that piece of the sequence.
LEMMA PickedRun ==
    ASSUME NEW T, NEW s \in Seq(T), NEW a \in Nat, NEW b \in Nat, a <= b, b <= Len(s)
    PROVE  /\ Picked(s, (a + 1)..b) \in Seq(T)
           /\ Len(Picked(s, (a + 1)..b)) = b - a
           /\ \A i \in 1..(b - a) : Picked(s, (a + 1)..b)[i] = s[a + i]
<1> DEFINE S == (a + 1)..b
<1>1. Cardinality(S) = b - a
  <2>1. a + 1 \in Int /\ b \in Int
    OBVIOUS
  <2>2. Cardinality(S) = IF a + 1 > b THEN 0 ELSE b - (a + 1) + 1
    BY <2>1, FS_Interval
  <2> QED BY <2>2
<1>2. \A n \in S : Cardinality({k \in S : k <= n}) = n - a
  <2> TAKE n \in S
  <2>1. {k \in S : k <= n} = (a + 1)..n
    OBVIOUS
  <2>2. a + 1 \in Int /\ n \in Int /\ a + 1 <= n
    OBVIOUS
  <2>3. Cardinality((a + 1)..n) = IF a + 1 > n THEN 0 ELSE n - (a + 1) + 1
    BY <2>2, FS_Interval
  <2>4. n - (a + 1) + 1 = n - a
    BY <2>2
  <2>5. Cardinality((a + 1)..n) = n - a
    BY <2>2, <2>3, <2>4
  <2> QED BY <2>1, <2>5, Zenon
<1>3. \A i \in 1..(b - a) : (CHOOSE n \in S : Cardinality({k \in S : k <= n}) = i) = a + i
  <2> TAKE i \in 1..(b - a)
  <2>1. a + i \in S /\ \A n \in S : Cardinality({k \in S : k <= n}) = i <=> n = a + i
    BY <1>2
  <2> QED BY <2>1
<1>4. Picked(s, S) = [i \in 1..(b - a) |-> s[a + i]]
  <2>1. Picked(s, S) = [i \in 1..(b - a) |-> s[CHOOSE n \in S : Cardinality({k \in S : k <= n}) = i]]
    BY <1>1 DEF Picked
  <2> HIDE DEF S
  <2> QED BY <2>1, <1>3
<1>5. Len(s) \in Nat /\ \A i \in 1..(b - a) : s[a + i] \in T
  OBVIOUS
<1> QED BY <1>4, <1>5

-----------------------------------------------------------------------------
(* The transaction: one mutation after another.                            *)

\* A change has a value of its entity.
LEMMA EntryIs ==
    /\ \A c \in Entries : c.entity \in Entities /\ c.visible \in BOOLEAN /\ c.value \in ValuesOf(c.entity)
    /\ \A value \in WatchValues : Change("watch", value) \in Entries
    /\ \A value \in LibraryValues : Change("library", value) \in Entries
BY DEF Entries, Entities, ValuesOf, Change

Account == [cloud |-> cloud, log |-> changeLog, receipts |-> receipts, effects |-> effects]

\* What a transaction passes through.
AreSteps(f, N) ==
    f = [n \in 0..N |-> IF n = 0 THEN Account ELSE Mutated(f[n - 1], sync.sent[n])]

\* There is such a passage, of any length.
LEMMA StepsAreThere == ASSUME NEW N \in Nat PROVE \E f : AreSteps(f, N)
<1> DEFINE Without == {n \in Nat : ~\E f : AreSteps(f, n)}
<1>1. SUFFICES ASSUME Without # {} PROVE FALSE
  OBVIOUS
<1>2. PICK n \in Without : \A m \in Without : n <= m
  <2>1. Without \in SUBSET Nat
    OBVIOUS
  <2> HIDE DEF Without
  <2> QED BY <1>1, <2>1, HasSmallest
<1>3. n \in Nat /\ ~\E f : AreSteps(f, n)
  OBVIOUS
<1>4. CASE n = 0
  <2> DEFINE f == [k \in 0..0 |-> Account]
  <2>1. f = [k \in 0..0 |-> IF k = 0 THEN Account ELSE Mutated(f[k - 1], sync.sent[k])]
    OBVIOUS
  <2> QED BY <2>1, <1>3, <1>4 DEF AreSteps
<1>5. CASE n # 0
  <2>1. n - 1 \in Nat /\ ~(n <= n - 1)
    BY <1>3, <1>5
  <2>2. PICK f : AreSteps(f, n - 1)
    BY <2>1, <1>2
  <2> DEFINE g == [k \in 0..n |-> IF k < n THEN f[k] ELSE Mutated(f[n - 1], sync.sent[n])]
  <2>3. \A k \in 0..(n - 1) : g[k] = f[k]
    BY <2>1
  <2>4. \A k \in 0..n : g[k] = IF k = 0 THEN Account ELSE Mutated(g[k - 1], sync.sent[k])
    <3> TAKE k \in 0..n
    <3>1. CASE k < n
      <4>1. f[k] = IF k = 0 THEN Account ELSE Mutated(f[k - 1], sync.sent[k])
        BY <2>1, <2>2, <3>1 DEF AreSteps
      <4>2. k # 0 => k - 1 \in 0..(n - 1)
        OBVIOUS
      <4>3. g[k] = f[k] /\ (k # 0 => g[k - 1] = f[k - 1])
        BY <2>1, <2>3, <3>1, <4>2
      <4> HIDE DEF g
      <4> QED BY <4>1, <4>3
    <3>2. CASE k = n
      <4>1. g[n] = Mutated(f[n - 1], sync.sent[n]) /\ g[n - 1] = f[n - 1]
        BY <1>3, <2>1, <2>3
      <4> HIDE DEF g
      <4> QED BY <4>1, <3>2, <1>5
    <3> QED BY <3>1, <3>2, <1>3
  <2>5. AreSteps(g, n)
    <3> DEFINE h == [k \in 0..n |-> IF k = 0 THEN Account ELSE Mutated(g[k - 1], sync.sent[k])]
    <3>1. g = [k \in 0..n |-> g[k]]
      OBVIOUS
    <3> HIDE DEF g
    <3> QED BY <2>4, <3>1 DEF AreSteps
  <2> QED BY <2>5, <1>3
<1> QED BY <1>4, <1>5

\* The account after the transaction.
LEMMA Transaction ==
    ASSUME ApplyMutations, Len(sync.sent) \in Nat
    PROVE  \E f : /\ AreSteps(f, Len(sync.sent))
                  /\ LET last == f[Len(sync.sent)]
                     IN cloud' = last.cloud /\ changeLog' = last.log /\ receipts' = last.receipts /\ effects' = last.effects
<1> DEFINE N == Len(sync.sent)
           steps == CHOOSE f : f = [n \in 0..N |->
                 IF n = 0 THEN [cloud |-> cloud, log |-> changeLog, receipts |-> receipts, effects |-> effects]
                 ELSE Mutated(f[n - 1], sync.sent[n])]
<1>1. AreSteps(steps, N)
  <2>1. \E f : f = [n \in 0..N |->
                 IF n = 0 THEN [cloud |-> cloud, log |-> changeLog, receipts |-> receipts, effects |-> effects]
                 ELSE Mutated(f[n - 1], sync.sent[n])]
    BY StepsAreThere DEF AreSteps, Account
  <2> QED BY <2>1 DEF AreSteps, Account
<1>2. cloud' = steps[N].cloud /\ changeLog' = steps[N].log /\ receipts' = steps[N].receipts /\ effects' = steps[N].effects
  BY DEF ApplyMutations
<1> HIDE DEF steps
<1> QED BY <1>1, <1>2

-----------------------------------------------------------------------------
(* One mutation.                                                           *)

\* A mutation of the watchlist item is recorded with what it made of it, unless there is no
\* item to delete.
LEMMA WatchMutation ==
    ASSUME NEW row \in CollectionRows, NEW m \in Mutations, m.kind \in WatchKinds, Sound(m)
    PROVE  /\ Applied(row, m) \in CollectionRows
           /\ Applied(row, m).library = row.library /\ Applied(row, m).removedAt = row.removedAt
           /\ LibraryValue(Applied(row, m)) = LibraryValue(row)
           /\ \/ /\ Recorded(row, m) = <<Change("watch", WatchValue(Applied(row, m)))>>
                 /\ Applied(row, m).watch # "absent"
              \/ /\ Recorded(row, m) = <<>> /\ m.kind = "watchlist_delete" /\ row.watch = "absent"
                 /\ Applied(row, m).watch = "absent" /\ ~Applied(row, m).deleted
<1>1. CASE m.kind = "watchlist_upsert"
  <2>1. Applied(row, m) = [row EXCEPT !.watch = m.value, !.deleted = FALSE]
    BY <1>1 DEF Applied
  <2>2. Recorded(row, m) = <<Change("watch", WatchValue(Applied(row, m)))>>
    BY <1>1 DEF Recorded
  <2>3. m.value \in WatchValues /\ m.value # "absent"
    BY <1>1 DEF Sound, WatchValues
  <2> QED BY <2>1, <2>2, <2>3 DEF CollectionRows, LibraryValue
<1>2. CASE m.kind = "watchlist_delete"
  <2>1. Applied(row, m) = [row EXCEPT !.deleted = row.watch # "absent"]
    BY <1>2 DEF Applied
  <2>2. Recorded(row, m) = IF row.watch = "absent" THEN <<>> ELSE <<Change("watch", "absent")>>
    BY <1>2 DEF Recorded
  <2> QED BY <1>2, <2>1, <2>2 DEF CollectionRows, LibraryValue, WatchValue
<1> QED BY <1>1, <1>2 DEF WatchKinds

\* A mutation of the library item is recorded with what it made of it, or finds no item that
\* is there.
LEMMA LibraryMutation ==
    ASSUME NEW row \in CollectionRows, NEW m \in Mutations, m.kind \in LibraryEdits, clock \in Nat, row.removedAt <= clock
    PROVE  /\ Applied(row, m) \in CollectionRows
           /\ Applied(row, m).watch = row.watch /\ Applied(row, m).deleted = row.deleted
           /\ WatchValue(Applied(row, m)) = WatchValue(row)
           /\ Applied(row, m).removedAt <= clock
           /\ \/ /\ Recorded(row, m) = <<Change("library", LibraryValue(Applied(row, m)))>>
                 /\ Applied(row, m).library # "absent"
              \/ Recorded(row, m) = <<>> /\ Applied(row, m) = row /\ row.library # "there"
           /\ row.library # "absent" => Applied(row, m).library # "absent"
           /\ m.kind = "library_upsert" =>
                 \/ /\ Applied(row, m).library = "there"
                    /\ row.library = "removed" => m.completedAt > row.removedAt
                 \/ Applied(row, m) = row /\ row.library = "removed"
           /\ m.kind = "library_organize" =>
                 Applied(row, m).library = row.library /\ Applied(row, m).removedAt = row.removedAt
           /\ m.kind = "library_delete" =>
                 IF row.library = "absent" THEN Applied(row, m) = row
                 ELSE Applied(row, m).library = "removed" /\ Applied(row, m).removedAt = clock
<1>0. row.removedAt \in Nat /\ m.completedAt \in Nat
  BY DEF CollectionRows, Mutations
<1>1. CASE m.kind = "library_upsert"
  <2>1. Applied(row, m) = IF IsStale(row, m.completedAt) THEN row ELSE [row EXCEPT !.library = "there"]
    BY <1>1 DEF Applied
  <2>2. Recorded(row, m) = IF IsStale(row, m.completedAt) THEN <<>> ELSE <<Change("library", LibraryValue(Applied(row, m)))>>
    BY <1>1 DEF Recorded
  <2> QED BY <1>0, <1>1, <2>1, <2>2 DEF CollectionRows, WatchValue, IsStale
<1>2. CASE m.kind = "library_organize"
  <2>1. Applied(row, m) = IF row.library = "there" THEN [row EXCEPT !.favorite = TRUE] ELSE row
    BY <1>2 DEF Applied
  <2>2. Recorded(row, m) = IF row.library \in {"absent", "removed"} THEN <<>> ELSE <<Change("library", LibraryValue(Applied(row, m)))>>
    BY <1>2 DEF Recorded
  <2> QED BY <1>0, <1>2, <2>1, <2>2 DEF CollectionRows, WatchValue
<1>3. CASE m.kind = "library_delete"
  <2>1. Applied(row, m) = IF row.library = "absent" THEN row ELSE [row EXCEPT !.library = "removed", !.removedAt = clock]
    BY <1>3 DEF Applied
  <2>2. Recorded(row, m) = IF row.library = "absent" THEN <<>> ELSE <<Change("library", LibraryValue(Applied(row, m)))>>
    BY <1>3 DEF Recorded
  <2>3. CASE row.library = "absent"
    BY <1>0, <1>3, <2>1, <2>2, <2>3
  <2>4. CASE row.library # "absent"
    <3>1. /\ Applied(row, m) = [row EXCEPT !.library = "removed", !.removedAt = clock]
          /\ Recorded(row, m) = <<Change("library", LibraryValue(Applied(row, m)))>>
      BY <2>1, <2>2, <2>4
    <3>2. /\ Applied(row, m) \in CollectionRows /\ Applied(row, m).library = "removed" /\ Applied(row, m).removedAt = clock
          /\ Applied(row, m).watch = row.watch /\ Applied(row, m).deleted = row.deleted
      BY <3>1, <2>4 DEF CollectionRows
    <3> QED BY <1>0, <1>3, <2>4, <3>1, <3>2 DEF WatchValue
  <2> QED BY <2>3, <2>4
<1> QED BY <1>1, <1>2, <1>3 DEF LibraryEdits

\* The log is kept, and what is added to it is visible.
LEMMA LogGrows ==
    ASSUME NEW row \in CollectionRows, NEW m \in Mutations, Sound(m), NEW log \in Seq(Entries),
           clock \in Nat, row.removedAt <= clock
    PROVE  /\ log \o Recorded(row, m) \in Seq(Entries)
           /\ Len(log \o Recorded(row, m)) >= Len(log)
           /\ \A k \in 1..Len(log) : (log \o Recorded(row, m))[k] = log[k]
           /\ Recorded(row, m) = <<>> => log \o Recorded(row, m) = log
           /\ Recorded(row, m) # <<>> =>
                 /\ Len(log \o Recorded(row, m)) = Len(log) + 1
                 /\ (log \o Recorded(row, m))[Len(log) + 1] = Recorded(row, m)[1]
                 /\ Recorded(row, m)[1].visible
<1>1. ASSUME NEW r \in CollectionRows PROVE Change("watch", WatchValue(r)) \in Entries /\ Change("watch", WatchValue(r)).visible
  BY <1>1 DEF Change, WatchValue, Entries, Entities, Values, CollectionRows, WatchValues
<1>2. ASSUME NEW r \in CollectionRows PROVE Change("library", LibraryValue(r)) \in Entries /\ Change("library", LibraryValue(r)).visible
  BY <1>2 DEF Change, LibraryValue, Entries, Entities, Values, LibraryValues
<1>3. Recorded(row, m) = <<>> \/ \E c \in Entries : Recorded(row, m) = <<c>> /\ c.visible
  <2>1. CASE m.kind \in WatchKinds
    BY <2>1, <1>1, WatchMutation
  <2>2. CASE m.kind \in LibraryEdits
    BY <2>2, <1>2, LibraryMutation
  <2> QED BY <2>1, <2>2 DEF Mutations
<1>4. CASE Recorded(row, m) = <<>>
  <2> DEFINE none == Recorded(row, m)
  <2>1. log \o <<>> = log
    OBVIOUS
  <2> QED BY <1>4, <2>1
<1>5. ASSUME NEW c \in Entries, Recorded(row, m) = <<c>>, c.visible
      PROVE  /\ log \o <<c>> \in Seq(Entries)
             /\ Len(log \o <<c>>) = Len(log) + 1
             /\ \A k \in 1..Len(log) : (log \o <<c>>)[k] = log[k]
             /\ (log \o <<c>>)[Len(log) + 1] = c
  OBVIOUS
<1>6. ASSUME NEW c \in Entries, Recorded(row, m) = <<c>>, c.visible
      PROVE  /\ Len(log) \in Nat /\ <<c>> # <<>> /\ <<c>>[1] = c
  OBVIOUS
<1>7. CASE \E c \in Entries : Recorded(row, m) = <<c>> /\ c.visible
  <2>1. PICK c \in Entries : Recorded(row, m) = <<c>> /\ c.visible
    BY <1>7
  <2> QED BY <2>1, <1>5, <1>6
<1> QED BY <1>3, <1>4, <1>7

\* What is to send, once the next mutation has taken effect.
LEMMA WaitingStep ==
    ASSUME CollectionTypes, InTurn, NEW i \in 1..Len(outbox), NEW done \in Nat, outbox[i].id = done + 1
    PROVE  /\ \A j \in 1..Len(outbox) : outbox[j].id > done <=> outbox[j].id > done + 1 \/ j = i
           /\ \A j \in 1..Len(outbox) : outbox[j].id > done <=> j >= i
           /\ \A kinds : Waiting(done, kinds) => Waiting(done + 1, kinds) \/ outbox[i].kind \in kinds
           /\ \A kinds : Waiting(done + 1, kinds) => Waiting(done, kinds)
<1>1. /\ Len(outbox) \in Nat /\ Dropped \in Int
      /\ \A j \in 1..Len(outbox) : outbox[j].id = Dropped + j /\ outbox[j].id \in Nat
  <2>1. Len(outbox) \in Nat /\ \A j \in 1..Len(outbox) : outbox[j] \in Mutations
    BY DEF CollectionTypes
  <2>2. Len(effects) \in Nat
    BY DEF CollectionTypes
  <2> QED BY <2>1, <2>2 DEF InTurn, Mutations
<1>2. \A j \in 1..Len(outbox) : outbox[j].id > done <=> outbox[j].id > done + 1 \/ j = i
  BY <1>1
<1>3. \A j \in 1..Len(outbox) : outbox[j].id > done <=> j >= i
  BY <1>1
<1> QED BY <1>2, <1>3 DEF Waiting

\* What is known of the watchlist item outlasts a mutation.
LEMMA WatchStep ==
    ASSUME CollectionTypes, InTurn, NEW i \in 1..Len(outbox), NEW done \in Nat, outbox[i].id = done + 1,
           NEW row \in CollectionRows, NEW log \in Seq(Entries),
           LibraryHolds(row, log, done), WatchHolds(row, log, done), outbox[i].kind \in WatchKinds
    PROVE  LET r == Applied(row, outbox[i])
               l == log \o Recorded(row, outbox[i])
           IN /\ r \in CollectionRows /\ LibraryHolds(r, l, done + 1) /\ WatchHolds(r, l, done + 1)
              /\ row.library # "absent" => r.library # "absent"
              /\ row.watch # "absent" => r.watch # "absent"
<1> DEFINE m == outbox[i]
           r == Applied(row, m)
           l == log \o Recorded(row, m)
<1>0. /\ m \in Mutations /\ Sound(m) /\ clock \in Nat /\ row.removedAt <= clock
      /\ m.kind \notin LibraryEdits
  BY DEF CollectionTypes, InTurn, LibraryHolds, WatchKinds, LibraryEdits
<1>1. /\ r \in CollectionRows
      /\ r.library = row.library /\ r.removedAt = row.removedAt
      /\ \/ Recorded(row, m) = <<Change("watch", WatchValue(r))>> /\ r.watch # "absent"
         \/ /\ Recorded(row, m) = <<>> /\ m.kind = "watchlist_delete" /\ row.watch = "absent"
            /\ r.watch = "absent" /\ ~r.deleted
  BY <1>0, WatchMutation
<1>2. /\ Len(l) \in Nat /\ Len(log) \in Nat
      /\ \A k \in 1..Len(l) : IF k <= Len(log) THEN k \in 1..Len(log) /\ l[k] = log[k]
                                               ELSE l[k].entity = "watch" /\ r.watch # "absent"
  <2>1. /\ l \in Seq(Entries) /\ \A k \in 1..Len(log) : l[k] = log[k]
        /\ Recorded(row, m) = <<>> => l = log
        /\ Recorded(row, m) # <<>> => Len(l) = Len(log) + 1 /\ l[Len(log) + 1] = Recorded(row, m)[1]
    BY <1>0, LogGrows
  <2>2. Len(l) \in Nat /\ Len(log) \in Nat
    BY <2>1
  <2> DEFINE c == Change("watch", WatchValue(r))
  <2>3. <<c>>[1] = c /\ <<c>> # <<>> /\ c.entity = "watch"
    BY DEF Change
  <2>4. CASE Recorded(row, m) = <<>>
    BY <2>1, <2>2, <2>4
  <2>5. CASE Recorded(row, m) = <<c>> /\ r.watch # "absent"
    <3>1. Len(l) = Len(log) + 1 /\ l[Len(log) + 1].entity = "watch"
      BY <2>1, <2>3, <2>5
    <3> HIDE DEF l
    <3> QED BY <2>1, <2>2, <2>5, <3>1
  <2> QED BY <1>1, <2>4, <2>5
<1> HIDE DEF r, l
<1>3. /\ \A j \in 1..Len(outbox) : outbox[j].id > done <=> outbox[j].id > done + 1 \/ j = i
      /\ \A j \in 1..Len(outbox) : outbox[j].id > done <=> j >= i
      /\ \A kinds : Waiting(done, kinds) => Waiting(done + 1, kinds) \/ m.kind \in kinds
      /\ \A kinds : Waiting(done + 1, kinds) => Waiting(done, kinds)
  BY WaitingStep
<1>4. LibraryHolds(r, l, done + 1)
  <2>1. r.library = "absent" =>
          /\ local.library # "absent" => Waiting(done + 1, {"library_upsert"})
          /\ \A j \in 1..Len(outbox) : outbox[j].id > done + 1 /\ outbox[j].kind = "library_delete" =>
                \E h \in 1..(j - 1) : outbox[h].id > done + 1 /\ outbox[h].kind = "library_upsert"
          /\ \A k \in 1..Len(l) : l[k].entity # "library"
    <3> SUFFICES ASSUME r.library = "absent" PROVE
          /\ local.library # "absent" => Waiting(done + 1, {"library_upsert"})
          /\ \A j \in 1..Len(outbox) : outbox[j].id > done + 1 /\ outbox[j].kind = "library_delete" =>
                \E h \in 1..(j - 1) : outbox[h].id > done + 1 /\ outbox[h].kind = "library_upsert"
          /\ \A k \in 1..Len(l) : l[k].entity # "library"
      OBVIOUS
    <3>1. local.library # "absent" => Waiting(done + 1, {"library_upsert"})
      BY <1>0, <1>1, <1>3 DEF LibraryHolds, LibraryEdits
    <3>2. ASSUME NEW j \in 1..Len(outbox), outbox[j].id > done + 1, outbox[j].kind = "library_delete"
          PROVE  \E h \in 1..(j - 1) : outbox[h].id > done + 1 /\ outbox[h].kind = "library_upsert"
      <4>1. outbox[j].id > done
        BY <3>2, <1>3
      <4>2. PICK h \in 1..(j - 1) : outbox[h].id > done /\ outbox[h].kind = "library_upsert"
        BY <3>2, <4>1, <1>1 DEF LibraryHolds
      <4>3. h \in 1..Len(outbox) /\ h # i
        BY <4>2, <1>0 DEF LibraryEdits, CollectionTypes
      <4> QED BY <4>2, <4>3, <1>3
    <3>3. \A k \in 1..Len(l) : l[k].entity # "library"
      BY <1>1, <1>2 DEF LibraryHolds
    <3> QED BY <3>1, <3>2, <3>3
  <2>2. Waiting(done, {"library_delete"}) => Waiting(done + 1, {"library_delete"})
    BY <1>0, <1>3 DEF LibraryEdits
  <2> QED BY <2>1, <2>2, <1>1 DEF LibraryHolds
<1>5. WatchHolds(r, l, done + 1)
  <2> SUFFICES ASSUME r.watch = "absent" PROVE WatchHolds(r, l, done + 1)
    BY DEF WatchHolds
  <2>1. Recorded(row, m) = <<>> /\ m.kind = "watchlist_delete" /\ row.watch = "absent" /\ ~r.deleted
    BY <1>1
  <2>2. \A k \in 1..Len(l) : l[k].entity # "watch"
    BY <1>2, <2>1 DEF WatchHolds
  <2>3. ASSUME NEW j \in 1..Len(outbox), outbox[j].id > done + 1, outbox[j].kind \in WatchKinds,
               \A h \in (j + 1)..Len(outbox) : outbox[h].kind \notin WatchKinds
        PROVE  local.watch = outbox[j].value
    <3>1. outbox[j].id > done
      BY <2>3, <1>3
    <3> QED BY <2>1, <2>3, <3>1 DEF WatchHolds
  <2>4. ASSUME ~Waiting(done + 1, WatchKinds) PROVE local.watch = "absent"
    <3>1. \A h \in (i + 1)..Len(outbox) : outbox[h].kind \notin WatchKinds
      <4> SUFFICES ASSUME NEW h \in (i + 1)..Len(outbox) PROVE outbox[h].kind \notin WatchKinds
        OBVIOUS
      <4>1. h \in 1..Len(outbox) /\ h >= i /\ h # i
        BY DEF CollectionTypes
      <4>2. outbox[h].id > done + 1
        BY <4>1, <1>3
      <4> QED BY <4>1, <4>2, <2>4 DEF Waiting
    <3>2. outbox[i].id > done
      OBVIOUS
    <3>3. local.watch = m.value
      BY <2>1, <3>1, <3>2 DEF WatchHolds
    <3> QED BY <3>3, <2>1, <1>0 DEF Sound
  <2> QED BY <2>1, <2>2, <2>3, <2>4 DEF WatchHolds
<1> QED BY <1>1, <1>4, <1>5 DEF r, l

\* What is known of the library item outlasts a mutation.
LEMMA LibraryStep ==
    ASSUME CollectionTypes, InTurn, NEW i \in 1..Len(outbox), NEW done \in Nat, outbox[i].id = done + 1,
           NEW row \in CollectionRows, NEW log \in Seq(Entries),
           LibraryHolds(row, log, done), WatchHolds(row, log, done), outbox[i].kind \in LibraryEdits
    PROVE  LET r == Applied(row, outbox[i])
               l == log \o Recorded(row, outbox[i])
           IN /\ r \in CollectionRows /\ LibraryHolds(r, l, done + 1) /\ WatchHolds(r, l, done + 1)
              /\ row.library # "absent" => r.library # "absent"
              /\ row.watch # "absent" => r.watch # "absent"
<1> DEFINE m == outbox[i]
           r == Applied(row, m)
           l == log \o Recorded(row, m)
<1>0. /\ m \in Mutations /\ Sound(m) /\ clock \in Nat /\ row.removedAt <= clock /\ row.removedAt \in Nat
      /\ m.kind \notin WatchKinds /\ m.completedAt \in Nat
      /\ removedOn \in 0..clock /\ jobs \subseteq 1..clock
  <2>1. m \in Mutations /\ clock \in Nat /\ removedOn \in 0..clock /\ jobs \subseteq 1..clock
    BY DEF CollectionTypes
  <2>2. Sound(m) /\ row.removedAt <= clock
    BY DEF InTurn, LibraryHolds
  <2>3. m.completedAt \in Nat /\ row.removedAt \in Nat /\ m.kind \notin WatchKinds
    BY <2>1 DEF Mutations, CollectionRows, WatchKinds, LibraryEdits
  <2> QED BY <2>1, <2>2, <2>3
<1>1. /\ r \in CollectionRows
      /\ r.watch = row.watch /\ r.deleted = row.deleted
      /\ r.removedAt <= clock
      /\ \/ Recorded(row, m) = <<Change("library", LibraryValue(r))>> /\ r.library # "absent"
         \/ Recorded(row, m) = <<>> /\ r = row /\ row.library # "there"
      /\ row.library # "absent" => r.library # "absent"
      /\ m.kind = "library_upsert" =>
            \/ /\ r.library = "there"
               /\ row.library = "removed" => m.completedAt > row.removedAt
            \/ r = row /\ row.library = "removed"
      /\ m.kind = "library_organize" => r.library = row.library /\ r.removedAt = row.removedAt
      /\ m.kind = "library_delete" =>
            IF row.library = "absent" THEN r = row ELSE r.library = "removed" /\ r.removedAt = clock
  BY <1>0, LibraryMutation
<1>2. /\ Len(l) \in Nat /\ Len(log) \in Nat
      /\ \A k \in 1..Len(l) : IF k <= Len(log) THEN k \in 1..Len(log) /\ l[k] = log[k]
                                               ELSE l[k].entity = "library" /\ r.library # "absent"
  <2>1. /\ l \in Seq(Entries) /\ \A k \in 1..Len(log) : l[k] = log[k]
        /\ Recorded(row, m) = <<>> => l = log
        /\ Recorded(row, m) # <<>> => Len(l) = Len(log) + 1 /\ l[Len(log) + 1] = Recorded(row, m)[1]
    BY <1>0, LogGrows
  <2>2. Len(l) \in Nat /\ Len(log) \in Nat
    BY <2>1
  <2> DEFINE c == Change("library", LibraryValue(r))
  <2>3. <<c>>[1] = c /\ <<c>> # <<>> /\ c.entity = "library"
    BY DEF Change
  <2>4. CASE Recorded(row, m) = <<>>
    BY <2>1, <2>2, <2>4
  <2>5. CASE Recorded(row, m) = <<c>> /\ r.library # "absent"
    <3>1. Len(l) = Len(log) + 1 /\ l[Len(log) + 1].entity = "library"
      BY <2>1, <2>3, <2>5
    <3> HIDE DEF l
    <3> QED BY <2>1, <2>2, <2>5, <3>1
  <2> QED BY <1>1, <2>4, <2>5
<1> HIDE DEF r, l
<1>3. /\ \A j \in 1..Len(outbox) : outbox[j].id > done <=> outbox[j].id > done + 1 \/ j = i
      /\ \A j \in 1..Len(outbox) : outbox[j].id > done <=> j >= i
      /\ \A kinds : Waiting(done, kinds) => Waiting(done + 1, kinds) \/ m.kind \in kinds
      /\ \A kinds : Waiting(done + 1, kinds) => Waiting(done, kinds)
  BY WaitingStep
<1>4. LibraryHolds(r, l, done + 1)
  <2>1. ASSUME r.library = "absent"
        PROVE  /\ local.library # "absent" => Waiting(done + 1, {"library_upsert"})
               /\ \A j \in 1..Len(outbox) : outbox[j].id > done + 1 /\ outbox[j].kind = "library_delete" =>
                     \E h \in 1..(j - 1) : outbox[h].id > done + 1 /\ outbox[h].kind = "library_upsert"
               /\ \A k \in 1..Len(l) : l[k].entity # "library"
    <3>0. row.library = "absent" /\ m.kind # "library_upsert"
      BY <1>1, <2>1
    <3>1. local.library # "absent" => Waiting(done + 1, {"library_upsert"})
      BY <3>0, <1>3 DEF LibraryHolds
    <3>2. ASSUME NEW j \in 1..Len(outbox), outbox[j].id > done + 1, outbox[j].kind = "library_delete"
          PROVE  \E h \in 1..(j - 1) : outbox[h].id > done + 1 /\ outbox[h].kind = "library_upsert"
      <4>1. outbox[j].id > done
        BY <3>2, <1>3
      <4>2. PICK h \in 1..(j - 1) : outbox[h].id > done /\ outbox[h].kind = "library_upsert"
        BY <3>0, <3>2, <4>1 DEF LibraryHolds
      <4>3. h \in 1..Len(outbox) /\ h # i
        BY <4>2, <3>0 DEF CollectionTypes
      <4> QED BY <4>2, <4>3, <1>3
    <3>3. \A k \in 1..Len(l) : l[k].entity # "library"
      BY <2>1, <3>0, <1>2 DEF LibraryHolds
    <3> QED BY <3>1, <3>2, <3>3
  <2>2. r.library = "there" => jobs # {}
    BY <1>0, <1>1 DEF LibraryHolds, Sound, LibraryEdits
  <2>3. \/ removedOn = 0 \/ Waiting(done + 1, {"library_delete"})
        \/ \E time \in jobs : time > removedOn
        \/ r.library = "removed" /\ removedOn <= r.removedAt
    <3>1. CASE m.kind = "library_upsert"
      <4>1. CASE row.library = "removed" /\ removedOn <= row.removedAt /\ m.completedAt > row.removedAt
        <5>1. m.completedAt \in jobs /\ m.completedAt > removedOn
          BY <1>0, <3>1, <4>1 DEF Sound
        <5> QED BY <5>1
      <4> QED BY <1>1, <1>3, <3>1, <4>1 DEF LibraryHolds
    <3>2. CASE m.kind = "library_organize"
      BY <1>1, <1>3, <3>2 DEF LibraryHolds
    <3>3. CASE m.kind = "library_delete"
      <4>1. row.library # "absent"
        <5> SUFFICES ASSUME row.library = "absent" PROVE FALSE
          OBVIOUS
        <5>1. m.id > done
          OBVIOUS
        <5>2. PICK h \in 1..(i - 1) : outbox[h].id > done
          BY <3>3, <5>1 DEF LibraryHolds
        <5>3. h \in 1..Len(outbox) /\ ~(h >= i)
          BY DEF CollectionTypes
        <5> QED BY <5>2, <5>3, <1>3
      <4> QED BY <1>0, <1>1, <3>3, <4>1
    <3> QED BY <3>1, <3>2, <3>3 DEF LibraryEdits
  <2> QED BY <2>1, <2>2, <2>3, <1>1 DEF LibraryHolds
<1>5. WatchHolds(r, l, done + 1)
  <2> SUFFICES ASSUME r.watch = "absent" PROVE WatchHolds(r, l, done + 1)
    BY DEF WatchHolds
  <2>1. row.watch = "absent" /\ ~r.deleted
    BY <1>1 DEF WatchHolds
  <2>2. \A k \in 1..Len(l) : l[k].entity # "watch"
    BY <1>2, <2>1 DEF WatchHolds
  <2>3. ASSUME NEW j \in 1..Len(outbox), outbox[j].id > done + 1, outbox[j].kind \in WatchKinds,
               \A h \in (j + 1)..Len(outbox) : outbox[h].kind \notin WatchKinds
        PROVE  local.watch = outbox[j].value
    <3>1. outbox[j].id > done
      BY <2>3, <1>3
    <3> QED BY <2>1, <2>3, <3>1 DEF WatchHolds
  <2>4. ASSUME ~Waiting(done + 1, WatchKinds) PROVE local.watch = "absent"
    BY <1>0, <1>3, <2>1, <2>4 DEF WatchHolds
  <2> QED BY <2>1, <2>2, <2>3, <2>4 DEF WatchHolds
<1> QED BY <1>1, <1>4, <1>5 DEF r, l

\* With no browser request under way, the last changes stay true and the Mac has what it
\* lacks still before it.
LEMMA AgreeStep ==
    ASSUME CollectionTypes, InTurn, NEW i \in 1..Len(outbox), NEW done \in Nat, outbox[i].id = done + 1,
           NEW row \in CollectionRows, NEW log \in Seq(Entries),
           LibraryHolds(row, log, done), WatchHolds(row, log, done),
           \A t \in Tabs : ~Busy(t), cursor <= Len(log),
           LatestIsTrue(row, log), \A e \in Entities : Agrees(e, row, log, done)
    PROVE  LET r == Applied(row, outbox[i])
               l == log \o Recorded(row, outbox[i])
           IN LatestIsTrue(r, l) /\ \A e \in Entities : Agrees(e, r, l, done + 1)
<1> DEFINE m == outbox[i]
           r == Applied(row, m)
           l == log \o Recorded(row, m)
<1>0. /\ m \in Mutations /\ Sound(m) /\ clock \in Nat /\ row.removedAt <= clock /\ cursor \in Nat
      /\ \A e : ~Written(e)
  <2>1. m \in Mutations /\ clock \in Nat /\ cursor \in Nat
    BY DEF CollectionTypes
  <2> QED BY <2>1 DEF InTurn, LibraryHolds, Written, Busy
<1>e. \A k \in 1..Len(log) : log[k].entity \in Entities
  <2>1. \A k \in 1..Len(log) : log[k] \in Entries
    OBVIOUS
  <2> QED BY <2>1, EntryIs
<1>1. PICK own \in Entities :
        /\ m.kind \in KindsOf(own) /\ \A e \in Entities \ {own} : m.kind \notin KindsOf(e)
        /\ \A e \in Entities \ {own} : ValueOf(e, r) = ValueOf(e, row)
        /\ own # "library" => r.library = row.library
        /\ \/ \E c \in Entries : Recorded(row, m) = <<c>> /\ c.entity = own /\ c.value = ValueOf(own, r)
           \/ /\ Recorded(row, m) = <<>>
              /\ own = "library" => r = row /\ row.library # "there"
              /\ own = "watch" => row.watch = "absent" /\ r.watch = "absent" /\ ~r.deleted
  <2>1. CASE m.kind \in WatchKinds
    <3>1. r \in CollectionRows
      BY <1>0, <2>1, WatchMutation
    <3>2. /\ Change("watch", WatchValue(r)) \in Entries /\ Change("watch", WatchValue(r)).entity = "watch"
          /\ Change("watch", WatchValue(r)).value = WatchValue(r)
      BY <3>1 DEF Change, WatchValue, Entries, Entities, Values, CollectionRows, WatchValues
    <3>3. /\ r.library = row.library /\ LibraryValue(r) = LibraryValue(row)
          /\ \/ Recorded(row, m) = <<Change("watch", WatchValue(r))>>
             \/ Recorded(row, m) = <<>> /\ row.watch = "absent" /\ r.watch = "absent" /\ ~r.deleted
      BY <1>0, <2>1, WatchMutation
    <3> HIDE DEF r, l
    <3> QED BY <2>1, <3>2, <3>3 DEF Entities, KindsOf, ValueOf, WatchKinds, LibraryEdits
  <2>2. CASE m.kind \in LibraryEdits
    <3>1. r \in CollectionRows
      BY <1>0, <2>2, LibraryMutation
    <3>2. /\ Change("library", LibraryValue(r)) \in Entries /\ Change("library", LibraryValue(r)).entity = "library"
          /\ Change("library", LibraryValue(r)).value = LibraryValue(r)
      BY <3>1 DEF Change, LibraryValue, Entries, Entities, Values, CollectionRows, LibraryValues
    <3>3. /\ WatchValue(r) = WatchValue(row)
          /\ \/ Recorded(row, m) = <<Change("library", LibraryValue(r))>>
             \/ Recorded(row, m) = <<>> /\ r = row /\ row.library # "there"
      BY <1>0, <2>2, LibraryMutation
    <3> HIDE DEF r, l
    <3> QED BY <2>2, <3>2, <3>3 DEF Entities, KindsOf, ValueOf, WatchKinds, LibraryEdits
  <2> QED BY <1>0, <2>1, <2>2 DEF Mutations
<1>2. /\ l \in Seq(Entries) /\ Len(l) >= Len(log) /\ \A k \in 1..Len(log) : l[k] = log[k]
      /\ Recorded(row, m) = <<>> => l = log
      /\ Recorded(row, m) # <<>> => Len(l) = Len(log) + 1 /\ l[Len(log) + 1] = Recorded(row, m)[1]
  BY <1>0, LogGrows
<1>3. WatchHolds(r, l, done + 1)
  <2>1. CASE m.kind \in WatchKinds
    BY <2>1, WatchStep
  <2>2. CASE m.kind \in LibraryEdits
    BY <2>2, LibraryStep
  <2> QED BY <1>0, <2>1, <2>2 DEF Mutations
<1>4. \A kinds : Waiting(done, kinds) => Waiting(done + 1, kinds) \/ m.kind \in kinds
  BY WaitingStep
<1> HIDE DEF r, l
<1>5. Len(l) \in Nat /\ Len(log) \in Nat
  BY <1>2
<1>6. CASE \E c \in Entries : Recorded(row, m) = <<c>> /\ c.entity = own /\ c.value = ValueOf(own, r)
  <2>1. PICK c \in Entries : Recorded(row, m) = <<c>> /\ c.entity = own /\ c.value = ValueOf(own, r)
    BY <1>6
  <2>2. Len(l) = Len(log) + 1 /\ l[Len(log) + 1] = c
    <3>1. <<c>> # <<>> /\ <<c>>[1] = c
      OBVIOUS
    <3> QED BY <2>1, <3>1, <1>2
  <2>3. LatestIsTrue(r, l)
    <3> SUFFICES ASSUME NEW k \in 1..Len(l), ~ChangedSince(l, k, l[k].entity)
                 PROVE  l[k].value = ValueOf(l[k].entity, r)
      BY DEF LatestIsTrue
    <3>1. CASE k = Len(log) + 1
      BY <2>1, <2>2, <3>1
    <3>2. CASE k \in 1..Len(log)
      <4>1. l[k] = log[k]
        BY <3>2, <1>2
      <4>2. log[k].entity # own
        <5>1. Len(log) + 1 \in (k + 1)..Len(l)
          BY <1>5, <2>2, <3>2
        <5> QED BY <2>1, <2>2, <4>1, <5>1 DEF ChangedSince
      <4>3. ~ChangedSince(log, k, log[k].entity)
        <5> SUFFICES ASSUME NEW j \in (k + 1)..Len(log), log[j].entity = log[k].entity PROVE FALSE
          BY DEF ChangedSince
        <5>1. j \in (k + 1)..Len(l) /\ j \in 1..Len(log)
          BY <1>5, <2>2, <3>2
        <5> QED BY <4>1, <5>1, <1>2 DEF ChangedSince
      <4>4. log[k].value = ValueOf(log[k].entity, row)
        BY <3>2, <4>3, <1>0 DEF LatestIsTrue
      <4>5. log[k].entity \in Entities
        BY <3>2, <1>e
      <4> QED BY <1>1, <4>1, <4>2, <4>4, <4>5
    <3> QED BY <1>5, <2>2, <3>1, <3>2
  <2>4. ASSUME NEW e \in Entities PROVE Agrees(e, r, l, done + 1)
    <3>1. CASE e = own
      <4>1. Len(log) + 1 \in (cursor + 1)..Len(l)
        BY <1>0, <1>5, <2>2
      <4> QED BY <2>1, <2>2, <3>1, <4>1 DEF Agrees, ChangedSince
    <3>2. CASE e # own
      <4>1. ChangedSince(log, cursor, e) => ChangedSince(l, cursor, e)
        <5> SUFFICES ASSUME NEW k \in (cursor + 1)..Len(log), log[k].entity = e PROVE ChangedSince(l, cursor, e)
          BY DEF ChangedSince
        <5>1. k \in (cursor + 1)..Len(l) /\ k \in 1..Len(log)
          BY <1>0, <1>5, <2>2
        <5> QED BY <5>1, <1>2 DEF ChangedSince
      <4>2. Waiting(done, KindsOf(e)) => Waiting(done + 1, KindsOf(e))
        BY <1>1, <1>4, <3>2
      <4>3. ValueOf(e, r) = ValueOf(e, row) /\ (e = "library" => r.library = row.library)
        BY <1>1, <3>2
      <4> QED BY <4>1, <4>2, <4>3, <1>0 DEF Agrees
    <3> QED BY <3>1, <3>2
  <2> QED BY <2>3, <2>4 DEF r, l
<1>7. CASE /\ Recorded(row, m) = <<>>
           /\ own = "library" => r = row /\ row.library # "there"
           /\ own = "watch" => row.watch = "absent" /\ r.watch = "absent" /\ ~r.deleted
  <2>1. l = log
    BY <1>7, <1>2
  <2>2. ASSUME NEW k \in 1..Len(log) PROVE ValueOf(log[k].entity, r) = ValueOf(log[k].entity, row)
    <3>1. log[k].entity \in Entities
      BY <1>e
    <3>2. CASE own = "watch"
      <4>1. log[k].entity # own
        BY <1>7, <3>2 DEF WatchHolds
      <4> QED BY <1>1, <3>1, <4>1
    <3>3. CASE own = "library"
      BY <1>7, <3>3
    <3> QED BY <3>2, <3>3 DEF Entities
  <2>3. LatestIsTrue(r, l)
    BY <2>1, <2>2 DEF LatestIsTrue
  <2>4. ASSUME NEW e \in Entities PROVE Agrees(e, r, l, done + 1)
    <3>1. CASE e = own /\ own = "library"
      BY <1>7, <3>1 DEF Agrees
    <3>2. CASE e = own /\ own = "watch"
      <4>1. WatchValue(r) = "absent"
        BY <1>7, <3>2 DEF WatchValue
      <4>2. ~Waiting(done + 1, WatchKinds) => local.watch = "absent"
        BY <1>3, <1>7, <3>2 DEF WatchHolds
      <4> QED BY <3>2, <4>1, <4>2 DEF Agrees, KindsOf, ValueOf
    <3>3. CASE e # own
      <4>2. Waiting(done, KindsOf(e)) => Waiting(done + 1, KindsOf(e))
        BY <1>1, <1>4, <3>3
      <4>3. ValueOf(e, r) = ValueOf(e, row) /\ (e = "library" => r.library = row.library)
        BY <1>1, <3>3
      <4> QED BY <4>2, <4>3, <2>1, <1>0 DEF Agrees
    <3> QED BY <3>1, <3>2, <3>3 DEF Entities
  <2> QED BY <2>3, <2>4 DEF r, l
<1> QED BY <1>1, <1>6, <1>7

-----------------------------------------------------------------------------
(* The whole transaction.                                                  *)

\* What holds of the account within a transaction, when this many mutations have taken effect.
\* A removal that takes effect is a change the Mac has not heard of; there are no others.
LEMMA OwedIs ==
    ASSUME CollectionTypes, NEW log \in Seq(Entries), NEW done \in Nat
    PROVE  /\ IsFiniteSet(DeletesOwed(done)) /\ Cardinality(DeletesOwed(done)) \in Nat
           /\ IsFiniteSet(AbsentBeyond(log)) /\ Cardinality(AbsentBeyond(log)) \in Nat
           /\ Owed(log, done) \in Nat
<1>1. nextMutation \in Nat /\ Len(log) \in Nat /\ cursor \in Nat
  BY DEF CollectionTypes
<1>2. IsFiniteSet((done + 1)..(nextMutation - 1))
  <2>1. done + 1 \in Int /\ nextMutation - 1 \in Int
    BY <1>1
  <2> QED BY <2>1, FS_Interval
<1>3. IsFiniteSet((cursor + 1)..Len(log))
  <2>1. cursor + 1 \in Int /\ Len(log) \in Int
    BY <1>1
  <2> QED BY <2>1, FS_Interval
<1>4. IsFiniteSet(DeletesOwed(done)) /\ IsFiniteSet(AbsentBeyond(log))
  <2>1. DeletesOwed(done) \subseteq (done + 1)..(nextMutation - 1) /\ AbsentBeyond(log) \subseteq (cursor + 1)..Len(log)
    BY DEF DeletesOwed, AbsentBeyond
  <2> QED BY <1>2, <1>3, <2>1, FS_Subset
<1>5. Cardinality(DeletesOwed(done)) \in Nat /\ Cardinality(AbsentBeyond(log)) \in Nat
  BY <1>4, FS_CardinalityType
<1> QED BY <1>4, <1>5 DEF Owed

LEMMA OwedStep ==
    ASSUME CollectionTypes, InTurn, NEW row \in CollectionRows, row.removedAt <= clock, NEW log \in Seq(Entries),
           NEW done \in Nat, NEW i \in 1..Len(outbox), outbox[i].id = done + 1
    PROVE  Owed(log \o Recorded(row, outbox[i]), done + 1) <= Owed(log, done)
<1> DEFINE m == outbox[i]
           l == log \o Recorded(row, m)
<1>0. m \in Mutations /\ Sound(m) /\ clock \in Nat /\ cursor \in Nat /\ Len(log) \in Nat
  BY DEF CollectionTypes, InTurn
<1>i. done + 1 \in (done + 1)..(nextMutation - 1)
  <2>1. outbox[i].id = Dropped + i /\ Dropped \in Nat /\ Len(outbox) \in Nat /\ nextMutation \in Nat
    BY DEF InTurn, CollectionTypes
  <2>2. i <= Len(outbox) /\ Dropped = nextMutation - 1 - Len(outbox)
    BY DEF Dropped
  <2> QED BY <2>1, <2>2
<1>1. /\ l \in Seq(Entries) /\ \A k \in 1..Len(log) : l[k] = log[k]
      /\ Recorded(row, m) = <<>> => l = log
      /\ Recorded(row, m) # <<>> => Len(l) = Len(log) + 1 /\ l[Len(log) + 1] = Recorded(row, m)[1]
  BY <1>0, LogGrows
<1>2. /\ IsFiniteSet(DeletesOwed(done)) /\ Cardinality(DeletesOwed(done)) \in Nat
      /\ IsFiniteSet(AbsentBeyond(log)) /\ Cardinality(AbsentBeyond(log)) \in Nat
      /\ Cardinality(DeletesOwed(done + 1)) \in Nat /\ Cardinality(AbsentBeyond(l)) \in Nat
  <2>1. done + 1 \in Nat
    OBVIOUS
  <2> HIDE DEF l
  <2> QED BY <1>1, <2>1, OwedIs
<1> HIDE DEF l
<1>3. AbsentBeyond(l) \subseteq AbsentBeyond(log) \cup {Len(log) + 1}
  <2> SUFFICES ASSUME NEW k \in AbsentBeyond(l), k # Len(log) + 1 PROVE k \in AbsentBeyond(log)
    OBVIOUS
  <2>1. k \in (cursor + 1)..Len(l) /\ l[k].entity = "library" /\ l[k].value = "absent"
    BY DEF AbsentBeyond
  <2>2. k \in (cursor + 1)..Len(log) /\ k \in 1..Len(log)
    BY <1>0, <1>1, <2>1
  <2> QED BY <1>1, <2>1, <2>2 DEF AbsentBeyond
<1>4. CASE m.kind = "library_delete"
  <2>1. done + 1 \in DeletesOwed(done) /\ DeletesOwed(done + 1) \subseteq DeletesOwed(done) \ {done + 1}
    BY <1>i, <1>4 DEF DeletesOwed
  <2>2. Cardinality(DeletesOwed(done + 1)) <= Cardinality(DeletesOwed(done)) - 1
    <3>1. /\ IsFiniteSet(DeletesOwed(done) \ {done + 1})
          /\ Cardinality(DeletesOwed(done) \ {done + 1}) = Cardinality(DeletesOwed(done)) - 1
      BY <1>2, <2>1, FS_RemoveElement
    <3>2. Cardinality(DeletesOwed(done + 1)) <= Cardinality(DeletesOwed(done) \ {done + 1})
      BY <2>1, <3>1, FS_Subset
    <3> QED BY <3>1, <3>2
  <2>3. Cardinality(AbsentBeyond(l)) <= Cardinality(AbsentBeyond(log)) + 1
    <3>1. /\ IsFiniteSet(AbsentBeyond(log) \cup {Len(log) + 1})
          /\ \/ Cardinality(AbsentBeyond(log) \cup {Len(log) + 1}) = Cardinality(AbsentBeyond(log))
             \/ Cardinality(AbsentBeyond(log) \cup {Len(log) + 1}) = Cardinality(AbsentBeyond(log)) + 1
      BY <1>2, FS_AddElement
    <3>2. Cardinality(AbsentBeyond(l)) <= Cardinality(AbsentBeyond(log) \cup {Len(log) + 1})
      BY <1>3, <3>1, FS_Subset
    <3> QED BY <1>2, <3>1, <3>2
  <2> QED BY <1>2, <2>2, <2>3 DEF Owed, l
<1>5. CASE m.kind # "library_delete"
  <2>1. DeletesOwed(done + 1) \subseteq DeletesOwed(done)
    BY DEF DeletesOwed
  <2>2. Recorded(row, m) = <<>> \/ ~(Recorded(row, m)[1].entity = "library" /\ Recorded(row, m)[1].value = "absent")
    <3>1. CASE m.kind \in WatchKinds
      <4>1. Recorded(row, m) \in {<<>>, <<Change("watch", WatchValue(Applied(row, m)))>>}
        BY <1>0, <3>1, WatchMutation
      <4> QED BY <4>1 DEF Change
    <3>2. CASE m.kind = "library_upsert"
      <4>1. CASE IsStale(row, m.completedAt)
        BY <3>2, <4>1 DEF Recorded
      <4>2. CASE ~IsStale(row, m.completedAt)
        <5>1. /\ Applied(row, m) = [row EXCEPT !.library = "there"]
              /\ Recorded(row, m) = <<Change("library", LibraryValue(Applied(row, m)))>>
          BY <3>2, <4>2 DEF Recorded, Applied
        <5>2. LibraryValue(Applied(row, m)) # "absent"
          BY <5>1 DEF LibraryValue, CollectionRows
        <5> QED BY <5>1, <5>2 DEF Change
      <4> QED BY <4>1, <4>2
    <3>3. CASE m.kind = "library_organize"
      <4>1. CASE row.library = "there"
        <5>1. /\ Applied(row, m) = [row EXCEPT !.favorite = TRUE]
              /\ Recorded(row, m) = <<Change("library", LibraryValue(Applied(row, m)))>>
          BY <3>3, <4>1 DEF Recorded, Applied
        <5>2. LibraryValue(Applied(row, m)) # "absent"
          BY <4>1, <5>1 DEF LibraryValue, CollectionRows
        <5> QED BY <5>1, <5>2 DEF Change
      <4>2. CASE row.library # "there"
        BY <3>3, <4>2 DEF Recorded, CollectionRows
      <4> QED BY <4>1, <4>2
    <3> QED BY <1>0, <1>5, <3>1, <3>2, <3>3 DEF Mutations, LibraryEdits
  <2>3. AbsentBeyond(l) \subseteq AbsentBeyond(log)
    <3> SUFFICES ASSUME NEW k \in AbsentBeyond(l), k = Len(log) + 1 PROVE FALSE
      BY <1>3
    <3>1. k \in (cursor + 1)..Len(l) /\ l[k].entity = "library" /\ l[k].value = "absent"
      BY DEF AbsentBeyond
    <3> QED BY <1>0, <1>1, <2>2, <3>1
  <2>4. /\ Cardinality(DeletesOwed(done + 1)) <= Cardinality(DeletesOwed(done))
        /\ Cardinality(AbsentBeyond(l)) <= Cardinality(AbsentBeyond(log))
    BY <1>2, <2>1, <2>3, FS_Subset
  <2> QED BY <1>2, <2>4 DEF Owed, l
<1> QED BY <1>4, <1>5

StepHolds(d, done) ==
    /\ d.cloud \in CollectionRows /\ d.log \in Seq(Entries)
    /\ d.effects \in Seq(Nat) /\ Len(d.effects) = done /\ d.receipts = 1..done
    /\ \A i \in 1..done : d.effects[i] = i
    /\ Owed(d.log, done) <= Owed(changeLog, Len(effects))
    /\ LibraryHolds(d.cloud, d.log, done) /\ WatchHolds(d.cloud, d.log, done)
    /\ Len(d.log) >= Len(changeLog) /\ \A k \in 1..Len(changeLog) : d.log[k] = changeLog[k]
    /\ \A k \in 1..Len(d.log) : ~d.log[k].visible => k <= Len(changeLog)
    /\ cloud.library # "absent" => d.cloud.library # "absent"
    /\ cloud.watch # "absent" => d.cloud.watch # "absent"
    /\ ~tangled /\ (\A t \in Tabs : ~Busy(t)) =>
          LatestIsTrue(d.cloud, d.log) /\ \A e \in Entities : Agrees(e, d.cloud, d.log, done)

\* One more mutation takes effect.
LEMMA MutatedHolds ==
    ASSUME CollectionTypes, InTurn, NEW d, NEW done \in Nat, StepHolds(d, done),
           NEW i \in 1..Len(outbox), outbox[i].id = done + 1
    PROVE  StepHolds(Mutated(d, outbox[i]), done + 1)
<1> DEFINE m == outbox[i]
           r == Applied(d.cloud, m)
           l == d.log \o Recorded(d.cloud, m)
<1>0. /\ d.cloud \in CollectionRows /\ d.log \in Seq(Entries) /\ Len(d.log) \in Nat /\ Len(changeLog) \in Nat
      /\ LibraryHolds(d.cloud, d.log, done) /\ WatchHolds(d.cloud, d.log, done)
      /\ m \in Mutations /\ Sound(m) /\ clock \in Nat /\ cursor <= Len(changeLog) /\ cursor \in Nat
  BY DEF StepHolds, CollectionTypes, InTurn
<1>1. /\ r \in CollectionRows /\ LibraryHolds(r, l, done + 1) /\ WatchHolds(r, l, done + 1)
      /\ d.cloud.library # "absent" => r.library # "absent"
      /\ d.cloud.watch # "absent" => r.watch # "absent"
  <2>1. CASE m.kind \in WatchKinds
    BY <1>0, <2>1, WatchStep
  <2>2. CASE m.kind \in LibraryEdits
    BY <1>0, <2>2, LibraryStep
  <2> QED BY <1>0, <2>1, <2>2 DEF Mutations
<1>2. /\ l \in Seq(Entries) /\ Len(l) >= Len(d.log) /\ \A k \in 1..Len(d.log) : l[k] = d.log[k]
      /\ Recorded(d.cloud, m) = <<>> => l = d.log
      /\ Recorded(d.cloud, m) # <<>> =>
            Len(l) = Len(d.log) + 1 /\ l[Len(d.log) + 1] = Recorded(d.cloud, m)[1] /\ Recorded(d.cloud, m)[1].visible
  <2>1. d.cloud.removedAt <= clock
    BY <1>0 DEF LibraryHolds
  <2>2. ASSUME NEW row \in CollectionRows, row.removedAt <= clock, NEW log \in Seq(Entries)
        PROVE  /\ log \o Recorded(row, m) \in Seq(Entries)
               /\ Len(log \o Recorded(row, m)) >= Len(log)
               /\ \A k \in 1..Len(log) : (log \o Recorded(row, m))[k] = log[k]
               /\ Recorded(row, m) = <<>> => log \o Recorded(row, m) = log
               /\ Recorded(row, m) # <<>> =>
                     /\ Len(log \o Recorded(row, m)) = Len(log) + 1
                     /\ (log \o Recorded(row, m))[Len(log) + 1] = Recorded(row, m)[1]
                     /\ Recorded(row, m)[1].visible
    BY <1>0, <2>2, LogGrows
  <2> QED BY <1>0, <2>1, <2>2
<1>3. ~tangled /\ (\A t \in Tabs : ~Busy(t)) =>
          LatestIsTrue(r, l) /\ \A e \in Entities : Agrees(e, r, l, done + 1)
  <2>1. cursor <= Len(d.log)
    BY <1>0 DEF StepHolds
  <2> QED BY <1>0, <2>1, AgreeStep DEF StepHolds
<1> DEFINE after == [cloud |-> r, log |-> l, receipts |-> d.receipts \cup {m.id}, effects |-> Append(d.effects, m.id)]
<1>4. Mutated(d, m) = after
  <2>1. m.id \notin d.receipts
    BY DEF StepHolds
  <2> QED BY <2>1 DEF Mutated, IsNew
<1>5. /\ after.effects \in Seq(Nat) /\ Len(after.effects) = done + 1 /\ after.receipts = 1..(done + 1)
      /\ \A k \in 1..(done + 1) : after.effects[k] = k
  <2>1. /\ d.effects \in Seq(Nat) /\ Len(d.effects) = done /\ d.receipts = 1..done /\ m.id = done + 1 /\ m.id \in Nat
        /\ \A k \in 1..done : d.effects[k] = k
    BY <1>0 DEF StepHolds, Mutations
  <2> HIDE DEF r, l
  <2>2. Append(d.effects, m.id) \in Seq(Nat) /\ Len(Append(d.effects, m.id)) = done + 1
        /\ \A k \in 1..(done + 1) : Append(d.effects, m.id)[k] = k
    BY <2>1
  <2>3. 1..done \cup {done + 1} = 1..(done + 1)
    OBVIOUS
  <2> QED BY <2>1, <2>2, <2>3
<1>6. after.cloud = r /\ after.log = l
  OBVIOUS
<1> HIDE DEF r, l, after
<1>7. /\ Len(l) >= Len(changeLog) /\ \A k \in 1..Len(changeLog) : l[k] = changeLog[k]
      /\ \A k \in 1..Len(l) : ~l[k].visible => k <= Len(changeLog)
  <2>1. Len(d.log) >= Len(changeLog) /\ \A k \in 1..Len(changeLog) : d.log[k] = changeLog[k]
    BY DEF StepHolds
  <2>2. Len(l) >= Len(changeLog) /\ \A k \in 1..Len(changeLog) : l[k] = changeLog[k]
    <3>1. Len(l) \in Nat
      BY <1>2
    <3> QED BY <1>0, <1>2, <2>1, <3>1
  <2>3. ASSUME NEW k \in 1..Len(l), ~l[k].visible PROVE k <= Len(changeLog)
    <3>1. k \in 1..Len(d.log)
      <4>1. CASE Recorded(d.cloud, m) = <<>>
        BY <1>2, <4>1
      <4>2. CASE Recorded(d.cloud, m) # <<>>
        BY <1>0, <1>2, <2>3, <4>2
      <4> QED BY <4>1, <4>2
    <3> QED BY <1>2, <2>3, <3>1 DEF StepHolds
  <2> QED BY <2>2, <2>3
<1>8. Owed(l, done + 1) <= Owed(changeLog, Len(effects))
  <2>1. Owed(l, done + 1) <= Owed(d.log, done)
    <3>1. d.cloud.removedAt <= clock
      BY <1>0 DEF LibraryHolds
    <3> QED BY <1>0, <3>1, OwedStep DEF l
  <2>2. Owed(d.log, done) <= Owed(changeLog, Len(effects))
    BY DEF StepHolds
  <2>3. Owed(l, done + 1) \in Nat /\ Owed(d.log, done) \in Nat /\ Owed(changeLog, Len(effects)) \in Nat
    <3>1. done + 1 \in Nat /\ changeLog \in Seq(Entries) /\ Len(effects) \in Nat
      BY DEF CollectionTypes
    <3> QED BY <1>0, <1>2, <3>1, OwedIs
  <2> QED BY <2>1, <2>2, <2>3
<1>9. StepHolds(after, done + 1)
  BY <1>1, <1>2, <1>3, <1>5, <1>6, <1>7, <1>8 DEF StepHolds
<1> QED BY <1>4, <1>9

\* It holds when all of them have.
LEMMA TransactionHolds ==
    ASSUME CollectionInv, ApplyMutations
    PROVE  \E done \in Nat :
              /\ StepHolds([cloud |-> cloud', log |-> changeLog', receipts |-> receipts', effects |-> effects'], done)
              /\ done >= Len(effects) /\ done < nextMutation /\ Dropped + Len(sync.sent) <= done
              /\ sync.sent = <<>> => UNCHANGED cloudVars
<1> DEFINE N == Len(sync.sent)
           Done(n) == IF Dropped + n <= Len(effects) THEN Len(effects) ELSE Dropped + n
<1>0. /\ CollectionTypes /\ InTurn /\ SentIsFirst
      /\ N \in Nat /\ N <= Len(outbox) /\ Len(outbox) \in Nat /\ Dropped \in Nat /\ Len(effects) \in Nat
      /\ nextMutation \in Nat /\ Dropped + Len(outbox) = nextMutation - 1
      /\ \A n \in 1..N : n \in 1..Len(outbox) /\ sync.sent[n] = outbox[n] /\ outbox[n].id = Dropped + n
  <2>1. CollectionTypes /\ InTurn /\ SentIsFirst
    BY DEF CollectionInv
  <2>2. sync.sent \in Seq(Mutations) /\ outbox \in Seq(Mutations) /\ effects \in Seq(Nat) /\ nextMutation \in Nat
    BY <2>1 DEF CollectionTypes, SyncStates
  <2>3. N \in Nat /\ Len(outbox) \in Nat /\ Len(effects) \in Nat
    BY <2>2
  <2> QED BY <2>1, <2>2, <2>3 DEF InTurn, SentIsFirst, Dropped
<1>1. PICK f : /\ AreSteps(f, N)
               /\ LET last == f[N]
                  IN cloud' = last.cloud /\ changeLog' = last.log /\ receipts' = last.receipts /\ effects' = last.effects
  BY <1>0, Transaction
<1>2. /\ f[0] = Account
      /\ \A n \in 1..N : f[n] = Mutated(f[n - 1], outbox[n])
  <2>1. f = [n \in 0..N |-> IF n = 0 THEN Account ELSE Mutated(f[n - 1], sync.sent[n])]
    BY <1>1 DEF AreSteps
  <2> HIDE DEF N
  <2>2. f[0] = Account /\ \A n \in 1..N : f[n] = Mutated(f[n - 1], sync.sent[n])
    <3>1. 0 \in 0..N /\ \A n \in 1..N : n \in 0..N /\ n # 0
      BY <1>0
    <3> QED BY <2>1, <3>1
  <2> QED BY <1>0, <2>2
<1>3. \A n \in 0..N : Done(n) \in Nat
  BY <1>0
<1>4. StepHolds(f[0], Done(0))
  <2>1. Done(0) = Len(effects)
    BY <1>0 DEF InTurn
  <2>2. /\ cloud \in CollectionRows /\ changeLog \in Seq(Entries) /\ effects \in Seq(Nat) /\ receipts = 1..Len(effects)
        /\ \A i \in 1..Len(effects) : effects[i] = i
        /\ LibraryHolds(cloud, changeLog, Len(effects)) /\ WatchHolds(cloud, changeLog, Len(effects))
        /\ ~tangled => Untangled
    BY DEF CollectionInv, CollectionTypes, InTurn
  <2>3. Owed(changeLog, Len(effects)) <= Owed(changeLog, Len(effects))
    <3>1. Owed(changeLog, Len(effects)) \in Nat
      BY <1>0, <2>2, OwedIs
    <3> QED BY <3>1
  <2>4. StepHolds(Account, Len(effects))
    BY <2>2, <2>3 DEF StepHolds, Account, Untangled
  <2> QED BY <1>2, <2>1, <2>4
<1>5. ASSUME NEW n \in 1..N, StepHolds(f[n - 1], Done(n - 1)) PROVE StepHolds(f[n], Done(n))
  <2>0. n \in 1..Len(outbox) /\ f[n] = Mutated(f[n - 1], outbox[n]) /\ outbox[n].id = Dropped + n
    BY <1>0, <1>2
  <2>1. CASE Dropped + n <= Len(effects)
    <3>1. Done(n) = Len(effects) /\ Done(n - 1) = Len(effects)
      BY <1>0, <2>1
    <3>2. ~IsNew(outbox[n], f[n - 1].receipts)
      <4>1. f[n - 1].receipts = 1..Len(effects)
        BY <1>5, <3>1 DEF StepHolds
      <4>2. Dropped + n \in 1..Len(effects)
        BY <1>0, <2>1
      <4> QED BY <4>1, <4>2, <2>0 DEF IsNew
    <3>3. f[n] = f[n - 1]
      BY <2>0, <3>2 DEF Mutated
    <3> QED BY <1>5, <3>1, <3>3
  <2>2. CASE Dropped + n > Len(effects)
    <3>1. Done(n) = Dropped + n /\ Done(n - 1) = Dropped + n - 1 /\ Done(n - 1) \in Nat
      BY <1>0, <2>2
    <3>2. StepHolds(Mutated(f[n - 1], outbox[n]), Done(n - 1) + 1)
      <4>1. outbox[n].id = Done(n - 1) + 1
        BY <1>0, <2>0, <3>1
      <4> HIDE DEF Done
      <4> QED BY <1>0, <1>5, <2>0, <3>1, <4>1, MutatedHolds
    <3>3. Done(n - 1) + 1 = Done(n)
      BY <1>0, <3>1
    <3> HIDE DEF Done
    <3> QED BY <2>0, <3>2, <3>3
  <2> QED BY <1>0, <2>1, <2>2
<1> HIDE DEF Done
<1>6. \A n \in 0..N : StepHolds(f[n], Done(n))
  <2> DEFINE Bad == {n \in 0..N : ~StepHolds(f[n], Done(n))}
  <2> SUFFICES ASSUME Bad # {} PROVE FALSE
    OBVIOUS
  <2>1. PICK n \in Bad : \A k \in Bad : n <= k
    <3>1. \A k \in Bad : k \in Nat
      OBVIOUS
    <3> HIDE DEF Bad
    <3>2. Bad \in SUBSET Nat
      BY <3>1
    <3> QED BY <3>2, HasSmallest
  <2>2. n \in 0..N /\ ~StepHolds(f[n], Done(n)) /\ n # 0
    BY <1>4
  <2>3. n - 1 \in 0..N /\ ~(n <= n - 1) /\ n \in 1..N
    BY <1>0, <2>2
  <2>4. StepHolds(f[n - 1], Done(n - 1))
    BY <2>1, <2>3
  <2> QED BY <1>5, <2>2, <2>3, <2>4
<1>7. /\ Done(N) >= Len(effects) /\ Done(N) < nextMutation /\ Dropped + N <= Done(N)
  BY <1>0 DEF Done, InTurn
<1>8. StepHolds([cloud |-> cloud', log |-> changeLog', receipts |-> receipts', effects |-> effects'], Done(N))
  <2>1. StepHolds(f[N], Done(N))
    BY <1>0, <1>6
  <2> HIDE DEF N
  <2> QED BY <1>1, <2>1 DEF StepHolds
<1>9. sync.sent = <<>> => UNCHANGED cloudVars
  <2> SUFFICES ASSUME sync.sent = <<>> PROVE UNCHANGED cloudVars
    OBVIOUS
  <2>1. N = 0
    OBVIOUS
  <2> QED BY <1>1, <1>2, <2>1 DEF Account, cloudVars
<1> QED BY <1>0, <1>3, <1>7, <1>8, <1>9

\* POST /collections/mutations keeps the invariant.
LEMMA MutationsKeep == ASSUME CollectionInv, ApplyMutations PROVE CollectionInv'
<1>1. PICK done \in Nat :
        /\ StepHolds([cloud |-> cloud', log |-> changeLog', receipts |-> receipts', effects |-> effects'], done)
        /\ done >= Len(effects) /\ done < nextMutation /\ Dropped + Len(sync.sent) <= done
        /\ sync.sent = <<>> => UNCHANGED cloudVars
  BY TransactionHolds
<1>2. /\ CollectionTypes /\ InTurn /\ SentIsFirst /\ NothingUnknown /\ BootstrapLast
      /\ ~tangled => Untangled
  BY DEF CollectionInv
<1>3. /\ sync.step = "sent"
      /\ sync' = [sync EXCEPT !.step = "committed", !.acknowledged = Acknowledged(sync.sent, receipts)]
      /\ tangled' = (tangled \/ (sync.sent # <<>> /\ \E t \in Tabs : Busy(t)))
      /\ UNCHANGED <<local, outbox, cursor, nextMutation, clock, jobs, removedOn, tab>>
  BY DEF ApplyMutations, macVars
<1>4. /\ sync \in SyncStates /\ sync.sent \in Seq(Mutations) /\ Len(sync.sent) \in Nat /\ Len(effects) \in Nat /\ Dropped \in Nat
      /\ Len(changeLog) \in Nat /\ Len(outbox) \in Nat /\ cursor \in 0..Len(changeLog) /\ sync.cursor \in 0..Len(changeLog)
      /\ changeLog \in Seq(Entries) /\ tangled \in BOOLEAN
  <2>1. sync \in SyncStates /\ effects \in Seq(Nat) /\ changeLog \in Seq(Entries) /\ outbox \in Seq(Mutations)
        /\ cursor \in 0..Len(changeLog) /\ sync.cursor <= Len(changeLog) /\ tangled \in BOOLEAN
    BY <1>2 DEF CollectionTypes
  <2>2. sync.sent \in Seq(Mutations) /\ sync.cursor \in Nat
    BY <2>1 DEF SyncStates
  <2> QED BY <1>2, <2>1, <2>2 DEF InTurn
<1>5. /\ cloud' \in CollectionRows /\ changeLog' \in Seq(Entries) /\ effects' \in Seq(Nat) /\ Len(effects') = done /\ receipts' = 1..done
      /\ \A i \in 1..done : effects'[i] = i
      /\ LibraryHolds(cloud', changeLog', done) /\ WatchHolds(cloud', changeLog', done)
      /\ Len(changeLog') >= Len(changeLog) /\ \A k \in 1..Len(changeLog) : changeLog'[k] = changeLog[k]
      /\ \A k \in 1..Len(changeLog') : ~changeLog'[k].visible => k <= Len(changeLog)
      /\ cloud.library # "absent" => cloud'.library # "absent"
      /\ cloud.watch # "absent" => cloud'.watch # "absent"
      /\ ~tangled /\ (\A t \in Tabs : ~Busy(t)) =>
            LatestIsTrue(cloud', changeLog') /\ \A e \in Entities : Agrees(e, cloud', changeLog', done)
  BY <1>1 DEF StepHolds
<1>6. Acknowledged(sync.sent, receipts) = (Dropped + 1)..(Dropped + Len(sync.sent))
  <2>1. \A i \in 1..Len(sync.sent) : sync.sent[i].id = Dropped + i
    <3>1. Len(sync.sent) <= Len(outbox) /\ \A i \in 1..Len(sync.sent) : sync.sent[i] = outbox[i]
      BY <1>2 DEF SentIsFirst
    <3>2. \A i \in 1..Len(outbox) : outbox[i].id = Dropped + i
      BY <1>2 DEF InTurn
    <3>3. \A i \in 1..Len(sync.sent) : i \in 1..Len(outbox)
      BY <1>4, <3>1
    <3> QED BY <3>1, <3>2, <3>3
  <2>2. \A x \in (Dropped + 1)..(Dropped + Len(sync.sent)) : x - Dropped \in 1..Len(sync.sent) /\ Dropped + (x - Dropped) = x
    BY <1>4
  <2>3. \A i \in 1..Len(sync.sent) : Dropped + i \in (Dropped + 1)..(Dropped + Len(sync.sent))
    BY <1>4
  <2> DEFINE D == Dropped
  <2> HIDE DEF D
  <2>4. \A x \in Acknowledged(sync.sent, receipts) : x \in (Dropped + 1)..(Dropped + Len(sync.sent))
    BY <2>1, <2>3 DEF Acknowledged
  <2>5. ASSUME NEW x \in (Dropped + 1)..(Dropped + Len(sync.sent)) PROVE x \in Acknowledged(sync.sent, receipts)
    <3>1. x = sync.sent[x - Dropped].id /\ x - Dropped \in 1..Len(sync.sent)
      BY <2>1, <2>2
    <3> QED BY <3>1 DEF Acknowledged
  <2> QED BY <2>4, <2>5
<1>7. /\ sync'.step = "committed" /\ sync'.sent = sync.sent /\ sync'.page = sync.page /\ sync'.cursor = sync.cursor
      /\ sync'.bootstrap = sync.bootstrap /\ sync'.acknowledged = (Dropped + 1)..(Dropped + Len(sync.sent))
      /\ sync' \in SyncStates
  <2>1. (Dropped + 1)..(Dropped + Len(sync.sent)) \in SUBSET Nat
    BY <1>4
  <2> QED BY <1>3, <1>4, <1>6, <2>1 DEF SyncStates
<1>8. CollectionTypes'
  <2>1. Len(changeLog') \in Nat /\ tangled' \in BOOLEAN
    BY <1>3, <1>4, <1>5
  <2>2. cursor' \in 0..Len(changeLog') /\ sync'.cursor <= Len(changeLog')
    BY <1>3, <1>4, <1>5, <1>7, <2>1
  <2> QED BY <1>2, <1>3, <1>5, <1>7, <2>1, <2>2 DEF CollectionTypes
<1>9. InTurn' /\ Dropped' = Dropped
  <2>1. Dropped' = Dropped
    BY <1>3 DEF Dropped
  <2>2. Dropped \in 0..done
    BY <1>1, <1>2, <1>4 DEF InTurn
  <2> QED BY <1>1, <1>2, <1>3, <1>5, <2>1, <2>2 DEF InTurn, Sound
<1>10. SentIsFirst'
  BY <1>1, <1>2, <1>3, <1>5, <1>7, <1>9 DEF SentIsFirst, HasCommitted
<1>11. LibraryHolds(cloud, changeLog, Len(effects))'
  BY <1>3, <1>5 DEF LibraryHolds, Waiting
<1>12. WatchHolds(cloud, changeLog, Len(effects))'
  BY <1>3, <1>5 DEF WatchHolds, Waiting
<1>13. NothingUnknown' /\ BootstrapLast'
  BY <1>2, <1>3, <1>5, <1>7 DEF NothingUnknown, BootstrapLast, HeardOf, Busy
<1>14. ASSUME ~tangled' PROVE Untangled'
  <2>0. ~tangled /\ Untangled /\ (sync.sent = <<>> \/ \A t \in Tabs : ~Busy(t))
    BY <1>2, <1>3, <1>4, <1>14
  <2>1. ReadIsPart'
    <3>1. ~sync'.bootstrap.there
      BY <1>2, <1>3, <1>7 DEF BootstrapLast
    <3> QED BY <2>0, <1>3, <1>7, <3>1 DEF Untangled, ReadIsPart
  <2>2. CASE sync.sent = <<>>
    <3>1. UNCHANGED <<cloud, changeLog, effects>>
      BY <1>1, <2>2 DEF cloudVars
    <3>2. OneTab'
      BY <1>3, <1>7, <2>0, <3>1 DEF Untangled, OneTab, Busy, WatchValue
    <3>3. LatestIsTrue(cloud, changeLog)'
      BY <1>3, <2>0, <3>1 DEF Untangled, LatestIsTrue, ChangedSince, Written, ValueOf, WatchValue, LibraryValue
    <3>4. (\A e \in Entities : Agrees(e, cloud, changeLog, Len(effects)))'
      BY <1>3, <2>0, <3>1 DEF Untangled, Agrees, ChangedSince, Written, Waiting, ValueOf, WatchValue, LibraryValue
    <3> QED BY <2>1, <3>2, <3>3, <3>4 DEF Untangled
  <2>3. CASE \A t \in Tabs : ~Busy(t)
    <3>1. \A t \in Tabs : tab'[t].step = "idle"
      BY <1>3, <2>3 DEF Busy
    <3>2. \A k \in 1..Len(changeLog') : changeLog'[k].visible
      <4> SUFFICES ASSUME NEW k \in 1..Len(changeLog'), ~changeLog'[k].visible PROVE FALSE
        OBVIOUS
      <4>1. k \in 1..Len(changeLog) /\ changeLog'[k] = changeLog[k]
        BY <1>4, <1>5
      <4>2. \E t \in Tabs : tab[t].step = "numbered"
        BY <2>0, <4>1 DEF Untangled, OneTab
      <4> QED BY <2>3, <4>2 DEF Busy
    <3>3. OneTab'
      BY <3>1, <3>2 DEF OneTab, Busy
    <3>4. LatestIsTrue(cloud', changeLog') /\ \A e \in Entities : Agrees(e, cloud', changeLog', done)
      BY <1>5, <2>0, <2>3
    <3>5. LatestIsTrue(cloud, changeLog)'
      BY <1>3, <3>4 DEF LatestIsTrue, ChangedSince, Written, ValueOf, WatchValue, LibraryValue
    <3>6. (\A e \in Entities : Agrees(e, cloud, changeLog, Len(effects)))'
      BY <1>3, <1>5, <3>4 DEF Agrees, ChangedSince, Written, Waiting, ValueOf, WatchValue, LibraryValue
    <3> QED BY <2>1, <3>3, <3>5, <3>6 DEF Untangled
  <2> QED BY <2>0, <2>2, <2>3
<1> QED BY <1>8, <1>9, <1>10, <1>11, <1>12, <1>13, <1>14 DEF CollectionInv

-----------------------------------------------------------------------------
(* The beginning, and the browser.                                         *)

\* An idle synchronisation holds nothing.
LEMMA NoSyncIs ==
    /\ NoSync \in SyncStates /\ [NoSync EXCEPT !.step = "refreshed"] \in SyncStates
    /\ \A s \in {NoSync, [NoSync EXCEPT !.step = "refreshed"]} :
          /\ s.step \in {"idle", "refreshed"} /\ s.sent = <<>> /\ Len(s.sent) = 0 /\ s.acknowledged = {} /\ s.page = <<>>
          /\ Len(s.page) = 0 /\ s.cursor = 0 /\ ~s.bootstrap.there
          /\ s.bootstrap["watch"] = "absent" /\ s.bootstrap["library"] = "absent"
<1>1. <<>> \in Seq(Mutations) /\ <<>> \in Seq(Entries) /\ {} \in SUBSET Nat /\ Len(<<>>) = 0
  OBVIOUS
<1>2. [there |-> FALSE, watch |-> "absent", library |-> "absent"] \in [there: BOOLEAN, watch: WatchValues, library: LibraryValues]
  BY DEF WatchValues, LibraryValues
<1>3. NoSync \in SyncStates /\ [NoSync EXCEPT !.step = "refreshed"] \in SyncStates
  BY <1>1, <1>2 DEF NoSync, SyncStates
<1> QED BY <1>1, <1>3 DEF NoSync

LEMMA CollectionStarts == CollectionInit => CollectionInv
<1> SUFFICES ASSUME CollectionInit PROVE CollectionInv
  OBVIOUS
<1>0. /\ changeLog = <<>> /\ effects = <<>> /\ outbox = <<>> /\ sync = NoSync /\ nextMutation = 1 /\ cursor = 0
      /\ cloud = [watch |-> "absent", deleted |-> FALSE, library |-> "absent", favorite |-> FALSE, removedAt |-> 0]
      /\ tab = [t \in Tabs |-> [step |-> "idle"]] /\ local = [watch |-> "absent", library |-> "absent"]
      /\ receipts = {} /\ clock = 0 /\ jobs = {} /\ removedOn = 0 /\ ~tangled /\ tangled \in BOOLEAN
  BY DEF CollectionInit
<1>1. /\ changeLog \in Seq(Entries) /\ effects \in Seq(Nat) /\ outbox \in Seq(Mutations)
      /\ Len(changeLog) = 0 /\ Len(effects) = 0 /\ Len(outbox) = 0
  BY <1>0
<1>2. \A t \in Tabs : tab[t].step = "idle" /\ ~Busy(t)
  BY <1>0 DEF Busy
<1>3. /\ sync.step = "idle" /\ sync.sent = <<>> /\ Len(sync.sent) = 0 /\ sync.acknowledged = {}
      /\ sync.page = <<>> /\ Len(sync.page) = 0 /\ sync.cursor = 0 /\ ~sync.bootstrap.there /\ sync \in SyncStates
      /\ sync.bootstrap["watch"] = "absent" /\ sync.bootstrap["library"] = "absent"
  BY <1>0, NoSyncIs DEF NoSync
<1>4. CollectionTypes
  <2>1. cloud \in CollectionRows
    BY <1>0 DEF CollectionRows, WatchValues
  <2>2. tab \in [Tabs -> TabStates]
    BY <1>0 DEF TabStates
  <2>3. local \in Copies
    BY <1>0 DEF Copies, WatchValues, LibraryValues
  <2> QED BY <1>0, <1>1, <1>3, <2>1, <2>2, <2>3 DEF CollectionTypes
<1>5. InTurn /\ Dropped = 0
  <2>1. Dropped = 0
    <3>1. nextMutation = 1 /\ Len(outbox) = 0
      BY <1>0, <1>1
    <3> QED BY <3>1 DEF Dropped
  <2> QED BY <1>0, <1>1, <2>1 DEF InTurn
<1>6. SentIsFirst
  BY <1>1, <1>3 DEF SentIsFirst, HasCommitted
<1>7. LibraryHolds(cloud, changeLog, Len(effects)) /\ WatchHolds(cloud, changeLog, Len(effects))
  BY <1>0, <1>1 DEF LibraryHolds, WatchHolds, Waiting
<1>8. NothingUnknown /\ BootstrapLast
  BY <1>2, <1>3 DEF NothingUnknown, BootstrapLast, HeardOf
<1>9. Untangled
  <2>1. OneTab
    BY <1>1, <1>2 DEF OneTab
  <2>2. ReadIsPart
    BY <1>3 DEF ReadIsPart
  <2>3. LatestIsTrue(cloud, changeLog)
    BY <1>1 DEF LatestIsTrue
  <2>4. \A e \in Entities : Agrees(e, cloud, changeLog, Len(effects))
    BY <1>0 DEF Agrees, Entities, ValueOf, WatchValue, LibraryValue
  <2> QED BY <2>1, <2>2, <2>3, <2>4 DEF Untangled
<1> QED BY <1>4, <1>5, <1>6, <1>7, <1>8, <1>9 DEF CollectionInv

LEMMA WriteKeeps == ASSUME CollectionInv, NEW t \in Tabs, WriteWatchlist(t) PROVE CollectionInv'
<1>1. PICK method \in {"POST", "PATCH", "DELETE"}, value \in {"unwatched", "watched"} :
          /\ method # "POST" => cloud.watch # "absent"
          /\ cloud' = Edited(cloud, method, value)
          /\ tab' = [tab EXCEPT ![t] = [step |-> "written", value |-> IF method = "DELETE" THEN "absent" ELSE cloud'.watch]]
          /\ tangled' = (tangled \/ (\E u \in Tabs : Busy(u)) \/ (method = "PATCH" /\ cloud.deleted))
  BY DEF WriteWatchlist
<1>2. UNCHANGED <<changeLog, receipts, effects, local, outbox, cursor, nextMutation, clock, jobs, removedOn, sync>>
  BY DEF WriteWatchlist, macVars
<1>3. /\ CollectionTypes /\ InTurn /\ SentIsFirst /\ NothingUnknown /\ BootstrapLast
      /\ LibraryHolds(cloud, changeLog, Len(effects)) /\ WatchHolds(cloud, changeLog, Len(effects))
      /\ ~tangled => Untangled
  BY DEF CollectionInv
<1>4. cloud \in CollectionRows /\ tab \in [Tabs -> TabStates] /\ tangled \in BOOLEAN
  BY <1>3 DEF CollectionTypes
<1>5. /\ cloud' \in CollectionRows /\ cloud'.watch # "absent" /\ cloud'.library = cloud.library
      /\ cloud'.removedAt = cloud.removedAt /\ LibraryValue(cloud') = LibraryValue(cloud)
      /\ \/ method = "PATCH" /\ cloud.deleted
         \/ (IF method = "DELETE" THEN "absent" ELSE cloud'.watch) = WatchValue(cloud')
  <2>1. CASE method = "POST"
    <3>1. cloud' = [cloud EXCEPT !.watch = IF @ = "absent" THEN "unwatched" ELSE @, !.deleted = FALSE]
      BY <1>1, <2>1 DEF Edited
    <3> QED BY <1>1, <1>4, <2>1, <3>1 DEF CollectionRows, WatchValues, WatchValue, LibraryValue
  <2>2. CASE method = "PATCH"
    <3>1. cloud' = [cloud EXCEPT !.watch = value]
      BY <1>1, <2>2 DEF Edited
    <3> QED BY <1>1, <1>4, <2>2, <3>1 DEF CollectionRows, WatchValues, WatchValue, LibraryValue
  <2>3. CASE method = "DELETE"
    <3>1. cloud' = [cloud EXCEPT !.deleted = TRUE]
      BY <1>1, <2>3 DEF Edited
    <3> QED BY <1>1, <1>4, <2>3, <3>1 DEF CollectionRows, WatchValues, WatchValue, LibraryValue
  <2> QED BY <2>1, <2>2, <2>3
<1>6. /\ tab' \in [Tabs -> TabStates] /\ tab'[t].step = "written"
      /\ tab'[t].value = IF method = "DELETE" THEN "absent" ELSE cloud'.watch
      /\ \A u \in Tabs : u # t => tab'[u] = tab[u]
  <2>1. [step |-> "written", value |-> IF method = "DELETE" THEN "absent" ELSE cloud'.watch] \in TabStates
    BY <1>5 DEF TabStates, Values, CollectionRows, WatchValues
  <2> QED BY <1>1, <1>4, <2>1
<1>7. CollectionTypes'
  BY <1>1, <1>2, <1>3, <1>4, <1>5, <1>6 DEF CollectionTypes
<1>8. InTurn' /\ SentIsFirst' /\ BootstrapLast'
  BY <1>2, <1>3 DEF InTurn, SentIsFirst, BootstrapLast, Dropped, Sound, HasCommitted
<1>9. LibraryHolds(cloud, changeLog, Len(effects))' /\ WatchHolds(cloud, changeLog, Len(effects))'
  BY <1>2, <1>3, <1>5 DEF LibraryHolds, WatchHolds, Waiting
<1>10. NothingUnknown'
  BY <1>2, <1>3, <1>5 DEF NothingUnknown, HeardOf
<1>11. ASSUME ~tangled' PROVE Untangled'
  <2>1. /\ Untangled /\ \A u \in Tabs : ~Busy(u)
        /\ tab'[t].value = WatchValue(cloud')
    BY <1>1, <1>3, <1>4, <1>5, <1>6, <1>11
  <2>2. \A u \in Tabs : u # t => tab'[u].step = "idle"
    BY <1>6, <2>1 DEF Busy
  <2>3. OneTab'
    <3>1. \A k \in 1..Len(changeLog) : changeLog[k].visible
      BY <2>1 DEF Untangled, OneTab, Busy
    <3> QED BY <1>2, <1>6, <2>1, <2>2, <3>1 DEF OneTab, Busy
  <2>4. Written("watch")'
    BY <1>6 DEF Written
  <2>5. ~Written("library") /\ ~Written("library")'
    BY DEF Written
  <2>6. ValueOf("library", cloud)' = ValueOf("library", cloud)
    BY <1>5 DEF ValueOf, LibraryValue
  <2>7. ReadIsPart'
    BY <1>2, <2>1, <2>4, <2>5, <2>6 DEF Untangled, ReadIsPart, Entities, ChangedSince
  <2>8. LatestIsTrue(cloud, changeLog)'
    <3>1. \A k \in 1..Len(changeLog) : changeLog[k].entity \in Entities
      <4>1. \A k \in 1..Len(changeLog) : changeLog[k] \in Entries
        BY <1>3 DEF CollectionTypes
      <4> QED BY <4>1, EntryIs
    <3> QED BY <1>2, <2>1, <2>4, <2>5, <2>6, <3>1 DEF Untangled, LatestIsTrue, Entities, ChangedSince
  <2>9. (\A e \in Entities : Agrees(e, cloud, changeLog, Len(effects)))'
    <3>1. Agrees("watch", cloud, changeLog, Len(effects))'
      BY <2>4 DEF Agrees
    <3>2. Agrees("library", cloud, changeLog, Len(effects))
      BY <2>1 DEF Untangled, Entities
    <3>3. Agrees("library", cloud, changeLog, Len(effects))'
      BY <1>2, <1>5, <2>5, <2>6, <3>2 DEF Agrees, ChangedSince, Waiting
    <3> QED BY <3>1, <3>3 DEF Entities
  <2> QED BY <2>3, <2>7, <2>8, <2>9 DEF Untangled
<1> QED BY <1>7, <1>8, <1>9, <1>10, <1>11 DEF CollectionInv

LEMMA NumberKeeps == ASSUME CollectionInv, NEW t \in Tabs, NumberChange(t) PROVE CollectionInv'
<1> DEFINE c == [Change("watch", tab[t].value) EXCEPT !.visible = FALSE]
<1>1. /\ tab[t].step = "written" /\ changeLog' = Append(changeLog, c)
      /\ tab' = [tab EXCEPT ![t] = [step |-> "numbered", number |-> Len(changeLog) + 1]]
      /\ UNCHANGED <<cloud, receipts, effects, local, outbox, cursor, nextMutation, clock, jobs, removedOn, sync, tangled>>
  BY DEF NumberChange, macVars
<1>2. /\ CollectionTypes /\ InTurn /\ SentIsFirst /\ NothingUnknown /\ BootstrapLast
      /\ LibraryHolds(cloud, changeLog, Len(effects)) /\ WatchHolds(cloud, changeLog, Len(effects))
      /\ ~tangled => Untangled
  BY DEF CollectionInv
<1>3. /\ changeLog \in Seq(Entries) /\ Len(changeLog) \in Nat /\ tab \in [Tabs -> TabStates]
      /\ cursor \in Nat /\ cursor <= Len(changeLog) /\ sync.cursor \in Nat /\ sync.cursor <= Len(changeLog)
      /\ sync \in SyncStates
  BY <1>2 DEF CollectionTypes, SyncStates
<1>4. tab[t].value \in WatchValues
  <2>1. tab[t] \in TabStates
    BY <1>3
  <2> QED BY <1>1, <2>1 DEF TabStates
<1>5. c \in Entries /\ c.entity = "watch" /\ c.value = tab[t].value /\ ~c.visible
  BY <1>4 DEF Change, Entries
<1> HIDE DEF c
<1>6. /\ changeLog' \in Seq(Entries) /\ Len(changeLog') = Len(changeLog) + 1
      /\ changeLog'[Len(changeLog) + 1] = c /\ \A k \in 1..Len(changeLog) : changeLog'[k] = changeLog[k]
  BY <1>1, <1>3, <1>5
<1>7. /\ tab' \in [Tabs -> TabStates] /\ tab'[t].step = "numbered" /\ tab'[t].number = Len(changeLog) + 1
      /\ \A u \in Tabs : u # t => tab'[u] = tab[u]
  <2>1. [step |-> "numbered", number |-> Len(changeLog) + 1] \in TabStates
    BY <1>3 DEF TabStates
  <2> QED BY <1>1, <1>3, <2>1
<1>8. CollectionTypes'
  <2>1. cursor' \in 0..Len(changeLog') /\ sync'.cursor <= Len(changeLog')
    BY <1>1, <1>3, <1>6
  <2> QED BY <1>1, <1>2, <1>6, <1>7, <2>1 DEF CollectionTypes
<1>9. InTurn' /\ SentIsFirst' /\ BootstrapLast'
  BY <1>1, <1>2 DEF InTurn, SentIsFirst, BootstrapLast, Dropped, Sound, HasCommitted
<1>10. cloud.watch # "absent"
  BY <1>1, <1>2 DEF NothingUnknown, Busy
<1>11. WatchHolds(cloud, changeLog, Len(effects))'
  BY <1>1, <1>10 DEF WatchHolds
<1>12. LibraryHolds(cloud, changeLog, Len(effects))'
  <2>1. ASSUME cloud.library = "absent" PROVE \A k \in 1..Len(changeLog') : changeLog'[k].entity # "library"
    <3> SUFFICES ASSUME NEW k \in 1..Len(changeLog') PROVE changeLog'[k].entity # "library"
      OBVIOUS
    <3>1. CASE k = Len(changeLog) + 1
      BY <1>5, <1>6, <3>1
    <3>2. CASE k \in 1..Len(changeLog)
      BY <1>2, <1>6, <2>1, <3>2 DEF LibraryHolds
    <3> QED BY <1>3, <1>6, <3>1, <3>2
  <2> QED BY <1>1, <1>2, <2>1 DEF LibraryHolds, Waiting
<1>13. NothingUnknown'
  BY <1>1, <1>2, <1>10 DEF NothingUnknown, HeardOf
<1>14. ASSUME ~tangled' PROVE Untangled'
  <2>1. Untangled
    BY <1>1, <1>2, <1>14
  <2>2. /\ \A u \in Tabs : u # t => tab[u].step = "idle" /\ tab'[u].step = "idle"
        /\ tab[t].value = WatchValue(cloud)
    BY <1>1, <1>7, <2>1 DEF Untangled, OneTab, Busy
  <2>3. \A k \in 1..Len(changeLog) : changeLog[k].visible
    BY <1>1, <2>1, <2>2 DEF Untangled, OneTab
  <2>4. OneTab'
    <3>1. ASSUME NEW k \in 1..Len(changeLog'), ~changeLog'[k].visible PROVE k = Len(changeLog')
      <4>1. k \notin 1..Len(changeLog)
        BY <1>6, <2>3, <3>1
      <4> QED BY <1>3, <1>6, <4>1
    <3>2. \A u, v \in Tabs : Busy(u)' /\ Busy(v)' => u = v
      BY <2>2 DEF Busy
    <3>3. cursor' < Len(changeLog') /\ sync'.cursor < Len(changeLog') /\ Len(changeLog') > 0
      BY <1>1, <1>3, <1>6
    <3>4. ~changeLog'[Len(changeLog')].visible
      BY <1>5, <1>6
    <3> QED BY <1>6, <1>7, <2>2, <3>1, <3>2, <3>3, <3>4 DEF OneTab
  <2>5. \A n \in 0..Len(changeLog) : ChangedSince(changeLog', n, "watch")
    <3>1. \A n \in 0..Len(changeLog) : Len(changeLog) + 1 \in (n + 1)..Len(changeLog')
      BY <1>3, <1>6
    <3> QED BY <1>5, <1>6, <3>1 DEF ChangedSince
  <2>6. \A n \in Nat : ChangedSince(changeLog', n, "library") <=> ChangedSince(changeLog, n, "library")
    <3> SUFFICES ASSUME NEW n \in Nat PROVE ChangedSince(changeLog', n, "library") <=> ChangedSince(changeLog, n, "library")
      OBVIOUS
    <3>1. ASSUME NEW k \in (n + 1)..Len(changeLog'), changeLog'[k].entity = "library" PROVE ChangedSince(changeLog, n, "library")
      <4>1. k # Len(changeLog) + 1
        BY <1>5, <1>6, <3>1
      <4>2. k \in (n + 1)..Len(changeLog) /\ k \in 1..Len(changeLog)
        BY <1>3, <1>6, <4>1
      <4> QED BY <1>6, <3>1, <4>2 DEF ChangedSince
    <3>2. ASSUME NEW k \in (n + 1)..Len(changeLog), changeLog[k].entity = "library" PROVE ChangedSince(changeLog', n, "library")
      <4>1. k \in (n + 1)..Len(changeLog') /\ k \in 1..Len(changeLog)
        BY <1>3, <1>6
      <4> QED BY <1>6, <3>2, <4>1 DEF ChangedSince
    <3> QED BY <3>1, <3>2 DEF ChangedSince
  <2>7. ValueOf("watch", cloud) = tab[t].value /\ \A e \in Entities : ValueOf(e, cloud)' = ValueOf(e, cloud)
    BY <1>1, <2>2 DEF ValueOf, WatchValue, LibraryValue
  <2>8. ~Written("library") /\ ~Written("library")'
    BY DEF Written
  <2>9. ReadIsPart'
    <3>1. ASSUME sync.step \in {"bootstrap", "answered"}
          PROVE  \A i \in 1..Len(sync.page) : sync.page[i] = changeLog'[cursor + i]
      <4> SUFFICES ASSUME NEW i \in 1..Len(sync.page) PROVE sync.page[i] = changeLog'[cursor + i]
        OBVIOUS
      <4>1. sync.page[i] = changeLog[cursor + i] /\ sync.cursor = cursor + Len(sync.page)
        BY <2>1, <3>1 DEF Untangled, ReadIsPart
      <4>2. Len(sync.page) \in Nat
        BY <1>3 DEF SyncStates
      <4>3. cursor + i \in 1..Len(changeLog)
        BY <1>3, <4>1, <4>2
      <4> QED BY <1>6, <4>1, <4>3
    <3>2. ASSUME sync.bootstrap.there, NEW e \in Entities
          PROVE  sync.bootstrap[e] \in {"absent", ValueOf(e, cloud)} \/ ChangedSince(changeLog', sync.cursor, e)
      <4>1. CASE e = "watch"
        BY <1>3, <2>5, <4>1
      <4>2. CASE e = "library"
        BY <1>3, <2>1, <2>6, <2>8, <3>2, <4>2 DEF Untangled, ReadIsPart
      <4> QED BY <4>1, <4>2 DEF Entities
    <3> QED BY <1>1, <2>1, <2>7, <3>1, <3>2 DEF Untangled, ReadIsPart
  <2>10. LatestIsTrue(cloud, changeLog)'
    <3> SUFFICES ASSUME NEW k \in 1..Len(changeLog'), ~ChangedSince(changeLog', k, changeLog'[k].entity)
                 PROVE  changeLog'[k].value = ValueOf(changeLog'[k].entity, cloud)
      BY <1>1 DEF LatestIsTrue, ValueOf, WatchValue, LibraryValue
    <3>1. CASE k = Len(changeLog) + 1
      BY <1>5, <1>6, <2>7, <3>1
    <3>2. CASE k \in 1..Len(changeLog)
      <4>1. changeLog'[k] = changeLog[k] /\ changeLog[k] \in Entries
        BY <1>3, <1>6, <3>2
      <4>2. changeLog[k].entity = "library"
        BY <1>3, <2>5, <3>2, <4>1 DEF Entries, Entities
      <4>3. ~ChangedSince(changeLog, k, "library")
        BY <2>6, <3>2, <4>1, <4>2
      <4> QED BY <2>1, <2>8, <3>2, <4>1, <4>2, <4>3 DEF Untangled, LatestIsTrue
    <3> QED BY <1>3, <1>6, <3>1, <3>2
  <2>11. (\A e \in Entities : Agrees(e, cloud, changeLog, Len(effects)))'
    <3>1. Agrees("watch", cloud, changeLog, Len(effects))'
      BY <1>1, <1>3, <2>5 DEF Agrees
    <3>2. Agrees("library", cloud, changeLog, Len(effects))
      BY <2>1 DEF Untangled, Entities
    <3>3. Agrees("library", cloud, changeLog, Len(effects))'
      <4>1. ChangedSince(changeLog, cursor, "library") => ChangedSince(changeLog', cursor', "library")
        BY <1>1, <1>3, <2>6
      <4>2. ValueOf("library", cloud)' = ValueOf("library", cloud)
        BY <2>7 DEF Entities
      <4> QED BY <1>1, <2>8, <3>2, <4>1, <4>2 DEF Agrees, Waiting
    <3> QED BY <3>1, <3>3 DEF Entities
  <2> QED BY <2>4, <2>9, <2>10, <2>11 DEF Untangled
<1> QED BY <1>8, <1>9, <1>11, <1>12, <1>13, <1>14 DEF CollectionInv

LEMMA AbandonKeeps == ASSUME CollectionInv, NEW t \in Tabs, AbandonWrite(t) PROVE CollectionInv'
<1>1. /\ tab[t].step = "written" /\ tab' = [tab EXCEPT ![t] = [step |-> "idle"]] /\ tangled' = TRUE
      /\ UNCHANGED <<cloud, changeLog, receipts, effects, local, outbox, cursor, nextMutation, clock, jobs, removedOn, sync>>
  BY DEF AbandonWrite, macVars, cloudVars
<1>2. /\ CollectionTypes /\ InTurn /\ SentIsFirst /\ NothingUnknown /\ BootstrapLast
      /\ LibraryHolds(cloud, changeLog, Len(effects)) /\ WatchHolds(cloud, changeLog, Len(effects))
  BY DEF CollectionInv
<1>3. tab' \in [Tabs -> TabStates] /\ \A u \in Tabs : ~Busy(u) => ~Busy(u)'
  <2>1. [step |-> "idle"] \in TabStates /\ tab \in [Tabs -> TabStates]
    BY <1>2 DEF TabStates, CollectionTypes
  <2> QED BY <1>1, <2>1 DEF Busy
<1>4. CollectionTypes'
  BY <1>1, <1>2, <1>3 DEF CollectionTypes
<1>5. InTurn' /\ SentIsFirst' /\ BootstrapLast'
  BY <1>1, <1>2 DEF InTurn, SentIsFirst, BootstrapLast, Dropped, Sound, HasCommitted
<1>6. LibraryHolds(cloud, changeLog, Len(effects))' /\ WatchHolds(cloud, changeLog, Len(effects))'
  BY <1>1, <1>2 DEF LibraryHolds, WatchHolds, Waiting
<1>7. NothingUnknown'
  BY <1>1, <1>2, <1>3 DEF NothingUnknown, HeardOf
<1> QED BY <1>1, <1>4, <1>5, <1>6, <1>7 DEF CollectionInv

LEMMA CommitKeeps == ASSUME CollectionInv, NEW t \in Tabs, CommitChange(t) PROVE CollectionInv'
<1> DEFINE n == tab[t].number
<1>1. /\ tab[t].step = "numbered" /\ changeLog' = [changeLog EXCEPT ![n].visible = TRUE]
      /\ tab' = [tab EXCEPT ![t] = [step |-> "idle"]]
      /\ UNCHANGED <<cloud, receipts, effects, local, outbox, cursor, nextMutation, clock, jobs, removedOn, sync, tangled>>
  BY DEF CommitChange, macVars
<1>2. /\ CollectionTypes /\ InTurn /\ SentIsFirst /\ NothingUnknown /\ BootstrapLast
      /\ LibraryHolds(cloud, changeLog, Len(effects)) /\ WatchHolds(cloud, changeLog, Len(effects))
      /\ ~tangled => Untangled
  BY DEF CollectionInv
<1>3. /\ changeLog \in Seq(Entries) /\ Len(changeLog) \in Nat /\ tab \in [Tabs -> TabStates]
      /\ cursor \in Nat /\ cursor <= Len(changeLog) /\ sync.cursor \in Nat /\ sync.cursor <= Len(changeLog)
      /\ sync \in SyncStates
  BY <1>2 DEF CollectionTypes, SyncStates
<1> HIDE DEF n
<1>4. /\ changeLog' \in Seq(Entries) /\ Len(changeLog') = Len(changeLog)
      /\ \A k \in 1..Len(changeLog) :
            /\ changeLog'[k].entity = changeLog[k].entity /\ changeLog'[k].value = changeLog[k].value
            /\ k # n => changeLog'[k] = changeLog[k]
            /\ changeLog'[k].visible = (k = n \/ changeLog[k].visible)
  <2>1. /\ changeLog \in [1..Len(changeLog) -> Entries]
        /\ \A k \in 1..Len(changeLog) : changeLog[k] \in Entries
    BY <1>3
  <2>2. \A e \in Entries : [e EXCEPT !.visible = TRUE] \in Entries
    BY DEF Entries
  <2>3. changeLog' = [k \in 1..Len(changeLog) |-> IF k = n THEN [changeLog[k] EXCEPT !.visible = TRUE] ELSE changeLog[k]]
    BY <1>1, <2>1
  <2>4. \A k \in 1..Len(changeLog) : changeLog'[k] \in Entries /\
           changeLog'[k] = IF k = n THEN [changeLog[k] EXCEPT !.visible = TRUE] ELSE changeLog[k]
    BY <2>1, <2>2, <2>3
  <2>5. changeLog' \in Seq(Entries) /\ Len(changeLog') = Len(changeLog)
    BY <1>3, <2>3, <2>4
  <2>6. \A e \in Entries : /\ [e EXCEPT !.visible = TRUE].entity = e.entity /\ [e EXCEPT !.visible = TRUE].value = e.value
                           /\ [e EXCEPT !.visible = TRUE].visible = TRUE /\ e.visible \in BOOLEAN
    BY DEF Entries
  <2> QED BY <2>1, <2>4, <2>5, <2>6
<1>5. /\ tab' \in [Tabs -> TabStates] /\ tab'[t].step = "idle" /\ \A u \in Tabs : u # t => tab'[u] = tab[u]
  <2>1. [step |-> "idle"] \in TabStates
    BY DEF TabStates
  <2> QED BY <1>1, <1>3, <2>1
<1>6. CollectionTypes'
  <2>1. cursor' \in 0..Len(changeLog') /\ sync'.cursor <= Len(changeLog')
    BY <1>1, <1>3, <1>4
  <2> QED BY <1>1, <1>2, <1>4, <1>5, <2>1 DEF CollectionTypes
<1>7. InTurn' /\ SentIsFirst' /\ BootstrapLast'
  BY <1>1, <1>2 DEF InTurn, SentIsFirst, BootstrapLast, Dropped, Sound, HasCommitted
<1>8. cloud.watch # "absent"
  BY <1>1, <1>2 DEF NothingUnknown, Busy
<1>9. WatchHolds(cloud, changeLog, Len(effects))'
  BY <1>1, <1>8 DEF WatchHolds
<1>10. LibraryHolds(cloud, changeLog, Len(effects))'
  BY <1>1, <1>2, <1>4 DEF LibraryHolds, Waiting
<1>11. NothingUnknown'
  BY <1>1, <1>2, <1>8 DEF NothingUnknown, HeardOf
<1>12. \A k \in Nat, e \in Entities : ChangedSince(changeLog', k, e) <=> ChangedSince(changeLog, k, e)
  <2>1. \A k \in Nat, j \in Nat : j \in (k + 1)..Len(changeLog) => j \in 1..Len(changeLog)
    BY <1>3
  <2> QED BY <1>3, <1>4, <2>1 DEF ChangedSince
<1>13. ASSUME ~tangled' PROVE Untangled'
  <2>1. Untangled
    BY <1>1, <1>2, <1>13
  <2>2. /\ \A u \in Tabs : u # t => tab[u].step = "idle" /\ tab'[u].step = "idle"
        /\ n = Len(changeLog) /\ sync.cursor < Len(changeLog)
    BY <1>1, <1>5, <2>1 DEF Untangled, OneTab, Busy, n
  <2>3. \A k \in 1..Len(changeLog) : changeLog'[k].visible
    BY <1>3, <1>4, <2>1, <2>2 DEF Untangled, OneTab
  <2>4. OneTab'
    BY <1>4, <1>5, <2>2, <2>3 DEF OneTab, Busy
  <2>5. \A e : Written(e)' <=> Written(e)
    BY <1>1, <1>5, <2>2 DEF Written
  <2>6. \A e : ValueOf(e, cloud)' = ValueOf(e, cloud)
    BY <1>1 DEF ValueOf, WatchValue, LibraryValue
  <2>7. ReadIsPart'
    <3>1. ASSUME sync.step \in {"bootstrap", "answered"}
          PROVE  \A i \in 1..Len(sync.page) : sync.page[i] = changeLog'[cursor + i]
      <4> SUFFICES ASSUME NEW i \in 1..Len(sync.page) PROVE sync.page[i] = changeLog'[cursor + i]
        OBVIOUS
      <4>1. sync.page[i] = changeLog[cursor + i] /\ sync.cursor = cursor + Len(sync.page)
        BY <2>1, <3>1 DEF Untangled, ReadIsPart
      <4>2. Len(sync.page) \in Nat
        BY <1>3 DEF SyncStates
      <4>3. cursor + i \in 1..Len(changeLog) /\ cursor + i # n
        BY <1>3, <2>2, <4>1, <4>2
      <4> QED BY <1>4, <4>1, <4>3
    <3>2. \A e \in Entities : ChangedSince(changeLog', sync.cursor, e) <=> ChangedSince(changeLog, sync.cursor, e)
      BY <1>3, <1>12
    <3> QED BY <1>1, <2>1, <2>5, <2>6, <3>1, <3>2 DEF Untangled, ReadIsPart
  <2>8. LatestIsTrue(cloud, changeLog)'
    <3>1. \A k \in 1..Len(changeLog) : k \in Nat /\ changeLog[k].entity \in Entities
      <4>1. \A k \in 1..Len(changeLog) : changeLog[k] \in Entries
        BY <1>3
      <4> QED BY <4>1, EntryIs
    <3> QED BY <1>4, <1>12, <2>1, <2>5, <2>6, <3>1 DEF Untangled, LatestIsTrue
  <2>9. (\A e \in Entities : Agrees(e, cloud, changeLog, Len(effects)))'
    BY <1>1, <1>3, <1>12, <2>1, <2>5, <2>6 DEF Untangled, Agrees, Waiting
  <2> QED BY <2>4, <2>7, <2>8, <2>9 DEF Untangled
<1> QED BY <1>6, <1>7, <1>9, <1>10, <1>11, <1>13 DEF CollectionInv

-----------------------------------------------------------------------------
(* The Mac's copy and its outbox.                                          *)

LEMMA DownloadKeeps == ASSUME CollectionInv, DownloadCompletes PROVE CollectionInv'
<1>1. /\ clock' = clock + 1 /\ jobs' = jobs \cup {clock + 1}
      /\ UNCHANGED <<cloud, changeLog, receipts, effects, tab, local, outbox, cursor, nextMutation, removedOn, sync, tangled>>
  BY DEF DownloadCompletes, cloudVars
<1>2. /\ CollectionTypes /\ InTurn /\ SentIsFirst /\ NothingUnknown /\ BootstrapLast
      /\ LibraryHolds(cloud, changeLog, Len(effects)) /\ WatchHolds(cloud, changeLog, Len(effects))
      /\ ~tangled => Untangled
  BY DEF CollectionInv
<1>3. clock \in Nat /\ jobs \subseteq 1..clock /\ removedOn \in 0..clock /\ cloud \in CollectionRows
  BY <1>2 DEF CollectionTypes
<1>4. clock' \in Nat /\ jobs' \subseteq 1..clock' /\ removedOn' \in 0..clock' /\ jobs \subseteq jobs'
  BY <1>1, <1>3
<1>5. CollectionTypes'
  BY <1>1, <1>2, <1>4 DEF CollectionTypes
<1>6. InTurn' /\ SentIsFirst' /\ BootstrapLast' /\ NothingUnknown'
  BY <1>1, <1>2, <1>4 DEF InTurn, SentIsFirst, BootstrapLast, NothingUnknown, Dropped, Sound, HasCommitted, HeardOf, Busy
<1>7. LibraryHolds(cloud, changeLog, Len(effects))'
  <2>1. cloud.removedAt <= clock + 1
    BY <1>2, <1>3 DEF LibraryHolds, CollectionRows
  <2> QED BY <1>1, <1>2, <1>4, <2>1 DEF LibraryHolds, Waiting
<1>8. WatchHolds(cloud, changeLog, Len(effects))'
  BY <1>1, <1>2 DEF WatchHolds, Waiting
<1>9. Untangled => Untangled'
  BY <1>1 DEF Untangled, OneTab, ReadIsPart, LatestIsTrue, Agrees, Busy, ChangedSince, Written, Waiting, ValueOf, WatchValue, LibraryValue
<1> QED BY <1>1, <1>2, <1>5, <1>6, <1>7, <1>8, <1>9 DEF CollectionInv

\* An edit on the Mac changes its copy and is put into the outbox.
LEMMA QueueKeeps ==
    ASSUME CollectionInv, NEW own \in Entities, NEW kind \in KindsOf(own), NEW value \in Values, NEW time \in Nat,
           Queue(kind, value, time),
           UNCHANGED <<cloud, changeLog, receipts, effects, tab, cursor, clock, jobs, tangled>>,
           local' \in Copies, local'[own] = value, \A e \in Entities \ {own} : local'[e] = local[e],
           UNCHANGED sync \/ sync' \in {NoSync, [NoSync EXCEPT !.step = "refreshed"]},
           removedOn' = removedOn \/ (kind = "library_delete" /\ removedOn' = clock),
           kind = "watchlist_upsert" => value \in {"unwatched", "watched"},
           kind = "watchlist_delete" => value = "absent",
           kind = "library_upsert" => time \in jobs,
           kind \in {"library_organize", "library_delete"} => local.library # "absent"
    PROVE  CollectionInv'
<1> DEFINE m == [id |-> nextMutation, kind |-> kind, value |-> value, completedAt |-> time]
<1>1. /\ CollectionTypes /\ InTurn /\ SentIsFirst /\ NothingUnknown /\ BootstrapLast
      /\ LibraryHolds(cloud, changeLog, Len(effects)) /\ WatchHolds(cloud, changeLog, Len(effects))
      /\ ~tangled => Untangled
  BY DEF CollectionInv
<1>2. /\ outbox \in Seq(Mutations) /\ Len(outbox) \in Nat /\ nextMutation \in Nat /\ Len(effects) \in Nat
      /\ clock \in Nat /\ Len(changeLog) \in Nat
  BY <1>1 DEF CollectionTypes
<1>3. /\ m \in Mutations /\ m.id = nextMutation /\ m.kind = kind /\ m.value = value /\ Sound(m)
      /\ outbox' = Append(outbox, m) /\ nextMutation' = nextMutation + 1
  <2>1. kind \in WatchKinds \cup LibraryEdits
    BY DEF KindsOf
  <2> QED BY <1>2, <2>1 DEF Mutations, Sound, Queue
<1> HIDE DEF m
<1>4. /\ outbox' \in Seq(Mutations) /\ Len(outbox') = Len(outbox) + 1
      /\ outbox'[Len(outbox) + 1] = m /\ \A i \in 1..Len(outbox) : outbox'[i] = outbox[i]
  BY <1>2, <1>3
<1>5. \A i : i \in 1..Len(outbox') <=> i \in 1..Len(outbox) \/ i = Len(outbox) + 1
  BY <1>2, <1>4
<1>6. Dropped' = Dropped /\ nextMutation = Dropped + (Len(outbox) + 1) /\ Dropped \in Nat /\ Len(effects) < nextMutation
  <2>1. Dropped' = Dropped /\ nextMutation = Dropped + (Len(outbox) + 1)
    <3>1. nextMutation' = nextMutation + 1 /\ Len(outbox') = Len(outbox) + 1
      BY <1>3, <1>4
    <3> QED BY <1>2, <3>1 DEF Dropped
  <2> QED BY <1>1, <1>2, <2>1 DEF InTurn
<1>7. InTurn'
  <2>1. Sound(m) /\ \A i \in 1..Len(outbox) : Sound(outbox[i]) => Sound(outbox'[i])
    BY <1>3, <1>4 DEF Sound
  <2>2. (\A i \in 1..Len(outbox) : outbox[i].id = Dropped + i /\ Sound(outbox[i]))'
    <3> SUFFICES ASSUME NEW i \in 1..Len(outbox')
                 PROVE  outbox'[i].id = Dropped + i /\ Sound(outbox'[i])
      BY <1>6 DEF Sound
    <3>1. CASE i = Len(outbox) + 1
      BY <1>3, <1>4, <1>6, <3>1
    <3>2. CASE i \in 1..Len(outbox)
      BY <1>1, <1>4, <2>1, <3>2 DEF InTurn
    <3> QED BY <1>5, <3>1, <3>2
  <2>3. Len(effects) < nextMutation'
    BY <1>2, <1>3, <1>6
  <2>4. /\ receipts' = 1..Len(effects') /\ effects' = effects /\ Dropped \in 0..Len(effects)
        /\ \A i \in 1..Len(effects) : effects[i] = i
    BY <1>1 DEF InTurn
  <2> QED BY <1>6, <2>2, <2>3, <2>4 DEF InTurn
<1>8. sync' \in SyncStates /\ sync'.cursor <= Len(changeLog)
  <2>1. CASE UNCHANGED sync
    BY <1>1, <2>1 DEF CollectionTypes
  <2>2. CASE sync' \in {NoSync, [NoSync EXCEPT !.step = "refreshed"]}
    <3>1. sync' \in SyncStates /\ sync'.cursor = 0
      BY <2>2, NoSyncIs
    <3> QED BY <1>2, <3>1
  <2> QED BY <2>1, <2>2
<1>9. CollectionTypes'
  <2>1. removedOn' \in 0..clock /\ nextMutation' \in Nat
    BY <1>1, <1>2, <1>3 DEF CollectionTypes
  <2> QED BY <1>1, <1>4, <1>8, <2>1 DEF CollectionTypes
<1>10. SentIsFirst'
  <2>1. CASE UNCHANGED sync
    <3>1. sync.sent \in Seq(Mutations)
      BY <1>1 DEF CollectionTypes, SyncStates
    <3>2. Len(sync.sent) \in Nat /\ \A i \in 1..Len(sync.sent) : i \in 1..Len(outbox)
      BY <1>1, <1>2, <3>1 DEF SentIsFirst
    <3>3. Len(sync.sent) <= Len(outbox')
      BY <1>1, <1>2, <1>4, <3>2 DEF SentIsFirst
    <3> QED BY <1>1, <1>4, <1>6, <2>1, <3>2, <3>3 DEF SentIsFirst, HasCommitted
  <2>2. CASE sync' \in {NoSync, [NoSync EXCEPT !.step = "refreshed"]}
    <3>1. sync'.step \in {"idle", "refreshed"} /\ Len(sync'.sent) = 0 /\ sync'.acknowledged = {}
      BY <2>2, NoSyncIs
    <3> QED BY <1>2, <1>4, <3>1 DEF SentIsFirst, HasCommitted
  <2> QED BY <2>1, <2>2
<1>11. NothingUnknown' /\ BootstrapLast'
  <2>1. CASE UNCHANGED sync
    BY <1>1, <2>1 DEF NothingUnknown, BootstrapLast, HeardOf, Busy
  <2>2. CASE sync' \in {NoSync, [NoSync EXCEPT !.step = "refreshed"]}
    <3>1. /\ Len(sync'.page) = 0 /\ ~sync'.bootstrap.there
          /\ sync'.bootstrap["watch"] = "absent" /\ sync'.bootstrap["library"] = "absent"
      BY <2>2, NoSyncIs
    <3> QED BY <1>1, <3>1 DEF NothingUnknown, BootstrapLast, HeardOf, Busy
  <2> QED BY <2>1, <2>2
<1>12. /\ \A kinds : Waiting(Len(effects), kinds) => Waiting(Len(effects), kinds)'
       /\ \A kinds : kind \in kinds => Waiting(Len(effects), kinds)'
       /\ \A kinds : kind \notin kinds => (Waiting(Len(effects), kinds)' <=> Waiting(Len(effects), kinds))
  BY <1>3, <1>4, <1>5, <1>6 DEF Waiting
<1>13. local \in Copies /\ local["watch"] = local.watch /\ local["library"] = local.library
       /\ local'["watch"] = local'.watch /\ local'["library"] = local'.library
  BY <1>1 DEF CollectionTypes
<1>14. LibraryHolds(cloud, changeLog, Len(effects))'
  <2>1. ASSUME cloud.library = "absent"
        PROVE  /\ local'.library # "absent" => Waiting(Len(effects), {"library_upsert"})'
               /\ \A i \in 1..Len(outbox') : outbox'[i].id > Len(effects) /\ outbox'[i].kind = "library_delete" =>
                     \E j \in 1..(i - 1) : outbox'[j].id > Len(effects) /\ outbox'[j].kind = "library_upsert"
    <3>0. local.library # "absent" => Waiting(Len(effects), {"library_upsert"})
      BY <1>1, <2>1 DEF LibraryHolds
    <3>1. ASSUME local'.library # "absent" PROVE Waiting(Len(effects), {"library_upsert"})'
      <4>1. CASE own = "watch"
        BY <1>12, <1>13, <3>0, <3>1, <4>1 DEF Entities
      <4>2. CASE own = "library"
        BY <1>12, <3>0, <4>2 DEF KindsOf, LibraryEdits
      <4> QED BY <4>1, <4>2 DEF Entities
    <3>2. ASSUME NEW i \in 1..Len(outbox'), outbox'[i].id > Len(effects), outbox'[i].kind = "library_delete"
          PROVE  \E j \in 1..(i - 1) : outbox'[j].id > Len(effects) /\ outbox'[j].kind = "library_upsert"
      <4>1. CASE i \in 1..Len(outbox)
        <5>1. PICK j \in 1..(i - 1) : outbox[j].id > Len(effects) /\ outbox[j].kind = "library_upsert"
          BY <1>1, <1>4, <2>1, <3>2, <4>1 DEF LibraryHolds
        <5>2. j \in 1..Len(outbox)
          BY <1>2, <4>1
        <5> QED BY <1>4, <5>1, <5>2
      <4>2. CASE i = Len(outbox) + 1
        <5>1. local.library # "absent"
          BY <1>3, <1>4, <3>2, <4>2
        <5>2. PICK j \in 1..Len(outbox) : outbox[j].id > Len(effects) /\ outbox[j].kind = "library_upsert"
          BY <3>0, <5>1 DEF Waiting
        <5>3. j \in 1..(i - 1)
          BY <1>2, <4>2
        <5> QED BY <1>4, <5>2, <5>3
      <4> QED BY <1>5, <4>1, <4>2
    <3> QED BY <3>1, <3>2
  <2>2. \/ removedOn' = 0 \/ Waiting(Len(effects), {"library_delete"})'
        \/ \E time1 \in jobs : time1 > removedOn'
        \/ cloud.library = "removed" /\ removedOn' <= cloud.removedAt
    BY <1>1, <1>12 DEF LibraryHolds
  <2> QED BY <1>1, <2>1, <2>2 DEF LibraryHolds
<1>15. WatchHolds(cloud, changeLog, Len(effects))'
  <2> SUFFICES ASSUME cloud.watch = "absent"
      PROVE  /\ \A i \in 1..Len(outbox') :
                   /\ outbox'[i].id > Len(effects) /\ outbox'[i].kind \in WatchKinds
                   /\ \A j \in (i + 1)..Len(outbox') : outbox'[j].kind \notin WatchKinds
                   => local'.watch = outbox'[i].value
             /\ ~Waiting(Len(effects), WatchKinds)' => local'.watch = "absent"
    BY <1>1 DEF WatchHolds
  <2>1. CASE own = "watch"
    <3>1. kind \in WatchKinds /\ local'.watch = value
      BY <1>13, <2>1 DEF KindsOf
    <3>2. ASSUME NEW i \in 1..Len(outbox'), \A j \in (i + 1)..Len(outbox') : outbox'[j].kind \notin WatchKinds
          PROVE  local'.watch = outbox'[i].value
      <4>1. i = Len(outbox) + 1
        <5> SUFFICES ASSUME i \in 1..Len(outbox) PROVE FALSE
          BY <1>5
        <5>1. Len(outbox) + 1 \in (i + 1)..Len(outbox')
          BY <1>2, <1>4
        <5> QED BY <1>3, <1>4, <3>1, <3>2, <5>1
      <4> QED BY <1>3, <1>4, <3>1, <4>1
    <3> QED BY <1>12, <3>1, <3>2
  <2>2. CASE own = "library"
    <3>1. kind \notin WatchKinds /\ local'.watch = local.watch
      BY <1>13, <2>2 DEF KindsOf, WatchKinds, LibraryEdits, Entities
    <3>2. ASSUME NEW i \in 1..Len(outbox'), outbox'[i].id > Len(effects), outbox'[i].kind \in WatchKinds,
                 \A j \in (i + 1)..Len(outbox') : outbox'[j].kind \notin WatchKinds
          PROVE  local'.watch = outbox'[i].value
      <4>1. i \in 1..Len(outbox)
        BY <1>3, <1>4, <1>5, <3>1, <3>2
      <4>2. \A j \in (i + 1)..Len(outbox) : outbox[j].kind \notin WatchKinds
        <5> SUFFICES ASSUME NEW j \in (i + 1)..Len(outbox) PROVE outbox[j].kind \notin WatchKinds
          OBVIOUS
        <5>1. j \in (i + 1)..Len(outbox') /\ j \in 1..Len(outbox)
          BY <1>2, <1>4, <4>1
        <5> QED BY <1>4, <3>2, <5>1
      <4> QED BY <1>1, <1>4, <3>1, <3>2, <4>1, <4>2 DEF WatchHolds
    <3> QED BY <1>1, <1>12, <3>1, <3>2 DEF WatchHolds
  <2> QED BY <2>1, <2>2 DEF Entities
<1>16. ASSUME ~tangled' PROVE Untangled'
  <2>1. Untangled
    BY <1>1, <1>16
  <2>4. LatestIsTrue(cloud, changeLog)'
    BY <2>1 DEF Untangled, LatestIsTrue, ChangedSince, Written, ValueOf, WatchValue, LibraryValue
  <2>5. ASSUME NEW e \in Entities PROVE Agrees(e, cloud, changeLog, Len(effects))'
    <3>1. CASE e = own
      BY <1>12, <3>1 DEF Agrees
    <3>2. CASE e # own
      BY <1>12, <2>1, <3>2 DEF Untangled, Agrees, ChangedSince, Written, ValueOf, WatchValue, LibraryValue
    <3> QED BY <3>1, <3>2
  <2>6. OneTab' /\ ReadIsPart'
    <3>1. CASE UNCHANGED sync
      BY <2>1, <3>1 DEF Untangled, OneTab, ReadIsPart, Busy, ChangedSince, Written, ValueOf, WatchValue, LibraryValue
    <3>2. CASE sync' \in {NoSync, [NoSync EXCEPT !.step = "refreshed"]}
      <4>1. sync'.step \in {"idle", "refreshed"} /\ sync'.cursor = 0 /\ ~sync'.bootstrap.there
        BY <3>2, NoSyncIs
      <4>2. OneTab'
        BY <1>2, <2>1, <4>1 DEF Untangled, OneTab, Busy, WatchValue
      <4> QED BY <4>1, <4>2 DEF ReadIsPart
    <3> QED BY <3>1, <3>2
  <2> QED BY <2>4, <2>5, <2>6 DEF Untangled
<1> QED BY <1>7, <1>9, <1>10, <1>11, <1>14, <1>15, <1>16 DEF CollectionInv

LEMMA EditsKeep ==
    ASSUME CollectionInv, SaveWatchlist \/ RemoveWatchlist \/ OrganizeLibrary \/ RemoveLibrary
    PROVE  CollectionInv'
<1>1. local \in Copies
  BY DEF CollectionInv, CollectionTypes
<1>2. CASE SaveWatchlist
  <2>1. PICK value \in {"unwatched", "watched"} :
          local' = [local EXCEPT !.watch = value] /\ Queue("watchlist_upsert", value, 0)
    BY <1>2 DEF SaveWatchlist, WatchValues
  <2>2. UNCHANGED <<cloud, changeLog, receipts, effects, tab, cursor, clock, jobs, tangled, sync, removedOn>>
    BY <1>2 DEF SaveWatchlist, cloudVars
  <2>3. /\ value \in Values /\ local' \in Copies /\ local'["watch"] = value
        /\ \A e \in Entities \ {"watch"} : local'[e] = local[e]
        /\ "watchlist_upsert" \in KindsOf("watch") /\ "watch" \in Entities
    BY <1>1, <2>1 DEF Values, WatchValues, Copies, Entities, KindsOf, WatchKinds
  <2> QED BY <2>1, <2>2, <2>3, QueueKeeps
<1>3. CASE RemoveWatchlist
  <2>1. /\ local' = [local EXCEPT !.watch = "absent"] /\ Queue("watchlist_delete", "absent", 0)
        /\ UNCHANGED <<cloud, changeLog, receipts, effects, tab, cursor, clock, jobs, tangled, sync, removedOn>>
    BY <1>3 DEF RemoveWatchlist, cloudVars
  <2>2. /\ "absent" \in Values /\ local' \in Copies /\ local'["watch"] = "absent"
        /\ \A e \in Entities \ {"watch"} : local'[e] = local[e]
        /\ "watchlist_delete" \in KindsOf("watch") /\ "watch" \in Entities
    BY <1>1, <2>1 DEF Values, WatchValues, Copies, Entities, KindsOf, WatchKinds
  <2> QED BY <2>1, <2>2, QueueKeeps
<1>4. CASE OrganizeLibrary
  <2>1. /\ local' = [local EXCEPT !.library = "favorite"] /\ Queue("library_organize", "favorite", 0)
        /\ local.library # "absent"
        /\ UNCHANGED <<cloud, changeLog, receipts, effects, tab, cursor, clock, jobs, tangled, sync, removedOn>>
    BY <1>4 DEF OrganizeLibrary, cloudVars
  <2>2. /\ "favorite" \in Values /\ local' \in Copies /\ local'["library"] = "favorite"
        /\ \A e \in Entities \ {"library"} : local'[e] = local[e]
        /\ "library_organize" \in KindsOf("library") /\ "library" \in Entities
    BY <1>1, <2>1 DEF Values, LibraryValues, Copies, Entities, KindsOf, LibraryEdits
  <2> QED BY <2>1, <2>2, QueueKeeps
<1>5. CASE RemoveLibrary
  <2>1. /\ local' = [local EXCEPT !.library = "absent"] /\ Queue("library_delete", "absent", 0)
        /\ local.library # "absent" /\ removedOn' = clock
        /\ UNCHANGED <<cloud, changeLog, receipts, effects, tab, cursor, clock, jobs, tangled, sync>>
    BY <1>5 DEF RemoveLibrary, cloudVars
  <2>2. /\ "absent" \in Values /\ local' \in Copies /\ local'["library"] = "absent"
        /\ \A e \in Entities \ {"library"} : local'[e] = local[e]
        /\ "library_delete" \in KindsOf("library") /\ "library" \in Entities
    BY <1>1, <2>1 DEF Values, LibraryValues, Copies, Entities, KindsOf, LibraryEdits
  <2> QED BY <2>1, <2>2, QueueKeeps
<1> QED BY <1>2, <1>3, <1>4, <1>5

-----------------------------------------------------------------------------
(* The synchronisation.                                                    *)

\* A step that only the synchronisation makes.
LEMMA SyncMoves ==
    ASSUME CollectionInv,
           UNCHANGED <<cloud, changeLog, receipts, effects, tab, local, outbox, cursor, nextMutation,
                       clock, jobs, removedOn, tangled>>,
           sync' \in SyncStates, sync'.cursor <= Len(changeLog), SentIsFirst', NothingUnknown', BootstrapLast',
           ~tangled => ReadIsPart' /\ \A t \in Tabs : tab[t].step = "numbered" => sync'.cursor < Len(changeLog)
    PROVE  CollectionInv'
<1>1. /\ CollectionTypes /\ InTurn
      /\ LibraryHolds(cloud, changeLog, Len(effects)) /\ WatchHolds(cloud, changeLog, Len(effects))
      /\ ~tangled => Untangled
  BY DEF CollectionInv
<1>2. CollectionTypes' /\ InTurn'
  BY <1>1 DEF CollectionTypes, InTurn, Dropped, Sound
<1>3. LibraryHolds(cloud, changeLog, Len(effects))' /\ WatchHolds(cloud, changeLog, Len(effects))'
  BY <1>1 DEF LibraryHolds, WatchHolds, Waiting
<1>4. ASSUME ~tangled' PROVE Untangled'
  <2>1. Untangled
    BY <1>1, <1>4
  <2>2. OneTab'
    BY <1>4, <2>1 DEF Untangled, OneTab, Busy, WatchValue
  <2>3. LatestIsTrue(cloud, changeLog)' /\ (\A e \in Entities : Agrees(e, cloud, changeLog, Len(effects)))'
    BY <2>1 DEF Untangled, LatestIsTrue, Agrees, ChangedSince, Written, Waiting, ValueOf, WatchValue, LibraryValue
  <2> QED BY <1>4, <2>2, <2>3 DEF Untangled
<1> QED BY <1>2, <1>3, <1>4 DEF CollectionInv

LEMMA ResetKeeps ==
    ASSUME CollectionInv,
           UNCHANGED <<cloud, changeLog, receipts, effects, tab, local, outbox, cursor, nextMutation,
                       clock, jobs, removedOn, tangled>>,
           sync' \in {NoSync, [NoSync EXCEPT !.step = "refreshed"]}
    PROVE  CollectionInv'
<1>1. /\ CollectionTypes /\ NothingUnknown
      /\ ~tangled => Untangled
  BY DEF CollectionInv
<1>2. /\ sync' \in SyncStates /\ sync'.step \in {"idle", "refreshed"} /\ Len(sync'.sent) = 0 /\ sync'.acknowledged = {}
      /\ Len(sync'.page) = 0 /\ sync'.cursor = 0 /\ ~sync'.bootstrap.there
      /\ sync'.bootstrap["watch"] = "absent" /\ sync'.bootstrap["library"] = "absent"
  BY NoSyncIs
<1>3. Len(changeLog) \in Nat /\ Len(outbox) \in Nat
  BY <1>1 DEF CollectionTypes
<1>4. SentIsFirst' /\ BootstrapLast' /\ ReadIsPart'
  BY <1>2, <1>3 DEF SentIsFirst, HasCommitted, BootstrapLast, ReadIsPart
<1>5. NothingUnknown'
  BY <1>1, <1>2 DEF NothingUnknown, HeardOf, Busy
<1>6. ~tangled => \A t \in Tabs : tab[t].step = "numbered" => sync'.cursor < Len(changeLog)
  BY <1>1, <1>2, <1>3 DEF Untangled, OneTab
<1> QED BY <1>2, <1>3, <1>4, <1>5, <1>6, SyncMoves

LEMMA RefreshKeeps == ASSUME CollectionInv, RefreshLocalProjection PROVE CollectionInv'
<1>1. /\ sync' = [NoSync EXCEPT !.step = "refreshed"]
      /\ UNCHANGED <<cloud, changeLog, receipts, effects, tab, cursor, clock, jobs, removedOn, tangled>>
  BY DEF RefreshLocalProjection, cloudVars
<1>2. CASE UNCHANGED <<local, outbox, nextMutation>>
  BY <1>1, <1>2, ResetKeeps
<1>3. CASE \E time \in jobs : local' = [local EXCEPT !.library = "plain"] /\ Queue("library_upsert", "plain", time)
  <2>1. PICK time \in jobs : local' = [local EXCEPT !.library = "plain"] /\ Queue("library_upsert", "plain", time)
    BY <1>3
  <2>2. local \in Copies /\ time \in Nat
    BY DEF CollectionInv, CollectionTypes
  <2>3. /\ "plain" \in Values /\ local' \in Copies /\ local'["library"] = "plain"
        /\ \A e \in Entities \ {"library"} : local'[e] = local[e]
        /\ "library_upsert" \in KindsOf("library") /\ "library" \in Entities
    BY <2>1, <2>2 DEF Values, LibraryValues, Copies, Entities, KindsOf, LibraryEdits
  <2> QED BY <1>1, <2>1, <2>2, <2>3, QueueKeeps
<1> QED BY <1>2, <1>3 DEF RefreshLocalProjection

LEMMA LoseKeeps == ASSUME CollectionInv, LoseSync PROVE CollectionInv'
<1>1. sync' = NoSync /\ UNCHANGED <<cloud, changeLog, receipts, effects, tab, local, outbox, cursor, nextMutation,
                                    clock, jobs, removedOn, tangled>>
  BY DEF LoseSync, cloudVars, macVars
<1> QED BY <1>1, ResetKeeps

LEMMA SendKeeps == ASSUME CollectionInv, SendOutbox PROVE CollectionInv'
<1>1. /\ sync' = [NoSync EXCEPT !.step = "sent", !.sent = outbox, !.cursor = cursor]
      /\ UNCHANGED <<cloud, changeLog, receipts, effects, tab, local, outbox, cursor, nextMutation,
                     clock, jobs, removedOn, tangled>>
  BY DEF SendOutbox, cloudVars, macVars
<1>2. /\ CollectionTypes /\ NothingUnknown
      /\ ~tangled => Untangled
  BY DEF CollectionInv
<1>3. /\ Len(changeLog) \in Nat /\ Len(outbox) \in Nat /\ outbox \in Seq(Mutations) /\ cursor \in Nat
      /\ cursor <= Len(changeLog)
  BY <1>2 DEF CollectionTypes
<1>4. /\ sync' \in SyncStates /\ sync'.step = "sent" /\ sync'.sent = outbox /\ sync'.acknowledged = {}
      /\ sync'.page = NoSync.page /\ sync'.cursor = cursor /\ sync'.bootstrap = NoSync.bootstrap
  BY <1>1, <1>3, NoSyncIs DEF SyncStates
<1>5. Len(sync'.page) = 0 /\ ~sync'.bootstrap.there /\ sync'.bootstrap["watch"] = "absent" /\ sync'.bootstrap["library"] = "absent"
  BY <1>4, NoSyncIs
<1>6. SentIsFirst' /\ BootstrapLast' /\ ReadIsPart'
  BY <1>1, <1>3, <1>4, <1>5 DEF SentIsFirst, HasCommitted, BootstrapLast, ReadIsPart
<1>7. NothingUnknown'
  BY <1>1, <1>2, <1>5 DEF NothingUnknown, HeardOf, Busy
<1>8. ~tangled => \A t \in Tabs : tab[t].step = "numbered" => sync'.cursor < Len(changeLog)
  BY <1>2, <1>4 DEF Untangled, OneTab
<1> QED BY <1>1, <1>3, <1>4, <1>6, <1>7, <1>8, SyncMoves

LEMMA BootstrapKeeps == ASSUME CollectionInv, ReadBootstrap PROVE CollectionInv'
<1> DEFINE given == [there |-> TRUE, watch |-> WatchValue(cloud), library |-> LibraryValue(cloud)]
<1>1. /\ sync.step = "bootstrap" /\ sync' = [sync EXCEPT !.step = "answered", !.bootstrap = given]
      /\ UNCHANGED <<cloud, changeLog, receipts, effects, tab, local, outbox, cursor, nextMutation,
                     clock, jobs, removedOn, tangled>>
  BY DEF ReadBootstrap, cloudVars, macVars
<1>2. /\ CollectionTypes /\ SentIsFirst /\ NothingUnknown
      /\ ~tangled => Untangled
      /\ WatchHolds(cloud, changeLog, Len(effects))
  BY DEF CollectionInv
<1>3. sync \in SyncStates /\ sync.cursor <= Len(changeLog) /\ cloud \in CollectionRows
  BY <1>2 DEF CollectionTypes
<1>4. /\ given \in [there: BOOLEAN, watch: WatchValues, library: LibraryValues]
      /\ given["watch"] = WatchValue(cloud) /\ given["library"] = LibraryValue(cloud)
      /\ cloud.watch = "absent" => given["watch"] = "absent"
      /\ cloud.library = "absent" => given["library"] = "absent"
  BY <1>3 DEF Values, WatchValues, LibraryValues, WatchValue, LibraryValue, CollectionRows
<1> HIDE DEF given
<1>5. /\ sync' \in SyncStates /\ sync'.step = "answered" /\ sync'.sent = sync.sent /\ sync'.acknowledged = sync.acknowledged
      /\ sync'.page = sync.page /\ sync'.cursor = sync.cursor /\ sync'.bootstrap = given
  BY <1>1, <1>3, <1>4 DEF SyncStates
<1>6. SentIsFirst' /\ BootstrapLast'
  BY <1>1, <1>2, <1>5 DEF SentIsFirst, HasCommitted, BootstrapLast, Dropped
<1>7. NothingUnknown'
  BY <1>1, <1>2, <1>4, <1>5 DEF NothingUnknown, HeardOf, Busy
<1>8. ~tangled => ReadIsPart'
  <2>1. \A e \in Entities : given[e] = ValueOf(e, cloud)
    BY <1>4 DEF Entities, ValueOf
  <2>2. \A e : ValueOf(e, cloud)' = ValueOf(e, cloud)
    BY <1>1 DEF ValueOf, WatchValue, LibraryValue
  <2> QED BY <1>1, <1>2, <1>5, <2>1, <2>2 DEF Untangled, ReadIsPart
<1>9. ~tangled => \A t \in Tabs : tab[t].step = "numbered" => sync'.cursor < Len(changeLog)
  BY <1>2, <1>5 DEF Untangled, OneTab
<1> QED BY <1>1, <1>3, <1>5, <1>6, <1>7, <1>8, <1>9, SyncMoves

\* A page is of changes behind the cursor, and the cursor goes to the last of them.
LEMMA PageIs ==
    ASSUME CollectionTypes, NEW page \in SUBSET Behind(sync.cursor)
    PROVE  /\ page \in SUBSET (1..Len(changeLog))
           /\ \A k \in page : k > sync.cursor /\ k <= Len(changeLog)
           /\ page = {} => NextCursor(page) = sync.cursor
           /\ page # {} => NextCursor(page) \in page /\ \A k \in page : k <= NextCursor(page)
<1>1. sync.cursor \in Nat /\ Len(changeLog) \in Nat
  BY DEF CollectionTypes, SyncStates
<1>2. \A k \in page : k \in 1..Len(changeLog) /\ k > sync.cursor /\ k <= Len(changeLog)
  BY <1>1 DEF Behind
<1>3. ASSUME page # {} PROVE NextCursor(page) \in page /\ \A k \in page : k <= NextCursor(page)
  <2>1. page \in SUBSET (0..Len(changeLog))
    BY <1>2
  <2>2. \E n \in page : \A k \in page : k <= n
    BY <1>1, <1>3, <2>1, HasLargest
  <2> QED BY <1>3, <2>2 DEF NextCursor
<1> QED BY <1>2, <1>3 DEF NextCursor

\* Without tangles a page is a piece of the log.
LEMMA PageIsPiece ==
    ASSUME CollectionTypes, OneTab, sync.cursor = cursor,
           NEW page, page = {n \in Behind(sync.cursor) : FitsPage(n, Behind(sync.cursor))}
    PROVE  /\ NextCursor(page) = cursor + Len(Picked(changeLog, page))
           /\ \A i \in 1..Len(Picked(changeLog, page)) : Picked(changeLog, page)[i] = changeLog[cursor + i]
           /\ \A t \in Tabs : tab[t].step = "numbered" => NextCursor(page) < Len(changeLog)
<1> USE CollectionsAssumption DEF CollectionsAssumption
<1>1. /\ cursor \in Nat /\ Len(changeLog) \in Nat /\ cursor <= Len(changeLog) /\ changeLog \in Seq(Entries)
      /\ \A k \in 1..Len(changeLog) : changeLog[k].visible \in BOOLEAN
  <2>1. changeLog \in Seq(Entries) /\ \A k \in 1..Len(changeLog) : changeLog[k] \in Entries
    BY DEF CollectionTypes
  <2> QED BY <2>1 DEF CollectionTypes, Entries
<1>2. PICK top \in Nat : /\ cursor <= top /\ top <= Len(changeLog)
                         /\ Behind(cursor) = (cursor + 1)..top
                         /\ \A t \in Tabs : tab[t].step = "numbered" => top < Len(changeLog)
  <2>1. CASE \A k \in 1..Len(changeLog) : changeLog[k].visible
    <3>1. \A t \in Tabs : tab[t].step # "numbered"
      <4> SUFFICES ASSUME NEW t \in Tabs, tab[t].step = "numbered" PROVE FALSE
        OBVIOUS
      <4>1. Len(changeLog) \in 1..Len(changeLog) /\ ~changeLog[Len(changeLog)].visible
        BY <1>1 DEF OneTab
      <4> QED BY <2>1, <4>1
    <3>2. \A k \in (cursor + 1)..Len(changeLog) : changeLog[k].visible
      BY <1>1, <2>1
    <3>3. Behind(cursor) = (cursor + 1)..Len(changeLog)
      BY <3>2 DEF Behind
    <3> QED BY <1>1, <3>1, <3>3
  <2>2. CASE \E k \in 1..Len(changeLog) : ~changeLog[k].visible
    <3>1. PICK t \in Tabs : tab[t].step = "numbered"
      BY <2>2 DEF OneTab
    <3>2. cursor < Len(changeLog) /\ ~changeLog[Len(changeLog)].visible
      BY <3>1 DEF OneTab
    <3>3. \A k \in 1..Len(changeLog) : changeLog[k].visible <=> k # Len(changeLog)
      BY <3>2 DEF OneTab
    <3>4. \A k \in (cursor + 1)..Len(changeLog) : k \in 1..Len(changeLog)
      BY <1>1
    <3> DEFINE top == Len(changeLog) - 1
    <3>5. top \in Nat /\ cursor <= top /\ top < Len(changeLog) /\ top <= Len(changeLog)
      BY <1>1, <3>2
    <3>6. \A k : k \in (cursor + 1)..top <=> k \in (cursor + 1)..Len(changeLog) /\ k # Len(changeLog)
      BY <1>1, <3>2
    <3>7. Behind(cursor) = (cursor + 1)..top
      BY <3>3, <3>4, <3>6 DEF Behind
    <3> HIDE DEF top
    <3> QED BY <3>5, <3>7
  <2> QED BY <2>1, <2>2
<1> DEFINE last == IF top <= cursor + PageSize THEN top ELSE cursor + PageSize
<1>3. last \in Nat /\ cursor <= last /\ last <= top
  BY <1>1, <1>2
<1>4. \A n \in Behind(cursor) : FitsPage(n, Behind(cursor)) <=> n <= last
  <2> SUFFICES ASSUME NEW n \in (cursor + 1)..top PROVE FitsPage(n, (cursor + 1)..top) <=> n <= last
    BY <1>2
  <2>1. n \in Nat /\ cursor + 1 <= n /\ n <= top
    BY <1>1, <1>2
  <2>2. {k \in (cursor + 1)..top : k <= n} = (cursor + 1)..n
    BY <1>1, <1>2, <2>1
  <2>3. Cardinality((cursor + 1)..n) = IF cursor + 1 > n THEN 0 ELSE n - (cursor + 1) + 1
    <3>1. cursor + 1 \in Int /\ n \in Int
      BY <1>1, <2>1
    <3> QED BY <3>1, FS_Interval
  <2>4. Cardinality((cursor + 1)..n) = n - cursor
    BY <1>1, <2>1, <2>3
  <2>5. FitsPage(n, (cursor + 1)..top) <=> n - cursor <= PageSize
    BY <2>2, <2>4 DEF FitsPage
  <2> QED BY <1>1, <1>2, <2>1, <2>5
<1> HIDE DEF last
<1>5. page = (cursor + 1)..last
  <2>1. page = {n \in (cursor + 1)..top : n <= last}
    BY <1>2, <1>4
  <2> QED BY <1>1, <1>2, <1>3, <2>1
<1>6. /\ Len(Picked(changeLog, page)) = last - cursor
      /\ \A i \in 1..(last - cursor) : Picked(changeLog, page)[i] = changeLog[cursor + i]
  <2>1. last <= Len(changeLog)
    BY <1>1, <1>2, <1>3
  <2>2. /\ Len(Picked(changeLog, (cursor + 1)..last)) = last - cursor
        /\ \A i \in 1..(last - cursor) : Picked(changeLog, (cursor + 1)..last)[i] = changeLog[cursor + i]
    <3>1. changeLog \in Seq(Entries) /\ cursor \in Nat /\ last \in Nat /\ cursor <= last /\ last <= Len(changeLog)
      BY <1>1, <1>3, <2>1
    <3> QED BY <3>1, PickedRun
  <2> QED BY <1>5, <2>2, Zenon
<1>7. NextCursor(page) = last
  <2>1. page \in SUBSET Behind(sync.cursor)
    OBVIOUS
  <2>2. /\ page = {} => NextCursor(page) = cursor
        /\ page # {} => NextCursor(page) \in page /\ \A k \in page : k <= NextCursor(page)
    BY <2>1, PageIs
  <2>3. CASE page = {}
    <3>1. last = cursor
      BY <1>1, <1>3, <1>5, <2>3
    <3> QED BY <2>2, <2>3, <3>1
  <2>4. CASE page # {}
    <3>1. last \in page
      BY <1>1, <1>3, <1>5, <2>4
    <3>2. \A k \in page : k \in Nat /\ k <= last
      BY <1>1, <1>3, <1>5
    <3>3. NextCursor(page) \in Nat /\ NextCursor(page) <= last /\ last <= NextCursor(page)
      BY <2>2, <2>4, <3>1, <3>2
    <3> QED BY <1>3, <3>3
  <2> QED BY <2>3, <2>4
<1>8. NextCursor(page) = cursor + Len(Picked(changeLog, page))
  BY <1>1, <1>3, <1>6, <1>7
<1>9. \A t \in Tabs : tab[t].step = "numbered" => NextCursor(page) < Len(changeLog)
  BY <1>1, <1>2, <1>3, <1>7
<1> QED BY <1>6, <1>8, <1>9

LEMMA ReadKeeps == ASSUME CollectionInv, ReadChanges PROVE CollectionInv'
<1> DEFINE behind == Behind(sync.cursor)
           page == {n \in behind : FitsPage(n, behind)}
           step == IF sync.cursor = 0 /\ sync.sent = <<>> THEN "bootstrap" ELSE "answered"
<1>1. /\ sync.step = "committed"
      /\ sync' = [sync EXCEPT !.step = step, !.page = Picked(changeLog, page),
                              !.cursor = NextCursor(page), !.more = (page # behind)]
      /\ UNCHANGED <<cloud, changeLog, receipts, effects, tab, local, outbox, cursor, nextMutation,
                     clock, jobs, removedOn, tangled>>
  BY DEF ReadChanges, cloudVars, macVars
<1>2. /\ CollectionTypes /\ SentIsFirst /\ NothingUnknown /\ BootstrapLast
      /\ LibraryHolds(cloud, changeLog, Len(effects)) /\ WatchHolds(cloud, changeLog, Len(effects))
      /\ ~tangled => Untangled
  BY DEF CollectionInv
<1>3. /\ sync \in SyncStates /\ sync.cursor \in Nat /\ sync.cursor <= Len(changeLog)
      /\ changeLog \in Seq(Entries) /\ Len(changeLog) \in Nat
  BY <1>2 DEF CollectionTypes, SyncStates
<1>4. page \in SUBSET behind /\ page = {n \in behind : FitsPage(n, behind)} /\ step \in {"bootstrap", "answered"}
  OBVIOUS
<1> HIDE DEF page, step
<1>5. /\ page \in SUBSET (1..Len(changeLog)) /\ NextCursor(page) \in Nat /\ NextCursor(page) <= Len(changeLog)
  <2>1. /\ page \in SUBSET (1..Len(changeLog))
        /\ page = {} => NextCursor(page) = sync.cursor
        /\ page # {} => NextCursor(page) \in page
    BY <1>2, <1>4, PageIs
  <2>2. CASE page = {}
    BY <1>3, <2>1, <2>2
  <2>3. CASE page # {}
    <3>1. NextCursor(page) \in 1..Len(changeLog)
      BY <2>1, <2>3
    <3> QED BY <1>3, <2>1, <3>1
  <2> QED BY <2>2, <2>3
<1>6. /\ Picked(changeLog, page) \in Seq(Entries)
      /\ \A i \in 1..Len(Picked(changeLog, page)) : \E k \in 1..Len(changeLog) : Picked(changeLog, page)[i] = changeLog[k]
  BY <1>3, <1>5, PickedAreThere
<1>7. /\ sync' \in SyncStates /\ sync'.step = step /\ sync'.sent = sync.sent /\ sync'.acknowledged = sync.acknowledged
      /\ sync'.page = Picked(changeLog, page) /\ sync'.cursor = NextCursor(page) /\ sync'.bootstrap = sync.bootstrap
  BY <1>1, <1>3, <1>4, <1>5, <1>6 DEF SyncStates
<1>8. SentIsFirst' /\ BootstrapLast'
  BY <1>1, <1>2, <1>4, <1>7 DEF SentIsFirst, HasCommitted, BootstrapLast, Dropped
<1>9. NothingUnknown'
  <2>1. ASSUME NEW e \in Entities, \A k \in 1..Len(changeLog) : changeLog[k].entity # e, HeardOf(e)' PROVE HeardOf(e)
    BY <1>6, <1>7, <2>1 DEF HeardOf
  <2>2. cloud.library = "absent" => ~HeardOf("library")'
    BY <1>2, <2>1 DEF NothingUnknown, LibraryHolds, Entities
  <2>3. cloud.watch = "absent" => ~HeardOf("watch")'
    BY <1>2, <2>1 DEF NothingUnknown, WatchHolds, Entities
  <2> QED BY <1>1, <1>2, <2>2, <2>3 DEF NothingUnknown, Busy
<1>10. ASSUME ~tangled
       PROVE  ReadIsPart' /\ \A t \in Tabs : tab[t].step = "numbered" => sync'.cursor < Len(changeLog)
  <2>1. OneTab /\ sync.cursor = cursor
    BY <1>1, <1>2, <1>10 DEF Untangled, ReadIsPart
  <2>2. /\ NextCursor(page) = cursor + Len(Picked(changeLog, page))
        /\ \A i \in 1..Len(Picked(changeLog, page)) : Picked(changeLog, page)[i] = changeLog[cursor + i]
        /\ \A t \in Tabs : tab[t].step = "numbered" => NextCursor(page) < Len(changeLog)
    BY <1>2, <1>4, <2>1, PageIsPiece
  <2>3. ~sync.bootstrap.there
    BY <1>1, <1>2 DEF BootstrapLast
  <2>4. ReadIsPart'
    BY <1>1, <1>4, <1>7, <2>2, <2>3 DEF ReadIsPart
  <2> QED BY <1>7, <2>2, <2>4
<1> QED BY <1>1, <1>5, <1>7, <1>8, <1>9, <1>10, SyncMoves

\* What the Mac shows of an entity after an answer.
LEMMA AfterIs ==
    ASSUME sync \in SyncStates, NEW e, NEW before
    PROVE  \/ \E i \in 1..Len(sync.page) :
                 /\ sync.page[i].entity = e /\ After(e, before) = sync.page[i].value
                 /\ \A j \in 1..Len(sync.page) : sync.page[j].entity = e => j <= i
           \/ /\ \A i \in 1..Len(sync.page) : sync.page[i].entity # e
              /\ After(e, before) = IF sync.bootstrap.there /\ sync.bootstrap[e] # "absent" THEN sync.bootstrap[e] ELSE before
<1> DEFINE mine == {i \in 1..Len(sync.page) : sync.page[i].entity = e}
<1>1. Len(sync.page) \in Nat
  BY DEF SyncStates
<1>2. CASE mine = {}
  BY <1>2 DEF After
<1>3. CASE mine # {}
  <2>1. mine \in SUBSET (0..Len(sync.page))
    <3>1. \A i \in mine : i \in 0..Len(sync.page)
      BY <1>1
    <3> HIDE DEF mine
    <3> QED BY <3>1
  <2>2. \E i \in mine : \A j \in mine : j <= i
    <3> HIDE DEF mine
    <3> QED BY <1>1, <1>3, <2>1, HasLargest
  <2> DEFINE i == CHOOSE i \in mine : \A j \in mine : j <= i
  <2>3. i \in mine /\ \A j \in mine : j <= i
    BY <2>2
  <2>4. After(e, before) = sync.page[i].value
    BY <1>3 DEF After
  <2> HIDE DEF i
  <2> QED BY <2>3, <2>4
<1> QED BY <1>2, <1>3

\* What is left in the outbox.
LEMMA LeftInOutbox ==
    ASSUME CollectionTypes, InTurn, SentIsFirst, HasCommitted,
           outbox' = Picked(outbox, {i \in 1..Len(outbox) : outbox[i].id \notin sync.acknowledged})
    PROVE  /\ outbox' \in Seq(Mutations) /\ Len(outbox') = Len(outbox) - Len(sync.sent)
           /\ \A i \in 1..Len(outbox') : outbox'[i] = outbox[Len(sync.sent) + i]
<1> DEFINE N == Len(sync.sent)
<1>1. /\ outbox \in Seq(Mutations) /\ Len(outbox) \in Nat /\ N \in Nat /\ N <= Len(outbox) /\ Dropped \in Nat
      /\ sync.acknowledged = (Dropped + 1)..(Dropped + N)
      /\ \A i \in 1..Len(outbox) : outbox[i].id = Dropped + i
  <2>1. outbox \in Seq(Mutations) /\ sync.sent \in Seq(Mutations)
    BY DEF CollectionTypes, SyncStates
  <2> QED BY <2>1 DEF InTurn, SentIsFirst
<1> HIDE DEF N
<1>2. \A i \in 1..Len(outbox) : outbox[i].id \notin sync.acknowledged <=> i > N
  BY <1>1
<1>3. {i \in 1..Len(outbox) : outbox[i].id \notin sync.acknowledged} = (N + 1)..Len(outbox)
  <2>1. {i \in 1..Len(outbox) : outbox[i].id \notin sync.acknowledged} = {i \in 1..Len(outbox) : i > N}
    BY <1>2
  <2>2. {i \in 1..Len(outbox) : i > N} = (N + 1)..Len(outbox)
    BY <1>1
  <2> QED BY <2>1, <2>2
<1>4. /\ Picked(outbox, (N + 1)..Len(outbox)) \in Seq(Mutations)
      /\ Len(Picked(outbox, (N + 1)..Len(outbox))) = Len(outbox) - N
      /\ \A i \in 1..(Len(outbox) - N) : Picked(outbox, (N + 1)..Len(outbox))[i] = outbox[N + i]
  <2> DEFINE top == Len(outbox)
  <2>1. outbox \in Seq(Mutations) /\ N \in Nat /\ top \in Nat /\ N <= top /\ top <= Len(outbox)
    BY <1>1
  <2>2. /\ Picked(outbox, (N + 1)..top) \in Seq(Mutations)
        /\ Len(Picked(outbox, (N + 1)..top)) = top - N
        /\ \A i \in 1..(top - N) : Picked(outbox, (N + 1)..top)[i] = outbox[N + i]
    <3> HIDE DEF top
    <3> QED BY <2>1, PickedRun
  <2> QED BY <2>2
<1>5. outbox' = Picked(outbox, (N + 1)..Len(outbox))
  BY <1>3
<1>6. outbox' \in Seq(Mutations) /\ Len(outbox') = Len(outbox) - N
      /\ \A i \in 1..(Len(outbox) - N) : outbox'[i] = outbox[N + i]
  BY <1>4, <1>5, Zenon
<1> QED BY <1>6 DEF N

LEMMA ApplyKeeps == ASSUME CollectionInv, ApplyChanges PROVE CollectionInv'
<1> DEFINE N == Len(sync.sent)
<1>1. /\ sync.step = "answered"
      /\ local' = [watch |-> After("watch", local.watch), library |-> After("library", local.library)]
      /\ outbox' = Picked(outbox, {i \in 1..Len(outbox) : outbox[i].id \notin sync.acknowledged})
      /\ cursor' = sync.cursor
      /\ sync' \in {NoSync, [NoSync EXCEPT !.step = "refreshed"]}
      /\ UNCHANGED <<cloud, changeLog, receipts, effects, tab, nextMutation, clock, jobs, removedOn, tangled>>
  BY DEF ApplyChanges, cloudVars
<1>2. /\ CollectionTypes /\ InTurn /\ SentIsFirst /\ NothingUnknown /\ HasCommitted
      /\ LibraryHolds(cloud, changeLog, Len(effects)) /\ WatchHolds(cloud, changeLog, Len(effects))
      /\ ~tangled => Untangled
  BY <1>1 DEF CollectionInv, HasCommitted
<1>3. /\ sync \in SyncStates /\ sync.cursor \in Nat /\ sync.cursor <= Len(changeLog) /\ local \in Copies
      /\ Len(changeLog) \in Nat /\ Len(effects) \in Nat /\ N \in Nat /\ N <= Len(outbox) /\ Len(outbox) \in Nat
      /\ Dropped \in Nat /\ nextMutation \in Nat /\ changeLog \in Seq(Entries) /\ Dropped + N <= Len(effects)
      /\ Dropped + Len(outbox) = nextMutation - 1 /\ cursor \in Nat
  <2>1. /\ sync \in SyncStates /\ sync.cursor <= Len(changeLog) /\ local \in Copies /\ changeLog \in Seq(Entries)
        /\ effects \in Seq(Nat) /\ outbox \in Seq(Mutations) /\ nextMutation \in Nat /\ cursor \in Nat
    BY <1>2 DEF CollectionTypes
  <2>2. sync.sent \in Seq(Mutations) /\ sync.cursor \in Nat
    BY <2>1 DEF SyncStates
  <2>3. Len(outbox) \in Nat /\ Len(effects) \in Nat /\ N \in Nat /\ Len(changeLog) \in Nat
    BY <2>1, <2>2
  <2> QED BY <1>2, <2>1, <2>2, <2>3 DEF InTurn, SentIsFirst, Dropped
<1>4. /\ outbox' \in Seq(Mutations) /\ Len(outbox') = Len(outbox) - N
      /\ \A i \in 1..Len(outbox') : outbox'[i] = outbox[N + i]
  BY <1>1, <1>2, LeftInOutbox
<1> HIDE DEF N
<1>5. /\ sync' \in SyncStates /\ sync'.step \in {"idle", "refreshed"} /\ Len(sync'.sent) = 0 /\ sync'.acknowledged = {}
      /\ Len(sync'.page) = 0 /\ sync'.cursor = 0 /\ ~sync'.bootstrap.there
      /\ sync'.bootstrap["watch"] = "absent" /\ sync'.bootstrap["library"] = "absent"
  BY <1>1, NoSyncIs
<1>6. \A e \in Entities :
        \/ \E i \in 1..Len(sync.page) :
              /\ sync.page[i].entity = e /\ local'[e] = sync.page[i].value
              /\ \A j \in 1..Len(sync.page) : sync.page[j].entity = e => j <= i
        \/ /\ \A i \in 1..Len(sync.page) : sync.page[i].entity # e
           /\ local'[e] = IF sync.bootstrap.there /\ sync.bootstrap[e] # "absent" THEN sync.bootstrap[e] ELSE local[e]
  <2>1. /\ local'["watch"] = After("watch", local["watch"]) /\ local'["library"] = After("library", local["library"])
    BY <1>1
  <2> SUFFICES ASSUME NEW e \in Entities
               PROVE  \/ \E i \in 1..Len(sync.page) :
                            /\ sync.page[i].entity = e /\ local'[e] = sync.page[i].value
                            /\ \A j \in 1..Len(sync.page) : sync.page[j].entity = e => j <= i
                      \/ /\ \A i \in 1..Len(sync.page) : sync.page[i].entity # e
                         /\ local'[e] = IF sync.bootstrap.there /\ sync.bootstrap[e] # "absent"
                                        THEN sync.bootstrap[e] ELSE local[e]
    OBVIOUS
  <2>2. local'[e] = After(e, local[e])
    BY <2>1 DEF Entities
  <2>3. \/ \E i \in 1..Len(sync.page) :
             /\ sync.page[i].entity = e /\ After(e, local[e]) = sync.page[i].value
             /\ \A j \in 1..Len(sync.page) : sync.page[j].entity = e => j <= i
        \/ /\ \A i \in 1..Len(sync.page) : sync.page[i].entity # e
           /\ After(e, local[e]) = IF sync.bootstrap.there /\ sync.bootstrap[e] # "absent"
                                  THEN sync.bootstrap[e] ELSE local[e]
    BY <1>3, AfterIs
  <2> QED BY <2>2, <2>3
<1>7. local' \in Copies /\ local'["watch"] = local'.watch /\ local'["library"] = local'.library
      /\ local["watch"] = local.watch /\ local["library"] = local.library
  <2>1. \A i \in 1..Len(sync.page) : sync.page[i].value \in ValuesOf(sync.page[i].entity)
    <3>1. \A i \in 1..Len(sync.page) : sync.page[i] \in Entries
      BY <1>3 DEF SyncStates
    <3> QED BY <3>1, EntryIs
  <2>2. \A e \in Entities : sync.bootstrap[e] \in ValuesOf(e) /\ local[e] \in ValuesOf(e)
    BY <1>3 DEF Entities, SyncStates, Copies, ValuesOf
  <2>3. \A e \in Entities : local'[e] \in ValuesOf(e)
    BY <1>6, <2>1, <2>2
  <2>4. local' = [watch |-> local'["watch"], library |-> local'["library"]]
    BY <1>1
  <2>5. local'["watch"] \in WatchValues /\ local'["library"] \in LibraryValues
    BY <2>3 DEF Entities, ValuesOf
  <2> QED BY <1>1, <2>4, <2>5 DEF Copies
<1>8. CollectionTypes'
  <2>1. cursor' \in 0..Len(changeLog') /\ sync'.cursor <= Len(changeLog')
    BY <1>1, <1>3, <1>5
  <2> QED BY <1>1, <1>2, <1>4, <1>5, <1>7, <2>1 DEF CollectionTypes
<1>9. Dropped' = Dropped + N /\ Dropped' \in 0..Len(effects)
  <2>1. nextMutation' = nextMutation /\ Len(outbox') = Len(outbox) - N
    BY <1>1, <1>4
  <2>2. Dropped' = Dropped + N
    BY <1>3, <2>1 DEF Dropped
  <2> QED BY <1>3, <2>2
<1>10. \A i \in 1..Len(outbox') : N + i \in 1..Len(outbox) /\ outbox'[i] = outbox[N + i]
  <2>1. \A m \in 1..(Len(outbox) - N) : N + m \in 1..Len(outbox)
    BY <1>3
  <2> QED BY <1>4, <2>1
<1>11. \A i \in 1..Len(outbox) : outbox[i].id > Len(effects) => i > N /\ i - N \in 1..Len(outbox') /\ outbox'[i - N] = outbox[i]
  <2> SUFFICES ASSUME NEW i \in 1..Len(outbox), outbox[i].id > Len(effects)
               PROVE  i > N /\ i - N \in 1..Len(outbox') /\ outbox'[i - N] = outbox[i]
    OBVIOUS
  <2>1. outbox[i].id = Dropped + i
    BY <1>2 DEF InTurn
  <2>2. i > N /\ i - N \in 1..Len(outbox') /\ N + (i - N) = i
    BY <1>3, <1>4, <2>1
  <2> QED BY <1>10, <2>2
<1>12. InTurn'
  <2>1. (\A i \in 1..Len(outbox) : outbox[i].id = Dropped + i /\ Sound(outbox[i]))'
    <3> SUFFICES ASSUME NEW i \in 1..Len(outbox') PROVE outbox'[i].id = Dropped' + i /\ Sound(outbox'[i])
      BY <1>1 DEF Sound
    <3>1. outbox[N + i].id = Dropped + (N + i) /\ Sound(outbox[N + i])
      BY <1>2, <1>10 DEF InTurn
    <3> QED BY <1>3, <1>9, <1>10, <3>1
  <2> QED BY <1>1, <1>2, <1>9, <2>1 DEF InTurn
<1>13. SentIsFirst'
  BY <1>3, <1>4, <1>5 DEF SentIsFirst, HasCommitted
<1>14. \A kinds : Waiting(Len(effects), kinds)' <=> Waiting(Len(effects), kinds)
  <2> SUFFICES ASSUME NEW kinds PROVE Waiting(Len(effects), kinds)' <=> Waiting(Len(effects), kinds)
    OBVIOUS
  <2>1. ASSUME Waiting(Len(effects), kinds) PROVE Waiting(Len(effects), kinds)'
    BY <1>1, <1>11, <2>1 DEF Waiting
  <2>2. ASSUME Waiting(Len(effects), kinds)' PROVE Waiting(Len(effects), kinds)
    BY <1>1, <1>10, <2>2 DEF Waiting
  <2> QED BY <2>1, <2>2
<1>15. LibraryHolds(cloud, changeLog, Len(effects))'
  <2>1. ASSUME cloud.library = "absent"
        PROVE  /\ local'.library # "absent" => Waiting(Len(effects), {"library_upsert"})'
               /\ \A i \in 1..Len(outbox') : outbox'[i].id > Len(effects) /\ outbox'[i].kind = "library_delete" =>
                     \E j \in 1..(i - 1) : outbox'[j].id > Len(effects) /\ outbox'[j].kind = "library_upsert"
    <3>1. local'.library = local.library
      BY <1>2, <1>6, <1>7, <2>1 DEF NothingUnknown, HeardOf, Entities
    <3>2. local'.library # "absent" => Waiting(Len(effects), {"library_upsert"})'
      BY <1>2, <1>14, <2>1, <3>1 DEF LibraryHolds
    <3>3. ASSUME NEW i \in 1..Len(outbox'), outbox'[i].id > Len(effects), outbox'[i].kind = "library_delete"
          PROVE  \E j \in 1..(i - 1) : outbox'[j].id > Len(effects) /\ outbox'[j].kind = "library_upsert"
      <4>1. PICK j \in 1..(N + i - 1) : outbox[j].id > Len(effects) /\ outbox[j].kind = "library_upsert"
        <5>1. /\ N + i \in 1..Len(outbox)
              /\ outbox[N + i].id > Len(effects) /\ outbox[N + i].kind = "library_delete"
          BY <1>10, <3>3
        <5>2. \A n \in 1..Len(outbox) : outbox[n].id > Len(effects) /\ outbox[n].kind = "library_delete" =>
                 \E j \in 1..(n - 1) : outbox[j].id > Len(effects) /\ outbox[j].kind = "library_upsert"
          BY <1>2, <2>1 DEF LibraryHolds
        <5> DEFINE n == N + i
        <5>3. n \in 1..Len(outbox) /\ outbox[n].id > Len(effects) /\ outbox[n].kind = "library_delete"
          BY <5>1
        <5>4. \E j \in 1..(n - 1) : outbox[j].id > Len(effects) /\ outbox[j].kind = "library_upsert"
          <6> HIDE DEF n
          <6> QED BY <5>2, <5>3
        <5>5. \A j \in 1..(n - 1) : j \in 1..(N + i - 1)
          BY <1>3, <5>1
        <5> QED BY <5>4, <5>5
      <4>2. j \in 1..Len(outbox) /\ i \in Nat /\ N + i <= Len(outbox)
        BY <1>3, <1>10
      <4>3. j > N /\ outbox'[j - N] = outbox[j]
        BY <1>11, <4>1, <4>2
      <4>4. j - N \in 1..(i - 1)
        BY <1>3, <4>2, <4>3
      <4> QED BY <4>1, <4>3, <4>4
    <3> QED BY <3>2, <3>3
  <2> QED BY <1>1, <1>2, <1>14, <2>1 DEF LibraryHolds
<1>16. WatchHolds(cloud, changeLog, Len(effects))'
  <2> SUFFICES ASSUME cloud.watch = "absent"
      PROVE  /\ \A i \in 1..Len(outbox') :
                   /\ outbox'[i].id > Len(effects) /\ outbox'[i].kind \in WatchKinds
                   /\ \A j \in (i + 1)..Len(outbox') : outbox'[j].kind \notin WatchKinds
                   => local'.watch = outbox'[i].value
             /\ ~Waiting(Len(effects), WatchKinds)' => local'.watch = "absent"
    BY <1>1, <1>2 DEF WatchHolds
  <2>1. local'.watch = local.watch
    BY <1>2, <1>6, <1>7 DEF NothingUnknown, HeardOf, Entities
  <2>2. ASSUME NEW i \in 1..Len(outbox'), outbox'[i].id > Len(effects), outbox'[i].kind \in WatchKinds,
               \A j \in (i + 1)..Len(outbox') : outbox'[j].kind \notin WatchKinds
        PROVE  local'.watch = outbox'[i].value
    <3>1. \A j \in (N + i + 1)..Len(outbox) : outbox[j].kind \notin WatchKinds
      <4> SUFFICES ASSUME NEW j \in (N + i + 1)..Len(outbox) PROVE outbox[j].kind \notin WatchKinds
        OBVIOUS
      <4>1. j - N \in (i + 1)..Len(outbox') /\ j - N \in 1..Len(outbox') /\ N + (j - N) = j
        BY <1>3, <1>4
      <4> QED BY <1>10, <2>2, <4>1
    <3> QED BY <1>2, <1>10, <2>1, <2>2, <3>1 DEF WatchHolds
  <2> QED BY <1>2, <1>14, <2>1, <2>2 DEF WatchHolds
<1>17. NothingUnknown' /\ BootstrapLast'
  BY <1>1, <1>2, <1>5 DEF NothingUnknown, BootstrapLast, HeardOf, Busy
<1>18. ASSUME ~tangled' PROVE Untangled'
  <2>1. Untangled
    BY <1>1, <1>2, <1>18
  <2>2. OneTab'
    BY <1>1, <1>3, <1>5, <2>1 DEF Untangled, OneTab, Busy, WatchValue
  <2>3. ReadIsPart'
    BY <1>5 DEF ReadIsPart
  <2>4. LatestIsTrue(cloud, changeLog)'
    BY <1>1, <2>1 DEF Untangled, LatestIsTrue, ChangedSince, Written, ValueOf, WatchValue, LibraryValue
  <2>5. ASSUME NEW e \in Entities PROVE Agrees(e, cloud, changeLog, Len(effects))'
    <3>0. ValueOf(e, cloud)' = ValueOf(e, cloud) /\ (Written(e)' <=> Written(e))
      BY <1>1 DEF ValueOf, WatchValue, LibraryValue, Written
    <3> SUFFICES ASSUME ~ChangedSince(changeLog, sync.cursor, e), ~Waiting(Len(effects), KindsOf(e)), ~Written(e),
                        e = "library" => cloud.library = "there"
                 PROVE  local'[e] = ValueOf(e, cloud)
      BY <1>1, <1>14, <3>0 DEF Agrees, ChangedSince
    <3>1. /\ sync.cursor = cursor + Len(sync.page) /\ Len(sync.page) \in Nat
          /\ \A i \in 1..Len(sync.page) : sync.page[i] = changeLog[cursor + i] /\ cursor + i \in 1..Len(changeLog)
      <4>1. /\ sync.cursor = cursor + Len(sync.page)
            /\ \A i \in 1..Len(sync.page) : sync.page[i] = changeLog[cursor + i]
        BY <1>1, <2>1 DEF Untangled, ReadIsPart
      <4>2. Len(sync.page) \in Nat
        BY <1>3 DEF SyncStates
      <4> QED BY <1>3, <4>1, <4>2
    <3>2. ASSUME NEW i \in 1..Len(sync.page), sync.page[i].entity = e, local'[e] = sync.page[i].value,
                 \A j \in 1..Len(sync.page) : sync.page[j].entity = e => j <= i
          PROVE  local'[e] = ValueOf(e, cloud)
      <4>1. ~ChangedSince(changeLog, cursor + i, e)
        <5> SUFFICES ASSUME NEW k \in (cursor + i + 1)..Len(changeLog), changeLog[k].entity = e PROVE FALSE
          BY DEF ChangedSince
        <5>1. CASE k > sync.cursor
          <6>1. k \in (sync.cursor + 1)..Len(changeLog)
            BY <1>3, <3>1, <5>1
          <6> QED BY <6>1 DEF ChangedSince
        <5>2. CASE k <= sync.cursor
          <6>1. k - cursor \in 1..Len(sync.page) /\ cursor + (k - cursor) = k /\ ~(k - cursor <= i)
            BY <1>3, <3>1, <5>2
          <6> QED BY <3>1, <3>2, <6>1
        <5> QED BY <1>3, <5>1, <5>2
      <4>2. changeLog[cursor + i].entity = e /\ changeLog[cursor + i].value = local'[e] /\ cursor + i \in 1..Len(changeLog)
        BY <3>1, <3>2
      <4> QED BY <2>1, <4>1, <4>2 DEF Untangled, LatestIsTrue
    <3>3. ASSUME \A i \in 1..Len(sync.page) : sync.page[i].entity # e,
                 local'[e] = IF sync.bootstrap.there /\ sync.bootstrap[e] # "absent" THEN sync.bootstrap[e] ELSE local[e]
          PROVE  local'[e] = ValueOf(e, cloud)
      <4>1. CASE sync.bootstrap.there /\ sync.bootstrap[e] # "absent"
        BY <2>1, <3>3, <4>1 DEF Untangled, ReadIsPart
      <4>2. CASE ~(sync.bootstrap.there /\ sync.bootstrap[e] # "absent")
        <5>1. ~ChangedSince(changeLog, cursor, e)
          <6> SUFFICES ASSUME NEW k \in (cursor + 1)..Len(changeLog), changeLog[k].entity = e PROVE FALSE
            BY DEF ChangedSince
          <6>1. CASE k > sync.cursor
            <7>1. k \in (sync.cursor + 1)..Len(changeLog)
              BY <1>3, <6>1
            <7> QED BY <7>1 DEF ChangedSince
          <6>2. CASE k <= sync.cursor
            <7>1. k - cursor \in 1..Len(sync.page) /\ cursor + (k - cursor) = k
              BY <1>3, <3>1, <6>2
            <7> QED BY <3>1, <3>3, <7>1
          <6> QED BY <1>3, <6>1, <6>2
        <5> QED BY <2>1, <3>3, <4>2, <5>1 DEF Untangled, Agrees
      <4> QED BY <4>1, <4>2
    <3> QED BY <1>6, <3>2, <3>3
  <2> QED BY <2>2, <2>3, <2>4, <2>5 DEF Untangled
<1> QED BY <1>8, <1>12, <1>13, <1>15, <1>16, <1>17, <1>18 DEF CollectionInv

-----------------------------------------------------------------------------
(* The theorem.                                                            *)

LEMMA CollectionStep == CollectionInv /\ [CollectionNext]_collectionVars => CollectionInv'
<1> SUFFICES ASSUME CollectionInv, [CollectionNext]_collectionVars PROVE CollectionInv'
  OBVIOUS
<1>1. CASE UNCHANGED collectionVars
  <2>1. UNCHANGED <<cloud, changeLog, receipts, effects, tab, local, outbox, cursor, nextMutation,
                    clock, jobs, removedOn, tangled, sync>>
    BY <1>1 DEF collectionVars
  <2>2. /\ sync \in SyncStates /\ sync.cursor <= Len(changeLog) /\ SentIsFirst /\ NothingUnknown /\ BootstrapLast
        /\ ~tangled => Untangled
    BY DEF CollectionInv, CollectionTypes
  <2>3. /\ sync' \in SyncStates /\ sync'.cursor <= Len(changeLog) /\ SentIsFirst' /\ NothingUnknown' /\ BootstrapLast'
    BY <2>1, <2>2 DEF SentIsFirst, NothingUnknown, BootstrapLast, HasCommitted, Dropped, HeardOf, Busy
  <2>4. ~tangled => ReadIsPart' /\ \A t \in Tabs : tab[t].step = "numbered" => sync'.cursor < Len(changeLog)
    BY <2>1, <2>2 DEF Untangled, OneTab, ReadIsPart, ChangedSince, Written, ValueOf, WatchValue, LibraryValue
  <2> QED BY <2>1, <2>3, <2>4, SyncMoves
<1>2. ASSUME NEW t \in Tabs, WriteWatchlist(t) \/ NumberChange(t) \/ CommitChange(t) \/ AbandonWrite(t)
      PROVE  CollectionInv'
  BY <1>2, WriteKeeps, NumberKeeps, CommitKeeps, AbandonKeeps
<1>3. CASE SaveWatchlist \/ RemoveWatchlist \/ OrganizeLibrary \/ RemoveLibrary \/ DownloadCompletes
  BY <1>3, EditsKeep, DownloadKeeps
<1>4. CASE CollectionLoop \/ LoseSync
  BY <1>4, RefreshKeeps, SendKeeps, MutationsKeep, ReadKeeps, BootstrapKeeps, ApplyKeeps, LoseKeeps DEF CollectionLoop
<1> QED BY <1>1, <1>2, <1>3, <1>4 DEF CollectionNext

\* CollectionsAgree: no mutation takes effect twice, quiet copies agree unless browser writes
\* were tangled, and what the user removed is only back with a later download.
THEOREM CollectionsStayTrue == CollectionSpec => []CollectionsAgree
<1>1. CollectionInv => CollectionsAgree
  <2> SUFFICES ASSUME CollectionInv PROVE CollectionsAgree
    OBVIOUS
  <2>1. /\ CollectionTypes /\ InTurn /\ LibraryHolds(cloud, changeLog, Len(effects))
        /\ ~tangled => Untangled
    BY DEF CollectionInv
  <2>2. MutationsApplyOnce
    <3>1. Len(effects) \in Nat /\ receipts = 1..Len(effects)
      BY <2>1 DEF CollectionTypes, InTurn
    <3>2. Cardinality(1..Len(effects)) = Len(effects)
      <4>1. 1 \in Int /\ Len(effects) \in Int
        BY <3>1
      <4>2. Cardinality(1..Len(effects)) = IF 1 > Len(effects) THEN 0 ELSE Len(effects) - 1 + 1
        BY <4>1, FS_Interval
      <4> QED BY <3>1, <4>2
    <3> QED BY <3>1, <3>2 DEF MutationsApplyOnce
  <2>3. QuietCopiesAgree
    <3> SUFFICES ASSUME IsQuiet, ~tangled
                 PROVE  /\ local.watch = WatchValue(cloud)
                        /\ cloud.library = "there" => local.library = LibraryValue(cloud)
      BY DEF QuietCopiesAgree
    <3>0. /\ changeLog \in Seq(Entries) /\ cursor \in 0..Len(changeLog) /\ local \in Copies
          /\ outbox = <<>> /\ Behind(cursor) = {} /\ \A t \in Tabs : ~Busy(t)
      BY <2>1 DEF CollectionTypes, IsQuiet
    <3>1. \A done, kinds : ~Waiting(done, kinds)
      BY <3>0 DEF Waiting
    <3>2. \A e : ~Written(e)
      BY <3>0 DEF Written, Busy
    <3>3. \A e : ~ChangedSince(changeLog, cursor, e)
      <4>1. \A k \in 1..Len(changeLog) : changeLog[k].visible
        BY <2>1, <3>0 DEF Untangled, OneTab, Busy
      <4>2. \A k \in (cursor + 1)..Len(changeLog) : k \in 1..Len(changeLog)
        BY <3>0
      <4>3. \A k \in (cursor + 1)..Len(changeLog) : k \in Behind(cursor)
        BY <4>1, <4>2 DEF Behind
      <4> QED BY <3>0, <4>3 DEF ChangedSince
    <3>4. Agrees("watch", cloud, changeLog, Len(effects)) /\ Agrees("library", cloud, changeLog, Len(effects))
      BY <2>1 DEF Untangled, Entities
    <3>5. local["watch"] = WatchValue(cloud) /\ (cloud.library = "there" => local["library"] = LibraryValue(cloud))
      BY <3>1, <3>2, <3>3, <3>4 DEF Agrees, ValueOf
    <3> QED BY <3>0, <3>5
  <2>4. RemovedIsNotRevived
    <3> SUFFICES ASSUME cloud.library = "there", \A i \in 1..Len(outbox) : outbox[i].kind # "library_delete"
                 PROVE  \E time \in jobs : time > removedOn \/ removedOn = 0
      BY DEF RemovedIsNotRevived
    <3>1. ~Waiting(Len(effects), {"library_delete"})
      BY DEF Waiting
    <3> QED BY <2>1, <3>1 DEF LibraryHolds
  <2> QED BY <2>2, <2>3, <2>4 DEF CollectionsAgree
<1> QED BY <1>1, CollectionStarts, CollectionStep, PTL DEF CollectionSpec

\* What a synchronisation has heard is behind the cursor of the Mac, and logged.
HeardIsLogged ==
    /\ sync.step \in {"sent", "committed"} => sync.cursor = cursor
    /\ sync.step \in {"bootstrap", "answered"} =>
          /\ cursor <= sync.cursor
          /\ \A i \in 1..Len(sync.page) : \E k \in (cursor + 1)..sync.cursor :
                changeLog[k].entity = sync.page[i].entity /\ changeLog[k].value = sync.page[i].value

\* Each edit is a mutation.  The first download that is put into the library is another; and
\* so are those put back after a removal: once when the user removed the item on the Mac, and
\* once when the Mac hears that the account removed it.
FewMutations ==
    nextMutation + Owed(changeLog, Len(effects)) + (IF local.library = "absent" THEN 1 ELSE 0) <= 2 + 3 * edits

CollectionBounds ==
    /\ clock <= MaxClock /\ edits \in 0..MaxEdits /\ syncLosses \in 0..MaxSyncLosses
    /\ Len(sync.page) <= PageSize
    /\ HeardIsLogged /\ FewMutations

LEMMA BoundsStart == CollectionInit => CollectionBounds
<1> SUFFICES ASSUME CollectionInit PROVE CollectionBounds
  OBVIOUS
<1> USE CollectionsAssumption DEF CollectionsAssumption
<1>1. /\ changeLog = <<>> /\ effects = <<>> /\ outbox = <<>> /\ sync = NoSync /\ nextMutation = 1 /\ cursor = 0
      /\ local.library = "absent" /\ clock = 0 /\ edits = 0 /\ syncLosses = 0
  BY DEF CollectionInit
<1>2. Len(changeLog) = 0 /\ Len(effects) = 0 /\ Len(outbox) = 0 /\ sync.step = "idle" /\ Len(sync.page) = 0
  <2>1. Len(changeLog) = 0 /\ Len(effects) = 0 /\ Len(outbox) = 0
    BY <1>1
  <2>2. NoSync.step = "idle" /\ Len(NoSync.page) = 0
    BY DEF NoSync
  <2> QED BY <1>1, <2>1, <2>2
<1>3. Owed(changeLog, Len(effects)) = 0
  <2>1. DeletesOwed(Len(effects)) = {} /\ AbsentBeyond(changeLog) = {}
    BY <1>1, <1>2 DEF DeletesOwed, AbsentBeyond
  <2> QED BY <2>1, FS_EmptySet DEF Owed
<1> QED BY <1>1, <1>2, <1>3 DEF CollectionBounds, HeardIsLogged, FewMutations

\* A log whose new entries are not about a removed library item.
LEMMA SameOwed ==
    ASSUME CollectionTypes, UNCHANGED <<cursor, outbox, nextMutation>>, NEW done,
           Len(changeLog') \in Nat, Len(changeLog) <= Len(changeLog'),
           \A k \in 1..Len(changeLog) : changeLog'[k].entity = changeLog[k].entity /\ changeLog'[k].value = changeLog[k].value,
           \A k \in 1..Len(changeLog') : k > Len(changeLog) => changeLog'[k].entity # "library"
    PROVE  Owed(changeLog, done)' = Owed(changeLog, done')
<1>1. cursor \in Nat /\ Len(changeLog) \in Nat
  BY DEF CollectionTypes
<1>2. AbsentBeyond(changeLog)' = AbsentBeyond(changeLog)
  <2>1. ASSUME NEW k \in AbsentBeyond(changeLog)' PROVE k \in AbsentBeyond(changeLog)
    <3>1. /\ k \in (cursor + 1)..Len(changeLog') /\ k \in 1..Len(changeLog')
          /\ changeLog'[k].entity = "library" /\ changeLog'[k].value = "absent"
      BY <1>1, <2>1 DEF AbsentBeyond
    <3>2. k \in 1..Len(changeLog)
      BY <1>1, <3>1
    <3> QED BY <1>1, <3>1, <3>2 DEF AbsentBeyond
  <2>2. ASSUME NEW k \in AbsentBeyond(changeLog) PROVE k \in AbsentBeyond(changeLog)'
    <3>1. /\ k \in (cursor + 1)..Len(changeLog) /\ k \in 1..Len(changeLog)
          /\ changeLog[k].entity = "library" /\ changeLog[k].value = "absent"
      BY <1>1, <2>2 DEF AbsentBeyond
    <3> QED BY <1>1, <3>1 DEF AbsentBeyond
  <2> QED BY <2>1, <2>2
<1>3. DeletesOwed(done)' = DeletesOwed(done')
  BY DEF DeletesOwed
<1> QED BY <1>2, <1>3 DEF Owed

\* The outbox grows by a mutation.
LEMMA QueueOwes ==
    ASSUME CollectionInv, NEW kind \in WatchKinds \cup LibraryEdits, NEW value, NEW time, Queue(kind, value, time),
           UNCHANGED <<changeLog, effects, cursor>>
    PROVE  /\ nextMutation' = nextMutation + 1
           /\ Owed(changeLog, Len(effects))' <= Owed(changeLog, Len(effects)) + (IF kind = "library_delete" THEN 1 ELSE 0)
           /\ Owed(changeLog, Len(effects)) \in Nat /\ Owed(changeLog, Len(effects))' \in Nat
<1> DEFINE m == [id |-> nextMutation, kind |-> kind, value |-> value, completedAt |-> time]
           done == Len(effects)
<1>1. /\ outbox \in Seq(Mutations) /\ Len(outbox) \in Nat /\ nextMutation \in Nat /\ Len(effects) \in Nat
      /\ changeLog \in Seq(Entries) /\ CollectionTypes /\ done' = done /\ done < nextMutation
  BY DEF CollectionInv, CollectionTypes, InTurn
<1>2. outbox' = Append(outbox, m) /\ nextMutation' = nextMutation + 1 /\ m.id = nextMutation /\ m.kind = kind
  BY DEF Queue
<1> HIDE DEF m
<1>3. Len(outbox') = Len(outbox) + 1 /\ outbox'[Len(outbox) + 1] = m /\ \A i \in 1..Len(outbox) : outbox'[i] = outbox[i]
  BY <1>1, <1>2
<1>4. AbsentBeyond(changeLog)' = AbsentBeyond(changeLog)
  BY DEF AbsentBeyond
<1>5. /\ IsFiniteSet(DeletesOwed(done)) /\ Cardinality(DeletesOwed(done)) \in Nat
      /\ Cardinality(AbsentBeyond(changeLog)) \in Nat /\ Owed(changeLog, done) \in Nat
  BY <1>1, OwedIs
<1>6. DeletesOwed(done)' \subseteq DeletesOwed(done) \cup (IF kind = "library_delete" THEN {nextMutation} ELSE {})
  <2> SUFFICES ASSUME NEW n \in DeletesOwed(done)'
               PROVE  n \in DeletesOwed(done) \cup (IF kind = "library_delete" THEN {nextMutation} ELSE {})
    OBVIOUS
  <2>1. PICK i \in 1..Len(outbox') : outbox'[i].id = n /\ outbox'[i].kind = "library_delete"
    BY DEF DeletesOwed
  <2>2. n \in (done + 1)..nextMutation
    <3>1. n \in (done + 1)..(nextMutation' - 1)
      BY <1>1 DEF DeletesOwed
    <3> QED BY <1>1, <1>2, <3>1
  <2>3. CASE i = Len(outbox) + 1
    BY <1>2, <1>3, <2>1, <2>3
  <2>4. CASE i \in 1..Len(outbox)
    <3>1. outbox[i].id = n /\ outbox[i].kind = "library_delete"
      BY <1>3, <2>1, <2>4
    <3>2. n \in Nat /\ n < nextMutation
      <4>1. n = Dropped + i /\ Dropped = nextMutation - 1 - Len(outbox)
        BY <2>4, <3>1 DEF CollectionInv, InTurn, Dropped
      <4> QED BY <1>1, <2>2, <2>4, <4>1
    <3> QED BY <1>1, <2>2, <2>4, <3>1, <3>2 DEF DeletesOwed
  <2> QED BY <1>1, <1>3, <2>3, <2>4
<1>7. Cardinality(DeletesOwed(done)') <= Cardinality(DeletesOwed(done)) + (IF kind = "library_delete" THEN 1 ELSE 0)
      /\ Cardinality(DeletesOwed(done)') \in Nat
  <2>1. CASE kind = "library_delete"
    <3>1. /\ IsFiniteSet(DeletesOwed(done) \cup {nextMutation})
          /\ \/ Cardinality(DeletesOwed(done) \cup {nextMutation}) = Cardinality(DeletesOwed(done))
             \/ Cardinality(DeletesOwed(done) \cup {nextMutation}) = Cardinality(DeletesOwed(done)) + 1
      BY <1>5, FS_AddElement
    <3>2. /\ Cardinality(DeletesOwed(done)') <= Cardinality(DeletesOwed(done) \cup {nextMutation})
          /\ IsFiniteSet(DeletesOwed(done)')
      BY <1>6, <2>1, <3>1, FS_Subset
    <3>3. Cardinality(DeletesOwed(done)') \in Nat
      BY <3>2, FS_CardinalityType
    <3> QED BY <1>5, <2>1, <3>1, <3>2, <3>3
  <2>2. CASE kind # "library_delete"
    <3>1. DeletesOwed(done)' \subseteq DeletesOwed(done)
      BY <1>6, <2>2
    <3>2. Cardinality(DeletesOwed(done)') <= Cardinality(DeletesOwed(done)) /\ IsFiniteSet(DeletesOwed(done)')
      BY <1>5, <3>1, FS_Subset
    <3>3. Cardinality(DeletesOwed(done)') \in Nat
      BY <3>2, FS_CardinalityType
    <3> QED BY <1>5, <2>2, <3>2, <3>3
  <2> QED BY <2>1, <2>2
<1>8. Owed(changeLog, Len(effects))' = Cardinality(DeletesOwed(done)') + Cardinality(AbsentBeyond(changeLog)')
  BY DEF Owed
<1>9. Owed(changeLog, Len(effects)) = Cardinality(DeletesOwed(done)) + Cardinality(AbsentBeyond(changeLog))
  BY DEF Owed
<1> QED BY <1>2, <1>4, <1>5, <1>7, <1>8, <1>9

\* What only the bounds of the run say.
LEMMA BoundsKeep ==
    ASSUME CollectionInv, CollectionBounds, UNCHANGED <<cursor, changeLog, effects, outbox, nextMutation, local, edits>>,
           clock' <= MaxClock, syncLosses' \in 0..MaxSyncLosses,
           Len(sync'.page) <= PageSize, HeardIsLogged'
    PROVE  CollectionBounds'
<1>1. Owed(changeLog, Len(effects))' = Owed(changeLog, Len(effects))
  BY DEF Owed, DeletesOwed, AbsentBeyond
<1> QED BY <1>1 DEF CollectionBounds, FewMutations

\* An edit on the Mac.
LEMMA EditBounds ==
    ASSUME CollectionInv, CollectionBounds, NEW kind \in (WatchKinds \cup LibraryEdits), NEW value, NEW time,
           Queue(kind, value, time), Edit, UNCHANGED <<changeLog, effects, cursor, sync, syncLosses, clock>>,
           kind = "library_delete" => local.library # "absent",
           kind # "library_delete" => local'.library = local.library \/ local'.library # "absent"
    PROVE  CollectionBounds'
<1> USE CollectionsAssumption DEF CollectionsAssumption
<1>1. /\ nextMutation' = nextMutation + 1 /\ nextMutation \in Nat
      /\ Owed(changeLog, Len(effects))' <= Owed(changeLog, Len(effects)) + (IF kind = "library_delete" THEN 1 ELSE 0)
      /\ Owed(changeLog, Len(effects)) \in Nat /\ Owed(changeLog, Len(effects))' \in Nat
  BY QueueOwes DEF CollectionInv, CollectionTypes
<1>2. edits' = edits + 1 /\ edits \in 0..MaxEdits /\ edits' \in 0..MaxEdits
  BY DEF CollectionBounds, Edit
<1>3. FewMutations'
  <2> DEFINE owed == Owed(changeLog, Len(effects))
             owedThen == Owed(changeLog, Len(effects))'
  <2>1. /\ owed \in Nat /\ owedThen \in Nat /\ owedThen <= owed + (IF kind = "library_delete" THEN 1 ELSE 0)
        /\ nextMutation + owed + (IF local.library = "absent" THEN 1 ELSE 0) <= 2 + 3 * edits
    BY <1>1 DEF CollectionBounds, FewMutations
  <2>2. nextMutation' + owedThen + (IF local'.library = "absent" THEN 1 ELSE 0) <= 2 + 3 * edits'
    <3> HIDE DEF owed, owedThen
    <3>1. CASE kind = "library_delete"
      BY <1>1, <1>2, <2>1, <3>1
    <3>2. CASE kind # "library_delete"
      BY <1>1, <1>2, <2>1, <3>2
    <3> QED BY <3>1, <3>2
  <2> QED BY <2>2 DEF FewMutations
<1> QED BY <1>2, <1>3 DEF CollectionBounds, HeardIsLogged

\* A request of the browser: the log has no new change of the library.
LEMMA TabBounds ==
    ASSUME CollectionInv, CollectionBounds, UNCHANGED <<effects, outbox, cursor, nextMutation, local, sync, syncLosses, clock>>,
           UNCHANGED edits \/ Edit, Len(changeLog') \in Nat, Len(changeLog) <= Len(changeLog'),
           \A k \in 1..Len(changeLog) : changeLog'[k].entity = changeLog[k].entity /\ changeLog'[k].value = changeLog[k].value,
           \A k \in 1..Len(changeLog') : k > Len(changeLog) => changeLog'[k].entity # "library"
    PROVE  CollectionBounds'
<1>0. /\ CollectionTypes /\ nextMutation \in Nat /\ Len(effects) \in Nat /\ changeLog \in Seq(Entries)
      /\ Len(changeLog) \in Nat /\ cursor \in Nat /\ sync.cursor \in Nat /\ sync.cursor <= Len(changeLog)
  BY DEF CollectionInv, CollectionTypes, SyncStates
<1>1. Owed(changeLog, Len(effects))' = Owed(changeLog, Len(effects)) /\ Owed(changeLog, Len(effects)) \in Nat
  <2>1. Owed(changeLog, Len(effects))' = Owed(changeLog, Len(effects)')
    BY <1>0, SameOwed
  <2> QED BY <1>0, <2>1, OwedIs
<1>2. edits' \in 0..MaxEdits /\ edits <= edits' /\ edits \in 0..MaxEdits
  BY CollectionsAssumption DEF CollectionBounds, Edit, CollectionsAssumption
<1>3. FewMutations'
  BY <1>0, <1>1, <1>2 DEF CollectionBounds, FewMutations
<1>4. HeardIsLogged'
  <2>1. \A k \in (cursor + 1)..sync.cursor : k \in 1..Len(changeLog)
    BY <1>0
  <2> QED BY <2>1 DEF CollectionBounds, HeardIsLogged
<1> QED BY <1>2, <1>3, <1>4 DEF CollectionBounds

\* A page has as many changes as fit, all behind the cursor.
LEMMA PageBounds ==
    ASSUME CollectionTypes, NEW page, page = {n \in Behind(sync.cursor) : FitsPage(n, Behind(sync.cursor))}
    PROVE  /\ Len(Picked(changeLog, page)) <= PageSize
           /\ sync.cursor <= NextCursor(page)
           /\ \A i \in 1..Len(Picked(changeLog, page)) :
                 \E k \in (sync.cursor + 1)..NextCursor(page) : Picked(changeLog, page)[i] = changeLog[k]
<1> USE CollectionsAssumption DEF CollectionsAssumption
<1>1. /\ sync.cursor \in Nat /\ Len(changeLog) \in Nat /\ changeLog \in Seq(Entries)
  BY DEF CollectionTypes, SyncStates
<1>2. page \in SUBSET Behind(sync.cursor)
  OBVIOUS
<1>3. /\ page \in SUBSET (1..Len(changeLog))
      /\ \A k \in page : k > sync.cursor /\ k <= Len(changeLog)
      /\ page = {} => NextCursor(page) = sync.cursor
      /\ page # {} => NextCursor(page) \in page /\ \A k \in page : k <= NextCursor(page)
  BY <1>2, PageIs
<1>4. /\ Picked(changeLog, page) \in Seq(Entries) /\ Len(Picked(changeLog, page)) = Cardinality(page)
      /\ \A i \in 1..Len(Picked(changeLog, page)) : \E k \in page : Picked(changeLog, page)[i] = changeLog[k]
  <2>1. page \in SUBSET (1..Len(changeLog)) /\ changeLog \in Seq(Entries)
    BY <1>1, <1>3
  <2>2. ASSUME NEW S \in SUBSET (1..Len(changeLog))
        PROVE  /\ Picked(changeLog, S) \in Seq(Entries) /\ Len(Picked(changeLog, S)) = Cardinality(S)
               /\ \A i \in 1..Len(Picked(changeLog, S)) : \E k \in S : Picked(changeLog, S)[i] = changeLog[k]
    BY <2>1, PickedAreThere
  <2> QED BY <2>1, <2>2
<1>5. CASE page = {}
  <2>1. Len(Picked(changeLog, page)) = 0
    BY <1>4, <1>5, FS_EmptySet
  <2>2. 0 <= PageSize /\ sync.cursor <= sync.cursor /\ 1..0 = {}
    BY <1>1
  <2> QED BY <1>3, <1>5, <2>1, <2>2, Zenon
<1>6. CASE page # {}
  <2>1. /\ NextCursor(page) \in Behind(sync.cursor) /\ FitsPage(NextCursor(page), Behind(sync.cursor))
        /\ NextCursor(page) \in Nat /\ sync.cursor <= NextCursor(page)
    BY <1>1, <1>3, <1>6
  <2> DEFINE upTo == {k \in Behind(sync.cursor) : k <= NextCursor(page)}
  <2>2. page \subseteq upTo
    BY <1>2, <1>3, <1>6
  <2>3. IsFiniteSet(upTo)
    <3>1. IsFiniteSet(1..Len(changeLog))
      <4>1. 1 \in Int /\ Len(changeLog) \in Int
        BY <1>1
      <4> QED BY <4>1, FS_Interval
    <3>2. upTo \subseteq 1..Len(changeLog)
      BY <1>1 DEF Behind
    <3> QED BY <3>1, <3>2, FS_Subset
  <2>4. Cardinality(page) <= Cardinality(upTo) /\ Cardinality(page) \in Nat /\ Cardinality(upTo) \in Nat
    <3>1. IsFiniteSet(page) /\ Cardinality(page) <= Cardinality(upTo)
      BY <2>2, <2>3, FS_Subset
    <3> QED BY <2>3, <3>1, FS_CardinalityType
  <2>5. Cardinality(upTo) <= PageSize
    BY <2>1 DEF FitsPage
  <2>6. \A k \in page : k \in (sync.cursor + 1)..NextCursor(page)
    BY <1>1, <1>3, <1>6, <2>1
  <2>7. Cardinality(page) <= PageSize
    BY <2>4, <2>5
  <2> HIDE DEF upTo
  <2>8. \A i \in 1..Len(Picked(changeLog, page)) :
           \E k \in (sync.cursor + 1)..NextCursor(page) : Picked(changeLog, page)[i] = changeLog[k]
    BY <1>4, <2>6, Zenon
  <2>9. Len(Picked(changeLog, page)) <= PageSize
    BY <1>4, <2>7, Zenon
  <2> QED BY <2>1, <2>8, <2>9, Zenon
<1> QED BY <1>5, <1>6

\* POST /collections/mutations: no removal is heard of that was not owed.
LEMMA MutationBounds == ASSUME CollectionInv, CollectionBounds, ApplyMutations PROVE CollectionBounds'
<1>1. PICK done \in Nat :
        StepHolds([cloud |-> cloud', log |-> changeLog', receipts |-> receipts', effects |-> effects'], done)
  BY TransactionHolds
<1>2. /\ Len(effects') = done /\ Owed(changeLog', done) <= Owed(changeLog, Len(effects))
      /\ changeLog' \in Seq(Entries)
      /\ Len(changeLog') >= Len(changeLog) /\ \A k \in 1..Len(changeLog) : changeLog'[k] = changeLog[k]
  BY <1>1 DEF StepHolds
<1>3. /\ sync.step = "sent" /\ sync'.step = "committed" /\ sync'.page = sync.page /\ sync'.cursor = sync.cursor
      /\ UNCHANGED <<local, outbox, cursor, nextMutation, clock, edits, syncLosses>>
  <2>1. sync \in SyncStates
    BY DEF CollectionInv, CollectionTypes
  <2> QED BY <2>1 DEF ApplyMutations, macVars, SyncStates
<1>4. /\ CollectionTypes /\ nextMutation \in Nat /\ Len(effects) \in Nat /\ changeLog \in Seq(Entries)
  BY DEF CollectionInv, CollectionTypes
<1>5. Owed(changeLog, Len(effects))' = Owed(changeLog', done)
  <2>1. AbsentBeyond(changeLog)' = AbsentBeyond(changeLog')
    BY <1>3 DEF AbsentBeyond
  <2>2. DeletesOwed(Len(effects))' = DeletesOwed(done)
    BY <1>2, <1>3 DEF DeletesOwed
  <2> QED BY <2>1, <2>2 DEF Owed
<1>6. Owed(changeLog', done) \in Nat /\ Owed(changeLog, Len(effects)) \in Nat
  BY <1>2, <1>4, OwedIs
<1>7. FewMutations'
  <2>1. edits \in Nat
    BY CollectionsAssumption DEF CollectionBounds, CollectionsAssumption
  <2> QED BY <1>2, <1>3, <1>4, <1>5, <1>6, <2>1 DEF CollectionBounds, FewMutations
<1>8. HeardIsLogged'
  BY <1>3 DEF CollectionBounds, HeardIsLogged
<1> QED BY <1>3, <1>7, <1>8 DEF CollectionBounds

\* GET /collections/changes.
LEMMA ReadBounds == ASSUME CollectionInv, CollectionBounds, ReadChanges PROVE CollectionBounds'
<1> DEFINE page == {n \in Behind(sync.cursor) : FitsPage(n, Behind(sync.cursor))}
<1>0. CollectionTypes /\ sync \in SyncStates
  BY DEF CollectionInv, CollectionTypes
<1>1. /\ sync.step = "committed" /\ sync'.step \in {"bootstrap", "answered"}
      /\ sync'.page = Picked(changeLog, page) /\ sync'.cursor = NextCursor(page)
      /\ UNCHANGED <<changeLog, effects, local, outbox, cursor, nextMutation, clock, edits, syncLosses>>
  BY <1>0 DEF ReadChanges, cloudVars, macVars, SyncStates
<1>2. page = {n \in Behind(sync.cursor) : FitsPage(n, Behind(sync.cursor))}
  OBVIOUS
<1> HIDE DEF page
<1>3. /\ Len(Picked(changeLog, page)) <= PageSize
      /\ sync.cursor <= NextCursor(page)
      /\ \A i \in 1..Len(Picked(changeLog, page)) :
            \E k \in (sync.cursor + 1)..NextCursor(page) : Picked(changeLog, page)[i] = changeLog[k]
  BY <1>0, <1>2, PageBounds
<1>4. sync.cursor = cursor
  BY <1>1 DEF CollectionBounds, HeardIsLogged
<1>5. HeardIsLogged'
  BY <1>1, <1>3, <1>4 DEF HeardIsLogged
<1>6. Len(sync'.page) <= PageSize /\ clock' <= MaxClock /\ syncLosses' \in 0..MaxSyncLosses
  BY <1>1, <1>3 DEF CollectionBounds
<1> QED BY <1>1, <1>5, <1>6, BoundsKeep

\* A sync that ends or begins: nothing is heard yet.
LEMMA NothingHeard ==
    ASSUME CollectionInv, CollectionBounds, sync' \in {NoSync, [NoSync EXCEPT !.step = "refreshed"]}
    PROVE  Len(sync'.page) <= PageSize /\ HeardIsLogged'
<1>1. sync'.step \in {"idle", "refreshed"} /\ Len(sync'.page) = 0
  BY NoSyncIs
<1> QED BY <1>1, CollectionsAssumption DEF HeardIsLogged, CollectionsAssumption

\* CloudCollectionStore.apply: a library item that is gone was heard of as removed.
LEMMA ApplyBounds == ASSUME CollectionInv, CollectionBounds, ApplyChanges PROVE CollectionBounds'
<1>1. /\ sync.step = "answered" /\ local'.library = After("library", local.library)
      /\ outbox' = Picked(outbox, {i \in 1..Len(outbox) : outbox[i].id \notin sync.acknowledged})
      /\ cursor' = sync.cursor /\ sync' \in {NoSync, [NoSync EXCEPT !.step = "refreshed"]}
      /\ UNCHANGED <<changeLog, effects, nextMutation, clock, edits, syncLosses>>
  BY DEF ApplyChanges, cloudVars
<1>2. /\ CollectionTypes /\ InTurn /\ SentIsFirst /\ HasCommitted /\ sync \in SyncStates
      /\ nextMutation \in Nat /\ Len(effects) \in Nat /\ changeLog \in Seq(Entries) /\ Len(changeLog) \in Nat
      /\ cursor \in Nat /\ sync.cursor \in Nat /\ sync.cursor <= Len(changeLog) /\ edits \in Nat
      /\ cursor <= sync.cursor
  <2>1. CollectionTypes /\ InTurn /\ SentIsFirst
    BY DEF CollectionInv
  <2>2. edits \in Nat /\ cursor <= sync.cursor
    BY <1>1, CollectionsAssumption DEF CollectionBounds, HeardIsLogged, CollectionsAssumption
  <2> QED BY <1>1, <2>1, <2>2 DEF CollectionTypes, SyncStates, HasCommitted
<1>3. DeletesOwed(Len(effects))' \subseteq DeletesOwed(Len(effects))
  <2>1. \A i \in 1..Len(outbox') : \E j \in 1..Len(outbox) : outbox'[i] = outbox[j]
    <3>1. outbox \in Seq(Mutations) /\ sync.sent \in Seq(Mutations)
      BY <1>2 DEF CollectionTypes, SyncStates
    <3>2. /\ Len(outbox) \in Nat /\ Len(sync.sent) \in Nat /\ Len(sync.sent) <= Len(outbox)
      BY <1>2, <3>1 DEF SentIsFirst
    <3>3. /\ Len(outbox') = Len(outbox) - Len(sync.sent)
          /\ \A i \in 1..Len(outbox') : outbox'[i] = outbox[Len(sync.sent) + i]
      BY <1>1, <1>2, LeftInOutbox
    <3>4. \A i \in 1..Len(outbox') : Len(sync.sent) + i \in 1..Len(outbox)
      BY <3>2, <3>3
    <3> QED BY <3>3, <3>4
  <2> QED BY <1>1, <2>1 DEF DeletesOwed
<1>4. AbsentBeyond(changeLog)' \subseteq AbsentBeyond(changeLog)
  <2>1. \A k \in (sync.cursor + 1)..Len(changeLog) : k \in (cursor + 1)..Len(changeLog)
    BY <1>2
  <2> QED BY <1>1, <2>1 DEF AbsentBeyond
<1>5. /\ IsFiniteSet(DeletesOwed(Len(effects))) /\ Cardinality(DeletesOwed(Len(effects))) \in Nat
      /\ IsFiniteSet(AbsentBeyond(changeLog)) /\ Cardinality(AbsentBeyond(changeLog)) \in Nat
  BY <1>2, OwedIs
<1>6. /\ Cardinality(DeletesOwed(Len(effects))') <= Cardinality(DeletesOwed(Len(effects)))
      /\ Cardinality(DeletesOwed(Len(effects))') \in Nat
  <2>1. /\ IsFiniteSet(DeletesOwed(Len(effects))')
        /\ Cardinality(DeletesOwed(Len(effects))') <= Cardinality(DeletesOwed(Len(effects)))
    BY <1>3, <1>5, FS_Subset
  <2> QED BY <2>1, FS_CardinalityType
<1>7. /\ Cardinality(AbsentBeyond(changeLog)') <= Cardinality(AbsentBeyond(changeLog))
      /\ Cardinality(AbsentBeyond(changeLog)') \in Nat
      /\ local'.library = "absent" /\ local.library # "absent"
            => Cardinality(AbsentBeyond(changeLog)') < Cardinality(AbsentBeyond(changeLog))
  <2>1. /\ IsFiniteSet(AbsentBeyond(changeLog)')
        /\ Cardinality(AbsentBeyond(changeLog)') <= Cardinality(AbsentBeyond(changeLog))
    BY <1>4, <1>5, FS_Subset
  <2>2. Cardinality(AbsentBeyond(changeLog)') \in Nat
    BY <2>1, FS_CardinalityType
  <2>3. ASSUME local'.library = "absent", local.library # "absent"
        PROVE  Cardinality(AbsentBeyond(changeLog)') < Cardinality(AbsentBeyond(changeLog))
    <3>1. PICK i \in 1..Len(sync.page) :
             sync.page[i].entity = "library" /\ After("library", local.library) = sync.page[i].value
      BY <1>1, <1>2, <2>3, AfterIs
    <3>2. PICK k \in (cursor + 1)..sync.cursor : changeLog[k].entity = "library" /\ changeLog[k].value = "absent"
      BY <1>1, <2>3, <3>1 DEF CollectionBounds, HeardIsLogged
    <3>3. k \in AbsentBeyond(changeLog)
      BY <1>2, <3>2 DEF AbsentBeyond
    <3>4. AbsentBeyond(changeLog)' \subseteq AbsentBeyond(changeLog) \ {k}
      <4>1. k \notin AbsentBeyond(changeLog)'
        BY <1>1, <1>2 DEF AbsentBeyond
      <4> QED BY <1>4, <4>1
    <3>5. /\ IsFiniteSet(AbsentBeyond(changeLog) \ {k})
          /\ Cardinality(AbsentBeyond(changeLog) \ {k}) = Cardinality(AbsentBeyond(changeLog)) - 1
      BY <1>5, <3>3, FS_RemoveElement
    <3>6. Cardinality(AbsentBeyond(changeLog)') <= Cardinality(AbsentBeyond(changeLog) \ {k})
      BY <3>4, <3>5, FS_Subset
    <3> QED BY <1>5, <2>2, <3>5, <3>6
  <2> QED BY <2>1, <2>2, <2>3
<1>8. FewMutations'
  <2> DEFINE deletes == Cardinality(DeletesOwed(Len(effects)))
             deletesThen == Cardinality(DeletesOwed(Len(effects))')
             absents == Cardinality(AbsentBeyond(changeLog))
             absentsThen == Cardinality(AbsentBeyond(changeLog)')
  <2>1. nextMutation + (deletes + absents) + (IF local.library = "absent" THEN 1 ELSE 0) <= 2 + 3 * edits
    BY DEF CollectionBounds, FewMutations, Owed
  <2>2. /\ deletes \in Nat /\ deletesThen \in Nat /\ absents \in Nat /\ absentsThen \in Nat
        /\ deletesThen <= deletes /\ absentsThen <= absents
        /\ local'.library = "absent" /\ local.library # "absent" => absentsThen < absents
    BY <1>5, <1>6, <1>7
  <2>3. nextMutation' = nextMutation /\ edits' = edits
    BY <1>1
  <2>4. nextMutation' + (deletesThen + absentsThen) + (IF local'.library = "absent" THEN 1 ELSE 0) <= 2 + 3 * edits'
    <3> HIDE DEF deletes, deletesThen, absents, absentsThen
    <3>1. CASE local'.library = "absent" /\ local.library # "absent"
      BY <1>2, <2>1, <2>2, <2>3, <3>1
    <3>2. CASE ~(local'.library = "absent" /\ local.library # "absent")
      BY <1>2, <2>1, <2>2, <2>3, <3>2
    <3> QED BY <3>1, <3>2
  <2>5. Owed(changeLog, Len(effects))' = deletesThen + absentsThen
    BY DEF Owed
  <2> QED BY <2>4, <2>5 DEF FewMutations
<1> QED BY <1>1, <1>8, NothingHeard DEF CollectionBounds

\* The browser.
LEMMA TabKeepsBounds ==
    ASSUME CollectionInv, CollectionBounds, NEW t \in Tabs,
           WriteWatchlist(t) \/ NumberChange(t) \/ CommitChange(t) \/ AbandonWrite(t)
    PROVE  CollectionBounds'
<1>0. changeLog \in Seq(Entries) /\ Len(changeLog) \in Nat /\ tab \in [Tabs -> TabStates]
  BY DEF CollectionInv, CollectionTypes
<1>1. CASE WriteWatchlist(t)
  <2>1. Edit /\ UNCHANGED <<changeLog, effects, outbox, cursor, nextMutation, local, sync, syncLosses, clock>>
    BY <1>1 DEF WriteWatchlist, macVars
  <2> QED BY <1>0, <2>1, TabBounds
<1>2. CASE NumberChange(t)
  <2> DEFINE c == [Change("watch", tab[t].value) EXCEPT !.visible = FALSE]
  <2>1. /\ changeLog' = Append(changeLog, c) /\ c.entity = "watch"
        /\ UNCHANGED <<effects, outbox, cursor, nextMutation, local, sync, syncLosses, clock, edits>>
    BY <1>2 DEF NumberChange, macVars, Change
  <2> HIDE DEF c
  <2>2. /\ Len(changeLog') = Len(changeLog) + 1 /\ changeLog'[Len(changeLog) + 1] = c
        /\ \A k \in 1..Len(changeLog) : changeLog'[k] = changeLog[k]
    BY <1>0, <2>1
  <2>3. \A k \in 1..Len(changeLog') : k > Len(changeLog) => changeLog'[k].entity # "library"
    BY <1>0, <2>1, <2>2
  <2> QED BY <1>0, <2>1, <2>2, <2>3, TabBounds
<1>3. CASE CommitChange(t)
  <2>1. /\ changeLog' = [changeLog EXCEPT ![tab[t].number].visible = TRUE]
        /\ UNCHANGED <<effects, outbox, cursor, nextMutation, local, sync, syncLosses, clock, edits>>
    BY <1>3 DEF CommitChange, macVars
  <2>2. /\ Len(changeLog') = Len(changeLog)
        /\ \A k \in 1..Len(changeLog) : changeLog'[k].entity = changeLog[k].entity /\ changeLog'[k].value = changeLog[k].value
    <3>1. \A k \in 1..Len(changeLog) : changeLog[k] \in Entries
      BY <1>0
    <3> DEFINE n == tab[t].number
    <3>2. changeLog' = [changeLog EXCEPT ![n].visible = TRUE]
      BY <2>1
    <3> HIDE DEF n
    <3>3. changeLog' = [k \in 1..Len(changeLog) |-> IF k = n THEN [changeLog[k] EXCEPT !.visible = TRUE] ELSE changeLog[k]]
      <4>1. changeLog \in [1..Len(changeLog) -> Entries]
        BY <1>0
      <4> QED BY <3>2, <4>1
    <3>4. changeLog' \in Seq(Entries)
      BY CommitKeeps, <1>3 DEF CollectionInv, CollectionTypes
    <3>5. Len(changeLog') = Len(changeLog)
      BY <1>0, <3>3, <3>4
    <3> QED BY <3>1, <3>3, <3>5 DEF Entries
  <2> QED BY <1>0, <2>1, <2>2, TabBounds
<1>4. CASE AbandonWrite(t)
  <2>1. UNCHANGED <<changeLog, effects, outbox, cursor, nextMutation, local, sync, syncLosses, clock, edits>>
    BY <1>4 DEF AbandonWrite, macVars, cloudVars
  <2> QED BY <1>0, <2>1, TabBounds
<1> QED BY <1>1, <1>2, <1>3, <1>4

\* The user of the Mac.
LEMMA MacKeepsBounds ==
    ASSUME CollectionInv, CollectionBounds,
           SaveWatchlist \/ RemoveWatchlist \/ OrganizeLibrary \/ RemoveLibrary \/ DownloadCompletes
    PROVE  CollectionBounds'
<1>0. local \in Copies /\ clock \in Nat
  BY DEF CollectionInv, CollectionTypes
<1>k. {"watchlist_upsert", "watchlist_delete", "library_organize", "library_delete"} \subseteq WatchKinds \cup LibraryEdits
  BY DEF WatchKinds, LibraryEdits
<1>1. CASE SaveWatchlist
  <2>1. PICK value \in WatchValues \ {"absent"} :
          Edit /\ local' = [local EXCEPT !.watch = value] /\ Queue("watchlist_upsert", value, 0)
    BY <1>1 DEF SaveWatchlist
  <2>2. UNCHANGED <<changeLog, effects, cursor, sync, syncLosses, clock>> /\ local'.library = local.library
    BY <1>0, <1>1, <2>1 DEF SaveWatchlist, cloudVars, Copies
  <2> QED BY <1>k, <2>1, <2>2, EditBounds
<1>2. CASE RemoveWatchlist
  <2>1. /\ Edit /\ Queue("watchlist_delete", "absent", 0)
        /\ UNCHANGED <<changeLog, effects, cursor, sync, syncLosses, clock>> /\ local'.library = local.library
    BY <1>0, <1>2 DEF RemoveWatchlist, cloudVars, Copies
  <2> QED BY <1>k, <2>1, EditBounds
<1>3. CASE OrganizeLibrary
  <2>1. /\ Edit /\ Queue("library_organize", "favorite", 0)
        /\ UNCHANGED <<changeLog, effects, cursor, sync, syncLosses, clock>> /\ local'.library # "absent"
    BY <1>0, <1>3 DEF OrganizeLibrary, cloudVars, Copies
  <2> QED BY <1>k, <2>1, EditBounds
<1>4. CASE RemoveLibrary
  <2>1. /\ Edit /\ Queue("library_delete", "absent", 0) /\ local.library # "absent"
        /\ UNCHANGED <<changeLog, effects, cursor, sync, syncLosses, clock>>
    BY <1>4 DEF RemoveLibrary, cloudVars
  <2> QED BY <1>k, <2>1, EditBounds
<1>5. CASE DownloadCompletes
  <2>1. /\ clock < MaxClock /\ clock' = clock + 1
        /\ UNCHANGED <<cursor, changeLog, effects, outbox, nextMutation, local, edits, sync, syncLosses>>
    BY <1>5 DEF DownloadCompletes, cloudVars
  <2>2. clock' <= MaxClock
    BY <1>0, <2>1, CollectionsAssumption DEF CollectionsAssumption
  <2>3. Len(sync'.page) <= PageSize /\ HeardIsLogged' /\ syncLosses' \in 0..MaxSyncLosses
    BY <2>1 DEF CollectionBounds, HeardIsLogged
  <2> QED BY <2>1, <2>2, <2>3, BoundsKeep
<1> QED BY <1>1, <1>2, <1>3, <1>4, <1>5

\* refreshLocalProjection: what is put into the library was not there.
LEMMA RefreshBounds == ASSUME CollectionInv, CollectionBounds, RefreshLocalProjection PROVE CollectionBounds'
<1>1. /\ sync' = [NoSync EXCEPT !.step = "refreshed"]
      /\ UNCHANGED <<changeLog, effects, cursor, clock, edits, syncLosses>>
  BY DEF RefreshLocalProjection, cloudVars
<1>2. Len(sync'.page) <= PageSize /\ HeardIsLogged' /\ clock' <= MaxClock /\ syncLosses' \in 0..MaxSyncLosses
  BY <1>1, NothingHeard DEF CollectionBounds
<1>3. CASE UNCHANGED <<local, outbox, nextMutation>>
  BY <1>1, <1>2, <1>3, BoundsKeep
<1>4. CASE ~UNCHANGED <<local, outbox, nextMutation>>
  <2>1. PICK time \in jobs : local' = [local EXCEPT !.library = "plain"] /\ Queue("library_upsert", "plain", time)
    BY <1>4 DEF RefreshLocalProjection
  <2>2. local.library = "absent" /\ local'.library = "plain"
    <3>1. local \in Copies
      BY DEF CollectionInv, CollectionTypes
    <3> QED BY <1>4, <2>1, <3>1 DEF RefreshLocalProjection, Copies
  <2>3. /\ nextMutation' = nextMutation + 1 /\ nextMutation \in Nat
        /\ Owed(changeLog, Len(effects))' <= Owed(changeLog, Len(effects))
        /\ Owed(changeLog, Len(effects)) \in Nat /\ Owed(changeLog, Len(effects))' \in Nat
    <3>1. "library_upsert" \in WatchKinds \cup LibraryEdits /\ "library_upsert" # "library_delete"
      BY DEF LibraryEdits
    <3>2. nextMutation \in Nat
      BY DEF CollectionInv, CollectionTypes
    <3>3. /\ nextMutation' = nextMutation + 1
          /\ Owed(changeLog, Len(effects))' <= Owed(changeLog, Len(effects)) + 0
          /\ Owed(changeLog, Len(effects)) \in Nat /\ Owed(changeLog, Len(effects))' \in Nat
      BY <1>1, <2>1, <3>1, QueueOwes
    <3> QED BY <3>2, <3>3
  <2>4. FewMutations'
    <3> DEFINE owed == Owed(changeLog, Len(effects))
               owedThen == Owed(changeLog, Len(effects))'
    <3>1. nextMutation + owed + 1 <= 2 + 3 * edits
      BY <2>2 DEF CollectionBounds, FewMutations
    <3>2. edits \in Nat
      BY CollectionsAssumption DEF CollectionBounds, CollectionsAssumption
    <3>3. nextMutation' + owedThen + 0 <= 2 + 3 * edits
      <4> HIDE DEF owed, owedThen
      <4>1. owed \in Nat /\ owedThen \in Nat /\ owedThen <= owed
        BY <2>3 DEF owed, owedThen
      <4> QED BY <2>3, <3>1, <3>2, <4>1
    <3> QED BY <1>1, <2>2, <3>3 DEF FewMutations
  <2> QED BY <1>1, <1>2, <2>4 DEF CollectionBounds
<1> QED BY <1>3, <1>4

LEMMA BoundsStep ==
    ASSUME CollectionInv, CollectionBounds, [CollectionNext]_collectionVars PROVE CollectionBounds'
<1>1. CASE UNCHANGED collectionVars
  <2>1. UNCHANGED <<cursor, changeLog, effects, outbox, nextMutation, local, edits, clock, syncLosses, sync>>
    BY <1>1 DEF collectionVars
  <2>2. Len(sync'.page) <= PageSize /\ HeardIsLogged' /\ clock' <= MaxClock /\ syncLosses' \in 0..MaxSyncLosses
    BY <2>1 DEF CollectionBounds, HeardIsLogged
  <2> QED BY <2>1, <2>2, BoundsKeep
<1>2. CASE SendOutbox
  <2>1. /\ sync'.step = "sent" /\ sync'.cursor = cursor /\ sync'.page = <<>>
        /\ UNCHANGED <<cursor, changeLog, effects, outbox, nextMutation, local, edits, clock, syncLosses>>
    BY <1>2 DEF SendOutbox, cloudVars, macVars, NoSync
  <2>2. Len(sync'.page) <= PageSize
    <3>1. Len(<<>>) = 0 /\ 0 <= PageSize
      BY CollectionsAssumption DEF CollectionsAssumption
    <3> QED BY <2>1, <3>1
  <2>3. HeardIsLogged' /\ clock' <= MaxClock /\ syncLosses' \in 0..MaxSyncLosses
    BY <2>1 DEF CollectionBounds, HeardIsLogged
  <2> QED BY <2>1, <2>2, <2>3, BoundsKeep
<1>3. CASE ReadBootstrap
  <2>0. sync \in SyncStates
    BY DEF CollectionInv, CollectionTypes
  <2>1. /\ sync.step = "bootstrap" /\ sync'.step = "answered" /\ sync'.cursor = sync.cursor /\ sync'.page = sync.page
        /\ UNCHANGED <<cursor, changeLog, effects, outbox, nextMutation, local, edits, clock, syncLosses>>
    BY <1>3, <2>0 DEF ReadBootstrap, cloudVars, macVars, SyncStates
  <2>2. Len(sync'.page) <= PageSize /\ HeardIsLogged' /\ clock' <= MaxClock /\ syncLosses' \in 0..MaxSyncLosses
    BY <2>1 DEF CollectionBounds, HeardIsLogged
  <2> QED BY <2>1, <2>2, BoundsKeep
<1>4. CASE LoseSync
  <2>1. /\ sync' = NoSync /\ syncLosses < MaxSyncLosses /\ syncLosses' = syncLosses + 1
        /\ UNCHANGED <<cursor, changeLog, effects, outbox, nextMutation, local, edits, clock>>
    BY <1>4 DEF LoseSync, cloudVars, macVars
  <2>2. clock' <= MaxClock /\ syncLosses' \in 0..MaxSyncLosses
    BY <2>1, CollectionsAssumption DEF CollectionBounds, CollectionsAssumption
  <2>3. Len(sync'.page) <= PageSize /\ HeardIsLogged'
    BY <2>1, NothingHeard
  <2> QED BY <2>1, <2>2, <2>3, BoundsKeep
<1>5. ASSUME NEW t \in Tabs, WriteWatchlist(t) \/ NumberChange(t) \/ CommitChange(t) \/ AbandonWrite(t)
      PROVE  CollectionBounds'
  BY <1>5, TabKeepsBounds
<1>6. CASE SaveWatchlist \/ RemoveWatchlist \/ OrganizeLibrary \/ RemoveLibrary \/ DownloadCompletes
  BY <1>6, MacKeepsBounds
<1>7. CASE RefreshLocalProjection \/ ApplyMutations \/ ReadChanges \/ ApplyChanges
  BY <1>7, RefreshBounds, MutationBounds, ReadBounds, ApplyBounds
<1> QED BY <1>1, <1>2, <1>3, <1>4, <1>5, <1>6, <1>7 DEF CollectionNext, CollectionLoop

\* CollectionTypeOK: what is stored and sent is of its kind, the numbers of mutations stay
\* below those of the user's edits and of the downloads put back after them, and an answer
\* holds a page at most.
THEOREM CollectionTypeCorrect == CollectionSpec => []CollectionTypeOK
<1>1. CollectionInv /\ CollectionBounds => CollectionTypeOK
  <2> SUFFICES ASSUME CollectionInv, CollectionBounds PROVE CollectionTypeOK
    OBVIOUS
  <2>1. /\ CollectionTypes /\ InTurn /\ SentIsFirst /\ LibraryHolds(cloud, changeLog, Len(effects))
    BY DEF CollectionInv
  <2>2. /\ cloud \in CollectionRows /\ cloud.removedAt <= clock /\ clock \in 0..MaxClock
    <3>1. cloud \in CollectionRows /\ cloud.removedAt <= clock /\ clock \in Nat
      BY <2>1 DEF CollectionTypes, LibraryHolds
    <3> QED BY <3>1, CollectionsAssumption DEF CollectionBounds, CollectionsAssumption
  <2>3. cloud \in [watch: WatchValues, deleted: BOOLEAN, library: {"absent", "there", "removed"}, favorite: BOOLEAN, removedAt: 0..MaxClock]
    <3>1. cloud.removedAt \in 0..MaxClock
      BY <2>2, CollectionsAssumption DEF CollectionRows, CollectionsAssumption
    <3> QED BY <2>2, <3>1 DEF CollectionRows
  <2>4. \A n \in 1..Len(changeLog) :
           changeLog[n] \in [entity: {"watch", "library"}, value: WatchValues \cup LibraryValues, visible: BOOLEAN]
    <3>1. \A n \in 1..Len(changeLog) : changeLog[n] \in Entries
      BY <2>1 DEF CollectionTypes
    <3> QED BY <3>1 DEF Entries
  <2>5. /\ receipts = 1..Len(effects) /\ Len(effects) \in Nat /\ nextMutation \in Nat /\ Len(effects) < nextMutation
        /\ \A i \in 1..Len(effects) : effects[i] = i
    BY <2>1 DEF CollectionTypes, InTurn
  <2>6. receipts = {effects[i] : i \in 1..Len(effects)} /\ receipts \subseteq 1..(nextMutation - 1)
    BY <2>5
  <2>7. \A t \in Tabs : tab[t].step \in {"idle", "written", "numbered"}
    <3>1. \A t \in Tabs : tab[t] \in TabStates
      BY <2>1 DEF CollectionTypes
    <3> QED BY <3>1 DEF TabStates
  <2>8. sync.acknowledged \subseteq receipts
    <3>1. CASE HasCommitted
      <4>1. /\ sync.acknowledged = (Dropped + 1)..(Dropped + Len(sync.sent))
            /\ Dropped + Len(sync.sent) <= Len(effects) /\ Dropped \in Nat /\ Len(sync.sent) \in Nat
        <5>1. sync \in SyncStates
          BY <2>1 DEF CollectionTypes
        <5>2. Len(sync.sent) \in Nat
          BY <5>1 DEF SyncStates
        <5> QED BY <2>1, <2>5, <3>1, <5>2 DEF SentIsFirst, InTurn
      <4> QED BY <2>5, <4>1
    <3>2. CASE ~HasCommitted
      BY <2>1, <3>2 DEF SentIsFirst
    <3> QED BY <3>1, <3>2
  <2>9. nextMutation \in 1..(2 + 3 * MaxEdits)
    <3>1. Owed(changeLog, Len(effects)) \in Nat
      <4>1. changeLog \in Seq(Entries)
        BY <2>1 DEF CollectionTypes
      <4> QED BY <2>1, <2>5, <4>1, OwedIs
    <3> DEFINE owed == Owed(changeLog, Len(effects))
    <3>2. owed \in Nat /\ nextMutation + owed + (IF local.library = "absent" THEN 1 ELSE 0) <= 2 + 3 * edits
      BY <3>1 DEF CollectionBounds, FewMutations
    <3>3. edits \in Nat /\ edits <= MaxEdits /\ MaxEdits \in Nat
      BY CollectionsAssumption DEF CollectionBounds, CollectionsAssumption
    <3> HIDE DEF owed
    <3> QED BY <2>5, <3>2, <3>3
  <2>10. /\ local \in [watch: WatchValues, library: LibraryValues] /\ cursor \in 0..Len(changeLog)
         /\ sync.step \in {"idle", "refreshed", "sent", "committed", "bootstrap", "answered"}
         /\ jobs \subseteq 1..clock /\ removedOn \in 0..clock
    BY <2>1 DEF CollectionTypes, Copies, SyncStates
  <2> QED BY <2>2, <2>3, <2>4, <2>6, <2>7, <2>8, <2>9, <2>10 DEF CollectionTypeOK, CollectionBounds
<1>2. CollectionInv /\ CollectionBounds /\ [CollectionNext]_collectionVars => CollectionBounds'
  BY BoundsStep
<1> QED BY <1>1, <1>2, CollectionStarts, CollectionStep, BoundsStart, PTL DEF CollectionSpec
=============================================================================
