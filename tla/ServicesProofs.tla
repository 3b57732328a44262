--------------------------- MODULE ServicesProofs ---------------------------
(***************************************************************************)
(* Proofs about the machines between the Mac and the browser that have no  *)
(* module of proofs of their own, the mailbox of the Mac's socket, the     *)
(* shapes of the commands on their way, the sockets of the gateway and the *)
(* staging of downloads; and what all the machines keep together.          *)
(***************************************************************************)
EXTENDS MCServices, DeviceProofs, CommandCreationProofs, CollectionsProofs

-----------------------------------------------------------------------------
(* The mailbox of the Mac's socket.                                        *)

Elements(s) == {s[i] : i \in 1..Len(s)}

\* No message of a set is there twice.
Once(s, M) == \A i, j \in 1..Len(s) : s[i] = s[j] /\ s[i] \in M => i = j

LEMMA AppendOnce ==
    ASSUME NEW T, NEW s \in Seq(T), NEW e \in T
    PROVE  /\ Append(s, e) \in Seq(T) /\ Len(Append(s, e)) = Len(s) + 1
           /\ Elements(Append(s, e)) = Elements(s) \cup {e}
           /\ \A M : Once(s, M) /\ (e \in M => e \notin Elements(s)) => Once(Append(s, e), M)
<1> DEFINE t == Append(s, e)
<1>1. /\ t \in Seq(T) /\ Len(t) = Len(s) + 1 /\ Len(s) \in Nat /\ t[Len(s) + 1] = e
      /\ \A i \in 1..Len(s) : t[i] = s[i] /\ i \in 1..Len(t)
  OBVIOUS
<1>2. \A i \in 1..Len(t) : i \in 1..Len(s) \/ i = Len(s) + 1
  BY <1>1
<1>3. Len(s) + 1 \in 1..Len(t)
  BY <1>1
<1> HIDE DEF t
<1>4. Elements(t) = Elements(s) \cup {e}
  <2>1. \A x \in Elements(t) : x \in Elements(s) \cup {e}
    BY <1>1, <1>2 DEF Elements
  <2>2. \A x \in Elements(s) \cup {e} : x \in Elements(t)
    BY <1>1, <1>3 DEF Elements
  <2> QED BY <2>1, <2>2
<1>5. ASSUME NEW M, Once(s, M), e \in M => e \notin Elements(s) PROVE Once(t, M)
  <2> SUFFICES ASSUME NEW i \in 1..Len(t), NEW j \in 1..Len(t), t[i] = t[j], t[i] \in M PROVE i = j
    BY DEF Once
  <2>1. \A k \in 1..Len(s) : s[k] \in Elements(s)
    BY DEF Elements
  <2> QED BY <1>1, <1>2, <1>5, <2>1 DEF Once
<1> QED BY <1>1, <1>4, <1>5 DEF t

LEMMA TailOnce ==
    ASSUME NEW T, NEW s \in Seq(T), s # <<>>
    PROVE  /\ Tail(s) \in Seq(T) /\ Len(Tail(s)) = Len(s) - 1 /\ Len(s) \in Nat \ {0} /\ Head(s) \in T
           /\ Elements(s) = Elements(Tail(s)) \cup {Head(s)}
           /\ \A M : Once(s, M) => Once(Tail(s), M) /\ (Head(s) \in M => Head(s) \notin Elements(Tail(s)))
<1> DEFINE t == Tail(s)
<1>1. /\ t \in Seq(T) /\ Len(t) = Len(s) - 1 /\ Len(s) \in Nat \ {0} /\ Head(s) = s[1] /\ Head(s) \in T
      /\ \A i \in 1..Len(t) : t[i] = s[i + 1] /\ i + 1 \in 1..Len(s) /\ i + 1 # 1
  OBVIOUS
<1>2. \A i \in 1..Len(s) : i = 1 \/ (i - 1 \in 1..Len(t) /\ (i - 1) + 1 = i)
  BY <1>1
<1>3. 1 \in 1..Len(s) /\ \A i, j \in 1..Len(t) : i + 1 = j + 1 => i = j
  BY <1>1
<1>h. \A i \in 1..Len(s) : i = 1 \/ \E j \in 1..Len(t) : t[j] = s[i]
  BY <1>1, <1>2
<1> HIDE DEF t
<1>4. Elements(s) = Elements(t) \cup {Head(s)}
  <2>1. ASSUME NEW i \in 1..Len(s) PROVE s[i] \in Elements(t) \cup {Head(s)}
    <3>1. i = 1 \/ \E j \in 1..Len(t) : t[j] = s[i]
      BY <1>h
    <3> QED BY <1>1, <3>1 DEF Elements
  <2>2. \A x \in Elements(t) \cup {Head(s)} : x \in Elements(s)
    BY <1>1, <1>3 DEF Elements
  <2> QED BY <2>1, <2>2 DEF Elements
<1>5. ASSUME NEW M, Once(s, M) PROVE Once(t, M) /\ (Head(s) \in M => Head(s) \notin Elements(t))
  BY <1>1, <1>3, <1>5 DEF Once, Elements
<1> QED BY <1>1, <1>4, <1>5 DEF t

\* A smaller element has a smaller rank.
LEMMA RankGrows ==
    ASSUME NEW top \in Nat, NEW S \in SUBSET (1..top), NEW m \in S, NEW n \in S, m < n
    PROVE  Rank(S, m) < Rank(S, n)
<1> DEFINE A == {k \in S : k <= m}  B == {k \in S : k <= n}
<1>0. 1 \in Int /\ top \in Int
  OBVIOUS
<1>f. IsFiniteSet(1..top)
  BY <1>0, FS_Interval
<1>1. \A k \in S : k \in Nat /\ k \in 1..top
  OBVIOUS
<1>2. /\ A \subseteq 1..top /\ B \subseteq 1..top /\ n \in B /\ n \notin A
      /\ A \subseteq B
  <2>1. \A k \in A : k \in 1..top /\ k \in S /\ k <= m
    BY <1>1
  <2>2. \A k \in B : k \in 1..top
    BY <1>1
  <2>3. \A k \in S : k <= m => k <= n
    BY <1>1
  <2>4. ~(n <= m) /\ n <= n
    BY <1>1
  <2> QED BY <2>1, <2>2, <2>3, <2>4
<1> HIDE DEF A, B
<1>3. IsFiniteSet(A) /\ IsFiniteSet(B)
  BY <1>f, <1>2, FS_Subset
<1>4. Cardinality(A) \in Nat /\ Cardinality(B) \in Nat /\ Cardinality(A \cup {n}) = Cardinality(A) + 1
  BY <1>2, <1>3, FS_CardinalityType, FS_AddElement
<1>5. Cardinality(A \cup {n}) <= Cardinality(B)
  BY <1>2, <1>3, FS_Subset
<1> QED BY <1>4, <1>5 DEF Rank, A, B

\* What is picked are the elements at the indices, each once.
LEMMA PickedOnce ==
    ASSUME NEW T, NEW s \in Seq(T), NEW S \in SUBSET (1..Len(s))
    PROVE  /\ Picked(s, S) \in Seq(T) /\ Len(Picked(s, S)) <= Len(s)
           /\ Elements(Picked(s, S)) = {s[k] : k \in S}
           /\ \A M : Once(s, M) => Once(Picked(s, S), M)
<1> DEFINE at(i) == CHOOSE n \in S : Cardinality({k \in S : k <= n}) = i
           c == Cardinality(S)
<1>1. Len(s) \in Nat /\ IsFiniteSet(S) /\ c \in Nat /\ c <= Len(s)
  <2>1. Len(s) \in Nat /\ 1 \in Int /\ Len(s) \in Int
    OBVIOUS
  <2>2. IsFiniteSet(1..Len(s)) /\ Cardinality(1..Len(s)) = IF 1 > Len(s) THEN 0 ELSE Len(s) - 1 + 1
    BY <2>1, FS_Interval
  <2>3. IsFiniteSet(S) /\ c \in Nat /\ c <= Cardinality(1..Len(s))
    BY <2>2, FS_Subset, FS_CardinalityType
  <2> QED BY <2>1, <2>2, <2>3
<1>2. \A i \in 1..c : at(i) \in S /\ Rank(S, at(i)) = i
  <2> TAKE i \in 1..c
  <2>1. \E n \in S : Cardinality({k \in S : k <= n}) = i
    BY <1>1, RankIsTaken DEF Rank
  <2>2. at(i) \in S /\ Cardinality({k \in S : k <= at(i)}) = i
    BY <2>1
  <2> QED BY <2>2 DEF Rank
<1>3. Picked(s, S) = [i \in 1..c |-> s[at(i)]]
  BY DEF Picked
<1> HIDE DEF at
<1>4. \A k \in S : s[k] \in T /\ k \in 1..Len(s)
  <2>1. \A k \in 1..Len(s) : s[k] \in T
    OBVIOUS
  <2> QED BY <2>1
<1>5. \A k \in S : Rank(S, k) \in 1..c /\ at(Rank(S, k)) = k
  <2> TAKE k \in S
  <2> DEFINE A == {j \in S : j <= k}
  <2>1. A \subseteq S /\ k \in A
    BY <1>4
  <2>2. Cardinality(A) \in Nat /\ Cardinality(A) <= c /\ Cardinality(A) # 0
    <3> HIDE DEF A
    <3> QED BY <1>1, <2>1, FS_Subset, FS_CardinalityType, FS_EmptySet
  <2>3. Rank(S, k) \in 1..c
    BY <1>1, <2>2 DEF Rank
  <2> DEFINE r == Rank(S, k)  m == at(r)
  <2>4. m \in S /\ Rank(S, m) = r
    BY <1>2, <2>3
  <2>5. \A x \in S : Rank(S, x) \in Nat
    <3> TAKE x \in S
    <3>1. {j \in S : j <= x} \subseteq S
      OBVIOUS
    <3> QED BY <1>1, <3>1, FS_Subset, FS_CardinalityType DEF Rank
  <2>6. ~(m < k) /\ ~(k < m) /\ m \in Nat /\ k \in Nat
    <3> HIDE DEF m
    <3>1. m \in Nat /\ k \in Nat
      BY <1>4, <2>4
    <3>2. r \in Nat
      BY <1>1, <2>3
    <3>3. ASSUME m < k PROVE FALSE
      <4>1. Rank(S, m) < Rank(S, k)
        BY <1>1, <2>4, <3>3, RankGrows
      <4> QED BY <2>4, <3>2, <4>1
    <3>4. ASSUME k < m PROVE FALSE
      <4>1. Rank(S, k) < Rank(S, m)
        BY <1>1, <2>4, <3>4, RankGrows
      <4> QED BY <2>4, <3>2, <4>1
    <3> QED BY <3>1, <3>3, <3>4
  <2> QED BY <2>3, <2>6
<1>6. Picked(s, S) \in Seq(T) /\ Len(Picked(s, S)) = c /\ \A i \in 1..c : Picked(s, S)[i] = s[at(i)]
  <2>1. \A i \in 1..c : s[at(i)] \in T
    BY <1>2, <1>4
  <2>2. Picked(s, S) \in [1..c -> T] /\ \A i \in 1..c : Picked(s, S)[i] = s[at(i)]
    BY <1>3, <2>1
  <2> HIDE DEF c
  <2> QED BY <1>1, <2>2
<1>7. Elements(Picked(s, S)) = {s[k] : k \in S}
  <2>1. \A x \in Elements(Picked(s, S)) : x \in {s[k] : k \in S}
    BY <1>2, <1>6 DEF Elements
  <2>2. \A x \in {s[k] : k \in S} : x \in Elements(Picked(s, S))
    BY <1>5, <1>6 DEF Elements
  <2> QED BY <2>1, <2>2
<1>8. ASSUME NEW M, Once(s, M) PROVE Once(Picked(s, S), M)
  <2> SUFFICES ASSUME NEW i \in 1..c, NEW j \in 1..c, s[at(i)] = s[at(j)], s[at(i)] \in M PROVE i = j
    BY <1>6 DEF Once
  <2>1. at(i) \in 1..Len(s) /\ at(j) \in 1..Len(s)
    BY <1>2, <1>4
  <2>2. at(i) = at(j)
    BY <1>8, <2>1 DEF Once
  <2> QED BY <1>2, <2>2
<1> QED BY <1>1, <1>6, <1>7, <1>8

\* A buffer with every message at most once and one of them missing holds three.
LEMMA ShortIfOnce ==
    ASSUME NEW s \in Seq(Message), Once(s, Message), NEW m \in Message, m \notin Elements(s)
    PROVE  Len(s) \in Nat /\ Len(s) < 4
<1> DEFINE n == Len(s)
<1>0. n \in Nat /\ \A i \in 1..n : s[i] \in Message
  OBVIOUS
<1>1. n \in Nat /\ \A i \in 1..n : s[i] \in Message \ {m}
  BY <1>0 DEF Elements
<1>2. ASSUME n >= 4 PROVE FALSE
  <2>1. 1 \in 1..n /\ 2 \in 1..n /\ 3 \in 1..n /\ 4 \in 1..n
    BY <1>1, <1>2
  <2>2. s[1] # s[2] /\ s[1] # s[3] /\ s[1] # s[4] /\ s[2] # s[3] /\ s[2] # s[4] /\ s[3] # s[4]
    BY <1>1, <2>1 DEF Once
  <2>3. s[1] \in Message \ {m} /\ s[2] \in Message \ {m} /\ s[3] \in Message \ {m} /\ s[4] \in Message \ {m}
    BY <1>1, <2>1
  <2> QED BY <2>2, <2>3 DEF Message, Wakes, Replies
<1>3. Len(s) \in Nat /\ ~(Len(s) >= 4)
  BY <1>0, <1>2
<1> QED BY <1>3

-----------------------------------------------------------------------------
(* The types of the mailbox.                                               *)

LEMMA UnreadIsLess ==
    ASSUME TypeOK
    PROVE  /\ Unread \in Seq(Message) /\ Len(Unread) <= Capacity
           /\ Elements(Unread) = {e \in Elements(buffered) : ~Coalesced(e)}
           /\ \A M : Once(buffered, M) => Once(Unread, M)
<1> DEFINE S == {i \in 1..Len(buffered) : ~Coalesced(buffered[i])}
<1>1. buffered \in Seq(Message) /\ Len(buffered) <= Capacity /\ Len(buffered) \in Nat /\ Capacity \in Nat
  BY MailboxAssumption DEF TypeOK
<1>2. S \in SUBSET (1..Len(buffered))
  OBVIOUS
<1>3. {buffered[k] : k \in S} = {e \in Elements(buffered) : ~Coalesced(e)}
  BY DEF Elements
<1> HIDE DEF S
<1>4. /\ Picked(buffered, S) \in Seq(Message) /\ Len(Picked(buffered, S)) <= Len(buffered)
      /\ Elements(Picked(buffered, S)) = {buffered[k] : k \in S}
      /\ \A M : Once(buffered, M) => Once(Picked(buffered, S), M)
  BY <1>1, <1>2, PickedOnce
<1>5. Unread = Picked(buffered, S)
  BY DEF Unread, S
<1>6. Len(Picked(buffered, S)) \in Nat
  BY <1>4
<1> QED BY <1>1, <1>3, <1>4, <1>5, <1>6

LEMMA StoredFits ==
    ASSUME TypeOK, NEW m \in Message
    PROVE  Stored(m) \in Seq(Message) /\ Len(Stored(m)) <= Capacity
<1>1. buffered \in Seq(Message) /\ Len(buffered) <= Capacity /\ Len(buffered) \in Nat /\ Capacity \in Nat \ {0}
  BY MailboxAssumption DEF TypeOK
<1>2. CASE Len(buffered) = Capacity
  <2>1. buffered # <<>>
    BY <1>1, <1>2
  <2>2. Tail(buffered) \in Seq(Message) /\ Len(Tail(buffered)) = Len(buffered) - 1
    BY <1>1, <2>1, TailOnce
  <2>3. Append(Tail(buffered), m) \in Seq(Message) /\ Len(Append(Tail(buffered), m)) = Len(Tail(buffered)) + 1
    BY <2>2, AppendOnce
  <2> QED BY <1>1, <1>2, <2>2, <2>3 DEF Stored
<1>3. CASE Len(buffered) # Capacity
  <2>1. Append(buffered, m) \in Seq(Message) /\ Len(Append(buffered, m)) = Len(buffered) + 1
    BY <1>1, AppendOnce
  <2> QED BY <1>1, <1>3, <2>1 DEF Stored
<1> QED BY <1>2, <1>3

LEMMA OfferTypes ==
    ASSUME TypeOK, NEW m \in Message, Offer(m), UNCHANGED <<loop, call>>
    PROVE  /\ buffered' \in Seq(Message) /\ Len(buffered') <= Capacity
           /\ waiter' \in BOOLEAN /\ terminal' \in BOOLEAN /\ owed' \in BOOLEAN
           /\ remoteWakePending' \in BOOLEAN /\ localWakePending' \in BOOLEAN
           /\ result' \in Message \cup {"none", "error"}
           /\ waiter' => call' \in {"race", "cancel"} /\ result' = "none"
<1>1. Stored(m) \in Seq(Message) /\ Len(Stored(m)) <= Capacity
  BY StoredFits
<1>2. CASE Coalesced(m)
  BY <1>2 DEF Offer, TypeOK, mailboxVars
<1>3. CASE ~Coalesced(m) /\ waiter
  BY <1>3 DEF Offer, TypeOK, Latched
<1>4. CASE ~Coalesced(m) /\ ~waiter
  BY <1>1, <1>4 DEF Offer, TypeOK, Latched
<1>5. waiter \in BOOLEAN
  BY DEF TypeOK
<1> QED BY <1>2, <1>3, <1>4, <1>5

LEMMA ConsumeTypes ==
    ASSUME TypeOK, ConsumeWake
    PROVE  /\ buffered' \in Seq(Message) /\ Len(buffered') <= Capacity
           /\ waiter' = waiter /\ terminal' = terminal
           /\ remoteWakePending' = FALSE /\ localWakePending' = FALSE
  BY UnreadIsLess DEF ConsumeWake

\* Only a call that waits is handed a result.
ResultHasCall == result # "none" => call \in {"race", "cancel"}

LEMMA MailboxTypeStep == TypeOK /\ ResultHasCall /\ [Next]_vars => TypeOK'
<1> SUFFICES ASSUME TypeOK, ResultHasCall, [Next]_vars PROVE TypeOK'
  OBVIOUS
<1>e. <<>> \in Seq(Message) /\ Len(<<>>) <= Capacity
  BY MailboxAssumption
<1>m. \A m \in {"heartbeat-accepted", "command-delivery", "remoteWake", "localWake"} : m \in Message
  BY DEF Message, Wakes, Replies
<1>w. /\ wire \in Seq(Message)
      /\ \A m \in Message : Append(wire, m) \in Seq(Message)
      /\ wire # <<>> => Tail(wire) \in Seq(Message) /\ Head(wire) \in Message
  <2>1. wire \in Seq(Message)
    BY DEF TypeOK
  <2> QED BY <2>1, AppendOnce, TailOnce
<1>1. CASE TakeNext
  <2>1. CASE buffered # <<>>
    <3>1. Tail(buffered) \in Seq(Message) /\ Head(buffered) \in Message /\ Len(Tail(buffered)) = Len(buffered) - 1
          /\ Len(buffered) \in Nat
      BY <2>1, TailOnce DEF TypeOK
    <3>2. buffered' = Tail(buffered) /\ result' = Head(buffered) /\ waiter' = waiter
      BY <1>1, <2>1 DEF TakeNext
    <3>3. Len(buffered') <= Capacity
      BY <3>1, <3>2, MailboxAssumption DEF TypeOK
    <3>4. ~waiter
      BY <1>1 DEF TakeNext, TypeOK
    <3> QED BY <1>1, <3>1, <3>2, <3>3, <3>4 DEF TakeNext, TypeOK
  <2>2. CASE buffered = <<>> /\ terminal
    BY <1>1, <2>2 DEF TakeNext, TypeOK
  <2>3. CASE buffered = <<>> /\ ~terminal
    <3>1. waiter' = TRUE /\ buffered' = buffered /\ result' = result
      BY <1>1, <2>3 DEF TakeNext
    <3>2. result = "none" /\ call' \in {"race", "cancel"}
      BY <1>1 DEF TakeNext, ResultHasCall
    <3> QED BY <1>1, <3>1, <3>2 DEF TakeNext, TypeOK
  <2> QED BY <2>1, <2>2, <2>3
<1>2. CASE TimerFires
  BY <1>2 DEF TimerFires, TypeOK, mailboxVars
<1>3. CASE TimedOut
  BY <1>3 DEF TimedOut, TypeOK, LoopSteps, Receiving
<1>4. CASE MessageArrives
  <2>1. UNCHANGED <<mailboxVars, wire, relay, owed>> /\ call = "race" /\ result # "none" /\ result' = "none"
    BY <1>4 DEF MessageArrives
  <2>2. ~waiter /\ loop \in Receiving
    BY <2>1 DEF TypeOK
  <2>3. loop' \in LoopSteps /\ call' \in {"none", "next"} /\ (loop' \in Receiving <=> call' # "none")
    BY <1>4, <2>1, <2>2 DEF MessageArrives, Expected, LoopSteps, Receiving, TypeOK, Wakes
  <2> QED BY <2>1, <2>2, <2>3 DEF TypeOK, mailboxVars
<1>5. CASE Beat
  <2>1. /\ buffered' \in Seq(Message) /\ Len(buffered') <= Capacity
        /\ waiter' = waiter /\ terminal' = terminal
        /\ remoteWakePending' = FALSE /\ localWakePending' = FALSE
    BY <1>5, ConsumeTypes DEF Beat
  <2>2. /\ loop = "top" /\ result' = result
        /\ \/ loop' = "ended" /\ UNCHANGED <<call, wire, relay, owed>>
           \/ /\ loop' = "accepted" /\ call' = "next" /\ wire' = Append(wire, "heartbeat-accepted")
              /\ relay' = TRUE /\ owed' = FALSE
    BY <1>5 DEF Beat
  <2>3. ~waiter
    BY <2>2 DEF TypeOK, Receiving
  <2> QED BY <1>m, <1>w, <2>1, <2>2, <2>3 DEF TypeOK, LoopSteps, Receiving
<1>6. CASE Handled
  BY <1>6 DEF Handled, TypeOK, mailboxVars, LoopSteps, Receiving
<1>7. CASE CheckWake
  <2>1. /\ buffered' \in Seq(Message) /\ Len(buffered') <= Capacity
        /\ waiter' = waiter /\ terminal' = terminal
        /\ remoteWakePending' = FALSE /\ localWakePending' = FALSE
    BY <1>7, ConsumeTypes DEF CheckWake
  <2>2. /\ loop = "check" /\ UNCHANGED <<wire, relay, result, owed>>
        /\ \/ loop' = "top" /\ call' = call
           \/ loop' = "idle" /\ call' = "next"
    BY <1>7 DEF CheckWake
  <2>3. ~waiter
    BY <2>2 DEF TypeOK, Receiving
  <2> QED BY <2>1, <2>2, <2>3 DEF TypeOK, LoopSteps, Receiving
<1>8. CASE DrainWake
  <2>1. /\ buffered' \in Seq(Message) /\ Len(buffered') <= Capacity
        /\ waiter' = waiter /\ terminal' = terminal
        /\ remoteWakePending' = FALSE /\ localWakePending' = FALSE
    BY <1>8, ConsumeTypes DEF DrainWake
  <2>2. loop = "drain" /\ loop' = "top" /\ UNCHANGED <<wire, relay, call, result, owed>>
    BY <1>8 DEF DrainWake
  <2>3. ~waiter
    BY <2>2 DEF TypeOK, Receiving
  <2> QED BY <2>1, <2>2, <2>3 DEF TypeOK, LoopSteps, Receiving
<1>9. CASE Reconnect
  BY <1>e, <1>9 DEF Reconnect, TypeOK, LoopSteps, Receiving
<1>10. CASE SendDelivery
  BY <1>10, <1>m, <1>w DEF SendDelivery, TypeOK, mailboxVars, OutsideFrame
<1>11. CASE SendWake
  BY <1>11, <1>m, <1>w DEF SendWake, TypeOK, mailboxVars, OutsideFrame
<1>12. CASE Pump
  <2>1. wire # <<>> /\ Offer(Head(wire)) /\ UNCHANGED <<loop, call>> /\ wire' = Tail(wire) /\ relay' = relay
    BY <1>12 DEF Pump, OutsideFrame
  <2>2. Head(wire) \in Message /\ Tail(wire) \in Seq(Message)
    BY <1>w, <2>1
  <2> HIDE DEF Offer
  <2> QED BY <2>1, <2>2, OfferTypes DEF TypeOK
<1>13. CASE LocalCommandCompletion
  <2>1. Offer("localWake") /\ UNCHANGED <<loop, call>> /\ wire' = wire /\ relay' = relay
    BY <1>13 DEF LocalCommandCompletion, OutsideFrame
  <2> QED BY <2>1, <1>m, OfferTypes DEF TypeOK
<1>14. CASE Finish
  <2>1. /\ terminal' = TRUE /\ buffered' = <<>> /\ wire' = <<>> /\ relay' = FALSE
        /\ UNCHANGED <<remoteWakePending, localWakePending, owed, loop, call>>
        /\ (waiter /\ waiter' = FALSE /\ result' = "error") \/ (~waiter /\ UNCHANGED <<waiter, result>>)
    BY <1>14 DEF Finish, OutsideFrame
  <2>2. Len(buffered') <= Capacity
    BY <1>e, <2>1
  <2>3. buffered' \in Seq(Message) /\ wire' \in Seq(Message)
    BY <1>e, <2>1
  <2>4. waiter' = FALSE /\ result' \in Message \cup {"none", "error"}
    BY <2>1 DEF TypeOK
  <2> QED BY <2>1, <2>2, <2>3, <2>4 DEF TypeOK
<1>15. CASE UNCHANGED vars
  BY <1>15 DEF vars, mailboxVars, TypeOK
<1> QED
  BY <1>1, <1>2, <1>3, <1>4, <1>5, <1>6, <1>7, <1>8, <1>9, <1>10, <1>11, <1>12, <1>13, <1>14, <1>15
  DEF Next, LoopStep

LEMMA MailboxTypeInit == Init => TypeOK /\ ResultHasCall
<1>e. <<>> \in Seq(Message) /\ Len(<<>>) <= Capacity
  BY MailboxAssumption
<1> QED BY <1>e DEF Init, TypeOK, LoopSteps, Receiving, ResultHasCall

LEMMA ResultHasCallStep == TypeOK /\ ResultHasCall /\ [Next]_vars => ResultHasCall'
<1> SUFFICES ASSUME TypeOK, ResultHasCall, [Next]_vars PROVE ResultHasCall'
  OBVIOUS
<1>o. ASSUME NEW m \in Message, Offer(m), UNCHANGED call PROVE ResultHasCall'
  <2>1. result' = result \/ waiter
    BY <1>o DEF Offer
  <2> QED BY <1>o, <2>1 DEF ResultHasCall, TypeOK
<1>1. CASE TakeNext
  BY <1>1 DEF TakeNext, ResultHasCall
<1>2. CASE TimerFires
  BY <1>2 DEF TimerFires, ResultHasCall
<1>3. CASE TimedOut
  BY <1>3 DEF TimedOut, ResultHasCall
<1>4. CASE MessageArrives
  BY <1>4 DEF MessageArrives, ResultHasCall
<1>5. CASE Beat
  BY <1>5 DEF Beat, ResultHasCall, TypeOK, Receiving
<1>6. CASE Handled
  BY <1>6 DEF Handled, ResultHasCall
<1>7. CASE CheckWake
  BY <1>7 DEF CheckWake, ResultHasCall, TypeOK, Receiving
<1>8. CASE DrainWake
  BY <1>8 DEF DrainWake, ResultHasCall
<1>9. CASE Reconnect
  BY <1>9 DEF Reconnect, ResultHasCall
<1>10. CASE SendDelivery \/ SendWake
  BY <1>10 DEF SendDelivery, SendWake, ResultHasCall, OutsideFrame
<1>11. CASE Pump
  <2>1. wire # <<>> /\ Offer(Head(wire)) /\ UNCHANGED call
    BY <1>11 DEF Pump, OutsideFrame
  <2>2. Head(wire) \in Message
    BY <2>1, TailOnce DEF TypeOK
  <2> QED BY <1>o, <2>1, <2>2
<1>12. CASE LocalCommandCompletion
  BY <1>o, <1>12 DEF LocalCommandCompletion, OutsideFrame, Message, Wakes
<1>13. CASE Finish
  BY <1>13 DEF Finish, ResultHasCall, TypeOK, OutsideFrame
<1>14. CASE UNCHANGED vars
  BY <1>14 DEF vars, ResultHasCall
<1> QED
  BY <1>1, <1>2, <1>3, <1>4, <1>5, <1>6, <1>7, <1>8, <1>9, <1>10, <1>11, <1>12, <1>13, <1>14
  DEF Next, LoopStep

\* The mailbox, the connection and the loop keep their types, whatever the capacity: no
\* message too many is buffered, and a continuation has its call (CloudWebSocketMailbox.swift).
THEOREM MailboxTypeCorrect == Spec => []TypeOK
<1>1. Spec => [](TypeOK /\ ResultHasCall)
  BY MailboxTypeInit, MailboxTypeStep, ResultHasCallStep, PTL DEF Spec
<1> QED BY <1>1, PTL

-----------------------------------------------------------------------------
(* No message is there twice.                                              *)

\* A reply is between the gateway and the loop in one place, and once; a wake
\* that waits in the buffer is pending; and the replies there are answer the
\* heartbeat the loop waits for.
OneEach ==
    /\ Once(buffered, Message) /\ Once(wire, Replies)
    /\ \A m \in Elements(buffered) : m \in Wakes => Coalesced(m)
    /\ \A m \in Replies :
          /\ m \in Elements(buffered) => m \notin Elements(wire) /\ result # m
          /\ m \in Elements(wire) => result # m
    /\ relay => "command-delivery" \notin Elements(buffered) \cup Elements(wire) \cup {result}
    /\ "heartbeat-accepted" \in Elements(buffered) \cup Elements(wire) \cup {result}
          => loop = "accepted"
    /\ relay \/ "command-delivery" \in Elements(buffered) \cup Elements(wire) \cup {result}
          => loop \in {"accepted", "delivery"}

MailboxInv == TypeOK /\ ResultHasCall /\ (loop # "ended" => OneEach)

\* There is room for a message that is not there yet.
LEMMA RoomForOne ==
    ASSUME TypeOK, OneEach, Capacity >= 4, NEW m \in Message, m \notin Elements(buffered)
    PROVE  Stored(m) = Append(buffered, m)
<1>1. Len(buffered) \in Nat /\ Len(buffered) < 4
  BY ShortIfOnce DEF TypeOK, OneEach
<1> QED BY <1>1, MailboxAssumption DEF Stored

LEMMA OfferOnce ==
    ASSUME TypeOK, OneEach, Capacity >= 4, NEW m \in Message, Offer(m),
           m \in Replies => m \notin Elements(buffered)
    PROVE  /\ Once(buffered', Message)
           /\ \A e \in Elements(buffered') : e \in Wakes => Coalesced(e)'
           /\ Elements(buffered) \subseteq Elements(buffered')
           /\ Elements(buffered') \subseteq Elements(buffered) \cup {m}
           /\ result' \in {result, m}
           /\ result' = m /\ result # m => Elements(buffered') = Elements(buffered)
<1>t. buffered \in Seq(Message) /\ waiter \in BOOLEAN /\ (waiter => result = "none")
      /\ remoteWakePending \in BOOLEAN /\ localWakePending \in BOOLEAN
  BY DEF TypeOK
<1>k. Once(buffered, Message) /\ \A e \in Elements(buffered) : e \in Wakes => Coalesced(e)
  BY DEF OneEach
<1>1. CASE Coalesced(m)
  <2>1. UNCHANGED <<mailboxVars, result>>
    BY <1>1 DEF Offer
  <2> QED BY <1>k, <2>1 DEF mailboxVars, Coalesced
<1>2. CASE ~Coalesced(m)
  <2>1. /\ Latched(m)
        /\ \/ waiter /\ result' = m /\ buffered' = buffered
           \/ result' = result /\ buffered' \in {buffered, Stored(m)}
    BY <1>2, <1>t DEF Offer
  <2>2. \A e \in Wakes : Coalesced(e) \/ e = m => Coalesced(e)'
    BY <2>1 DEF Latched, Coalesced, Wakes
  <2>3. m \notin Elements(buffered)
    BY <1>2, <1>k DEF Message
  <2>4. Stored(m) = Append(buffered, m)
    BY <2>3, RoomForOne
  <2>5. Elements(Append(buffered, m)) = Elements(buffered) \cup {m} /\ Once(Append(buffered, m), Message)
    BY <1>t, <1>k, <2>3, AppendOnce
  <2>6. buffered' \in {buffered, Append(buffered, m)}
    BY <2>1, <2>4
  <2>7. Once(buffered', Message) /\ Elements(buffered) \subseteq Elements(buffered')
        /\ Elements(buffered') \subseteq Elements(buffered) \cup {m}
    BY <1>k, <2>5, <2>6
  <2>8. \A e \in Elements(buffered') : e \in Wakes => Coalesced(e)'
    BY <1>k, <2>2, <2>7
  <2>9. result' \in {result, m} /\ (result' = m /\ result # m => buffered' = buffered)
    BY <2>1
  <2> QED BY <2>7, <2>8, <2>9
<1> QED BY <1>1, <1>2

LEMMA ConsumeOnce ==
    ASSUME TypeOK, OneEach, ConsumeWake
    PROVE  /\ Once(buffered', Message)
           /\ \A e \in Elements(buffered') : e \notin Wakes
           /\ \A e \in Replies : e \in Elements(buffered') <=> e \in Elements(buffered)
<1>1. buffered' = Unread
  BY DEF ConsumeWake
<1>2. /\ Elements(Unread) = {e \in Elements(buffered) : ~Coalesced(e)}
      /\ Once(buffered, Message) => Once(Unread, Message)
  BY UnreadIsLess
<1>3. Once(buffered, Message) /\ \A e \in Elements(buffered) : e \in Wakes => Coalesced(e)
  BY DEF OneEach
<1>4. \A e \in Replies : ~Coalesced(e)
  BY DEF Replies, Coalesced
<1> QED BY <1>1, <1>2, <1>3, <1>4

LEMMA OneEachStep ==
    Capacity >= 4 /\ MailboxInv /\ [Next]_vars => (loop' # "ended" => OneEach')
<1> SUFFICES ASSUME Capacity >= 4, MailboxInv, [Next]_vars, loop' # "ended" PROVE OneEach'
  OBVIOUS
<1>t. TypeOK /\ ResultHasCall
  BY DEF MailboxInv
<1>m. Wakes \cup Replies = Message
  BY DEF Message
<1>r. Replies = {"heartbeat-accepted", "command-delivery"} /\ Wakes = {"remoteWake", "localWake"}
  BY DEF Replies, Wakes
<1>e. Elements(<<>>) = {} /\ \A M : Once(<<>>, M)
  BY DEF Elements, Once
<1>w. buffered \in Seq(Message) /\ wire \in Seq(Message)
  BY <1>t DEF TypeOK
<1>0. CASE Reconnect
  <2>1. buffered' = <<>> /\ wire' = <<>> /\ relay' = FALSE /\ result' = "none"
    BY <1>0 DEF Reconnect
  <2> QED BY <1>e, <1>r, <2>1 DEF OneEach
<1> SUFFICES ASSUME ~Reconnect PROVE OneEach'
  BY <1>0
<1>i. loop # "ended"
  <2>1. LoopStep => loop # "ended"
    <3>1. TakeNext \/ TimedOut \/ MessageArrives => call # "none"
      BY DEF TakeNext, TimedOut, MessageArrives
    <3>2. call # "none" => loop # "ended"
      BY <1>t DEF TypeOK, Receiving
    <3>3. Beat \/ Handled \/ CheckWake \/ DrainWake => loop # "ended"
      BY DEF Beat, Handled, CheckWake, DrainWake
    <3> QED BY <3>1, <3>2, <3>3 DEF LoopStep
  <2>2. TimerFires \/ SendDelivery \/ SendWake \/ Pump \/ LocalCommandCompletion \/ Finish => loop' = loop
    BY DEF TimerFires, SendDelivery, SendWake, Pump, LocalCommandCompletion, Finish, OutsideFrame
  <2>3. UNCHANGED vars => loop' = loop
    BY DEF vars
  <2> QED BY <2>1, <2>2, <2>3 DEF Next
<1>o. OneEach
  BY <1>i DEF MailboxInv
<1>s. ASSUME UNCHANGED <<mailboxVars, wire, relay, loop, result>> PROVE OneEach'
  BY <1>s, <1>o DEF OneEach, mailboxVars, Coalesced
<1>1. CASE TakeNext
  <2>1. UNCHANGED <<wire, relay, loop, remoteWakePending, localWakePending>>
    BY <1>1 DEF TakeNext
  <2>2. CASE buffered # <<>>
    <3>1. result' = Head(buffered) /\ buffered' = Tail(buffered)
      BY <1>1, <2>2 DEF TakeNext
    <3>2. /\ Elements(buffered) = Elements(buffered') \cup {result'}
          /\ Once(buffered', Message) /\ result' \notin Elements(buffered')
      <4>1. Head(buffered) \in Message
        BY <1>w, <2>2, TailOnce
      <4>2. Once(buffered, Message)
        BY <1>o DEF OneEach
      <4>3. /\ Elements(buffered) = Elements(Tail(buffered)) \cup {Head(buffered)}
            /\ Once(Tail(buffered), Message) /\ Head(buffered) \notin Elements(Tail(buffered))
        BY <1>w, <2>2, <4>1, <4>2, TailOnce
      <4> QED BY <3>1, <4>3
    <3> QED BY <1>o, <2>1, <3>2 DEF OneEach, Coalesced
  <2>3. CASE buffered = <<>>
    <3>1. buffered' = buffered /\ result' \in {result, "error"}
      BY <1>1, <2>3 DEF TakeNext
    <3> QED BY <1>o, <1>r, <2>1, <3>1 DEF OneEach, Coalesced
  <2> QED BY <2>2, <2>3
<1>2. CASE TimerFires
  BY <1>2, <1>s DEF TimerFires
<1>3. CASE TimedOut
  <2>1. UNCHANGED <<buffered, remoteWakePending, localWakePending, wire, relay>> /\ result' = "none"
        /\ loop = "idle"
    BY <1>3 DEF TimedOut
  <2> QED BY <1>o, <1>r, <2>1 DEF OneEach, Coalesced
<1>4. CASE MessageArrives
  <2>1. UNCHANGED <<mailboxVars, wire, relay>> /\ result' = "none" /\ result # "none"
        /\ (loop' = loop \/ (result = "heartbeat-accepted" /\ loop' = "delivery")
                         \/ (result = "command-delivery" /\ loop = "delivery")
                         \/ loop = "idle")
    BY <1>4 DEF MessageArrives, Expected
  <2> QED BY <1>o, <1>r, <2>1 DEF OneEach, Coalesced, mailboxVars
<1>5. CASE Beat
  <2>1. /\ loop = "top" /\ loop' = "accepted" /\ wire' = Append(wire, "heartbeat-accepted")
        /\ ConsumeWake /\ result' = result
    BY <1>5 DEF Beat
  <2>2. /\ Once(buffered', Message)
        /\ \A e \in Elements(buffered') : e \notin Wakes
        /\ \A e \in Replies : e \in Elements(buffered') <=> e \in Elements(buffered)
    BY <1>t, <1>o, <2>1, ConsumeOnce
  <2>3. \A m \in Replies : m \notin Elements(buffered) /\ m \notin Elements(wire) /\ m # result
    BY <1>o, <1>r, <2>1 DEF OneEach
  <2>4. Elements(wire') = Elements(wire) \cup {"heartbeat-accepted"} /\ Once(wire', Replies)
    <3>1. Once(wire, Replies)
      BY <1>o DEF OneEach
    <3>2. "heartbeat-accepted" \in Message /\ "heartbeat-accepted" \notin Elements(wire)
      BY <1>r, <1>m, <2>3
    <3> QED BY <1>w, <2>1, <3>1, <3>2, AppendOnce
  <2> QED BY <1>r, <2>1, <2>2, <2>3, <2>4 DEF OneEach
<1>6. CASE Handled
  <2>1. UNCHANGED <<mailboxVars, wire, relay, result>> /\ loop = "handle"
    BY <1>6 DEF Handled
  <2> QED BY <1>o, <2>1 DEF OneEach, mailboxVars, Coalesced
<1>7. CASE CheckWake \/ DrainWake
  <2>1. /\ loop \in {"check", "drain"} /\ UNCHANGED <<wire, relay, result>> /\ ConsumeWake
    BY <1>7 DEF CheckWake, DrainWake
  <2>2. /\ Once(buffered', Message)
        /\ \A e \in Elements(buffered') : e \notin Wakes
        /\ \A e \in Replies : e \in Elements(buffered') <=> e \in Elements(buffered)
    BY <1>t, <1>o, <2>1, ConsumeOnce
  <2> QED BY <1>o, <1>r, <2>1, <2>2 DEF OneEach
<1>8. CASE SendDelivery
  <2>1. /\ relay /\ relay' = FALSE /\ wire' = Append(wire, "command-delivery")
        /\ UNCHANGED <<mailboxVars, result, loop>>
    BY <1>8 DEF SendDelivery, OutsideFrame
  <2>2. Elements(wire') = Elements(wire) \cup {"command-delivery"} /\ Once(wire', Replies)
    <3>1. Once(wire, Replies) /\ "command-delivery" \notin Elements(wire)
      BY <1>o, <2>1 DEF OneEach
    <3>2. "command-delivery" \in Message
      BY <1>r, <1>m
    <3> QED BY <1>w, <2>1, <3>1, <3>2, AppendOnce
  <2> QED BY <1>o, <1>r, <2>1, <2>2 DEF OneEach, mailboxVars, Coalesced
<1>9. CASE SendWake
  <2>1. wire' = Append(wire, "remoteWake") /\ UNCHANGED <<mailboxVars, relay, result, loop>>
    BY <1>9 DEF SendWake, OutsideFrame
  <2>2. Elements(wire') = Elements(wire) \cup {"remoteWake"} /\ Once(wire', Replies)
    <3>1. Once(wire, Replies) /\ "remoteWake" \notin Replies
      BY <1>o, <1>r DEF OneEach
    <3>2. "remoteWake" \in Message
      BY <1>r, <1>m
    <3> QED BY <1>w, <2>1, <3>1, <3>2, AppendOnce
  <2> QED BY <1>o, <1>r, <2>1, <2>2 DEF OneEach, mailboxVars, Coalesced
<1>10. CASE Pump
  <2> DEFINE m == Head(wire)
  <2>1. wire # <<>> /\ Offer(m) /\ UNCHANGED <<loop, relay>> /\ wire' = Tail(wire)
    BY <1>10 DEF Pump, OutsideFrame
  <2>2. m \in Message /\ Elements(wire) = Elements(wire') \cup {m} /\ Once(wire', Replies)
        /\ (m \in Replies => m \notin Elements(wire'))
    <3>1. Once(wire, Replies)
      BY <1>o DEF OneEach
    <3> QED BY <1>w, <2>1, <3>1, TailOnce
  <2>3. m \in Replies => m \notin Elements(buffered) /\ result # m
    BY <1>o, <2>2 DEF OneEach
  <2> HIDE DEF m
  <2>4. /\ Once(buffered', Message)
        /\ \A e \in Elements(buffered') : e \in Wakes => Coalesced(e)'
        /\ Elements(buffered') \subseteq Elements(buffered) \cup {m}
        /\ result' \in {result, m}
        /\ result' = m /\ result # m => Elements(buffered') = Elements(buffered)
    BY <1>t, <1>o, <2>1, <2>2, <2>3, OfferOnce
  <2> QED BY <1>o, <1>r, <2>1, <2>2, <2>3, <2>4 DEF OneEach
<1>11. CASE LocalCommandCompletion
  <2>1. Offer("localWake") /\ UNCHANGED <<loop, wire, relay>>
    BY <1>11 DEF LocalCommandCompletion, OutsideFrame
  <2>2. "localWake" \in Message /\ "localWake" \notin Replies
    BY <1>r, <1>m
  <2>4. /\ Once(buffered', Message)
        /\ \A e \in Elements(buffered') : e \in Wakes => Coalesced(e)'
        /\ Elements(buffered') \subseteq Elements(buffered) \cup {"localWake"}
        /\ result' \in {result, "localWake"}
    BY <1>t, <1>o, <2>1, <2>2, OfferOnce
  <2> QED BY <1>o, <1>r, <2>1, <2>4 DEF OneEach
<1>12. CASE Finish
  <2>1. /\ buffered' = <<>> /\ wire' = <<>> /\ relay' = FALSE /\ loop' = loop
        /\ result' \in {result, "error"}
    BY <1>12 DEF Finish, OutsideFrame
  <2> QED BY <1>e, <1>o, <1>r, <2>1 DEF OneEach
<1>13. CASE UNCHANGED vars
  BY <1>13, <1>s DEF vars
<1> QED
  BY <1>1, <1>2, <1>3, <1>4, <1>5, <1>6, <1>7, <1>8, <1>9, <1>10, <1>11, <1>12, <1>13
  DEF Next, LoopStep

LEMMA MailboxInvHolds ==
    ASSUME Capacity >= 4
    PROVE  Spec => []MailboxInv
<1>1. Init => MailboxInv
  <2>1. Elements(<<>>) = {} /\ \A M : Once(<<>>, M)
    BY DEF Elements, Once
  <2>2. Init => OneEach
    BY <2>1 DEF Init, OneEach, Replies
  <2> QED BY <2>2, MailboxTypeInit DEF MailboxInv
<1>2. MailboxInv /\ [Next]_vars => MailboxInv'
  BY MailboxTypeStep, ResultHasCallStep, OneEachStep DEF MailboxInv
<1> QED BY <1>1, <1>2, PTL DEF Spec

LEMMA RepliesKeptStep ==
    Capacity >= 4 /\ MailboxInv /\ [Next]_vars =>
        \A m \in Replies :
            m \in Elements(buffered) =>
                m \in Elements(buffered') \/ result' = m \/ terminal' \/ loop = "ended"
<1> SUFFICES ASSUME Capacity >= 4, MailboxInv, [Next]_vars, loop # "ended",
                    NEW m \in Replies, m \in Elements(buffered)
             PROVE  m \in Elements(buffered') \/ result' = m \/ terminal'
  OBVIOUS
<1>t. TypeOK /\ OneEach
  BY DEF MailboxInv
<1>o. ASSUME NEW e \in Message, Offer(e), e \in Replies => e \notin Elements(buffered)
      PROVE  m \in Elements(buffered')
  BY <1>o, <1>t, OfferOnce
<1>c. ConsumeWake => m \in Elements(buffered')
  BY <1>t, ConsumeOnce
<1>w. buffered \in Seq(Message) /\ wire \in Seq(Message)
  BY <1>t DEF TypeOK
<1>1. CASE TakeNext
  <2>1. CASE buffered # <<>>
    <3>1. result' = Head(buffered) /\ buffered' = Tail(buffered)
      BY <1>1, <2>1 DEF TakeNext
    <3> QED BY <1>w, <2>1, <3>1, TailOnce
  <2>2. CASE buffered = <<>>
    BY <1>1, <2>2 DEF TakeNext
  <2> QED BY <2>1, <2>2
<1>2. CASE TimerFires \/ TimedOut \/ MessageArrives \/ Handled \/ SendDelivery \/ SendWake \/ UNCHANGED vars
  <2>1. buffered' = buffered
    BY <1>2 DEF TimerFires, TimedOut, MessageArrives, Handled, SendDelivery, SendWake, vars, mailboxVars
  <2> QED BY <2>1
<1>3. CASE Beat \/ CheckWake \/ DrainWake
  BY <1>3, <1>c DEF Beat, CheckWake, DrainWake
<1>4. CASE Pump
  <2>1. wire # <<>> /\ Offer(Head(wire))
    BY <1>4 DEF Pump
  <2>2. Head(wire) \in Message /\ Head(wire) \in Elements(wire)
    BY <1>w, <2>1, TailOnce
  <2>3. Head(wire) \in Replies => Head(wire) \notin Elements(buffered)
    BY <1>t, <2>2 DEF OneEach
  <2> QED BY <1>o, <2>1, <2>2, <2>3
<1>5. CASE LocalCommandCompletion
  BY <1>5, <1>o DEF LocalCommandCompletion, Message, Wakes, Replies
<1>6. CASE Finish
  BY <1>6 DEF Finish
<1>7. ~Reconnect
  BY DEF Reconnect
<1> QED
  BY <1>1, <1>2, <1>3, <1>4, <1>5, <1>6, <1>7 DEF Next, LoopStep

\* A mailbox of four, and the program's has eight, never makes room by dropping a reply
\* the heartbeat loop waits for (CloudWebSocketMailbox.swift, offer and consumeWake).
THEOREM RepliesAreNeverDropped ==
    ASSUME Capacity >= 4
    PROVE  Spec => RepliesAreKept
<1>2. MailboxInv /\ MailboxInv' /\ [Next]_vars =>
        [\A m \in Replies, i \in DOMAIN buffered :
            buffered[i] = m =>
                \/ \E k \in DOMAIN buffered' : buffered'[k] = m
                \/ result' = m \/ terminal' \/ loop = "ended"]_vars
  <2> SUFFICES ASSUME MailboxInv, MailboxInv', [Next]_vars,
                      NEW m \in Replies, NEW i \in DOMAIN buffered, buffered[i] = m
               PROVE  \/ \E k \in DOMAIN buffered' : buffered'[k] = m
                      \/ result' = m \/ terminal' \/ loop = "ended"
    OBVIOUS
  <2>1. buffered \in Seq(Message) /\ buffered' \in Seq(Message)
    BY DEF MailboxInv, TypeOK
  <2>2. DOMAIN buffered = 1..Len(buffered) /\ DOMAIN buffered' = 1..Len(buffered')
    BY <2>1
  <2>3. m \in Elements(buffered)
    BY <2>2 DEF Elements
  <2>4. m \in Elements(buffered') => \E k \in DOMAIN buffered' : buffered'[k] = m
    BY <2>2 DEF Elements
  <2> QED BY <2>3, <2>4, RepliesKeptStep
<1>3. Spec => []MailboxInv
  BY MailboxInvHolds
<1> QED BY <1>2, <1>3, PTL DEF Spec, RepliesAreKept

-----------------------------------------------------------------------------
(* The shapes of commands and answers on every hop.                        *)

LEMMA FrameBytesOf ==
    ASSUME NEW u, unconfirmed \subseteq {u}, u.answer.bytes \in Nat
    PROVE  FrameBytes = IF unconfirmed = {} THEN 1 ELSE 1 + u.answer.bytes
<1> DEFINE F(f) == [U \in SUBSET unconfirmed |->
                      IF U = {} THEN 1
                      ELSE (CHOOSE v \in U : TRUE).answer.bytes + f[U \ {CHOOSE v \in U : TRUE}]]
           sum == CHOOSE f : f = F(f)
<1>1. FrameBytes = sum[unconfirmed]
  BY DEF FrameBytes
<1>2. \E f : f = F(f)
  <2> DEFINE g == [U \in SUBSET unconfirmed |-> IF U = {} THEN 1 ELSE 1 + u.answer.bytes]
  <2>1. g = F(g)
    <3> SUFFICES ASSUME NEW U \in SUBSET unconfirmed PROVE g[U] = F(g)[U]
      OBVIOUS
    <3>1. CASE U = {}
      BY <3>1
    <3>2. CASE U = {u}
      <4>1. (CHOOSE v \in U : TRUE) = u
        BY <3>2
      <4>2. U \ {u} = {} /\ g[{}] = 1
        BY <3>2
      <4> QED BY <4>1, <4>2, <3>2
    <3> QED BY <3>1, <3>2
  <2> QED BY <2>1
<1>3. sum = F(sum)
  <2> HIDE DEF F
  <2> QED BY <1>2
<1> HIDE DEF sum
<1>4. CASE unconfirmed = {}
  BY <1>1, <1>3, <1>4
<1>5. CASE unconfirmed = {u}
  <2>1. (CHOOSE v \in unconfirmed : TRUE) = u /\ unconfirmed \ {u} = {}
    BY <1>5
  <2>2. {} \in SUBSET unconfirmed /\ sum[{}] = 1
    BY <1>3
  <2>3. sum[unconfirmed] = u.answer.bytes + sum[{}]
    BY <1>3, <1>5, <2>1
  <2> QED BY <1>1, <1>5, <2>2, <2>3
<1> QED BY <1>4, <1>5

LEMMA KindsAreKnown ==
    /\ \A c \in Body : Kind(c) \in CommandKinds
    /\ \A k \in CommandKinds : ResultKind(k) \in AnswerKinds
    /\ \A k \in AnswerKinds : Carries(k) \in Members
<1>1. \A q \in DOMAIN Asks : Asks[q] \in CommandKinds
  BY WireAssumption
<1>2. \A c \in Body : Kind(c) \in CommandKinds
  BY <1>1 DEF Body, Kind
<1> QED BY <1>2 DEF AnswerKinds, Members

LEMMA AnswerTypes ==
    ASSUME NEW k \in CommandKinds, NEW o \in Outcomes
    PROVE  Answer(k, o) \in AnswerForms /\ Failed \in AnswerForms
<1>1. o.items \in Nat /\ o.bytes \in Nat /\ o.least \in Nat
  BY WireAssumption
<1>2. ResultKind(k) \in AnswerKinds
  BY KindsAreKnown
<1>3. Trimmed(k, o) \in AnswerForms
  BY <1>1, <1>2 DEF Trimmed, AnswerForms
<1>4. Failed \in AnswerForms
  BY DEF Failed, AnswerForms, AnswerKinds
<1> QED BY <1>3, <1>4 DEF Answer

\* An answer is a failure, or what the agent makes of what the command gave.
AnswerOf(a, kind) == a = Failed \/ \E o \in Outcomes : a = Answer(kind, o)

\* One answer is on its way at most, and it is that of its row; a row was admitted, and
\* what a completed one has is of its kind.
WireInv ==
    /\ WireTypeOK
    /\ \A i \in DOMAIN commands : RouteAdmits(commands[i].body)
    /\ frame.step # "idle" => unconfirmed = {}
    /\ \A u, v \in unconfirmed : u = v
    /\ \A u \in unconfirmed : AnswerOf(u.answer, Kind(commands[u.row].body))
    /\ \A i \in DOMAIN commands : commands[i].status = "completed" =>
          commands[i].result = Carries(ResultKind(Kind(commands[i].body)))

LEMMA AnswerKind ==
    ASSUME NEW k, NEW a, AnswerOf(a, k), a.kind # "failed"
    PROVE  a.kind = ResultKind(k)
<1>1. Failed.kind = "failed" /\ \A o : Trimmed(k, o).kind = ResultKind(k)
  BY DEF Failed, Trimmed
<1>2. \A o : Answer(k, o) \in {Failed, Trimmed(k, o)}
  BY DEF Answer
<1> QED BY <1>1, <1>2 DEF AnswerOf

LEMMA SelectableHasFirst ==
    ASSUME WireTypeOK, Selectable # {}
    PROVE  \E n \in Selectable : \A k \in Selectable : n <= k
<1>1. DOMAIN commands = 1..Len(commands) /\ Len(commands) \in Nat
  BY DEF WireTypeOK
<1>2. Selectable \in SUBSET (1..Len(commands))
  BY <1>1 DEF Selectable
<1>3. Selectable \in SUBSET Nat
  BY <1>1, <1>2
<1> QED BY <1>3, HasSmallest

\* The command that is delivered is a row, and it had no answer yet.
FirstSelectable == CHOOSE n \in Selectable : \A k \in Selectable : n <= k

LEMMA DeliverCases ==
    ASSUME WireTypeOK, DeliverCommand
    PROVE  /\ UNCHANGED <<capabilities, unconfirmed, jobPhase, wireLosses>> /\ frame.step = "persisted"
           /\ \/ frame' = [step |-> "idle", row |-> 0] /\ UNCHANGED <<commands, connected>>
              \/ \E i \in Selectable :
                    /\ commands' = [commands EXCEPT ![i].status = "running"]
                    /\ connected' = (HandlerAdmits(commands[i].body) /\ GatewayAdmits(commands[i].body)
                                        => AgentAdmits(commands[i].body))
                    /\ frame' \in {[step |-> "executing", row |-> i], [step |-> "idle", row |-> 0]}
<1>1. CASE Selectable = {}
  BY <1>1 DEF DeliverCommand
<1>2. CASE Selectable # {}
  <2> DEFINE i == FirstSelectable
  <2>1. i \in Selectable
    BY <1>2, SelectableHasFirst DEF FirstSelectable
  <2>2. /\ commands' = [commands EXCEPT ![i].status = "running"]
        /\ connected' = (HandlerAdmits(commands[i].body) /\ GatewayAdmits(commands[i].body)
                            => AgentAdmits(commands[i].body))
        /\ frame' \in {[step |-> "executing", row |-> i], [step |-> "idle", row |-> 0]}
    BY <1>2 DEF DeliverCommand, FirstSelectable
  <2> HIDE DEF i
  <2> QED BY <2>1, <2>2 DEF DeliverCommand
<1> QED BY <1>1, <1>2

\* The rows after a frame that was persisted.
PersistedRow(i) ==
    IF \E u \in unconfirmed : u.row = i
    THEN LET k == (CHOOSE u \in unconfirmed : u.row = i).answer.kind
         IN [commands[i] EXCEPT !.status = IF k = "failed" THEN "failed" ELSE "completed",
                                !.result = Carries(k)]
    ELSE commands[i]

LEMMA SendFrameCases ==
    ASSUME SendFrame
    PROVE  /\ UNCHANGED <<capabilities, jobPhase, wireLosses>> /\ connected /\ frame.step = "idle"
           /\ \/ connected' = FALSE /\ UNCHANGED <<commands, frame, unconfirmed>>
                 /\ ~(AgentSends /\ GatewayPasses)
              \/ /\ commands' = [i \in DOMAIN commands |-> PersistedRow(i)]
                 /\ unconfirmed' = {} /\ frame' = [step |-> "persisted", row |-> 0]
                 /\ connected' = connected
              \/ UNCHANGED <<commands, connected, frame, unconfirmed>>
<1> HIDE DEF AgentSends, GatewayPasses, CloudPersists
<1> QED BY DEF SendFrame, PersistedRow

LEMMA PersistedRowIsRow ==
    ASSUME WireInv, NEW i \in DOMAIN commands
    PROVE  /\ PersistedRow(i) \in RowForms /\ PersistedRow(i).body = commands[i].body
           /\ PersistedRow(i).status = "completed" =>
                 PersistedRow(i).result = Carries(ResultKind(Kind(commands[i].body)))
<1>0. commands \in Seq(RowForms)
  BY DEF WireInv, WireTypeOK
<1>1. commands[i] \in RowForms
  BY <1>0
<1>2. CASE \E u \in unconfirmed : u.row = i
  <2> DEFINE u == CHOOSE v \in unconfirmed : v.row = i
  <2>1. u \in unconfirmed /\ u.row = i
    BY <1>2
  <2> HIDE DEF u
  <2>2. u.answer.kind \in AnswerKinds /\ AnswerOf(u.answer, Kind(commands[i].body))
    BY <2>1 DEF WireInv, WireTypeOK, AnswerForms
  <2>3. PersistedRow(i) = [commands[i] EXCEPT !.status = IF u.answer.kind = "failed" THEN "failed" ELSE "completed",
                                              !.result = Carries(u.answer.kind)]
    BY <1>2 DEF PersistedRow, u
  <2>4. Carries(u.answer.kind) \in Members
    BY <2>2, KindsAreKnown
  <2>5. u.answer.kind # "failed" => u.answer.kind = ResultKind(Kind(commands[i].body))
    BY <2>2, AnswerKind
  <2> QED BY <1>1, <2>3, <2>4, <2>5 DEF RowForms
<1>3. CASE ~ \E u \in unconfirmed : u.row = i
  BY <1>1, <1>3 DEF PersistedRow, WireInv
<1> QED BY <1>2, <1>3

LEMMA WireInvInit == WireInit => WireInv
<1>1. <<>> \in Seq(RowForms) /\ Len(<<>>) = 0 /\ DOMAIN <<>> = {}
  OBVIOUS
<1>2. WireInit => WireTypeOK
  <2> SUFFICES ASSUME WireInit PROVE WireTypeOK
    OBVIOUS
  <2>1. commands \in Seq(RowForms) /\ Len(commands) <= MaxCommands
    BY <1>1, WireAssumption DEF WireInit
  <2>2. wireLosses \in 0..MaxLosses
    BY WireAssumption DEF WireInit
  <2> QED BY <2>1, <2>2 DEF WireInit, WireTypeOK
<1> QED BY <1>1, <1>2 DEF WireInit, WireInv

LEMMA WireInvStep == WireInv /\ [WireNext]_wireVars => WireInv'
<1> SUFFICES ASSUME WireInv, [WireNext]_wireVars PROVE WireInv'
  OBVIOUS
<1>t. /\ commands \in Seq(RowForms) /\ Len(commands) \in Nat /\ Len(commands) <= MaxCommands
      /\ DOMAIN commands = 1..Len(commands) /\ \A i \in DOMAIN commands : commands[i] \in RowForms
  <2>1. commands \in Seq(RowForms) /\ Len(commands) <= MaxCommands
    BY DEF WireInv, WireTypeOK
  <2> QED BY <2>1
<1>o. WireTypeOK
  BY DEF WireInv
<1>1. ASSUME NEW c \in Bodies, PostCommand(c) PROVE WireInv'
  <2> DEFINE row == [body |-> c, status |-> "pending", result |-> "nothing"]
  <2>1. /\ commands' = Append(commands, row) /\ RouteAdmits(c) /\ Len(commands) < MaxCommands
        /\ UNCHANGED <<capabilities, connected, frame, unconfirmed, jobPhase, wireLosses>>
    BY <1>1 DEF PostCommand
  <2>2. row \in RowForms
    BY DEF RowForms, Members
  <2>3. row.status = "pending" /\ row.body = c
    OBVIOUS
  <2> HIDE DEF row
  <2>4. /\ commands' \in Seq(RowForms) /\ Len(commands') = Len(commands) + 1
        /\ \A i \in DOMAIN commands : i \in DOMAIN commands' /\ commands'[i] = commands[i]
        /\ \A i \in DOMAIN commands' : i \in DOMAIN commands \/ commands'[i] = row
    BY <1>t, <2>1, <2>2
  <2>5. Len(commands') <= MaxCommands
    BY <1>t, <2>1, <2>4, WireAssumption
  <2>6. WireTypeOK'
    BY <1>o, <2>1, <2>4, <2>5 DEF WireTypeOK
  <2>7. \A i \in DOMAIN commands' : RouteAdmits(commands'[i].body)
    BY <2>1, <2>3, <2>4 DEF WireInv
  <2>8. \A u \in unconfirmed : u.row \in DOMAIN commands /\ AnswerOf(u.answer, Kind(commands[u.row].body))
    BY DEF WireInv, WireTypeOK
  <2>9. \A u \in unconfirmed' : AnswerOf(u.answer, Kind(commands'[u.row].body))
    BY <2>1, <2>4, <2>8
  <2>10. \A i \in DOMAIN commands' : commands'[i].status = "completed" =>
            commands'[i].result = Carries(ResultKind(Kind(commands'[i].body)))
    BY <2>3, <2>4 DEF WireInv
  <2> QED BY <2>1, <2>6, <2>7, <2>9, <2>10 DEF WireInv
<1>2. ASSUME NEW announced \in Announced, ConnectAgent(announced) PROVE WireInv'
  <2>1. capabilities' \in {{}} \cup Announced
    BY <1>2 DEF ConnectAgent, Negotiated
  <2>2. connected' = TRUE /\ UNCHANGED <<commands, frame, unconfirmed, jobPhase, wireLosses>>
    BY <1>2 DEF ConnectAgent
  <2> QED BY <2>1, <2>2 DEF WireInv, WireTypeOK
<1>3. CASE SendFrame
  <2>1. /\ UNCHANGED <<capabilities, jobPhase, wireLosses>> /\ connected /\ frame.step = "idle"
        /\ \/ connected' = FALSE /\ UNCHANGED <<commands, frame, unconfirmed>>
           \/ /\ commands' = [i \in DOMAIN commands |-> PersistedRow(i)]
              /\ unconfirmed' = {} /\ frame' = [step |-> "persisted", row |-> 0]
              /\ connected' = connected
           \/ UNCHANGED <<commands, connected, frame, unconfirmed>>
    BY <1>3, SendFrameCases
  <2>2. CASE /\ commands' = [i \in DOMAIN commands |-> PersistedRow(i)]
             /\ unconfirmed' = {} /\ frame' = [step |-> "persisted", row |-> 0]
             /\ connected' = connected
    <3>1. \A i \in DOMAIN commands : PersistedRow(i) \in RowForms
      BY PersistedRowIsRow
    <3>2. commands' \in [1..Len(commands) -> RowForms]
      BY <1>t, <2>2, <3>1
    <3>3. commands' \in Seq(RowForms) /\ Len(commands') = Len(commands) /\ DOMAIN commands' = DOMAIN commands
      BY <1>t, <3>2
    <3>4. WireTypeOK'
      BY <1>o, <2>1, <2>2, <3>3 DEF WireTypeOK
    <3>5. \A i \in DOMAIN commands : commands'[i] = PersistedRow(i)
      BY <2>2
    <3>6. \A i \in DOMAIN commands : /\ commands'[i].body = commands[i].body
                                     /\ commands'[i].status = "completed" =>
                                          commands'[i].result = Carries(ResultKind(Kind(commands[i].body)))
      BY <3>5, PersistedRowIsRow
    <3>7. \A i \in DOMAIN commands' : RouteAdmits(commands'[i].body)
      BY <3>3, <3>6 DEF WireInv
    <3> QED BY <2>2, <3>3, <3>4, <3>6, <3>7 DEF WireInv
  <2>3. CASE UNCHANGED <<commands, frame, unconfirmed>> /\ connected' \in BOOLEAN
    BY <2>1, <2>3 DEF WireInv, WireTypeOK
  <2>4. connected \in BOOLEAN
    BY <1>o DEF WireTypeOK
  <2> QED BY <2>1, <2>2, <2>3, <2>4
<1>4. CASE LoseRelay
  <2>1. /\ frame.step = "persisted" /\ wireLosses < MaxLosses /\ frame' = [step |-> "idle", row |-> 0]
        /\ wireLosses' = wireLosses + 1
        /\ UNCHANGED <<commands, capabilities, connected, unconfirmed, jobPhase>>
    BY <1>4 DEF LoseRelay
  <2>2. wireLosses' \in 0..MaxLosses
    BY <1>o, <2>1, WireAssumption DEF WireTypeOK
  <2>3. WireTypeOK'
    BY <1>o, <2>1, <2>2 DEF WireTypeOK
  <2> QED BY <2>1, <2>3 DEF WireInv
<1>5. CASE DeliverCommand
  <2>1. /\ UNCHANGED <<capabilities, unconfirmed, jobPhase, wireLosses>> /\ frame.step = "persisted"
        /\ \/ frame' = [step |-> "idle", row |-> 0] /\ UNCHANGED <<commands, connected>>
           \/ \E i \in Selectable :
                 /\ commands' = [commands EXCEPT ![i].status = "running"]
                 /\ connected' = (HandlerAdmits(commands[i].body) /\ GatewayAdmits(commands[i].body)
                                     => AgentAdmits(commands[i].body))
                 /\ frame' \in {[step |-> "executing", row |-> i], [step |-> "idle", row |-> 0]}
    BY <1>5, <1>o, DeliverCases
  <2>2. unconfirmed = {}
    BY <2>1 DEF WireInv
  <2>3. CASE frame' = [step |-> "idle", row |-> 0] /\ UNCHANGED <<commands, connected>>
    BY <2>1, <2>2, <2>3 DEF WireInv, WireTypeOK
  <2>4. ASSUME NEW i \in Selectable, commands' = [commands EXCEPT ![i].status = "running"],
               connected' \in BOOLEAN,
               frame' \in {[step |-> "executing", row |-> i], [step |-> "idle", row |-> 0]}
        PROVE  WireInv'
    <3>1. i \in DOMAIN commands
      BY DEF Selectable
    <3>2. \A j \in DOMAIN commands : commands'[j] = IF j = i THEN [commands[i] EXCEPT !.status = "running"] ELSE commands[j]
      BY <2>4
    <3>3. DOMAIN commands' = DOMAIN commands
      BY <2>4
    <3>4. \A j \in DOMAIN commands : commands'[j] \in RowForms /\ commands'[j].body = commands[j].body
             /\ (commands'[j].status = "completed" => commands'[j] = commands[j])
      BY <1>t, <3>2 DEF RowForms
    <3>5. commands' \in [1..Len(commands) -> RowForms]
      <4>1. commands' = [j \in DOMAIN commands |-> commands'[j]]
        BY <2>4
      <4> QED BY <1>t, <3>4, <4>1
    <3>6. commands' \in Seq(RowForms) /\ Len(commands') = Len(commands)
      BY <1>t, <3>5
    <3>7. WireTypeOK'
      BY <1>o, <2>1, <2>2, <2>4, <3>1, <3>3, <3>6 DEF WireTypeOK
    <3>8. \A j \in DOMAIN commands' : RouteAdmits(commands'[j].body)
      BY <3>3, <3>4 DEF WireInv
    <3>9. \A j \in DOMAIN commands' : commands'[j].status = "completed" =>
              commands'[j].result = Carries(ResultKind(Kind(commands'[j].body)))
      BY <3>3, <3>4 DEF WireInv
    <3> QED BY <2>1, <2>2, <3>7, <3>8, <3>9 DEF WireInv
  <2> QED BY <2>1, <2>3, <2>4
<1>6. CASE ExecuteCommand
  <2>1. PICK a : AnswerCommand(a) /\ \E o \in Outcomes : a = Failed \/ a = Answer(Kind(commands[frame.row].body), o)
    BY <1>6 DEF ExecuteCommand
  <2>2. /\ frame.step = "executing" /\ unconfirmed' = unconfirmed \cup {[row |-> frame.row, answer |-> a]}
        /\ frame' = [step |-> "idle", row |-> 0]
        /\ UNCHANGED <<commands, capabilities, connected, jobPhase, wireLosses>>
    BY <2>1 DEF AnswerCommand
  <2>3. unconfirmed = {} /\ frame.row \in DOMAIN commands
    BY <2>2 DEF WireInv, WireTypeOK
  <2>4. Kind(commands[frame.row].body) \in CommandKinds
    <3>1. commands[frame.row].body \in Body
      BY <1>t, <2>3, WireAssumption DEF RowForms
    <3> QED BY <3>1, KindsAreKnown
  <2>5. a \in AnswerForms /\ AnswerOf(a, Kind(commands[frame.row].body))
    BY <2>1, <2>4, AnswerTypes DEF AnswerOf
  <2>6. unconfirmed' = {[row |-> frame.row, answer |-> a]}
    BY <2>2, <2>3
  <2>7. unconfirmed' \subseteq [row: DOMAIN commands', answer: AnswerForms]
    BY <2>2, <2>3, <2>5, <2>6
  <2>8. WireTypeOK'
    BY <1>o, <2>2, <2>7 DEF WireTypeOK
  <2>9. \A u \in unconfirmed' : AnswerOf(u.answer, Kind(commands'[u.row].body))
    BY <2>2, <2>5, <2>6
  <2> QED BY <2>2, <2>6, <2>8, <2>9 DEF WireInv
<1>7. ASSUME NEW p \in Phases, MoveJob(p) PROVE WireInv'
  <2>1. jobPhase' = p /\ UNCHANGED <<commands, capabilities, connected, frame, unconfirmed, wireLosses>>
    BY <1>7 DEF MoveJob
  <2> QED BY <2>1 DEF WireInv, WireTypeOK
<1>8. CASE UNCHANGED wireVars
  BY <1>8 DEF wireVars, WireInv, WireTypeOK, Selectable
<1> QED
  BY <1>1, <1>2, <1>3, <1>4, <1>5, <1>6, <1>7, <1>8 DEF WireNext

\* What the hops exchange keeps its type: one answer of a known kind is on its way, and
\* the row that is executed is one that was created.
THEOREM WireTypeCorrect == WireSpec => []WireTypeOK
<1>1. WireInv => WireTypeOK
  BY DEF WireInv
<1> QED BY <1>1, WireInvInit, WireInvStep, PTL DEF WireSpec

-----------------------------------------------------------------------------
(* The hops agree, on the inputs they were written for.                    *)

\* What the browser, the Mac and its jobs give the hops: texts that are as long encoded
\* as they are in characters, web addresses that are secure, no order of the queue (which
\* the gateway refuses), lists of fifty at most, answers that fit a frame by themselves,
\* and the phases the gateway knows.
WireInputs ==
    /\ \A c \in Bodies : Kind(c) # "jobs_reorder" /\ c.text # "wide" /\ (Kind(c) = "queue_url" => c.url # "http")
    /\ \A announced \in Announced : "none" \notin announced
    /\ \A o \in Outcomes : o.items <= 50 /\ o.bytes <= 130
    /\ Phases \subseteq GatewayPhases

LEMMA AdmittedPasses ==
    ASSUME WireInputs, NEW c \in Bodies, RouteAdmits(c), Capability(Kind(c)) \in capabilities,
           "none" \notin capabilities
    PROVE  HandlerAdmits(c) /\ GatewayAdmits(c) /\ AgentAdmits(c)
<1>1. c.text \in {"short", "long"} /\ c.url \in {"public", "private", "http"} /\ c.number \in Nat
      /\ Kind(c) # "jobs_reorder" /\ (Kind(c) = "queue_url" => c.url # "http")
  BY WireAssumption DEF WireInputs, Body
<1>2. HandlerAdmits(c)
  BY <1>1 DEF RouteAdmits, HandlerAdmits, DriveKinds
<1>3. GatewayAdmits(c)
  BY <1>1 DEF RouteAdmits, GatewayAdmits, DriveKinds
<1>4. AgentAdmits(c)
  BY <1>1 DEF AgentAdmits
<1> QED BY <1>2, <1>3, <1>4

LEMMA AnswerPasses ==
    ASSUME WireInputs, NEW k \in CommandKinds, NEW a, AnswerOf(a, k)
    PROVE  GatewayAccepts(a) /\ CloudAccepts(a) /\ a.bytes \in Nat /\ a.bytes <= 130
<1>1. CASE a = Failed
  BY <1>1 DEF Failed, GatewayAccepts, CloudAccepts
<1>2. ASSUME NEW o \in Outcomes, a = Trimmed(k, o), Fits(a)
      PROVE  GatewayAccepts(a) /\ CloudAccepts(a) /\ a.bytes \in Nat /\ a.bytes <= 130
  <2>1. o.items \in Nat /\ o.bytes \in Nat /\ o.least \in Nat /\ o.items <= 50 /\ o.bytes <= 130
    BY WireAssumption DEF WireInputs
  <2>2. /\ a.kind = ResultKind(k) /\ a.items \in Nat /\ a.bytes \in Nat /\ a.items <= 50
        /\ (k = "feed_resolve" => a.items <= 12)
        /\ (k # "feed_page" => a.bytes <= 130)
    BY <1>2, <2>1 DEF Trimmed
  <2>3. /\ (k = "feed_page" => a.kind = "feed_page")
        /\ (a.kind = "feed_resolve" => k = "feed_resolve")
    BY <2>2 DEF ResultKind, AuthKinds, LibraryKinds
  <2>4. a.bytes <= 130
    <3>1. CASE k = "feed_page"
      BY <1>2, <2>2, <2>3, <3>1 DEF Fits
    <3> QED BY <2>2, <3>1
  <2>5. GatewayAccepts(a)
    BY <1>2, <2>2, <2>3 DEF Fits, GatewayAccepts
  <2>6. CloudAccepts(a)
    BY <1>2, <2>2, <2>3 DEF Fits, CloudAccepts
  <2> QED BY <2>2, <2>4, <2>5, <2>6
<1>3. a = Failed \/ \E o \in Outcomes : a = Trimmed(k, o) /\ Fits(a)
  BY DEF AnswerOf, Answer
<1> QED BY <1>1, <1>2, <1>3

\* What the view reads is what the Mac puts into the result of its command.
LEMMA ReadIsCarried ==
    ASSUME NEW q \in DOMAIN Asks
    PROVE  Reads(q) \in {"nothing", Carries(ResultKind(Asks[q]))}
<1>1. CASE q \in {"sites"}
  <2>1. Asks[q] \in {"feed_sites"}
    BY <1>1 DEF Asks
  <2>2. ResultKind(Asks[q]) = "feed_sites"
    BY <2>1 DEF ResultKind, AuthKinds, LibraryKinds
  <2> QED BY <1>1, <2>2 DEF Carries, Reads
<1>2. CASE q \in {"page"}
  <2>1. Asks[q] \in {"feed_page"}
    BY <1>2 DEF Asks
  <2>2. ResultKind(Asks[q]) = "feed_page"
    BY <2>1 DEF ResultKind, AuthKinds, LibraryKinds
  <2> QED BY <1>2, <2>2 DEF Carries, Reads
<1>3. CASE q \in {"feedQueue"}
  <2>1. Asks[q] \in {"queue_url"}
    BY <1>3 DEF Asks
  <2>2. ResultKind(Asks[q]) = "job"
    BY <2>1 DEF ResultKind, AuthKinds, LibraryKinds
  <2> QED BY <1>3, <2>2 DEF Carries, Reads
<1>4. CASE q \in {"destinations", "driveConnect", "driveSelect"}
  <2>1. Asks[q] \in {"destinations_list", "gdrive_connect", "gdrive_select_folder"}
    BY <1>4 DEF Asks
  <2>2. ResultKind(Asks[q]) = "destinations_list"
    BY <2>1 DEF ResultKind, AuthKinds, LibraryKinds
  <2> QED BY <1>4, <2>2 DEF Carries, Reads
<1>5. CASE q \in {"driveFolders"}
  <2>1. Asks[q] \in {"gdrive_folders"}
    BY <1>5 DEF Asks
  <2>2. ResultKind(Asks[q]) = "google_drive_folders"
    BY <2>1 DEF ResultKind, AuthKinds, LibraryKinds
  <2> QED BY <1>5, <2>2 DEF Carries, Reads
<1>6. CASE q \in {"folderStatus", "folderChoose", "folderReset"}
  <2>1. Asks[q] \in {"local_folder_status", "local_folder_choose", "local_folder_reset"}
    BY <1>6 DEF Asks
  <2>2. ResultKind(Asks[q]) = "local_download_folder"
    BY <2>1 DEF ResultKind, AuthKinds, LibraryKinds
  <2> QED BY <1>6, <2>2 DEF Carries, Reads
<1>7. CASE q \in {"resolve", "watchlistResolve"}
  <2>1. Asks[q] \in {"feed_resolve"}
    BY <1>7 DEF Asks
  <2>2. ResultKind(Asks[q]) = "feed_resolve"
    BY <2>1 DEF ResultKind, AuthKinds, LibraryKinds
  <2> QED BY <1>7, <2>2 DEF Carries, Reads
<1>8. CASE q \in {"authStatus", "authLogin", "authCancel", "authLogout"}
  <2>1. Asks[q] \in {"pornhub_auth_status", "pornhub_auth_login", "pornhub_auth_cancel", "pornhub_auth_logout"}
    BY <1>8 DEF Asks
  <2>2. ResultKind(Asks[q]) = "pornhub_auth"
    BY <2>1 DEF ResultKind, AuthKinds, LibraryKinds
  <2> QED BY <1>8, <2>2 DEF Carries, Reads
<1>9. CASE q \in {"readiness"}
  <2>1. Asks[q] \in {"home_status"}
    BY <1>9 DEF Asks
  <2>2. ResultKind(Asks[q]) = "home_status"
    BY <2>1 DEF ResultKind, AuthKinds, LibraryKinds
  <2> QED BY <1>9, <2>2 DEF Carries, Reads
<1>10. CASE q \in {"preview"}
  <2>1. Asks[q] \in {"extract_preview"}
    BY <1>10 DEF Asks
  <2>2. ResultKind(Asks[q]) = "extract_preview"
    BY <2>1 DEF ResultKind, AuthKinds, LibraryKinds
  <2> QED BY <1>10, <2>2 DEF Carries, Reads
<1>11. CASE q \in {"library", "libraryUpdate", "libraryRemove", "libraryVerify"}
  <2>1. Asks[q] \in {"library_list", "library_update", "library_remove", "library_verify"}
    BY <1>11 DEF Asks
  <2>2. ResultKind(Asks[q]) = "library_snapshot"
    BY <2>1 DEF ResultKind, AuthKinds, LibraryKinds
  <2> QED BY <1>11, <2>2 DEF Carries, Reads
<1>12. CASE q \in {"queue", "watchlistQueue", "jobAction", "order", "driveCreate", "driveTest", "webdav"}
  BY <1>12 DEF Reads
<1> QED BY <1>1, <1>2, <1>3, <1>4, <1>5, <1>6, <1>7, <1>8, <1>9, <1>10, <1>11, <1>12 DEF Asks

LEMMA HopsAgreeNow ==
    ASSUME WireInputs, WireInv
    PROVE  SelectedIsDelivered /\ AnswersPass /\ ReadsTheAnswer
<1>t. /\ \A i \in DOMAIN commands : commands[i].body \in Bodies
      /\ \A i \in DOMAIN commands : commands[i].body \in Body
  <2>1. commands \in Seq(RowForms)
    BY DEF WireInv, WireTypeOK
  <2>2. \A i \in DOMAIN commands : commands[i] \in RowForms
    BY <2>1
  <2> QED BY <2>2, WireAssumption DEF RowForms
<1>c. "none" \notin capabilities
  BY DEF WireInv, WireTypeOK, WireInputs
<1>1. SelectedIsDelivered
  <2> SUFFICES ASSUME NEW i \in Selectable
               PROVE  HandlerAdmits(commands[i].body) /\ GatewayAdmits(commands[i].body)
    BY DEF SelectedIsDelivered
  <2>1. i \in DOMAIN commands /\ Capability(Kind(commands[i].body)) \in capabilities
    BY DEF Selectable
  <2>2. RouteAdmits(commands[i].body)
    BY <2>1 DEF WireInv
  <2> QED BY <1>t, <1>c, <2>1, <2>2, AdmittedPasses
<1>2. AnswersPass
  <2> SUFFICES ASSUME NEW u \in unconfirmed PROVE GatewayAccepts(u.answer) /\ CloudAccepts(u.answer)
    BY DEF AnswersPass
  <2>1. u.row \in DOMAIN commands /\ AnswerOf(u.answer, Kind(commands[u.row].body))
    BY DEF WireInv, WireTypeOK
  <2>2. Kind(commands[u.row].body) \in CommandKinds
    BY <1>t, <2>1, KindsAreKnown
  <2> QED BY <2>1, <2>2, AnswerPasses
<1>3. ReadsTheAnswer
  <2> SUFFICES ASSUME NEW i \in DOMAIN commands, commands[i].status = "completed"
               PROVE  Reads(commands[i].body.request) \in {"nothing", commands[i].result}
    BY DEF ReadsTheAnswer
  <2>1. commands[i].result = Carries(ResultKind(Asks[commands[i].body.request]))
    BY DEF WireInv, Kind
  <2>2. commands[i].body.request \in DOMAIN Asks
    BY <1>t DEF Body
  <2> QED BY <2>1, <2>2, ReadIsCarried
<1> QED BY <1>1, <1>2, <1>3

LEMMA FrameFits ==
    ASSUME WireInputs, WireInv
    PROVE  AgentSends /\ GatewayPasses
<1>1. AnswersPass
  BY HopsAgreeNow
<1>2. jobPhase \in GatewayPhases
  BY DEF WireInv, WireTypeOK, WireInputs, GatewayPhases
<1>3. AgentSends
  <2>1. CASE unconfirmed = {}
    <3>1. [answer |-> [bytes |-> 1]].answer.bytes \in Nat
      OBVIOUS
    <3>2. FrameBytes = 1
      BY <2>1, <3>1, FrameBytesOf
    <3> QED BY <3>2 DEF AgentSends
  <2>2. ASSUME NEW u \in unconfirmed PROVE AgentSends
    <3>1. u.row \in DOMAIN commands /\ AnswerOf(u.answer, Kind(commands[u.row].body))
          /\ commands \in Seq(RowForms)
      BY DEF WireInv, WireTypeOK
    <3>2. commands[u.row] \in RowForms
      BY <3>1
    <3>3. Kind(commands[u.row].body) \in CommandKinds
      BY <3>2, KindsAreKnown, WireAssumption DEF RowForms
    <3>4. u.answer.bytes \in Nat /\ u.answer.bytes <= 130
      BY <3>1, <3>3, AnswerPasses
    <3>5. unconfirmed = {u}
      BY DEF WireInv
    <3>6. FrameBytes = 1 + u.answer.bytes
      BY <3>4, <3>5, FrameBytesOf
    <3> QED BY <3>4, <3>6 DEF AgentSends
  <2> QED BY <2>1, <2>2
<1> QED BY <1>1, <1>2, <1>3 DEF GatewayPasses, AnswersPass

LEMMA ConnectionKept ==
    ASSUME WireInputs, WireInv, [WireNext]_wireVars, connected
    PROVE  connected'
<1>1. CASE SendFrame
  BY <1>1, SendFrameCases, FrameFits
<1>2. CASE DeliverCommand
  <2>1. \/ connected' = connected
        \/ \E i \in Selectable :
              connected' = (HandlerAdmits(commands[i].body) /\ GatewayAdmits(commands[i].body)
                                => AgentAdmits(commands[i].body))
    BY <1>2, DeliverCases DEF WireInv
  <2>2. \A i \in Selectable : GatewayAdmits(commands[i].body) => AgentAdmits(commands[i].body)
    BY DEF GatewayAdmits, AgentAdmits
  <2> QED BY <2>1, <2>2
<1>3. CASE ~SendFrame /\ ~DeliverCommand
  BY <1>3 DEF WireNext, PostCommand, ConnectAgent, LoseRelay, ExecuteCommand, AnswerCommand, MoveJob, wireVars
<1> QED BY <1>1, <1>2, <1>3

\* On the inputs they were written for, every command that is selected passes every hop,
\* every answer the gateway and the control plane, and what the view reads is there; the
\* Mac's own frames never cost it the connection.
THEOREM HopsAlwaysAgree ==
    ASSUME WireInputs
    PROVE  WireSpec => HopsAgree
<1>1. WireSpec => []WireInv
  BY WireInvInit, WireInvStep, PTL DEF WireSpec
<1>2. WireInv => SelectedIsDelivered /\ AnswersPass /\ ReadsTheAnswer
  BY HopsAgreeNow
<1>3. WireInv /\ [WireNext]_wireVars => [connected => connected']_wireVars
  BY ConnectionKept
<1> QED BY <1>1, <1>2, <1>3, PTL DEF WireSpec, HopsAgree, FramesKeepTheConnection

-----------------------------------------------------------------------------
(* The gateway's sockets.                                                  *)

Frames == {"ack", "bareAck", "wake", "command", "nothing"}

SocketEnd == [open: BOOLEAN, attachment: {"none", "memory", "stored"}]

AgentEnd == [socket: 0..MaxSockets, step: {"down", "hello", "beating", "waiting"},
             wakes: BOOLEAN, woken: BOOLEAN]

\* The type invariant but for the length of what is on its way to the agent: QueueIsShort
\* counts it, post by post.
GatewayTypes ==
    /\ socket \in [SocketIDs -> SocketEnd]
    /\ agent \in AgentEnd
    /\ uplink \in {"none", "hello", "heartbeat", "relaying"}
    /\ downlink \in Seq(Frames)
    /\ agent.step = "down" => uplink = "none" /\ downlink = <<>>
    /\ taskRow \in [TaskIDs -> {"none", "open", "done"}]
    /\ taskPosts \in [TaskIDs -> 0..MaxPosts]
    /\ wakeRequest \in [TaskIDs -> BOOLEAN]
    /\ lastCommandWake \in 0..MaxTasks
    /\ hibernations \in 0..MaxHibernations
    /\ failedCalls \in 0..MaxFailedCalls
    /\ leftToTimer \in SUBSET TaskIDs

\* Does the gateway remember the hello of the agent's connection?
Remembered == socket[agent.socket].attachment = "stored"

\* An agent that is connected has an open socket.  Until its hello is answered nothing else
\* is sent to it, and the acknowledgement says whether the hello is remembered.
HelloFirst ==
    /\ agent.step # "down" => agent.socket \in SocketIDs /\ SocketIsOpen(agent.socket)
    /\ uplink = "hello" => agent.step = "hello" /\ downlink = <<>> /\ ~Remembered
    /\ agent.step = "hello" /\ uplink # "hello" =>
          /\ downlink # <<>>
          /\ Head(downlink) = IF Remembered THEN "ack" ELSE "bareAck"

\* Commands, and answers that there is none, come from a socket whose hello is remembered,
\* and the agent knows of the others that they send no wake.
DeliveredWhenKnown ==
    /\ uplink = "relaying" => Remembered
    /\ \A i \in 1..Len(downlink) : downlink[i] \in {"command", "nothing"} => Remembered
    /\ agent.step \in {"beating", "waiting"} => (agent.wakes <=> Remembered)
    /\ agent.step = "waiting" => Remembered

GatewayInv == GatewayTypes /\ HelloFirst /\ DeliveredWhenKnown

LEMMA Appended ==
    ASSUME NEW s \in Seq(Frames), NEW f \in Frames
    PROVE  /\ Append(s, f) \in Seq(Frames) /\ Append(s, f) # <<>>
           /\ Len(Append(s, f)) = Len(s) + 1
           /\ \A i \in 1..(Len(s) + 1) : Append(s, f)[i] = IF i <= Len(s) THEN s[i] ELSE f
           /\ Head(Append(s, f)) = IF s = <<>> THEN f ELSE Head(s)
OBVIOUS

LEMMA Shortened ==
    ASSUME NEW s \in Seq(Frames), s # <<>>
    PROVE  /\ Tail(s) \in Seq(Frames) /\ Head(s) \in Frames /\ Head(s) = s[1]
           /\ Len(Tail(s)) = Len(s) - 1 /\ Len(s) \in Nat \ {0}
           /\ \A i \in 1..(Len(s) - 1) : Tail(s)[i] = s[i + 1]
OBVIOUS

LEMMA GatewayStarts == GatewayInit => GatewayInv
BY GatewayAssumption DEF GatewayInit, GatewayInv, GatewayTypes, SocketEnd, AgentEnd, HelloFirst, DeliveredWhenKnown, AgentDown,
   SocketIDs, TaskIDs, Frames

LEMMA GatewayStep == GatewayInv /\ [GatewayNext]_gatewayVars => GatewayInv'
<1> SUFFICES ASSUME GatewayInv, [GatewayNext]_gatewayVars PROVE GatewayInv'
  OBVIOUS
<1> USE GatewayAssumption
<1> USE DEF taskVars, faultVars
<1>1. CASE OpenSocket
  <2>1. GatewayTypes'
    <3>1. PICK n \in SocketIDs :
             /\ n = agent.socket + 1
             /\ socket' = [socket EXCEPT ![n] = [open |-> TRUE, attachment |-> "memory"]]
             /\ agent' = [AgentDown EXCEPT !.socket = n, !.step = "hello"]
      BY <1>1 DEF OpenSocket
    <3>2. socket' \in [SocketIDs -> SocketEnd]
      BY <3>1 DEF GatewayInv, GatewayTypes, SocketEnd
    <3>3. agent' = [socket |-> n, step |-> "hello", wakes |-> FALSE, woken |-> FALSE]
      BY <3>1 DEF AgentDown
    <3>4. n \in 0..MaxSockets
      BY DEF SocketIDs
    <3> QED
      BY <1>1, <3>2, <3>3, <3>4 DEF OpenSocket, GatewayInv, GatewayTypes, AgentEnd
  <2>2. HelloFirst'
    BY <1>1 DEF OpenSocket, AgentDown, GatewayInv, GatewayTypes, SocketEnd, AgentEnd, HelloFirst, DeliveredWhenKnown, Remembered, SocketIsOpen, SocketIDs
  <2>3. DeliveredWhenKnown'
    BY <1>1 DEF OpenSocket, AgentDown, GatewayInv, GatewayTypes, SocketEnd, AgentEnd, HelloFirst, DeliveredWhenKnown, Remembered, SocketIDs
  <2> QED BY <2>1, <2>2, <2>3 DEF GatewayInv
<1>2. CASE Hibernate
  <2>1. GatewayTypes'
    <3>1. \A n \in SocketIDs : socket'[n] \in SocketEnd
      BY <1>2 DEF Hibernate, GatewayInv, GatewayTypes, SocketEnd
    <3>2. socket' \in [SocketIDs -> SocketEnd]
      BY <1>2, <3>1 DEF Hibernate
    <3> QED BY <1>2, <3>2 DEF Hibernate, GatewayInv, GatewayTypes
  <2>2. HelloFirst'
    BY <1>2 DEF Hibernate, GatewayInv, GatewayTypes, SocketEnd, AgentEnd, HelloFirst, DeliveredWhenKnown, Remembered, SocketIsOpen, SocketIDs
  <2>3. DeliveredWhenKnown'
    BY <1>2 DEF Hibernate, GatewayInv, GatewayTypes, SocketEnd, AgentEnd, HelloFirst, DeliveredWhenKnown, Remembered, SocketIDs
  <2> QED BY <2>1, <2>2, <2>3 DEF GatewayInv
<1>3. CASE ReceiveHello
  <2> DEFINE ack == IF socket[agent.socket].attachment = "memory" THEN "ack" ELSE "bareAck"
             end == IF socket[agent.socket].attachment = "memory" THEN "stored"
                    ELSE socket[agent.socket].attachment
  <2>4. /\ downlink' = Append(downlink, ack)
        /\ socket' = [socket EXCEPT ![agent.socket].attachment = end]
        /\ uplink = "hello" /\ uplink' = "none"
        /\ UNCHANGED <<agent, taskVars, hibernations, faultVars>>
    BY <1>3 DEF ReceiveHello
  <2>5. /\ agent.socket \in SocketIDs /\ agent.step = "hello" /\ downlink = <<>> /\ ~Remembered
        /\ SocketIsOpen(agent.socket)
    BY <2>4 DEF GatewayInv, HelloFirst
  <2>6. ack \in {"ack", "bareAck"} /\ end \in {"none", "stored"} /\ (end = "stored" <=> ack = "ack")
    BY <2>5 DEF GatewayInv, GatewayTypes, SocketEnd, Remembered
  <2> HIDE DEF ack, end
  <2>7. socket' \in [SocketIDs -> SocketEnd]
    BY <2>4, <2>5, <2>6 DEF GatewayInv, GatewayTypes, SocketEnd
  <2>8. socket'[agent.socket].attachment = end /\ socket'[agent.socket].open
    BY <2>4, <2>5 DEF GatewayInv, GatewayTypes, SocketEnd, SocketIsOpen
  <2>9. downlink' = <<ack>> /\ downlink' \in Seq(Frames)
    BY <2>4, <2>5, <2>6 DEF Frames
  <2>1. GatewayTypes'
    BY <2>4, <2>5, <2>7, <2>9 DEF GatewayInv, GatewayTypes
  <2>2. HelloFirst'
    BY <2>4, <2>5, <2>6, <2>8, <2>9 DEF HelloFirst, Remembered, SocketIsOpen
  <2>3. DeliveredWhenKnown'
    BY <2>4, <2>5, <2>6, <2>9 DEF DeliveredWhenKnown
  <2> QED BY <2>1, <2>2, <2>3 DEF GatewayInv
<1>4. CASE ReceiveHeartbeat
  <2>1. GatewayTypes'
    <3>1. agent.step # "down" /\ agent.socket \in SocketIDs
      BY <1>4 DEF ReceiveHeartbeat, GatewayInv, GatewayTypes, HelloFirst
    <3>2. CASE Restores(agent.socket)
      BY <1>4, <3>1, <3>2 DEF ReceiveHeartbeat, GatewayInv, GatewayTypes
    <3>3. CASE ~Restores(agent.socket)
      <4>1. /\ socket' = [socket EXCEPT ![agent.socket].open = FALSE]
            /\ agent' = [agent EXCEPT !.step = "down"]
            /\ uplink' = "none" /\ downlink' = <<>>
            /\ UNCHANGED <<taskVars, hibernations, faultVars>>
        BY <1>4, <3>3 DEF ReceiveHeartbeat
      <4>2. socket' \in [SocketIDs -> SocketEnd]
        BY <3>1, <4>1 DEF GatewayInv, GatewayTypes, SocketEnd
      <4>3. agent' \in AgentEnd
        BY <4>1 DEF GatewayInv, GatewayTypes, AgentEnd
      <4> QED BY <4>1, <4>2, <4>3 DEF GatewayInv, GatewayTypes
    <3> QED BY <3>2, <3>3
  <2>2. HelloFirst'
    BY <1>4 DEF ReceiveHeartbeat, Restores, GatewayInv, GatewayTypes, SocketEnd, AgentEnd, HelloFirst, DeliveredWhenKnown, Remembered, SocketIsOpen, SocketIDs
  <2>3. DeliveredWhenKnown'
    BY <1>4 DEF ReceiveHeartbeat, Restores, GatewayInv, GatewayTypes, SocketEnd, AgentEnd, HelloFirst, DeliveredWhenKnown, Remembered, SocketIDs
  <2> QED BY <2>1, <2>2, <2>3 DEF GatewayInv
<1>5. CASE RelayHeartbeat \/ RelayFails
  <2>1. PICK f \in Frames : downlink' = Append(downlink, f)
    BY <1>5 DEF RelayHeartbeat, RelayFails, Frames
  <2>2. /\ uplink = "relaying" /\ uplink' = "none" /\ agent.step # "down"
        /\ UNCHANGED <<socket, agent, taskVars, hibernations>>
    BY <1>5 DEF RelayHeartbeat, RelayFails, GatewayInv, GatewayTypes
  <2>3. failedCalls' \in 0..MaxFailedCalls /\ leftToTimer' \in SUBSET TaskIDs
    BY <1>5 DEF RelayHeartbeat, RelayFails, OpenTasks, GatewayInv, GatewayTypes
  <2>4. /\ downlink \in Seq(Frames) /\ downlink' \in Seq(Frames) /\ downlink' # <<>>
        /\ Head(downlink') = IF downlink = <<>> THEN f ELSE Head(downlink)
    BY <2>1, Appended DEF GatewayInv, GatewayTypes
  <2>5. GatewayTypes'
    BY <2>2, <2>3, <2>4 DEF GatewayInv, GatewayTypes
  <2>6. HelloFirst'
    BY <2>2, <2>4 DEF GatewayInv, HelloFirst, Remembered, SocketIsOpen
  <2>7. DeliveredWhenKnown'
    <3>1. Remembered /\ (Remembered' <=> Remembered)
      BY <2>2 DEF GatewayInv, DeliveredWhenKnown, Remembered
    <3> QED BY <2>2, <3>1 DEF GatewayInv, DeliveredWhenKnown
  <2> QED BY <2>5, <2>6, <2>7 DEF GatewayInv
<1>6. CASE LoseSocket
  <2>1. GatewayTypes'
    <3>1. agent.socket \in SocketIDs
      BY <1>6 DEF LoseSocket, GatewayInv, HelloFirst
    <3>2. PICK noticed \in BOOLEAN : socket' = [socket EXCEPT ![agent.socket].open = ~noticed]
      BY <1>6 DEF LoseSocket
    <3>3. socket' \in [SocketIDs -> SocketEnd]
      BY <3>1, <3>2 DEF GatewayInv, GatewayTypes, SocketEnd
    <3>4. agent' \in AgentEnd
      BY <1>6 DEF LoseSocket, GatewayInv, GatewayTypes, AgentEnd
    <3> QED BY <1>6, <3>3, <3>4 DEF LoseSocket, GatewayInv, GatewayTypes
  <2>2. HelloFirst'
    BY <1>6 DEF LoseSocket, GatewayInv, GatewayTypes, SocketEnd, AgentEnd, HelloFirst, DeliveredWhenKnown, Remembered, SocketIsOpen, SocketIDs
  <2>3. DeliveredWhenKnown'
    BY <1>6 DEF LoseSocket, GatewayInv, GatewayTypes, SocketEnd, AgentEnd, HelloFirst, DeliveredWhenKnown, Remembered, SocketIDs
  <2> QED BY <2>1, <2>2, <2>3 DEF GatewayInv
<1>7. CASE ReadAcknowledgement
  <2>1. GatewayTypes'
    BY <1>7, Shortened DEF ReadAcknowledgement, GatewayInv, GatewayTypes, SocketEnd, AgentEnd, HelloFirst, SocketIDs, TaskIDs, Frames
  <2>2. HelloFirst'
    BY <1>7, Shortened DEF ReadAcknowledgement, GatewayInv, GatewayTypes, SocketEnd, AgentEnd, HelloFirst, DeliveredWhenKnown, Remembered, SocketIsOpen, SocketIDs, Frames
  <2>3. DeliveredWhenKnown'
    <3>1. downlink # <<>> /\ agent.step = "hello" /\ uplink # "hello" /\ socket' = socket
      BY <1>7 DEF ReadAcknowledgement, GatewayInv, HelloFirst
    <3>2. \A i \in 1..Len(downlink') : downlink'[i] \in {"command", "nothing"} => Remembered
      <4>1. downlink' = Tail(downlink) /\ downlink \in Seq(Frames)
        BY <1>7 DEF ReadAcknowledgement, GatewayInv, GatewayTypes
      <4>2. Len(downlink) \in Nat /\ Len(downlink') = Len(downlink) - 1
        BY <3>1, <4>1, Shortened
      <4>3. \A i \in 1..Len(downlink') : i + 1 \in 1..Len(downlink) /\ downlink'[i] = downlink[i + 1]
        BY <3>1, <4>1, <4>2, Shortened
      <4> QED BY <4>3 DEF GatewayInv, DeliveredWhenKnown
    <3>3. Head(downlink) = "ack" <=> Remembered
      BY <3>1 DEF GatewayInv, HelloFirst
    <3>4. /\ agent'.step = "beating" /\ agent'.socket = agent.socket
          /\ agent'.wakes <=> Head(downlink) = "ack"
      BY <1>7 DEF ReadAcknowledgement, GatewayInv, GatewayTypes, AgentEnd
    <3>5. uplink' = "heartbeat" /\ (Remembered' <=> Remembered)
      BY <1>7, <3>1, <3>4 DEF ReadAcknowledgement, Remembered
    <3> QED BY <3>2, <3>3, <3>4, <3>5 DEF DeliveredWhenKnown
  <2> QED BY <2>1, <2>2, <2>3 DEF GatewayInv
<1>8. CASE ReadWake
  <2>1. GatewayTypes'
    BY <1>8, Shortened DEF ReadWake, BeatsAtOnce, GatewayInv, GatewayTypes, SocketEnd, AgentEnd, HelloFirst, SocketIDs, TaskIDs, Frames
  <2>2. HelloFirst'
    BY <1>8, Shortened DEF ReadWake, BeatsAtOnce, GatewayInv, GatewayTypes, SocketEnd, AgentEnd, HelloFirst, DeliveredWhenKnown, Remembered, SocketIsOpen, SocketIDs, Frames
  <2>3. DeliveredWhenKnown'
    <3>1. downlink # <<>> /\ socket' = socket
      BY <1>8 DEF ReadWake
    <3>2. \A i \in 1..Len(downlink') : downlink'[i] \in {"command", "nothing"} => Remembered
      <4>1. downlink' = Tail(downlink) /\ downlink \in Seq(Frames)
        BY <1>8 DEF ReadWake, GatewayInv, GatewayTypes
      <4>2. Len(downlink) \in Nat /\ Len(downlink') = Len(downlink) - 1
        BY <3>1, <4>1, Shortened
      <4>3. \A i \in 1..Len(downlink') : i + 1 \in 1..Len(downlink) /\ downlink'[i] = downlink[i + 1]
        BY <3>1, <4>1, <4>2, Shortened
      <4> QED BY <4>3 DEF GatewayInv, DeliveredWhenKnown
    <3>3. /\ agent'.step \in {"beating", "waiting"} /\ agent'.socket = agent.socket
          /\ agent'.wakes <=> agent.wakes
          /\ agent'.step = "waiting" => agent.step = "waiting" \/ Head(downlink) \in {"command", "nothing"}
          /\ uplink' = "relaying" => uplink = "relaying"
      BY <1>8 DEF ReadWake, BeatsAtOnce, GatewayInv, GatewayTypes, AgentEnd
    <3>4. Remembered' <=> Remembered
      BY <3>1, <3>3 DEF Remembered
    <3>5. /\ agent.wakes <=> Remembered
          /\ agent'.step = "waiting" => Remembered
      BY <1>8, <3>1, <3>3, Shortened DEF ReadWake, GatewayInv, GatewayTypes, DeliveredWhenKnown
    <3> QED BY <3>2, <3>3, <3>4, <3>5 DEF GatewayInv, DeliveredWhenKnown
  <2> QED BY <2>1, <2>2, <2>3 DEF GatewayInv
<1>9. CASE ReadDelivery
  <2>1. GatewayTypes'
    BY <1>9, Shortened DEF ReadDelivery, BeatsAtOnce, GatewayInv, GatewayTypes, SocketEnd, AgentEnd, HelloFirst, SocketIDs, TaskIDs, Frames
  <2>2. HelloFirst'
    BY <1>9, Shortened DEF ReadDelivery, BeatsAtOnce, GatewayInv, GatewayTypes, SocketEnd, AgentEnd, HelloFirst, DeliveredWhenKnown, Remembered, SocketIsOpen, SocketIDs, Frames
  <2>3. DeliveredWhenKnown'
    <3>1. downlink # <<>> /\ socket' = socket
      BY <1>9 DEF ReadDelivery
    <3>2. \A i \in 1..Len(downlink') : downlink'[i] \in {"command", "nothing"} => Remembered
      <4>1. downlink' = Tail(downlink) /\ downlink \in Seq(Frames)
        BY <1>9 DEF ReadDelivery, GatewayInv, GatewayTypes
      <4>2. Len(downlink) \in Nat /\ Len(downlink') = Len(downlink) - 1
        BY <3>1, <4>1, Shortened
      <4>3. \A i \in 1..Len(downlink') : i + 1 \in 1..Len(downlink) /\ downlink'[i] = downlink[i + 1]
        BY <3>1, <4>1, <4>2, Shortened
      <4> QED BY <4>3 DEF GatewayInv, DeliveredWhenKnown
    <3>3. /\ agent'.step \in {"beating", "waiting"} /\ agent'.socket = agent.socket
          /\ agent'.wakes <=> agent.wakes
          /\ agent'.step = "waiting" => agent.step = "waiting" \/ Head(downlink) \in {"command", "nothing"}
          /\ uplink' = "relaying" => uplink = "relaying"
      BY <1>9 DEF ReadDelivery, BeatsAtOnce, GatewayInv, GatewayTypes, AgentEnd
    <3>4. Remembered' <=> Remembered
      BY <3>1, <3>3 DEF Remembered
    <3>5. /\ agent.wakes <=> Remembered
          /\ agent'.step = "waiting" => Remembered
      <4>1. downlink \in Seq(Frames) /\ agent.step = "beating" /\ Head(downlink) \in {"command", "nothing"}
        BY <1>9 DEF ReadDelivery, GatewayInv, GatewayTypes
      <4>2. Head(downlink) = downlink[1] /\ 1 \in 1..Len(downlink)
        BY <3>1, <4>1, Shortened
      <4> QED BY <4>1, <4>2 DEF GatewayInv, DeliveredWhenKnown
    <3> QED BY <3>2, <3>3, <3>4, <3>5 DEF GatewayInv, DeliveredWhenKnown
  <2> QED BY <2>1, <2>2, <2>3 DEF GatewayInv
<1>10. ASSUME NEW c \in TaskIDs, PostTask(c) PROVE GatewayInv'
  <2>1. GatewayTypes'
    BY <1>10 DEF PostTask, GatewayInv, GatewayTypes, SocketEnd, AgentEnd, HelloFirst, SocketIDs, TaskIDs
  <2>2. HelloFirst'
    BY <1>10 DEF PostTask, GatewayInv, GatewayTypes, SocketEnd, AgentEnd, HelloFirst, DeliveredWhenKnown, Remembered, SocketIsOpen, SocketIDs
  <2>3. DeliveredWhenKnown'
    BY <1>10 DEF PostTask, GatewayInv, GatewayTypes, SocketEnd, AgentEnd, HelloFirst, DeliveredWhenKnown, Remembered, SocketIDs
  <2> QED BY <2>1, <2>2, <2>3 DEF GatewayInv
<1>11. ASSUME NEW c \in TaskIDs, HandleWake(c) PROVE GatewayInv'
  <2>1. \/ downlink' = downlink
        \/ downlink' = Append(downlink, "wake") /\ agent.step # "down" /\ Remembered
    BY <1>11 DEF HandleWake, IsListening, NegotiatedWakes, Remembered
  <2>2. /\ UNCHANGED <<socket, agent, uplink, taskRow, taskPosts, hibernations, faultVars>>
        /\ wakeRequest' \in [TaskIDs -> BOOLEAN] /\ lastCommandWake' \in 0..MaxTasks
    BY <1>11 DEF HandleWake, GatewayInv, GatewayTypes, TaskIDs
  <2>3. downlink \in Seq(Frames) /\ "wake" \in Frames
    BY DEF GatewayInv, GatewayTypes, Frames
  <2>4. GatewayTypes'
    <3>1. downlink' \in Seq(Frames) /\ (agent.step = "down" => downlink' = downlink)
      BY <2>1, <2>3, Appended
    <3> QED BY <2>2, <3>1 DEF GatewayInv, GatewayTypes
  <2>5. HelloFirst'
    <3>1. uplink = "hello" => downlink' = downlink
      BY <2>1 DEF GatewayInv, HelloFirst
    <3>2. downlink # <<>> => downlink' # <<>> /\ Head(downlink') = Head(downlink)
      BY <2>1, <2>3, Appended
    <3> QED BY <2>2, <3>1, <3>2 DEF GatewayInv, HelloFirst, Remembered, SocketIsOpen
  <2>6. DeliveredWhenKnown'
    <3>1. \A i \in 1..Len(downlink') : downlink'[i] \in {"command", "nothing"} => Remembered
      BY <2>1, <2>3, Appended DEF GatewayInv, DeliveredWhenKnown
    <3>2. Remembered' <=> Remembered
      BY <2>2 DEF Remembered
    <3> QED BY <2>2, <3>1, <3>2 DEF GatewayInv, DeliveredWhenKnown
  <2> QED BY <2>4, <2>5, <2>6 DEF GatewayInv
<1>12. CASE MinutePasses \/ UNCHANGED gatewayVars
  <2>1. GatewayTypes'
    <3>1. /\ UNCHANGED <<socket, agent, uplink, downlink, taskRow, taskPosts, wakeRequest, hibernations,
                          failedCalls, leftToTimer>>
          /\ lastCommandWake' \in {0, lastCommandWake}
      BY <1>12 DEF MinutePasses, gatewayVars
    <3> QED BY <3>1 DEF GatewayInv, GatewayTypes
  <2>2. HelloFirst'
    BY <1>12 DEF MinutePasses, gatewayVars, GatewayInv, GatewayTypes, SocketEnd, AgentEnd, HelloFirst, DeliveredWhenKnown, Remembered, SocketIsOpen, SocketIDs
  <2>3. DeliveredWhenKnown'
    BY <1>12 DEF MinutePasses, gatewayVars, GatewayInv, GatewayTypes, SocketEnd, AgentEnd, HelloFirst, DeliveredWhenKnown, Remembered, SocketIDs
  <2> QED BY <2>1, <2>2, <2>3 DEF GatewayInv
<1>13. ASSUME NEW c \in TaskIDs, FailWake(c) PROVE GatewayInv'
  <2>1. UNCHANGED <<socket, agent, uplink, downlink, taskRow, taskPosts, lastCommandWake, hibernations>>
    BY <1>13 DEF FailWake
  <2>2. /\ wakeRequest' \in [TaskIDs -> BOOLEAN]
        /\ failedCalls' \in 0..MaxFailedCalls /\ leftToTimer' \in SUBSET TaskIDs
    BY <1>13 DEF FailWake, GatewayInv, GatewayTypes
  <2>3. GatewayTypes'
    BY <2>1, <2>2 DEF GatewayInv, GatewayTypes
  <2>4. HelloFirst' /\ DeliveredWhenKnown'
    BY <2>1 DEF GatewayInv, HelloFirst, DeliveredWhenKnown, Remembered, SocketIsOpen
  <2> QED BY <2>3, <2>4 DEF GatewayInv
<1>14. CASE IdleTimerFires
  <2>1. /\ UNCHANGED <<socket, downlink, taskVars, hibernations, faultVars>>
        /\ agent.step = "waiting" /\ uplink' = "heartbeat"
        /\ agent' = [agent EXCEPT !.step = "beating", !.woken = FALSE]
    BY <1>14 DEF IdleTimerFires, BeatsAtOnce
  <2>2. /\ agent' \in AgentEnd /\ agent'.step = "beating"
        /\ agent'.socket = agent.socket /\ agent'.wakes = agent.wakes
    BY <2>1 DEF GatewayInv, GatewayTypes, AgentEnd
  <2>3. GatewayTypes'
    BY <2>1, <2>2 DEF GatewayInv, GatewayTypes
  <2>4. HelloFirst' /\ DeliveredWhenKnown'
    BY <2>1, <2>2 DEF GatewayInv, HelloFirst, DeliveredWhenKnown, Remembered, SocketIsOpen
  <2> QED BY <2>3, <2>4 DEF GatewayInv
<1> QED
  BY <1>1, <1>2, <1>3, <1>4, <1>5, <1>6, <1>7, <1>8, <1>9, <1>10, <1>11, <1>12, <1>13, <1>14 DEF GatewayNext, ReadFrame

\* The agent's end and the object's agree on what was negotiated, wherever the object sleeps
\* and the connection breaks (ReceiveHello, ReceiveHeartbeat).
THEOREM HandshakeIsKept == GatewaySpec => []HandshakeHolds
<1>1. GatewayInv => HandshakeHolds
  BY DEF GatewayInv, HelloFirst, DeliveredWhenKnown, Remembered, HandshakeHolds, WaitingAgentHears,
     HelloIsAnsweredFirst
<1> QED BY <1>1, GatewayStarts, GatewayStep, PTL DEF GatewaySpec

-----------------------------------------------------------------------------
(* How much is on its way to the agent.                                    *)

\* The posts whose wake has been handled.
HandledPosts == {p \in TaskIDs \X (1..MaxPosts) :
               p[2] + (IF wakeRequest[p[1]] THEN 1 ELSE 0) <= taskPosts[p[1]]}

\* The agent has one answer under way, or one request, and waits when it has neither.
OneAnswer ==
    /\ \A i \in 1..Len(downlink) : downlink[i] # "wake" =>
          /\ uplink = "none" /\ agent.step # "waiting"
          /\ \A j \in 1..Len(downlink) : downlink[j] # "wake" => i = j
    /\ agent.step = "waiting" => uplink = "none"

\* Of the frames on their way one answers the agent, and the others are wakes, of which
\* every post causes one at most.
QueueIsShort ==
    /\ \A c \in TaskIDs : wakeRequest[c] => taskPosts[c] # 0
    /\ Len(downlink) <= Cardinality(HandledPosts)
                           + (IF uplink = "none" /\ agent.step # "waiting" THEN 1 ELSE 0)

LEMMA OneAnswerStep == GatewayInv /\ OneAnswer /\ [GatewayNext]_gatewayVars => OneAnswer'
<1> SUFFICES ASSUME GatewayInv, OneAnswer, [GatewayNext]_gatewayVars PROVE OneAnswer'
  OBVIOUS
<1>t. downlink \in Seq(Frames) /\ Len(downlink) \in Nat /\ agent \in AgentEnd
  <2>1. downlink \in Seq(Frames) /\ agent \in AgentEnd
    BY DEF GatewayInv, GatewayTypes
  <2> QED BY <2>1
<1>1. CASE OpenSocket \/ LoseSocket
  <2>1. downlink' = <<>> /\ agent'.step \in {"down", "hello"}
    BY <1>1, <1>t DEF OpenSocket, LoseSocket, AgentDown, AgentEnd
  <2> QED BY <2>1 DEF OneAnswer
<1>2. CASE ReceiveHeartbeat
  <2>1. /\ uplink = "heartbeat"
        /\ \/ uplink' = "relaying" /\ UNCHANGED <<agent, downlink>>
           \/ downlink' = <<>> /\ agent'.step = "down"
    BY <1>2, <1>t DEF ReceiveHeartbeat, AgentEnd
  <2> QED BY <2>1 DEF OneAnswer
<1>3. CASE ReceiveHello \/ RelayHeartbeat \/ RelayFails
  <2>1. uplink # "none" /\ uplink' = "none" /\ agent' = agent
        /\ \E f \in Frames : downlink' = Append(downlink, f)
    BY <1>3 DEF ReceiveHello, RelayHeartbeat, RelayFails, Frames
  <2>2. /\ Len(downlink') = Len(downlink) + 1
        /\ \A i \in 1..Len(downlink) : downlink'[i] = downlink[i]
    BY <1>t, <2>1, Appended
  <2>3. \A i \in 1..Len(downlink) : downlink'[i] = "wake"
    BY <2>1, <2>2 DEF OneAnswer
  <2>4. \A i \in 1..Len(downlink') : downlink'[i] # "wake" => i = Len(downlink')
    BY <1>t, <2>2, <2>3
  <2> QED BY <2>1, <2>4 DEF OneAnswer
<1>4. CASE ReadFrame
  <2>1. downlink # <<>> /\ downlink' = Tail(downlink)
    BY <1>4 DEF ReadFrame, ReadAcknowledgement, ReadWake, ReadDelivery
  <2>2. /\ Len(downlink') = Len(downlink) - 1 /\ Head(downlink) = downlink[1] /\ Len(downlink) \in Nat \ {0}
        /\ \A i \in 1..(Len(downlink) - 1) : downlink'[i] = downlink[i + 1]
    BY <1>t, <2>1, Shortened
  <2>3. /\ 1 \in 1..Len(downlink)
        /\ \A i \in 1..Len(downlink') : i + 1 \in 1..Len(downlink) /\ i + 1 # 1 /\ downlink'[i] = downlink[i + 1]
    BY <2>2
  <2>4. CASE ReadAcknowledgement \/ ReadDelivery
    <3>1. downlink[1] # "wake" /\ agent.step # "waiting"
      BY <2>1, <2>2, <2>4 DEF ReadAcknowledgement, ReadDelivery, GatewayInv, HelloFirst
    <3>2. uplink = "none" /\ \A i \in 1..Len(downlink') : downlink'[i] = "wake"
      BY <2>3, <3>1 DEF OneAnswer
    <3>3. agent'.step = "waiting" => uplink' = uplink
      BY <1>t, <2>4 DEF ReadAcknowledgement, ReadDelivery, BeatsAtOnce, AgentEnd
    <3> QED BY <3>2, <3>3 DEF OneAnswer
  <2>5. CASE ReadWake /\ agent.step = "waiting"
    <3>1. \A i \in 1..Len(downlink') : downlink'[i] = "wake"
      BY <2>3, <2>5 DEF OneAnswer
    <3>2. agent'.step # "waiting"
      BY <1>t, <2>5 DEF ReadWake, BeatsAtOnce, AgentEnd
    <3> QED BY <3>1, <3>2 DEF OneAnswer
  <2>6. CASE ReadWake /\ agent.step # "waiting"
    <3>1. uplink' = uplink /\ agent'.step = agent.step
      BY <1>t, <2>6 DEF ReadWake, AgentEnd
    <3>2. \A i \in 1..Len(downlink') : downlink'[i] # "wake" =>
             /\ uplink = "none"
             /\ \A j \in 1..Len(downlink') : downlink'[j] # "wake" => i + 1 = j + 1
      BY <2>3 DEF OneAnswer
    <3>3. \A i, j \in 1..Len(downlink') : i + 1 = j + 1 => i = j
      BY <1>t, <2>2
    <3> QED BY <2>6, <3>1, <3>2, <3>3 DEF OneAnswer
  <2> QED BY <1>4, <2>4, <2>5, <2>6 DEF ReadFrame
<1>5. CASE IdleTimerFires
  <2>1. downlink' = downlink /\ agent.step = "waiting" /\ agent'.step # "waiting"
    BY <1>5, <1>t DEF IdleTimerFires, BeatsAtOnce, AgentEnd
  <2> QED BY <2>1 DEF OneAnswer
<1>6. ASSUME NEW c \in TaskIDs, HandleWake(c) PROVE OneAnswer'
  <2>1. /\ UNCHANGED <<agent, uplink>>
        /\ downlink' = downlink \/ downlink' = Append(downlink, "wake")
    BY <1>6 DEF HandleWake
  <2>2. "wake" \in Frames
    BY DEF Frames
  <2>3. \A i \in 1..Len(downlink') : downlink'[i] # "wake" => i \in 1..Len(downlink) /\ downlink'[i] = downlink[i]
    BY <1>t, <2>1, <2>2, Appended
  <2> QED BY <2>1, <2>3 DEF OneAnswer
<1>7. CASE UNCHANGED <<agent, uplink, downlink>>
  BY <1>7 DEF OneAnswer
<1>8. ASSUME NEW c \in TaskIDs, PostTask(c) \/ FailWake(c) PROVE UNCHANGED <<agent, uplink, downlink>>
  BY <1>8 DEF PostTask, FailWake
<1>9. Hibernate \/ MinutePasses \/ UNCHANGED gatewayVars => UNCHANGED <<agent, uplink, downlink>>
  BY DEF Hibernate, MinutePasses, gatewayVars
<1> QED
  BY <1>1, <1>2, <1>3, <1>4, <1>5, <1>6, <1>7, <1>8, <1>9 DEF GatewayNext

LEMMA HandledIsFinite ==
    ASSUME GatewayTypes
    PROVE  IsFiniteSet(HandledPosts) /\ Cardinality(HandledPosts) \in Nat /\ Cardinality(HandledPosts) <= MaxTasks * MaxPosts
<1>1. IsFiniteSet(TaskIDs) /\ Cardinality(TaskIDs) = MaxTasks
  <2>1. 1 \in Int /\ MaxTasks \in Int /\ (1 > MaxTasks => MaxTasks = 0)
    BY GatewayAssumption
  <2> QED BY <2>1, FS_Interval, GatewayAssumption DEF TaskIDs
<1>2. IsFiniteSet(1..MaxPosts) /\ Cardinality(1..MaxPosts) = MaxPosts
  <2>1. 1 \in Int /\ MaxPosts \in Int /\ (1 > MaxPosts => MaxPosts = 0)
    BY GatewayAssumption
  <2> QED BY <2>1, FS_Interval, GatewayAssumption
<1>3. /\ IsFiniteSet(TaskIDs \X (1..MaxPosts))
      /\ Cardinality(TaskIDs \X (1..MaxPosts)) = MaxTasks * MaxPosts
  BY <1>1, <1>2, FS_Product
<1>4. HandledPosts \subseteq TaskIDs \X (1..MaxPosts)
  BY DEF HandledPosts
<1>5. IsFiniteSet(HandledPosts) /\ Cardinality(HandledPosts) <= Cardinality(TaskIDs \X (1..MaxPosts))
  BY <1>3, <1>4, FS_Subset
<1> QED BY <1>3, <1>5, FS_CardinalityType

LEMMA WakeIsHandled ==
    ASSUME GatewayTypes, QueueIsShort, NEW c \in TaskIDs, HandleWake(c) \/ FailWake(c)
    PROVE  Cardinality(HandledPosts') = Cardinality(HandledPosts) + 1
<1> DEFINE p == <<c, taskPosts[c]>>
<1>1. wakeRequest[c] /\ wakeRequest' = [wakeRequest EXCEPT ![c] = FALSE] /\ taskPosts' = taskPosts
  BY DEF HandleWake, FailWake
<1>2. \A d \in TaskIDs : taskPosts[d] \in 0..MaxPosts
  BY DEF GatewayTypes
<1>3. \A d \in TaskIDs : wakeRequest'[d] <=> (d # c /\ wakeRequest[d])
  BY <1>1 DEF GatewayTypes
<1>4. taskPosts[c] \in 1..MaxPosts
  BY <1>1, <1>2 DEF QueueIsShort
<1>5. ASSUME NEW q \in TaskIDs \X (1..MaxPosts)
      PROVE  q \in HandledPosts' <=> q \in HandledPosts \/ q = p
  <2>1. /\ q[1] \in TaskIDs /\ q[2] \in 1..MaxPosts /\ q = <<q[1], q[2]>>
        /\ taskPosts[q[1]] \in 0..MaxPosts
    BY <1>2
  <2>2. q \in HandledPosts' <=> q[2] + (IF wakeRequest'[q[1]] THEN 1 ELSE 0) <= taskPosts[q[1]]
    BY <1>1 DEF HandledPosts
  <2>3. q \in HandledPosts <=> q[2] + (IF wakeRequest[q[1]] THEN 1 ELSE 0) <= taskPosts[q[1]]
    BY DEF HandledPosts
  <2>4. CASE q[1] = c
    <3>1. q = p <=> q[2] = taskPosts[c]
      BY <2>1, <2>4
    <3>2. q \in HandledPosts' <=> q[2] <= taskPosts[c]
      BY <1>3, <2>1, <2>2, <2>4
    <3>3. q \in HandledPosts <=> q[2] + 1 <= taskPosts[c]
      BY <1>1, <2>3, <2>4
    <3> QED BY <1>4, <2>1, <3>1, <3>2, <3>3
  <2>5. CASE q[1] # c
    BY <1>3, <2>1, <2>2, <2>3, <2>5
  <2> QED BY <2>4, <2>5
<1>6. p \in TaskIDs \X (1..MaxPosts) /\ p \notin HandledPosts
  <2>1. p[1] = c /\ p[2] = taskPosts[c]
    OBVIOUS
  <2> QED BY <1>1, <1>4, <2>1 DEF HandledPosts
<1>7. HandledPosts' \subseteq TaskIDs \X (1..MaxPosts) /\ HandledPosts \subseteq TaskIDs \X (1..MaxPosts)
  BY DEF HandledPosts
<1> HIDE DEF p
<1>8. HandledPosts' = HandledPosts \cup {p}
  BY <1>5, <1>6, <1>7
<1> QED BY <1>6, <1>8, HandledIsFinite, FS_AddElement

LEMMA PostIsUnhandled ==
    ASSUME GatewayTypes, NEW c \in TaskIDs, PostTask(c)
    PROVE  HandledPosts' = HandledPosts
<1>1. /\ ~wakeRequest[c] /\ wakeRequest' = [wakeRequest EXCEPT ![c] = TRUE]
      /\ taskPosts' = [taskPosts EXCEPT ![c] = taskPosts[c] + 1]
  BY DEF PostTask
<1>2. \A d \in TaskIDs : taskPosts[d] \in 0..MaxPosts
  BY DEF GatewayTypes
<1>3. ASSUME NEW q \in TaskIDs \X (1..MaxPosts)
      PROVE  q \in HandledPosts' <=> q \in HandledPosts
  <2>1. q[1] \in TaskIDs /\ q[2] \in 1..MaxPosts /\ taskPosts[q[1]] \in 0..MaxPosts
    BY <1>2
  <2>2. q \in HandledPosts' <=> q[2] + (IF wakeRequest'[q[1]] THEN 1 ELSE 0) <= taskPosts'[q[1]]
    BY DEF HandledPosts
  <2>3. q \in HandledPosts <=> q[2] + (IF wakeRequest[q[1]] THEN 1 ELSE 0) <= taskPosts[q[1]]
    BY DEF HandledPosts
  <2>4. CASE q[1] = c
    <3>1. wakeRequest'[q[1]] /\ ~wakeRequest[q[1]] /\ taskPosts'[q[1]] = taskPosts[q[1]] + 1
      BY <1>1, <2>4 DEF GatewayTypes
    <3> QED BY <2>1, <2>2, <2>3, <3>1
  <2>5. CASE q[1] # c
    <3>1. wakeRequest'[q[1]] = wakeRequest[q[1]] /\ taskPosts'[q[1]] = taskPosts[q[1]]
      BY <1>1, <2>1, <2>5 DEF GatewayTypes
    <3> QED BY <2>2, <2>3, <3>1
  <2> QED BY <2>4, <2>5
<1>4. HandledPosts' \subseteq TaskIDs \X (1..MaxPosts) /\ HandledPosts \subseteq TaskIDs \X (1..MaxPosts)
  BY DEF HandledPosts
<1> QED BY <1>3, <1>4

LEMMA QueueStep == GatewayInv /\ OneAnswer /\ QueueIsShort /\ [GatewayNext]_gatewayVars => QueueIsShort'
<1> SUFFICES ASSUME GatewayInv, OneAnswer, QueueIsShort, [GatewayNext]_gatewayVars PROVE QueueIsShort'
  OBVIOUS
<1>t. GatewayTypes /\ downlink \in Seq(Frames) /\ Len(downlink) \in Nat /\ agent \in AgentEnd
  <2>1. GatewayTypes /\ downlink \in Seq(Frames) /\ agent \in AgentEnd
    BY DEF GatewayInv, GatewayTypes
  <2> QED BY <2>1
<1>f. /\ \A f \in Frames : Len(Append(downlink, f)) = Len(downlink) + 1
      /\ downlink # <<>> => Len(Tail(downlink)) = Len(downlink) - 1
      /\ Len(<<>>) = 0
  BY <1>t, Appended, Shortened
<1>n. Cardinality(HandledPosts) \in Nat
  BY <1>t, HandledIsFinite
<1>w. agent.step = "waiting" => uplink = "none"
  BY DEF OneAnswer
<1>1. ASSUME UNCHANGED <<taskPosts, wakeRequest>>,
             \/ Len(downlink') = 0
             \/ UNCHANGED <<uplink, agent, downlink>>
             \/ uplink' = "none" /\ uplink # "none" /\ agent' = agent /\ Len(downlink') = Len(downlink) + 1
             \/ downlink # <<>> /\ Len(downlink') = Len(downlink) - 1
             \/ (uplink # "none" \/ agent.step = "waiting") /\ downlink' = downlink
      PROVE  QueueIsShort'
  <2>1. HandledPosts' = HandledPosts
    BY <1>1 DEF HandledPosts
  <2>2. Len(downlink) = 0 => downlink = <<>>
    BY <1>t
  <2>3. Len(downlink') <= Cardinality(HandledPosts)
                             + (IF uplink' = "none" /\ agent'.step # "waiting" THEN 1 ELSE 0)
    BY <1>1, <1>t, <1>n, <1>w, <2>2 DEF QueueIsShort
  <2> QED BY <1>1, <2>1, <2>3 DEF QueueIsShort
<1>2. CASE OpenSocket \/ LoseSocket
  BY <1>1, <1>2, <1>f DEF OpenSocket, LoseSocket, taskVars
<1>3. CASE ReceiveHeartbeat
  <2>1. UNCHANGED taskVars /\ uplink = "heartbeat" /\ (downlink' = downlink \/ downlink' = <<>>)
    BY <1>3 DEF ReceiveHeartbeat
  <2> QED BY <1>1, <1>f, <2>1 DEF taskVars
<1>4. CASE ReceiveHello \/ RelayHeartbeat \/ RelayFails
  <2>1. UNCHANGED <<taskVars, agent>> /\ uplink # "none" /\ uplink' = "none"
        /\ \E f \in Frames : downlink' = Append(downlink, f)
    BY <1>4 DEF ReceiveHello, RelayHeartbeat, RelayFails, Frames
  <2> QED BY <1>1, <1>f, <2>1 DEF taskVars
<1>5. CASE Hibernate
  BY <1>1, <1>5 DEF Hibernate, taskVars
<1>6. CASE ReadFrame
  <2>1. UNCHANGED <<taskPosts, wakeRequest>> /\ downlink # <<>> /\ downlink' = Tail(downlink)
    BY <1>6 DEF ReadFrame, ReadAcknowledgement, ReadWake, ReadDelivery, taskVars
  <2> QED BY <1>1, <1>f, <2>1
<1>7. ASSUME NEW c \in TaskIDs, PostTask(c) PROVE QueueIsShort'
  <2>1. HandledPosts' = HandledPosts
    BY <1>t, <1>7, PostIsUnhandled
  <2>2. \A d \in TaskIDs : wakeRequest'[d] => taskPosts'[d] # 0
    BY <1>7, <1>t DEF PostTask, GatewayTypes, QueueIsShort
  <2> QED BY <1>7, <2>1, <2>2 DEF PostTask, QueueIsShort
<1>8. ASSUME NEW c \in TaskIDs, HandleWake(c) \/ FailWake(c) PROVE QueueIsShort'
  <2>1. Cardinality(HandledPosts') = Cardinality(HandledPosts) + 1
    BY <1>t, <1>8, WakeIsHandled
  <2>2. /\ Len(downlink') <= Len(downlink) + 1 /\ Len(downlink') \in Nat
        /\ UNCHANGED <<uplink, agent>>
    BY <1>8, <1>f, <1>t DEF HandleWake, FailWake, Frames
  <2>3. \A d \in TaskIDs : wakeRequest'[d] => taskPosts'[d] # 0
    BY <1>8, <1>t DEF HandleWake, FailWake, GatewayTypes, QueueIsShort
  <2>4. Len(downlink') <= Cardinality(HandledPosts')
                             + (IF uplink' = "none" /\ agent'.step # "waiting" THEN 1 ELSE 0)
    BY <1>n, <1>t, <2>1, <2>2 DEF QueueIsShort
  <2> QED BY <2>3, <2>4 DEF QueueIsShort
<1>9. CASE MinutePasses \/ UNCHANGED gatewayVars
  BY <1>1, <1>9 DEF MinutePasses, gatewayVars
<1>10. CASE IdleTimerFires
  BY <1>1, <1>10 DEF IdleTimerFires, taskVars
<1> QED
  BY <1>2, <1>3, <1>4, <1>5, <1>6, <1>7, <1>8, <1>9, <1>10 DEF GatewayNext

\* The gateway, its sockets and the Mac's end of them keep their types, and a command that
\* is posted again does not fill the connection (src/gateway/src/index.ts, the control endpoint).
THEOREM GatewayTypeCorrect == GatewaySpec => []GatewayTypeOK
<1>1. GatewayInit => OneAnswer /\ QueueIsShort
  <2> SUFFICES ASSUME GatewayInit PROVE OneAnswer /\ QueueIsShort
    OBVIOUS
  <2>1. GatewayTypes
    BY GatewayStarts DEF GatewayInv
  <2>2. Cardinality(HandledPosts) \in Nat /\ Len(downlink) = 0
    BY <2>1, HandledIsFinite DEF GatewayInit
  <2>3. agent.step = "down" /\ uplink = "none"
    BY DEF GatewayInit, AgentDown
  <2> QED BY <2>2, <2>3 DEF GatewayInit, OneAnswer, QueueIsShort
<1>2. GatewayInv /\ QueueIsShort => GatewayTypeOK
  <2> SUFFICES ASSUME GatewayInv, QueueIsShort PROVE GatewayTypeOK
    OBVIOUS
  <2>1. MaxTasks * MaxPosts \in Nat /\ Len(downlink) \in Nat
    BY GatewayAssumption DEF GatewayInv, GatewayTypes
  <2>2. Cardinality(HandledPosts) \in Nat /\ Cardinality(HandledPosts) <= MaxTasks * MaxPosts
    BY HandledIsFinite DEF GatewayInv
  <2>3. Len(downlink) <= 2 + MaxTasks * MaxPosts
    <3> DEFINE product == MaxTasks * MaxPosts
    <3> HIDE DEF product
    <3>1. Len(downlink) <= Cardinality(HandledPosts)
                             + (IF uplink = "none" /\ agent.step # "waiting" THEN 1 ELSE 0)
      BY DEF QueueIsShort
    <3>2. product \in Nat /\ Cardinality(HandledPosts) <= product
      BY <2>1, <2>2 DEF product
    <3>3. Len(downlink) <= 2 + product
      BY <2>1, <2>2, <3>1, <3>2
    <3> QED BY <3>3 DEF product
  <2> QED BY <2>3 DEF GatewayInv, GatewayTypes, GatewayTypeOK, Frames, SocketEnd, AgentEnd
<1> QED BY <1>1, <1>2, GatewayStarts, GatewayStep, OneAnswerStep, QueueStep, PTL DEF GatewaySpec

-----------------------------------------------------------------------------
(* The staging of downloads.                                               *)

StageStatus == {"none"} \cup OpenStatus \cup ClosedStatus

StageRequest ==
    [op: {"none", "create", "poll", "ticket", "complete", "cancel"}, stage: 0..MaxStages,
     step: {"none", "begin", "submit", "ask", "expire", "act", "close", "done"},
     seen: StageStatus \cup {"refused"}]

StagingJob ==
    [step: {"start", "waiting", "cancelling", "local", "delivered", "downloaded"},
     stage: 0..MaxStages, files: Nat]

FetchStates == {"none", "running", "unknown", "done", "failed", "cancelled"}

\* Only a row that exists is fetched for.
Fetches == {f \in [Stages -> FetchStates] : \A s \in Stages \ Existing : f[s] = "none"}

StagingTypes ==
    /\ stage \in [Stages -> StageStatus]
    /\ fetch \in Fetches
    /\ stored \subseteq Existing
    /\ job \in [StagingJobs -> StagingJob]
    /\ request \in [StagingJobs -> StageRequest] /\ late \in [StagingJobs -> StageRequest]
    /\ giveUps \in 0..MaxGiveUps /\ crossed \in BOOLEAN

\* The request of a download, or the one it gave up.
At(j, isLate) == IF isLate THEN late[j] ELSE request[j]

\* Rows are created one after the other, and a name stands for a row.
RowsInOrder == Existing = 1..Cardinality(Existing)

NamesARow(r) ==
    /\ r.stage \in {0} \cup Existing
    /\ r.op \notin {"none", "create"} => r.stage # 0
    /\ r.step \in {"submit", "ask", "expire", "act", "close"} => r.stage # 0
    /\ r.step = "done" /\ r.seen # "refused" => r.stage # 0
    /\ r.step = "submit" => r.op = "create"
    /\ r.op = "none" => r.step = "none" /\ r.stage = 0

Named ==
    /\ \A j \in StagingJobs : job[j].stage \in {0} \cup Existing
    /\ \A j \in StagingJobs, isLate \in BOOLEAN : NamesARow(At(j, isLate))

\* Until the fetcher is asked nobody but its request knows a row: it is as it was created.
OnlyTheRequestKnows ==
    \A j \in StagingJobs, isLate \in BOOLEAN : At(j, isLate).step = "submit" =>
        /\ stage[At(j, isLate).stage] = "pending"
        /\ \A k \in StagingJobs : job[k].stage # At(j, isLate).stage
        /\ \A k \in StagingJobs, other \in BOOLEAN :
              At(k, other).stage = At(j, isLate).stage => k = j /\ other = isLate

\* How many files a download has at most, but for those of the times it was given up.
FilesOf(j) ==
    CASE job[j].step = "start" -> 0
      [] job[j].step = "waiting" -> IF request[j].op = "complete" THEN 1 ELSE 0
      [] job[j].step \in {"cancelling", "local", "delivered"} -> 1
      [] job[j].step = "downloaded" -> 2

\* A request is that of a download that waits; it is for the report of the delivery only
\* when the video is on the Mac.
JobsAsSaid ==
    \A j \in StagingJobs :
        /\ request[j].op # "none" => job[j].step \in {"waiting", "cancelling"}
        /\ job[j].step = "waiting" /\ request[j].op = "complete" => job[j].files > 0
        /\ job[j].step = "delivered" => job[j].files > 0
        /\ job[j].files <= giveUps + FilesOf(j)

StagingInv ==
    /\ StagingTypes /\ RowsInOrder /\ Named /\ OnlyTheRequestKnows /\ JobsAsSaid /\ QuotaHolds

OpenRows == {s \in Stages : stage[s] \in OpenStatus}

LEMMA RowsAreFinite ==
    ASSUME StagingTypes
    PROVE  /\ IsFiniteSet(OpenRows) /\ Cardinality(OpenRows) \in Nat
           /\ IsFiniteSet(Existing) /\ Cardinality(Existing) \in Nat
<1>1. IsFiniteSet(Stages)
  BY StagingAssumption, FS_Interval DEF Stages
<1>2. OpenRows \subseteq Stages /\ Existing \subseteq Stages
  BY DEF OpenRows, Existing
<1> QED BY <1>1, <1>2, FS_Subset, FS_CardinalityType

\* A request that is put back is all that changes.
LEMMA PutIsAt ==
    ASSUME StagingTypes, NEW j \in StagingJobs, NEW isLate \in BOOLEAN, NEW r \in StageRequest,
           Put(j, isLate, r)
    PROVE  /\ request' \in [StagingJobs -> StageRequest] /\ late' \in [StagingJobs -> StageRequest]
           /\ \A k \in StagingJobs, other \in BOOLEAN :
                 At(k, other)' = IF k = j /\ other = isLate
                                 THEN IF isLate /\ r.step = "done" THEN NoRequest ELSE r
                                 ELSE At(k, other)
<1>1. NoRequest \in StageRequest
  BY StagingAssumption DEF NoRequest, StageRequest, StageStatus
<1>2. CASE isLate
  <2>1. late' = [late EXCEPT ![j] = IF r.step = "done" THEN NoRequest ELSE r] /\ request' = request
    BY <1>2 DEF Put
  <2>2. late' \in [StagingJobs -> StageRequest] /\ request' \in [StagingJobs -> StageRequest]
    BY <1>1, <2>1 DEF StagingTypes
  <2>3. \A k \in StagingJobs : late'[k] = IF k = j THEN IF r.step = "done" THEN NoRequest ELSE r ELSE late[k]
    BY <2>1 DEF StagingTypes
  <2> QED BY <1>2, <2>1, <2>2, <2>3 DEF At
<1>3. CASE ~isLate
  <2>1. request' = [request EXCEPT ![j] = r] /\ late' = late
    BY <1>3 DEF Put
  <2>2. late' \in [StagingJobs -> StageRequest] /\ request' \in [StagingJobs -> StageRequest]
    BY <2>1 DEF StagingTypes
  <2>3. \A k \in StagingJobs : request'[k] = IF k = j THEN r ELSE request[k]
    BY <2>1 DEF StagingTypes
  <2> QED BY <1>3, <2>1, <2>2, <2>3 DEF At
<1> QED BY <1>2, <1>3

LEMMA StagingStarts == StagingInit => StagingInv
<1> SUFFICES ASSUME StagingInit PROVE StagingInv
  OBVIOUS
<1> USE StagingAssumption
<1>1. Existing = {} /\ OpenRows = {}
  BY DEF StagingInit, Existing, OpenRows, OpenStatus
<1>2. Cardinality({}) = 0
  BY FS_EmptySet
<1>3. StagingTypes
  <2>1. NoRequest \in StageRequest
    BY DEF NoRequest, StageRequest, StageStatus
  <2>2. [step |-> "start", stage |-> 0, files |-> 0] \in StagingJob
    BY DEF StagingJob
  <2>3. stage \in [Stages -> StageStatus] /\ stored \subseteq Existing
    BY DEF StagingInit, StageStatus
  <2>4. request \in [StagingJobs -> StageRequest] /\ late \in [StagingJobs -> StageRequest]
    BY <2>1 DEF StagingInit
  <2>5. job \in [StagingJobs -> StagingJob]
    BY <2>2 DEF StagingInit
  <2>6. giveUps \in 0..MaxGiveUps
    BY DEF StagingInit
  <2>7. crossed \in BOOLEAN
    BY DEF StagingInit
  <2>8. fetch \in Fetches
    BY DEF StagingInit, Fetches, FetchStates
  <2> QED BY <2>3, <2>4, <2>5, <2>6, <2>7, <2>8 DEF StagingTypes
<1>4. RowsInOrder
  BY <1>1, <1>2 DEF RowsInOrder
<1>5. Named /\ OnlyTheRequestKnows
  BY DEF StagingInit, Named, NamesARow, OnlyTheRequestKnows, At, NoRequest
<1>6. JobsAsSaid
  BY DEF StagingInit, JobsAsSaid, FilesOf, NoRequest
<1>7. QuotaHolds
  BY <1>1, <1>2 DEF QuotaHolds, OpenRows
<1> QED BY <1>3, <1>4, <1>5, <1>6, <1>7 DEF StagingInv

-----------------------------------------------------------------------------
(* What a request does.                                                    *)

\* The request has become q.
Becomes(j, isLate, q) ==
    /\ Put(j, isLate, q) /\ q \in StageRequest
    /\ q.op = At(j, isLate).op /\ q.stage = At(j, isLate).stage
    /\ q.step # "submit" /\ NamesARow(q)

\* It has written v over its row: when that opened a closed one, it is noted.
StageWritten(s, v) ==
    /\ s \in Existing /\ v \in OpenStatus \cup ClosedStatus
    /\ stage' = [stage EXCEPT ![s] = v]
    /\ crossed' \in BOOLEAN /\ (crossed => crossed')
    /\ v \in OpenStatus /\ ~crossed' => stage[s] \in OpenStatus

\* The row it has written is one row less that is closed only if that is noted.
LEMMA WritesKeepsRows ==
    ASSUME StagingInv, NEW s, NEW v, StageWritten(s, v)
    PROVE  /\ stage' \in [Stages -> StageStatus] /\ Existing' = Existing
           /\ \A t \in Stages \ {s} : stage'[t] = stage[t]
           /\ QuotaHolds'
<1>1. s \in Stages /\ stage[s] # "none" /\ v # "none" /\ v \in StageStatus
  BY DEF StageWritten, Existing, StageStatus, OpenStatus, ClosedStatus
<1>2. stage \in [Stages -> StageStatus]
  BY DEF StagingInv, StagingTypes
<1>3. stage' \in [Stages -> StageStatus] /\ stage'[s] = v /\ \A t \in Stages \ {s} : stage'[t] = stage[t]
  BY <1>1, <1>2 DEF StageWritten
<1>4. Existing' = Existing
  BY <1>1, <1>3 DEF Existing
<1>5. QuotaHolds'
  <2> SUFFICES ASSUME ~crossed' PROVE Cardinality(OpenRows') <= StageQuota
    BY DEF QuotaHolds, OpenRows
  <2>1. OpenRows' \subseteq OpenRows
    BY <1>1, <1>3 DEF OpenRows, StageWritten
  <2>2. ~crossed /\ Cardinality(OpenRows) <= StageQuota
    BY DEF StageWritten, StagingInv, StagingTypes, QuotaHolds, OpenRows
  <2>3. Cardinality(OpenRows') \in Nat /\ Cardinality(OpenRows') <= Cardinality(OpenRows)
    BY <2>1, RowsAreFinite, FS_Subset, FS_CardinalityType DEF StagingInv
  <2> QED BY <2>2, <2>3, RowsAreFinite, StagingAssumption DEF StagingInv
<1> QED BY <1>3, <1>4, <1>5

LEMMA BecomesKeeps ==
    ASSUME StagingInv, NEW j \in StagingJobs, NEW isLate \in BOOLEAN, NEW q, Becomes(j, isLate, q),
           UNCHANGED <<job, giveUps>>, Existing' = Existing,
           \A t \in Stages \ {At(j, isLate).stage} : stage'[t] = stage[t]
    PROVE  /\ request' \in [StagingJobs -> StageRequest] /\ late' \in [StagingJobs -> StageRequest]
           /\ RowsInOrder' /\ Named' /\ OnlyTheRequestKnows' /\ JobsAsSaid'
<1> DEFINE p == IF isLate /\ q.step = "done" THEN NoRequest ELSE q
<1>1. /\ request' \in [StagingJobs -> StageRequest] /\ late' \in [StagingJobs -> StageRequest]
      /\ \A k \in StagingJobs, other \in BOOLEAN :
            At(k, other)' = IF k = j /\ other = isLate THEN p ELSE At(k, other)
  BY PutIsAt DEF Becomes, StagingInv
<1>2. /\ NamesARow(p) /\ p.step # "submit" /\ p.stage \in {0, At(j, isLate).stage}
      /\ ~isLate => p.op = request[j].op
  BY DEF Becomes, NamesARow, NoRequest, At
<1> HIDE DEF p
<1>3. RowsInOrder'
  BY DEF StagingInv, RowsInOrder
<1>4. Named'
  <2>1. \A k \in StagingJobs : job'[k].stage \in {0} \cup Existing'
    BY DEF StagingInv, Named
  <2>2. ASSUME NEW k \in StagingJobs, NEW other \in BOOLEAN PROVE NamesARow(At(k, other))'
    <3>1. PICK r : r = At(k, other)' /\ NamesARow(r)
      BY <1>1, <1>2 DEF StagingInv, Named
    <3> QED BY <3>1 DEF NamesARow
  <2> QED BY <2>1, <2>2 DEF Named
<1>5. OnlyTheRequestKnows'
  <2> SUFFICES ASSUME NEW k \in StagingJobs, NEW other \in BOOLEAN, At(k, other)'.step = "submit"
               PROVE  /\ stage'[At(k, other)'.stage] = "pending"
                      /\ \A m \in StagingJobs : job'[m].stage # At(k, other)'.stage
                      /\ \A m \in StagingJobs, o \in BOOLEAN :
                            At(m, o)'.stage = At(k, other)'.stage => m = k /\ o = other
    BY DEF OnlyTheRequestKnows
  <2>1. At(k, other)' = At(k, other) /\ ~(k = j /\ other = isLate)
    BY <1>1, <1>2
  <2>2. /\ stage[At(k, other).stage] = "pending"
        /\ \A m \in StagingJobs : job[m].stage # At(k, other).stage
        /\ \A m \in StagingJobs, o \in BOOLEAN :
              At(m, o).stage = At(k, other).stage => m = k /\ o = other
    BY <2>1 DEF StagingInv, OnlyTheRequestKnows
  <2>3. At(k, other).stage \in Existing /\ At(k, other).stage # 0
    BY <2>1 DEF StagingInv, Named, NamesARow
  <2>4. At(k, other).stage # At(j, isLate).stage
    BY <2>1, <2>2
  <2>5. \A m \in StagingJobs, o \in BOOLEAN : At(m, o)'.stage \in {0, At(m, o).stage}
    BY <1>1, <1>2
  <2> QED BY <2>1, <2>2, <2>3, <2>4, <2>5 DEF Existing
<1>6. JobsAsSaid'
  <2>1. \A k \in StagingJobs : request'[k].op = request[k].op
    BY <1>1, <1>2 DEF At
  <2>2. \A k \in StagingJobs : FilesOf(k)' = FilesOf(k)
    BY <2>1 DEF FilesOf
  <2> QED BY <2>1, <2>2 DEF StagingInv, JobsAsSaid
<1> QED BY <1>1, <1>3, <1>4, <1>5, <1>6

\* A request that leaves the rows alone, and one that writes its own.
LEMMA HandledKeeps ==
    ASSUME StagingInv, NEW j \in StagingJobs, NEW isLate \in BOOLEAN, NEW q, Becomes(j, isLate, q),
           UNCHANGED <<job, giveUps>>,
           fetch' \in Fetches, stored' \subseteq Existing,
           \/ UNCHANGED <<stage, crossed>>
           \/ \E v : StageWritten(At(j, isLate).stage, v)
    PROVE  StagingInv'
<1>1. /\ stage' \in [Stages -> StageStatus] /\ Existing' = Existing
      /\ \A t \in Stages \ {At(j, isLate).stage} : stage'[t] = stage[t]
      /\ QuotaHolds' /\ crossed' \in BOOLEAN
  <2>1. CASE UNCHANGED <<stage, crossed>>
    BY <2>1 DEF StagingInv, StagingTypes, Existing, QuotaHolds
  <2>2. CASE \E v : StageWritten(At(j, isLate).stage, v)
    BY <2>2, WritesKeepsRows DEF StageWritten
  <2> QED BY <2>1, <2>2
<1>2. /\ request' \in [StagingJobs -> StageRequest] /\ late' \in [StagingJobs -> StageRequest]
      /\ RowsInOrder' /\ Named' /\ OnlyTheRequestKnows' /\ JobsAsSaid'
  BY <1>1, BecomesKeeps
<1>3. StagingTypes'
  <2>1. (fetch \in Fetches)'
    BY <1>1 DEF Fetches
  <2> QED BY <1>1, <1>2, <2>1 DEF StagingInv, StagingTypes
<1> QED BY <1>1, <1>2, <1>3 DEF StagingInv

LEMMA RequestOf ==
    ASSUME StagingInv, NEW j \in StagingJobs, NEW isLate \in BOOLEAN
    PROVE  At(j, isLate) \in StageRequest /\ NamesARow(At(j, isLate))
BY DEF StagingInv, StagingTypes, Named, At

LEMMA StageRowsTyped ==
    ASSUME StagingInv
    PROVE  /\ stage \in [Stages -> StageStatus] /\ fetch \in Fetches
           /\ stored \subseteq Existing /\ Existing \subseteq Stages
           /\ \A s \in Existing : stage[s] \in OpenStatus \cup ClosedStatus
           /\ crossed \in BOOLEAN
BY DEF StagingInv, StagingTypes, Existing, StageStatus

\* A row is inserted behind the others, when the device has less than it may have open.
LEMMA StageInsertKeeps ==
    ASSUME StagingInv, NEW j \in StagingJobs, NEW isLate \in BOOLEAN, InsertStage(j, isLate, At(j, isLate))
    PROVE  StagingInv'
<1> DEFINE r == At(j, isLate)
<1>1. r \in StageRequest /\ NamesARow(r)
  BY RequestOf
<1>2. r.op = "create" /\ r.step = "begin" /\ UNCHANGED <<fetch, stored, job, giveUps, crossed>>
  BY DEF InsertStage
<1> HIDE DEF r
<1>3. CASE Put(j, isLate, [r EXCEPT !.step = "done", !.seen = "refused"]) /\ UNCHANGED stage
  <2>1. PICK q : q = [r EXCEPT !.step = "done", !.seen = "refused"]
    OBVIOUS
  <2>2. q \in StageRequest /\ q.op = r.op /\ q.stage = r.stage /\ q.step = "done" /\ q.seen = "refused"
    BY <1>1, <2>1 DEF StageRequest
  <2>3. Becomes(j, isLate, q)
    BY <1>1, <1>2, <1>3, <2>1, <2>2 DEF Becomes, NamesARow, r
  <2> QED BY <1>2, <1>3, <2>3, HandledKeeps, StageRowsTyped
<1>4. CASE /\ Cardinality({s \in Stages : Counts(s)}) < StageQuota /\ Cardinality(Existing) < MaxStages
           /\ stage' = [stage EXCEPT ![Cardinality(Existing) + 1] = "pending"]
           /\ Put(j, isLate, [r EXCEPT !.stage = Cardinality(Existing) + 1, !.step = "submit"])
  <2>1. PICK n : n = Cardinality(Existing)
    OBVIOUS
  <2>2. n \in Nat /\ n < MaxStages /\ Existing = 1..n
    BY <1>4, <2>1, RowsAreFinite DEF StagingInv, RowsInOrder
  <2>3. PICK s : s = n + 1
    OBVIOUS
  <2>4. s \in Stages /\ s \notin Existing /\ s # 0 /\ stage[s] = "none"
    BY <2>2, <2>3, StagingAssumption DEF Stages, Existing
  <2>5. /\ stage' \in [Stages -> StageStatus] /\ stage'[s] = "pending"
        /\ \A t \in Stages \ {s} : stage'[t] = stage[t]
    BY <1>4, <2>1, <2>3, <2>4, StageRowsTyped DEF StageStatus, OpenStatus
  <2>6. Existing' = Existing \cup {s} /\ Existing' = 1..s
    <3>1. Existing' = Existing \cup {s}
      BY <2>4, <2>5 DEF Existing
    <3>2. (1..n) \cup {s} = 1..s
      BY <2>2, <2>3
    <3> QED BY <2>2, <3>1, <3>2
  <2>7. RowsInOrder'
    <3>1. Cardinality(1..s) = s
      BY <2>2, <2>3, FS_Interval
    <3> QED BY <2>6, <3>1 DEF RowsInOrder
  <2>8. QuotaHolds'
    <3>1. OpenRows' = OpenRows \cup {s} /\ s \notin OpenRows
      BY <2>4, <2>5 DEF OpenRows, OpenStatus
    <3>2. Cardinality(OpenRows') = Cardinality(OpenRows) + 1
      BY <3>1, RowsAreFinite, FS_AddElement DEF StagingInv
    <3>3. {t \in Stages : Counts(t)} = OpenRows
      BY DEF OpenRows, Counts
    <3>4. Cardinality(OpenRows) < StageQuota
      BY <1>4, <3>3
    <3> QED BY <3>2, <3>4, RowsAreFinite, StagingAssumption DEF StagingInv, QuotaHolds, OpenRows
  <2>9. PICK q : q = [r EXCEPT !.stage = s, !.step = "submit"]
    OBVIOUS
  <2>10. q \in StageRequest /\ q.op = "create" /\ q.stage = s /\ q.step = "submit"
    <3>1. q = [op |-> r.op, stage |-> s, step |-> "submit", seen |-> r.seen]
      BY <1>1, <2>9 DEF StageRequest
    <3>2. s \in 0..MaxStages
      BY <2>4 DEF Stages
    <3> QED BY <1>1, <1>2, <3>1, <3>2 DEF StageRequest
  <2>11. /\ request' \in [StagingJobs -> StageRequest] /\ late' \in [StagingJobs -> StageRequest]
         /\ \A k \in StagingJobs, other \in BOOLEAN :
               At(k, other)' = IF k = j /\ other = isLate THEN q ELSE At(k, other)
    <3>1. Put(j, isLate, q)
      BY <1>4, <2>1, <2>3, <2>9
    <3> QED BY <2>10, <3>1, PutIsAt DEF StagingInv
  <2>12. Named'
    <3>1. \A k \in StagingJobs : job'[k].stage \in {0} \cup Existing'
      BY <1>2, <2>6 DEF StagingInv, Named
    <3>2. ASSUME NEW k \in StagingJobs, NEW other \in BOOLEAN PROVE NamesARow(At(k, other))'
      <4>1. PICK u : u = At(k, other)' /\ (u = q \/ NamesARow(u))
        BY <2>11, RequestOf
      <4> QED BY <2>4, <2>6, <2>10, <4>1 DEF NamesARow
    <3> QED BY <3>1, <3>2 DEF Named
  <2>13. OnlyTheRequestKnows'
    <3>1. \A k \in StagingJobs : job'[k].stage # s
      BY <1>2, <2>4 DEF StagingInv, Named
    <3>2. \A k \in StagingJobs, other \in BOOLEAN : At(k, other).stage # s
      BY <2>4 DEF StagingInv, Named, NamesARow
    <3>3. ASSUME NEW k \in StagingJobs, NEW other \in BOOLEAN, At(k, other)'.step = "submit"
          PROVE  /\ stage'[At(k, other)'.stage] = "pending"
                 /\ \A m \in StagingJobs : job'[m].stage # At(k, other)'.stage
                 /\ \A m \in StagingJobs, o \in BOOLEAN :
                       At(m, o)'.stage = At(k, other)'.stage => m = k /\ o = other
      <4>1. CASE k = j /\ other = isLate
        BY <2>5, <2>10, <2>11, <3>1, <3>2, <4>1
      <4>2. CASE ~(k = j /\ other = isLate)
        <5>1. At(k, other)' = At(k, other) /\ At(k, other).stage \in Existing
          BY <2>11, <3>3, <4>2 DEF StagingInv, Named, NamesARow
        <5>2. /\ stage[At(k, other).stage] = "pending"
              /\ \A m \in StagingJobs : job[m].stage # At(k, other).stage
              /\ \A m \in StagingJobs, o \in BOOLEAN :
                    At(m, o).stage = At(k, other).stage => m = k /\ o = other
          BY <3>3, <5>1 DEF StagingInv, OnlyTheRequestKnows
        <5>3. stage'[At(k, other).stage] = "pending"
          BY <2>4, <2>5, <5>1, <5>2 DEF Existing
        <5>4. \A m \in StagingJobs, o \in BOOLEAN :
                 At(m, o)'.stage = At(k, other).stage => m = k /\ o = other
          BY <2>4, <2>10, <2>11, <5>1, <5>2
        <5> QED BY <1>2, <5>1, <5>2, <5>3, <5>4
      <4> QED BY <4>1, <4>2
    <3> QED BY <3>3 DEF OnlyTheRequestKnows
  <2>14. JobsAsSaid'
    <3>1. \A k \in StagingJobs : request'[k].op = request[k].op
      BY <1>2, <2>10, <2>11 DEF At, r
    <3>2. \A k \in StagingJobs : FilesOf(k)' = FilesOf(k)
      BY <1>2, <3>1 DEF FilesOf
    <3> QED BY <1>2, <3>1, <3>2 DEF StagingInv, JobsAsSaid
  <2>15. StagingTypes'
    <3>1. (fetch \in Fetches)'
      BY <1>2, <2>6 DEF StagingInv, StagingTypes, Fetches
    <3> QED BY <1>2, <2>5, <2>6, <2>11, <3>1 DEF StagingInv, StagingTypes
  <2> QED BY <2>7, <2>8, <2>12, <2>13, <2>14, <2>15 DEF StagingInv
<1> QED BY <1>3, <1>4 DEF InsertStage, r

\* The answer of the fetcher is written over the row that only this request knows.
LEMMA SubmitKeeps ==
    ASSUME StagingInv, NEW j \in StagingJobs, NEW isLate \in BOOLEAN, SubmitStage(j, isLate, At(j, isLate))
    PROVE  StagingInv'
<1> DEFINE r == At(j, isLate)
<1>1. r \in StageRequest /\ NamesARow(r) /\ r.op = "create" /\ r.step = "submit"
  BY RequestOf DEF SubmitStage
<1>2. r.stage \in Existing /\ stage[r.stage] = "pending"
  BY <1>1 DEF NamesARow, StagingInv, OnlyTheRequestKnows
<1>3. PICK known \in BOOLEAN, taken \in BOOLEAN :
         /\ fetch' = [fetch EXCEPT ![r.stage] = IF known THEN "running" ELSE IF taken THEN "unknown" ELSE "none"]
         /\ stage' = [stage EXCEPT ![r.stage] = IF known THEN "staging" ELSE "failed"]
         /\ Put(j, isLate, [r EXCEPT !.step = IF known THEN "ask" ELSE "done",
                                     !.seen = IF known THEN "staging" ELSE "refused"])
         /\ UNCHANGED <<stored, job, giveUps, crossed>>
  BY DEF SubmitStage
<1> HIDE DEF r
<1>4. PICK q : q = [r EXCEPT !.step = IF known THEN "ask" ELSE "done",
                             !.seen = IF known THEN "staging" ELSE "refused"]
  OBVIOUS
<1>5. /\ q \in StageRequest /\ q.op = r.op /\ q.stage = r.stage
      /\ \/ q.step = "ask" /\ q.seen = "staging"
         \/ q.step = "done" /\ q.seen = "refused"
  <2>1. CASE known
    <3>1. "staging" \in StageStatus \cup {"refused"}
      BY DEF StageStatus, OpenStatus
    <3> QED BY <1>1, <1>4, <2>1, <3>1 DEF StageRequest
  <2>2. CASE ~known
    BY <1>1, <1>4, <2>2 DEF StageRequest
  <2> QED BY <2>1, <2>2
<1>6. Becomes(j, isLate, q)
  BY <1>1, <1>2, <1>3, <1>4, <1>5 DEF Becomes, NamesARow, r
<1>7. StageWritten(r.stage, IF known THEN "staging" ELSE "failed")
  BY <1>2, <1>3, StageRowsTyped DEF StageWritten, OpenStatus, ClosedStatus
<1>8. fetch' \in Fetches /\ stored' \subseteq Existing
  BY <1>2, <1>3, StageRowsTyped DEF Fetches, FetchStates
<1> QED BY <1>3, <1>6, <1>7, <1>8, HandledKeeps DEF r

LEMMA StageReadKeeps ==
    ASSUME StagingInv, NEW j \in StagingJobs, NEW isLate \in BOOLEAN, ReadStage(j, isLate, At(j, isLate))
    PROVE  StagingInv'
<1> DEFINE r == At(j, isLate)
<1>1. /\ r \in StageRequest /\ NamesARow(r) /\ r.op \in {"poll", "ticket", "complete", "cancel"}
      /\ UNCHANGED <<stage, fetch, stored, job, giveUps, crossed>>
  BY RequestOf DEF ReadStage
<1>2. r.stage \in Existing /\ r.stage # 0 /\ stage[r.stage] \in StageStatus
  BY <1>1, StageRowsTyped DEF NamesARow
<1>3. PICK p \in {"expire", "ask", "act"} : Put(j, isLate, [r EXCEPT !.seen = stage[r.stage], !.step = p])
  BY DEF ReadStage
<1> HIDE DEF r
<1>4. PICK q : q = [r EXCEPT !.seen = stage[r.stage], !.step = p]
  OBVIOUS
<1>5. q \in StageRequest /\ q.op = r.op /\ q.stage = r.stage /\ q.step = p
  BY <1>1, <1>2, <1>4 DEF StageRequest
<1>6. Becomes(j, isLate, q)
  BY <1>1, <1>2, <1>3, <1>4, <1>5 DEF Becomes, NamesARow, r
<1> QED BY <1>1, <1>6, HandledKeeps, StageRowsTyped

\* What the fetcher says may open a row that was closed: that is what is noted.
LEMMA AskKeeps ==
    ASSUME StagingInv, NEW j \in StagingJobs, NEW isLate \in BOOLEAN, AskFetcher(j, isLate, At(j, isLate))
    PROVE  StagingInv'
<1> DEFINE r == At(j, isLate)
<1>1. /\ r \in StageRequest /\ NamesARow(r) /\ r.step = "ask"
      /\ UNCHANGED <<job, giveUps>> /\ crossed' = (crossed \/ stage[r.stage] \in ClosedStatus)
  BY RequestOf DEF AskFetcher
<1>2. r.stage \in Existing /\ r.stage # 0 /\ stage[r.stage] \in OpenStatus \cup ClosedStatus
  BY <1>1, StageRowsTyped DEF NamesARow
<1>3. PICK status \in Heard(r.stage) :
         /\ stage' = [stage EXCEPT ![r.stage] = status]
         /\ IF status = "failed"
            THEN fetch' = [fetch EXCEPT ![r.stage] = "cancelled"] /\ stored' = stored \ {r.stage}
            ELSE UNCHANGED <<fetch, stored>>
         /\ Put(j, isLate, [r EXCEPT !.seen = status, !.step = "act"])
  BY DEF AskFetcher
<1>4. status \in {"staging", "ready", "cancelled", "failed"}
  BY DEF Heard
<1> HIDE DEF r
<1>5. PICK q : q = [r EXCEPT !.seen = status, !.step = "act"]
  OBVIOUS
<1>6. q \in StageRequest /\ q.op = r.op /\ q.stage = r.stage /\ q.step = "act"
  BY <1>1, <1>4, <1>5 DEF StageRequest, StageStatus, OpenStatus, ClosedStatus
<1>7. Becomes(j, isLate, q)
  BY <1>1, <1>2, <1>3, <1>5, <1>6 DEF Becomes, NamesARow, r
<1>8. StageWritten(r.stage, status)
  BY <1>1, <1>2, <1>3, <1>4, StageRowsTyped DEF StageWritten, OpenStatus, ClosedStatus
<1>9. fetch' \in Fetches /\ stored' \subseteq Existing
  BY <1>2, <1>3, StageRowsTyped DEF Fetches, FetchStates
<1> QED BY <1>1, <1>7, <1>8, <1>9, HandledKeeps DEF r

\* An expired, a delivered and a cancelled row are closed.
LEMMA ExpireKeeps ==
    ASSUME StagingInv, NEW j \in StagingJobs, NEW isLate \in BOOLEAN, ExpireStage(j, isLate, At(j, isLate))
    PROVE  StagingInv'
<1> DEFINE r == At(j, isLate)
<1>1. /\ r \in StageRequest /\ NamesARow(r) /\ r.step = "expire"
      /\ stage' = [stage EXCEPT ![r.stage] = "expired"] /\ stored' = stored \ {r.stage}
      /\ fetch' = [fetch EXCEPT ![r.stage] = Stopped(@)]
      /\ UNCHANGED <<job, giveUps>> /\ crossed' = (crossed \/ stage[r.stage] \in ClosedStatus)
  BY RequestOf DEF ExpireStage
<1>2. r.stage \in Existing /\ r.stage # 0
  BY <1>1 DEF NamesARow
<1>3. PICK p \in {"act", "done"} : Put(j, isLate, [r EXCEPT !.seen = "expired", !.step = p])
  BY DEF ExpireStage
<1> HIDE DEF r
<1>4. PICK q : q = [r EXCEPT !.seen = "expired", !.step = p]
  OBVIOUS
<1>5. q \in StageRequest /\ q.op = r.op /\ q.stage = r.stage /\ q.step = p
  BY <1>1, <1>4 DEF StageRequest, StageStatus, ClosedStatus
<1>6. Becomes(j, isLate, q)
  BY <1>1, <1>2, <1>3, <1>4, <1>5 DEF Becomes, NamesARow, r
<1>7. StageWritten(r.stage, "expired")
  BY <1>1, <1>2, StageRowsTyped DEF StageWritten, OpenStatus, ClosedStatus
<1>8. fetch' \in Fetches /\ stored' \subseteq Existing
  BY <1>1, <1>2, StageRowsTyped DEF Fetches, FetchStates, Stopped
<1> QED BY <1>1, <1>6, <1>7, <1>8, HandledKeeps DEF r

LEMMA AnswerPollKeeps ==
    ASSUME StagingInv, NEW j \in StagingJobs, NEW isLate \in BOOLEAN, AnswerPoll(j, isLate, At(j, isLate))
    PROVE  StagingInv'
<1> DEFINE r == At(j, isLate)
<1>1. /\ r \in StageRequest /\ NamesARow(r) /\ r.step = "act" /\ r.op \in {"create", "poll", "ticket"}
      /\ Put(j, isLate, [r EXCEPT !.step = "done"])
      /\ UNCHANGED <<stage, fetch, stored, job, giveUps, crossed>>
  BY RequestOf DEF AnswerPoll
<1> HIDE DEF r
<1>2. PICK q : q = [r EXCEPT !.step = "done"]
  OBVIOUS
<1>3. q \in StageRequest /\ q.op = r.op /\ q.stage = r.stage /\ q.step = "done"
  BY <1>1, <1>2 DEF StageRequest
<1>4. Becomes(j, isLate, q)
  BY <1>1, <1>2, <1>3 DEF Becomes, NamesARow, r
<1> QED BY <1>1, <1>4, HandledKeeps, StageRowsTyped

LEMMA DeleteKeeps ==
    ASSUME StagingInv, NEW j \in StagingJobs, NEW isLate \in BOOLEAN, DeleteObject(j, isLate, At(j, isLate))
    PROVE  StagingInv'
<1> DEFINE r == At(j, isLate)
<1>1. /\ r \in StageRequest /\ NamesARow(r) /\ r.step = "act" /\ r.op = "complete"
      /\ stored' \subseteq stored
      /\ UNCHANGED <<stage, fetch, job, giveUps, crossed>>
  BY RequestOf DEF DeleteObject
<1>2. PICK p \in {"close", "done"} : Put(j, isLate, [r EXCEPT !.step = p])
  BY DEF DeleteObject
<1> HIDE DEF r
<1>3. PICK q : q = [r EXCEPT !.step = p]
  OBVIOUS
<1>4. q \in StageRequest /\ q.op = r.op /\ q.stage = r.stage /\ q.step = p
  BY <1>1, <1>3 DEF StageRequest
<1>5. Becomes(j, isLate, q)
  BY <1>1, <1>2, <1>3, <1>4 DEF Becomes, NamesARow, r
<1> QED BY <1>1, <1>5, HandledKeeps, StageRowsTyped

LEMMA CloseKeeps ==
    ASSUME StagingInv, NEW j \in StagingJobs, NEW isLate \in BOOLEAN,
           CloseStage(j, isLate, At(j, isLate)) \/ CancelStage(j, isLate, At(j, isLate))
    PROVE  StagingInv'
<1> DEFINE r == At(j, isLate)
<1>1. /\ r \in StageRequest /\ NamesARow(r)
      /\ r.step = "close" \/ (r.step = "act" /\ r.op = "cancel")
      /\ UNCHANGED <<job, giveUps>>
  <2>1. r \in StageRequest /\ NamesARow(r)
    BY RequestOf
  <2>2. CASE CloseStage(j, isLate, r)
    BY <2>1, <2>2 DEF CloseStage
  <2>3. CASE CancelStage(j, isLate, r)
    BY <2>1, <2>3 DEF CancelStage
  <2> QED BY <2>2, <2>3
<1>9. crossed' \in BOOLEAN /\ (crossed => crossed')
  <2>1. CASE CloseStage(j, isLate, r)
    <3>1. crossed' = (crossed \/ stage[r.stage] \in ClosedStatus)
      BY <2>1 DEF CloseStage
    <3> QED BY <3>1
  <2>2. CASE CancelStage(j, isLate, r)
    BY <2>2, StageRowsTyped DEF CancelStage
  <2> QED BY <2>1, <2>2
<1>2. r.stage \in Existing /\ r.stage # 0
  BY <1>1 DEF NamesARow
<1>3. PICK v \in {"delivered", "cancelled"} :
         /\ stage' = [stage EXCEPT ![r.stage] = v]
         /\ Put(j, isLate, [r EXCEPT !.step = "done", !.seen = v])
  BY DEF CloseStage, CancelStage
<1>4. fetch' \in Fetches /\ stored' \subseteq Existing
  BY <1>2, StageRowsTyped DEF CloseStage, CancelStage, Fetches, FetchStates, Stopped
<1> HIDE DEF r
<1>5. PICK q : q = [r EXCEPT !.step = "done", !.seen = v]
  OBVIOUS
<1>6. q \in StageRequest /\ q.op = r.op /\ q.stage = r.stage /\ q.step = "done"
  BY <1>1, <1>5 DEF StageRequest, StageStatus, ClosedStatus
<1>7. Becomes(j, isLate, q)
  BY <1>1, <1>2, <1>3, <1>5, <1>6 DEF Becomes, NamesARow, r
<1>8. StageWritten(r.stage, v)
  BY <1>2, <1>3, <1>9, StageRowsTyped DEF StageWritten, OpenStatus, ClosedStatus
<1> QED BY <1>1, <1>4, <1>7, <1>8, HandledKeeps DEF r

LEMMA StageRequestKeeps ==
    ASSUME StagingInv, NEW j \in StagingJobs, HandleRequest(j)
    PROVE  StagingInv'
<1>1. PICK isLate \in BOOLEAN : HandleStage(j, isLate, At(j, isLate))
  BY DEF HandleRequest, At
<1> QED BY <1>1, StageInsertKeeps, SubmitKeeps, StageReadKeeps, AskKeeps, ExpireKeeps, AnswerPollKeeps,
           DeleteKeeps, CloseKeeps DEF HandleStage

-----------------------------------------------------------------------------
(* What the Mac does.                                                      *)

\* A stage the download j may name: none, its own, or that of an answer it has.
MayName(j, s) == s \in {0, job[j].stage} \/ (request[j].step = "done" /\ s = request[j].stage)

\* The download j goes on as t with the request q, and gives its last request up or not.
GoesOnAs(j, t, q) ==
    /\ t \in StagingJob /\ job' = [job EXCEPT ![j] = t]
    /\ q \in StageRequest /\ request' = [request EXCEPT ![j] = q]
    /\ \/ late' = late
       \/ /\ late[j] = NoRequest
          /\ late' = [late EXCEPT ![j] = IF request[j].step = "done" THEN NoRequest ELSE request[j]]
    /\ giveUps' \in 0..MaxGiveUps /\ giveUps <= giveUps'
    /\ UNCHANGED <<stage, fetch, stored, crossed>>

\* t and q fit each other.
Fit(j, t, q) ==
    /\ MayName(j, t.stage) /\ MayName(j, q.stage)
    /\ NamesARow(q) /\ q.step # "submit"
    /\ q.op # "none" => t.step \in {"waiting", "cancelling"}
    /\ t.step = "waiting" /\ q.op = "complete" => t.files > 0
    /\ t.step = "delivered" => t.files > 0
    /\ \/ t.files <= giveUps'
       \/ /\ t.files <= giveUps' + 1
          /\ \/ t.step \in {"cancelling", "local", "delivered", "downloaded"}
             \/ t.step = "waiting" /\ q.op = "complete"
       \/ t.files <= giveUps' + 2 /\ t.step = "downloaded"

LEMMA StageGoesOnKeeps ==
    ASSUME StagingInv, NEW j \in StagingJobs, NEW t, NEW q, GoesOnAs(j, t, q), Fit(j, t, q)
    PROVE  StagingInv'
<1>1. /\ job' \in [StagingJobs -> StagingJob] /\ request' \in [StagingJobs -> StageRequest]
      /\ job'[j] = t /\ request'[j] = q
      /\ \A k \in StagingJobs \ {j} : job'[k] = job[k] /\ request'[k] = request[k]
  BY DEF GoesOnAs, StagingInv, StagingTypes
<1>2. /\ late' \in [StagingJobs -> StageRequest]
      /\ \A k \in StagingJobs \ {j} : late'[k] = late[k]
      /\ late'[j] = late[j] \/ late'[j] = NoRequest \/ (late'[j] = request[j] /\ request[j].step # "done")
  <2>1. NoRequest \in StageRequest
    BY StagingAssumption DEF NoRequest, StageRequest, StageStatus
  <2> QED BY <2>1 DEF GoesOnAs, StagingInv, StagingTypes
<1>3. Existing' = Existing /\ UNCHANGED <<stage, fetch, stored, crossed>>
  BY DEF GoesOnAs, Existing
<1>4. t.stage \in {0} \cup Existing /\ q.stage \in {0} \cup Existing
  BY DEF Fit, MayName, StagingInv, Named, NamesARow, At
<1>5. StagingTypes'
  <2>1. (fetch \in Fetches)'
    BY <1>3 DEF StagingInv, StagingTypes, Fetches
  <2> QED BY <1>1, <1>2, <1>3, <2>1 DEF GoesOnAs, StagingInv, StagingTypes
<1>6. RowsInOrder' /\ QuotaHolds'
  BY <1>3 DEF StagingInv, RowsInOrder, QuotaHolds
<1>7. NamesARow(NoRequest) /\ NoRequest.step = "none" /\ NoRequest.stage = 0
  BY DEF NamesARow, NoRequest
<1>8. \A k \in StagingJobs, other \in BOOLEAN :
         \/ At(k, other)' = At(k, other) /\ ~(k = j /\ ~other)
         \/ k = j /\ ~other /\ At(k, other)' = q
         \/ k = j /\ other /\ At(k, other)' = NoRequest
         \/ /\ k = j /\ other /\ At(k, other)' = At(j, FALSE)
            /\ At(j, FALSE).step # "done"
  BY <1>1, <1>2 DEF At
<1>9. Named'
  <2>1. \A k \in StagingJobs : job'[k].stage \in {0} \cup Existing'
    BY <1>1, <1>3, <1>4 DEF StagingInv, Named
  <2>2. ASSUME NEW k \in StagingJobs, NEW other \in BOOLEAN PROVE NamesARow(At(k, other))'
    <3>1. PICK u : u = At(k, other)' /\ NamesARow(u)
      BY <1>7, <1>8, RequestOf DEF Fit
    <3> QED BY <1>3, <3>1 DEF NamesARow
  <2> QED BY <2>1, <2>2 DEF Named
<1>10. OnlyTheRequestKnows'
  <2> SUFFICES ASSUME NEW k \in StagingJobs, NEW other \in BOOLEAN, At(k, other)'.step = "submit"
               PROVE  /\ stage'[At(k, other)'.stage] = "pending"
                      /\ \A m \in StagingJobs : job'[m].stage # At(k, other)'.stage
                      /\ \A m \in StagingJobs, o \in BOOLEAN :
                            At(m, o)'.stage = At(k, other)'.stage => m = k /\ o = other
    BY DEF OnlyTheRequestKnows
  <2>1. PICK was \in BOOLEAN :
           /\ At(k, other)' = At(k, was)
           /\ \/ was = other /\ ~(k = j /\ ~other)
              \/ k = j /\ other /\ ~was
    BY <1>7, <1>8 DEF Fit
  <2>2. /\ stage[At(k, was).stage] = "pending" /\ At(k, was).stage # 0
        /\ \A m \in StagingJobs : job[m].stage # At(k, was).stage
        /\ \A m \in StagingJobs, o \in BOOLEAN :
              At(m, o).stage = At(k, was).stage => m = k /\ o = was
    BY <2>1, RequestOf DEF StagingInv, OnlyTheRequestKnows, NamesARow
  <2>3. \A s : MayName(j, s) => s # At(k, was).stage
    <3>1. request[j].step = "done" => request[j].stage # At(k, was).stage
      BY <2>1, <2>2 DEF At
    <3> QED BY <2>2, <3>1 DEF MayName
  <2>4. \A m \in StagingJobs : job'[m].stage # At(k, was).stage
    BY <1>1, <2>2, <2>3 DEF Fit
  <2>5. ASSUME NEW m \in StagingJobs, NEW o \in BOOLEAN, At(m, o)'.stage = At(k, was).stage
        PROVE  m = k /\ o = other
    <3>1. CASE At(m, o)' = At(m, o) /\ ~(m = j /\ ~o)
      BY <2>1, <2>2, <2>5, <3>1
    <3>2. CASE m = j /\ ~o /\ At(m, o)' = q
      BY <2>3, <2>5, <3>2 DEF Fit
    <3>3. CASE m = j /\ o /\ At(m, o)' = NoRequest
      BY <1>7, <2>2, <2>5, <3>3
    <3>4. CASE m = j /\ o /\ At(m, o)' = At(j, FALSE)
      BY <2>1, <2>2, <2>5, <3>4
    <3> QED BY <1>8, <3>1, <3>2, <3>3, <3>4
  <2> QED BY <1>3, <2>1, <2>2, <2>4, <2>5
<1>11. JobsAsSaid'
  <2> SUFFICES ASSUME NEW k \in StagingJobs
               PROVE  /\ request'[k].op # "none" => job'[k].step \in {"waiting", "cancelling"}
                      /\ job'[k].step = "waiting" /\ request'[k].op = "complete" => job'[k].files > 0
                      /\ job'[k].step = "delivered" => job'[k].files > 0
                      /\ job'[k].files <= giveUps' + FilesOf(k)'
    BY DEF JobsAsSaid
  <2>1. CASE k = j
    BY <1>1, <2>1 DEF Fit, GoesOnAs, FilesOf, StagingJob
  <2>2. CASE k # j
    <3>1. job'[k] = job[k] /\ request'[k] = request[k] /\ giveUps <= giveUps'
      BY <1>1, <2>2 DEF GoesOnAs
    <3>2. FilesOf(k)' = FilesOf(k) /\ FilesOf(k) \in Nat /\ job[k].files \in Nat
      BY <3>1 DEF FilesOf, StagingInv, StagingTypes, StagingJob
    <3>3. giveUps \in Nat /\ giveUps' \in Nat
      BY StagingAssumption DEF StagingInv, StagingTypes, GoesOnAs
    <3> QED BY <3>1, <3>2, <3>3 DEF StagingInv, JobsAsSaid
  <2> QED BY <2>1, <2>2
<1> QED BY <1>5, <1>6, <1>9, <1>10, <1>11 DEF StagingInv

\* What is sent.
StageMessage(op, s) == [NoRequest EXCEPT !.op = op, !.stage = s, !.step = "begin"]

LEMMA Sending ==
    ASSUME NEW op \in {"create", "poll", "ticket", "complete", "cancel"}, NEW s \in 0..MaxStages,
           op # "create" => s # 0, s \in {0} \cup Existing
    PROVE  /\ StageMessage(op, s) \in StageRequest /\ NamesARow(StageMessage(op, s))
           /\ StageMessage(op, s).op = op /\ StageMessage(op, s).stage = s /\ StageMessage(op, s).step = "begin"
<1>1. StageMessage(op, s) = [op |-> op, stage |-> s, step |-> "begin", seen |-> "none"]
  <2>1. PICK q : q = [NoRequest EXCEPT !.op = op, !.stage = s, !.step = "begin"]
    OBVIOUS
  <2>2. q = [op |-> op, stage |-> s, step |-> "begin", seen |-> "none"]
    BY <2>1 DEF NoRequest
  <2> QED BY <2>1, <2>2 DEF StageMessage
<1>2. "none" \in StageStatus \cup {"refused"}
  BY DEF StageStatus
<1>3. StageMessage(op, s) \in StageRequest
  BY <1>1, <1>2 DEF StageRequest
<1>4. NamesARow(StageMessage(op, s))
  BY <1>1 DEF NamesARow
<1> QED BY <1>1, <1>3, <1>4

LEMMA NothingSent ==
    /\ NoRequest \in StageRequest /\ NamesARow(NoRequest)
    /\ NoRequest.op = "none" /\ NoRequest.step = "none" /\ NoRequest.stage = 0
BY StagingAssumption DEF NoRequest, StageRequest, StageStatus, NamesARow

LEMMA JobOf ==
    ASSUME StagingInv, NEW j \in StagingJobs
    PROVE  /\ job[j] \in StagingJob /\ request[j] \in StageRequest /\ NamesARow(request[j])
           /\ job[j].stage \in 0..MaxStages /\ job[j].stage \in {0} \cup Existing
           /\ job[j].files \in Nat /\ giveUps \in Nat
           /\ request[j].op # "none" => job[j].step \in {"waiting", "cancelling"}
           /\ job[j].step = "waiting" /\ request[j].op = "complete" => job[j].files > 0
           /\ job[j].files <= giveUps + FilesOf(j)
<1>1. job[j] \in StagingJob /\ job[j].stage \in {0} \cup Existing
  BY DEF StagingInv, StagingTypes, Named
<1>2. request[j] \in StageRequest /\ NamesARow(request[j])
  BY RequestOf DEF At
<1>3. giveUps \in Nat
  BY StagingAssumption DEF StagingInv, StagingTypes
<1> QED BY <1>1, <1>2, <1>3 DEF StagingJob, StagingInv, JobsAsSaid

LEMMA StartKeeps ==
    ASSUME StagingInv, NEW j \in StagingJobs, StartTransfer(j)
    PROVE  StagingInv'
<1>1. /\ job[j].step = "start" /\ job' = [job EXCEPT ![j].step = "waiting"]
      /\ UNCHANGED <<stage, fetch, stored, late, giveUps, crossed>>
  BY DEF StartTransfer
<1>2. PICK op \in {"create", "poll"} : (op = "create" <=> job[j].stage = 0) /\ Sends(j, op, job[j].stage)
  BY DEF StartTransfer
<1>3. PICK t : t = [job[j] EXCEPT !.step = "waiting"]
  OBVIOUS
<1>4. /\ t \in StagingJob /\ t.step = "waiting" /\ t.stage = job[j].stage /\ t.files = job[j].files
      /\ job' = [job EXCEPT ![j] = t]
  BY <1>1, <1>3, JobOf DEF StagingJob
<1>5. PICK q : q = StageMessage(op, job[j].stage)
  OBVIOUS
<1>6. /\ q \in StageRequest /\ NamesARow(q) /\ q.op = op /\ q.stage = job[j].stage /\ q.step = "begin"
      /\ request' = [request EXCEPT ![j] = q]
  <2>1. job[j].stage \in 0..MaxStages /\ job[j].stage \in {0} \cup Existing
    BY JobOf
  <2>2. op # "create" => job[j].stage # 0
    BY <1>2
  <2>3. request' = [request EXCEPT ![j] = q]
    BY <1>2, <1>5 DEF Sends, StageMessage
  <2> QED BY <1>5, <2>1, <2>2, <2>3, Sending
<1>7. GoesOnAs(j, t, q)
  <2>1. giveUps' \in 0..MaxGiveUps /\ giveUps <= giveUps'
    BY <1>1, JobOf DEF StagingInv, StagingTypes
  <2> QED BY <1>1, <1>4, <1>6, <2>1 DEF GoesOnAs
<1>8. Fit(j, t, q)
  BY <1>1, <1>4, <1>6, JobOf DEF Fit, MayName, FilesOf
<1> QED BY <1>7, <1>8, StageGoesOnKeeps

LEMMA EndCancelKeeps ==
    ASSUME StagingInv, NEW j \in StagingJobs, EndCancel(j)
    PROVE  StagingInv'
<1>1. PICK t : t = [job[j] EXCEPT !.stage = 0, !.step = "local"]
  OBVIOUS
<1>2. /\ t \in StagingJob /\ t.step = "local" /\ t.stage = 0 /\ t.files = job[j].files
  <2>1. t = [step |-> "local", stage |-> 0, files |-> job[j].files]
    BY <1>1, JobOf DEF StagingJob
  <2>2. 0 \in 0..MaxStages /\ job[j].files \in Nat
    BY JobOf, StagingAssumption
  <2> QED BY <2>1, <2>2 DEF StagingJob
<1>3. job' = [job EXCEPT ![j] = t]
  BY <1>1, JobOf DEF EndCancel, StagingInv, StagingTypes
<1>4. GoesOnAs(j, t, NoRequest)
  <2>1. giveUps' \in 0..MaxGiveUps /\ giveUps <= giveUps'
    BY JobOf DEF EndCancel, StagingInv, StagingTypes
  <2> QED BY <1>2, <1>3, <2>1, NothingSent DEF EndCancel, GoesOnAs
<1>5. job[j].step = "cancelling" /\ giveUps' = giveUps
  BY DEF EndCancel
<1>6. Fit(j, t, NoRequest)
  BY <1>2, <1>5, NothingSent, JobOf DEF Fit, MayName, FilesOf
<1> QED BY <1>4, <1>6, StageGoesOnKeeps

LEMMA StageDownloadKeeps ==
    ASSUME StagingInv, NEW j \in StagingJobs, DownloadLocally(j)
    PROVE  StagingInv'
<1>1. PICK t : t = [job[j] EXCEPT !.step = "downloaded", !.files = @ + 1]
  OBVIOUS
<1>2. /\ t \in StagingJob /\ t.step = "downloaded" /\ t.stage = job[j].stage /\ t.files = job[j].files + 1
  <2>1. t = [step |-> "downloaded", stage |-> job[j].stage, files |-> job[j].files + 1]
    BY <1>1, JobOf DEF StagingJob
  <2>2. job[j].stage \in 0..MaxStages /\ job[j].files + 1 \in Nat
    BY JobOf
  <2> QED BY <2>1, <2>2 DEF StagingJob
<1>3. job' = [job EXCEPT ![j] = t]
  BY <1>1, JobOf DEF DownloadLocally, StagingInv, StagingTypes
<1>4. GoesOnAs(j, t, request[j])
  <2>1. giveUps' \in 0..MaxGiveUps /\ giveUps <= giveUps'
    BY JobOf DEF DownloadLocally, StagingInv, StagingTypes
  <2>2. request[j] \in StageRequest /\ request' = [request EXCEPT ![j] = request[j]]
    BY JobOf DEF DownloadLocally, StagingInv, StagingTypes
  <2> QED BY <1>2, <1>3, <2>1, <2>2 DEF DownloadLocally, GoesOnAs
<1>5. job[j].step = "local" /\ giveUps' = giveUps
  BY DEF DownloadLocally
<1>6. request[j].op = "none" /\ request[j].step = "none" /\ request[j].stage = 0
  BY <1>5, JobOf DEF NamesARow
<1>7. Fit(j, t, request[j])
  BY <1>2, <1>5, <1>6, JobOf DEF Fit, MayName, FilesOf
<1> QED BY <1>4, <1>7, StageGoesOnKeeps

LEMMA PauseKeeps ==
    ASSUME StagingInv, NEW j \in StagingJobs, PauseTransfer(j)
    PROVE  StagingInv'
<1>1. PICK t : t = [job[j] EXCEPT !.step = "start"]
  OBVIOUS
<1>2. /\ t \in StagingJob /\ t.step = "start" /\ t.stage = job[j].stage /\ t.files = job[j].files
  BY <1>1, JobOf DEF StagingJob
<1>3. job' = [job EXCEPT ![j] = t]
  BY <1>1, JobOf DEF PauseTransfer, StagingInv, StagingTypes
<1>4. job[j].step = "waiting" /\ giveUps' = giveUps + 1 /\ giveUps' \in 0..MaxGiveUps
  BY StagingAssumption, JobOf DEF PauseTransfer, StagingInv, StagingTypes
<1>5. GoesOnAs(j, t, NoRequest)
  <2>1. giveUps <= giveUps'
    BY <1>4, JobOf
  <2> QED BY <1>2, <1>3, <1>4, <2>1, NothingSent DEF PauseTransfer, GoesOnAs
<1>6. Fit(j, t, NoRequest)
  BY <1>2, <1>4, NothingSent, JobOf DEF Fit, MayName, FilesOf
<1> QED BY <1>5, <1>6, StageGoesOnKeeps

\* A download that falls back keeps no more than the file it may have.
LEMMA FallBackKeeps ==
    ASSUME StagingInv, NEW j \in StagingJobs, NEW s \in 0..MaxStages,
           FallBack(j, s), MayName(j, s), s \in {0} \cup Existing, job[j].files <= giveUps' + 1,
           giveUps' \in 0..MaxGiveUps, giveUps <= giveUps',
           \/ late' = late
           \/ /\ late[j] = NoRequest
              /\ late' = [late EXCEPT ![j] = IF request[j].step = "done" THEN NoRequest ELSE request[j]],
           UNCHANGED <<stage, fetch, stored, crossed>>
    PROVE  StagingInv'
<1>1. CASE s = 0
  <2>1. PICK t : t = [job[j] EXCEPT !.step = "local"]
    OBVIOUS
  <2>2. t \in StagingJob /\ t.step = "local" /\ t.stage = job[j].stage /\ t.files = job[j].files
    BY <2>1, JobOf DEF StagingJob
  <2>3. job' = [job EXCEPT ![j] = t] /\ request' = [request EXCEPT ![j] = NoRequest]
    BY <1>1, <2>1, JobOf DEF FallBack, StagingInv, StagingTypes
  <2>4. GoesOnAs(j, t, NoRequest)
    BY <2>2, <2>3, NothingSent DEF GoesOnAs
  <2>5. Fit(j, t, NoRequest)
    BY <2>2, NothingSent DEF Fit, MayName
  <2> QED BY <2>4, <2>5, StageGoesOnKeeps
<1>2. CASE s # 0
  <2>1. PICK t : t = [job[j] EXCEPT !.stage = s, !.step = "cancelling"]
    OBVIOUS
  <2>2. t \in StagingJob /\ t.step = "cancelling" /\ t.stage = s /\ t.files = job[j].files
    <3>1. t = [step |-> "cancelling", stage |-> s, files |-> job[j].files]
      BY <2>1, JobOf DEF StagingJob
    <3> QED BY <3>1, JobOf DEF StagingJob
  <2>3. PICK q : q = StageMessage("cancel", s)
    OBVIOUS
  <2>4. q \in StageRequest /\ NamesARow(q) /\ q.op = "cancel" /\ q.stage = s /\ q.step = "begin"
    BY <1>2, <2>3, Sending
  <2>5. job' = [job EXCEPT ![j] = t] /\ request' = [request EXCEPT ![j] = q]
    BY <1>2, <2>1, <2>3, JobOf DEF FallBack, Sends, StageMessage, StagingInv, StagingTypes
  <2>6. GoesOnAs(j, t, q)
    BY <2>2, <2>4, <2>5 DEF GoesOnAs
  <2>7. Fit(j, t, q)
    BY <2>2, <2>4 DEF Fit, MayName
  <2> QED BY <2>6, <2>7, StageGoesOnKeeps
<1> QED BY <1>1, <1>2

LEMMA GiveUpKeeps ==
    ASSUME StagingInv, NEW j \in StagingJobs, GiveUp(j)
    PROVE  StagingInv'
<1>1. /\ request[j].op # "none" /\ late[j] = NoRequest /\ giveUps < MaxGiveUps /\ giveUps' = giveUps + 1
      /\ late' = [late EXCEPT ![j] = IF request[j].step = "done" THEN NoRequest ELSE request[j]]
      /\ UNCHANGED <<stage, fetch, stored, crossed>>
  BY DEF GiveUp
<1>2. giveUps' \in 0..MaxGiveUps /\ giveUps <= giveUps'
  BY <1>1, JobOf, StagingAssumption
<1>3. CASE job[j].step = "cancelling"
  <2>1. PICK t : t = [job[j] EXCEPT !.stage = 0, !.step = "local"]
    OBVIOUS
  <2>2. /\ t \in StagingJob /\ t.step = "local" /\ t.stage = 0 /\ t.files = job[j].files
    <3>1. t = [step |-> "local", stage |-> 0, files |-> job[j].files]
      BY <2>1, JobOf DEF StagingJob
    <3>2. 0 \in 0..MaxStages /\ job[j].files \in Nat
      BY JobOf, StagingAssumption
    <3> QED BY <3>1, <3>2 DEF StagingJob
  <2>3. job' = [job EXCEPT ![j] = t] /\ request' = [request EXCEPT ![j] = NoRequest]
    BY <1>3, <2>1, JobOf DEF GiveUp, StagingInv, StagingTypes
  <2>4. GoesOnAs(j, t, NoRequest)
    BY <1>1, <1>2, <2>2, <2>3, NothingSent DEF GoesOnAs
  <2>5. Fit(j, t, NoRequest)
    BY <1>1, <1>3, <2>2, NothingSent, JobOf DEF Fit, MayName, FilesOf
  <2> QED BY <2>4, <2>5, StageGoesOnKeeps
<1>4. CASE job[j].step # "cancelling"
  <2>1. job[j].step = "waiting" /\ FallBack(j, job[j].stage)
    BY <1>1, <1>4, JobOf DEF GiveUp
  <2>2. job[j].files <= giveUps' + 1
    BY <1>1, <2>1, JobOf DEF FilesOf
  <2>3. MayName(j, job[j].stage) /\ job[j].stage \in 0..MaxStages /\ job[j].stage \in {0} \cup Existing
    BY JobOf DEF MayName
  <2> QED BY <1>1, <1>2, <2>1, <2>2, <2>3, FallBackKeeps
<1> QED BY <1>3, <1>4

\* An answer that lets the download go on: it sends the next request, knows the stage by
\* now, and has one file more only when it reports the delivery.
LEMMA NextRequestKeeps ==
    ASSUME StagingInv, NEW j \in StagingJobs, NEW t \in StagingJob,
           NEW op \in {"poll", "ticket", "complete"},
           request[j].step = "done", request[j].op \in {"create", "poll", "ticket"}, request[j].stage # 0,
           job[j].step = "waiting", t.step = "waiting", t.stage \in {job[j].stage, request[j].stage},
           t.files = IF op = "complete" THEN job[j].files + 1 ELSE job[j].files,
           job' = [job EXCEPT ![j] = t], Sends(j, op, request[j].stage),
           UNCHANGED <<stage, fetch, stored, late, giveUps, crossed>>
    PROVE  StagingInv'
<1>1. PICK q : q = StageMessage(op, request[j].stage)
  OBVIOUS
<1>2. request[j].stage \in 0..MaxStages /\ request[j].stage \in {0} \cup Existing
  BY JobOf DEF NamesARow, StageRequest
<1>3. q \in StageRequest /\ NamesARow(q) /\ q.op = op /\ q.stage = request[j].stage /\ q.step = "begin"
  BY <1>1, <1>2, Sending
<1>4. request' = [request EXCEPT ![j] = q]
  BY <1>1 DEF Sends, StageMessage
<1>5. GoesOnAs(j, t, q)
  <2>1. giveUps' \in 0..MaxGiveUps /\ giveUps <= giveUps'
    BY JobOf DEF StagingInv, StagingTypes
  <2> QED BY <1>3, <1>4, <2>1 DEF GoesOnAs
<1>6. job[j].files \in Nat /\ giveUps \in Nat /\ job[j].files <= giveUps
  BY JobOf DEF FilesOf
<1>7. Fit(j, t, q)
  BY <1>3, <1>6 DEF Fit, MayName
<1> QED BY <1>5, <1>7, StageGoesOnKeeps

LEMMA AnswerKeeps ==
    ASSUME StagingInv, NEW j \in StagingJobs, HandleAnswer(j)
    PROVE  StagingInv'
<1> DEFINE r == request[j]
<1>1. /\ job[j].step = "waiting" /\ r.step = "done"
      /\ UNCHANGED <<stage, fetch, stored, late, giveUps, crossed>>
  BY DEF HandleAnswer
<1>2. /\ r \in StageRequest /\ NamesARow(r) /\ r.op # "none"
      /\ r.stage \in 0..MaxStages /\ r.stage \in {0} \cup Existing
      /\ r.op # "create" \/ r.seen # "refused" => r.stage # 0
  BY <1>1, JobOf DEF NamesARow, StageRequest
<1>3. job[j].files <= giveUps' + 1 /\ giveUps' \in 0..MaxGiveUps /\ giveUps <= giveUps'
  BY <1>1, JobOf DEF FilesOf, StagingInv, StagingTypes
<1>4. CASE FallBack(j, 0) \/ FallBack(j, r.stage)
  <2>1. PICK s \in {0, r.stage} : FallBack(j, s)
    BY <1>4
  <2>2. s \in 0..MaxStages /\ MayName(j, s) /\ s \in {0} \cup Existing
    BY <1>1, <1>2, StagingAssumption DEF MayName
  <2> QED BY <1>1, <1>3, <2>1, <2>2, FallBackKeeps
<1>5. CASE r.op = "create" /\ r.seen # "refused" /\ job' = [job EXCEPT ![j].stage = r.stage] /\ Sends(j, "poll", r.stage)
  <2>1. PICK t : t = [job[j] EXCEPT !.stage = r.stage]
    OBVIOUS
  <2>2. t \in StagingJob /\ t.step = "waiting" /\ t.stage = r.stage /\ t.files = job[j].files
    BY <1>1, <1>2, <2>1, JobOf DEF StagingJob
  <2>3. job' = [job EXCEPT ![j] = t]
    BY <1>5, <2>1, JobOf DEF StagingInv, StagingTypes
  <2> QED BY <1>1, <1>2, <1>5, <2>2, <2>3, NextRequestKeeps
<1>6. CASE r.op = "poll" /\ job' = job /\ \E op \in {"poll", "ticket"} : Sends(j, op, r.stage)
  <2>1. PICK op \in {"poll", "ticket"} : Sends(j, op, r.stage)
    BY <1>6
  <2>2. job' = [job EXCEPT ![j] = job[j]] /\ job[j] \in StagingJob
    BY <1>6, JobOf DEF StagingInv, StagingTypes
  <2> QED BY <1>1, <1>2, <1>6, <2>1, <2>2, NextRequestKeeps
<1>7. CASE r.op = "ticket" /\ job' = [job EXCEPT ![j].files = @ + 1] /\ Sends(j, "complete", r.stage)
  <2>1. PICK t : t = [job[j] EXCEPT !.files = @ + 1]
    OBVIOUS
  <2>2. t \in StagingJob /\ t.step = "waiting" /\ t.stage = job[j].stage /\ t.files = job[j].files + 1
    BY <1>1, <2>1, JobOf DEF StagingJob
  <2>3. job' = [job EXCEPT ![j] = t]
    BY <1>7, <2>1, JobOf DEF StagingInv, StagingTypes
  <2> QED BY <1>1, <1>2, <1>7, <2>2, <2>3, NextRequestKeeps
<1>8. CASE /\ r.op = "complete" /\ job' = [job EXCEPT ![j].stage = 0, ![j].step = "delivered"]
           /\ request' = [request EXCEPT ![j] = NoRequest]
  <2>1. PICK t : t = [job[j] EXCEPT !.stage = 0, !.step = "delivered"]
    OBVIOUS
  <2>2. t \in StagingJob /\ t.step = "delivered" /\ t.stage = 0 /\ t.files = job[j].files
    <3>1. t = [step |-> "delivered", stage |-> 0, files |-> job[j].files]
      BY <2>1, JobOf DEF StagingJob
    <3>2. 0 \in 0..MaxStages /\ job[j].files \in Nat
      BY JobOf, StagingAssumption
    <3> QED BY <3>1, <3>2 DEF StagingJob
  <2>3. job' = [job EXCEPT ![j] = t]
    BY <1>8, <2>1, JobOf DEF StagingInv, StagingTypes
  <2>4. GoesOnAs(j, t, NoRequest)
    BY <1>1, <1>3, <1>8, <2>2, <2>3, NothingSent DEF GoesOnAs
  <2>5. Fit(j, t, NoRequest)
    BY <1>1, <1>3, <1>8, <2>2, NothingSent, JobOf DEF Fit, MayName
  <2> QED BY <2>4, <2>5, StageGoesOnKeeps
<1> HIDE DEF r
<1>9. \/ FallBack(j, 0) \/ FallBack(j, r.stage)
      \/ r.op = "create" /\ r.seen # "refused" /\ job' = [job EXCEPT ![j].stage = r.stage] /\ Sends(j, "poll", r.stage)
      \/ r.op = "poll" /\ job' = job /\ \E op \in {"poll", "ticket"} : Sends(j, op, r.stage)
      \/ r.op = "ticket" /\ job' = [job EXCEPT ![j].files = @ + 1] /\ Sends(j, "complete", r.stage)
      \/ /\ r.op = "complete" /\ job' = [job EXCEPT ![j].stage = 0, ![j].step = "delivered"]
         /\ request' = [request EXCEPT ![j] = NoRequest]
  BY DEF HandleAnswer, AfterReady, r
<1> QED BY <1>4, <1>5, <1>6, <1>7, <1>8, <1>9

LEMMA Unmoved ==
    ASSUME StagingInv, UNCHANGED <<stage, job, request, late, giveUps, crossed>>, StagingTypes'
    PROVE  StagingInv'
<1>1. Existing' = Existing /\ \A j \in StagingJobs, isLate \in BOOLEAN : At(j, isLate)' = At(j, isLate)
  BY DEF Existing, At
<1>2. RowsInOrder' /\ QuotaHolds'
  BY <1>1 DEF StagingInv, RowsInOrder, QuotaHolds
<1>3. Named'
  BY <1>1 DEF StagingInv, Named, NamesARow
<1>4. OnlyTheRequestKnows'
  BY <1>1 DEF StagingInv, OnlyTheRequestKnows
<1>5. JobsAsSaid'
  BY DEF StagingInv, JobsAsSaid, FilesOf
<1> QED BY <1>2, <1>3, <1>4, <1>5 DEF StagingInv

LEMMA FetchKeeps ==
    ASSUME StagingInv, NEW s \in Stages, FetchEnds(s)
    PROVE  StagingInv'
<1>1. /\ fetch[s] # "none" /\ UNCHANGED <<stage, job, request, late, giveUps, crossed>>
      /\ \E state \in {"failed", "done"} : fetch' = [fetch EXCEPT ![s] = state]
      /\ stored' \subseteq stored \cup {s}
  BY DEF FetchEnds
<1>2. fetch \in Fetches /\ s \in Existing /\ Existing' = Existing
  BY <1>1, StageRowsTyped DEF Fetches, Existing
<1>3. (fetch \in Fetches)' /\ stored' \subseteq Existing'
  BY <1>1, <1>2, StageRowsTyped DEF Fetches, FetchStates
<1>4. StagingTypes'
  BY <1>1, <1>2, <1>3 DEF StagingInv, StagingTypes
<1> QED BY <1>1, <1>4, Unmoved

LEMMA StagingStep == StagingInv /\ [StagingNext]_stagingVars => StagingInv'
<1> SUFFICES ASSUME StagingInv, [StagingNext]_stagingVars PROVE StagingInv'
  OBVIOUS
<1>1. CASE UNCHANGED stagingVars
  <2>1. StagingTypes'
    BY <1>1 DEF stagingVars, StagingInv, StagingTypes, Fetches, Existing
  <2> QED BY <1>1, <2>1, Unmoved DEF stagingVars
<1>2. ASSUME NEW j \in StagingJobs,
             HandleRequest(j) \/ GoOn(j) \/ GiveUp(j) \/ PauseTransfer(j)
      PROVE  StagingInv'
  BY <1>2, StageRequestKeeps, StartKeeps, AnswerKeeps, EndCancelKeeps, StageDownloadKeeps, GiveUpKeeps, PauseKeeps DEF GoOn
<1>3. ASSUME NEW s \in Stages, FetchEnds(s) PROVE StagingInv'
  BY <1>3, FetchKeeps
<1> QED BY <1>1, <1>2, <1>3 DEF StagingNext

\* No device has more stages open than its quota, unless a row that was closed was written
\* over and opened again, which is noted (createStage, pollStage), and what the cloud has as
\* delivered has arrived on the Mac (CloudStagingClient.transfer).
THEOREM StagesAreKept == StagingSpec => []StagesHold
<1>1. StagingInv => StagesHold
  BY DEF StagingInv, JobsAsSaid, StagesHold, DeliveredIsOnTheMac
<1> QED BY <1>1, StagingStarts, StagingStep, PTL DEF StagingSpec

\* Rows, requests and downloads keep their types: a download knows a row that is there, and
\* has no more files than the times it was given up account for (CloudStagingClient.transfer).
THEOREM StagingTypeCorrect == StagingSpec => []StagingTypeOK
<1>1. StagingInv => StagingTypeOK
  <2> SUFFICES ASSUME StagingInv PROVE StagingTypeOK
    OBVIOUS
  <2>1. /\ stage \in [Stages -> {"none"} \cup OpenStatus \cup ClosedStatus]
        /\ fetch \in [Stages -> {"none", "running", "unknown", "done", "failed", "cancelled"}]
        /\ stored \subseteq Existing /\ giveUps \in 0..MaxGiveUps
    BY DEF StagingInv, StagingTypes, StageStatus, Fetches, FetchStates
  <2>2. ASSUME NEW j \in StagingJobs
        PROVE  /\ job[j].step \in {"start", "waiting", "cancelling", "local", "delivered", "downloaded"}
               /\ job[j].stage \in {0} \cup Existing /\ job[j].files \in 0..MaxGiveUps + 2
    <3>1. job[j] \in StagingJob /\ job[j].stage \in {0} \cup Existing
      BY DEF StagingInv, StagingTypes, Named
    <3>2. FilesOf(j) \in 0..2
      BY <3>1 DEF FilesOf, StagingJob
    <3>3. job[j].files <= giveUps + FilesOf(j) /\ giveUps \in 0..MaxGiveUps
      BY DEF StagingInv, StagingTypes, JobsAsSaid
    <3>4. job[j].files \in 0..MaxGiveUps + 2
      BY <3>1, <3>2, <3>3, StagingAssumption DEF StagingJob
    <3> QED BY <3>1, <3>4 DEF StagingJob
  <2>3. \A r \in StageRequests :
          /\ r.op \in {"none", "create", "poll", "ticket", "complete", "cancel"}
          /\ r.step \in {"none", "begin", "submit", "ask", "expire", "act", "close", "done"}
    <3>1. \A r \in StageRequests : r \in StageRequest
      BY DEF StageRequests, StagingInv, StagingTypes
    <3> QED BY <3>1 DEF StageRequest
  <2> QED BY <2>1, <2>2, <2>3 DEF StagingTypeOK
<1> QED BY <1>1, StagingStarts, StagingStep, PTL DEF StagingSpec

-----------------------------------------------------------------------------
(* The machines together.                                                  *)

\* Each machine takes its own steps only, or stands still while another moves.
LEMMA ServicesMoveAlone ==
    ASSUME [ServicesNext]_servicesVars
    PROVE  /\ [Next]_vars /\ [GatewayNext]_gatewayVars /\ [WireNext]_wireVars
           /\ [EnrollmentNext]_enrollmentVars /\ [SessionNext]_sessionVars
           /\ [CreationNext]_creationVars /\ [CollectionNext]_collectionVars
           /\ [StagingNext]_stagingVars
<1>1. CASE Moves("mailbox") /\ Next
  BY <1>1 DEF Moves
<1>2. CASE Moves("gateway") /\ GatewayNext
  BY <1>2 DEF Moves
<1>3. CASE Moves("wire") /\ WireNext
  BY <1>3 DEF Moves
<1>4. CASE Moves("enrollment") /\ EnrollmentNext
  BY <1>4 DEF Moves
<1>5. CASE Moves("session") /\ SessionNext
  BY <1>5 DEF Moves
<1>6. CASE Moves("creation") /\ CreationNext
  BY <1>6 DEF Moves
<1>7. CASE Moves("collections") /\ CollectionNext
  BY <1>7 DEF Moves
<1>8. CASE Moves("staging") /\ StagingNext
  BY <1>8 DEF Moves
<1>9. CASE UNCHANGED servicesVars
  BY <1>9 DEF servicesVars
<1> QED BY <1>1, <1>2, <1>3, <1>4, <1>5, <1>6, <1>7, <1>8, <1>9 DEF ServicesNext

\* Between the Mac and the browser every machine is as it is alone.
LEMMA ServicesAreTheirMachines ==
    ServicesSpec =>
        /\ Spec /\ GatewaySpec /\ WireSpec /\ EnrollmentSpec /\ SessionSpec /\ CreationSpec
        /\ CollectionSpec /\ StagingSpec
<1>1. ServicesInit =>
          /\ Init /\ GatewayInit /\ WireInit /\ EnrollmentInit /\ SessionInit /\ CreationInit
          /\ CollectionInit /\ StagingInit
  BY DEF ServicesInit
<1>2. [ServicesNext]_servicesVars =>
          /\ [Next]_vars /\ [GatewayNext]_gatewayVars /\ [WireNext]_wireVars
          /\ [EnrollmentNext]_enrollmentVars /\ [SessionNext]_sessionVars
          /\ [CreationNext]_creationVars /\ [CollectionNext]_collectionVars
          /\ [StagingNext]_stagingVars
  BY ServicesMoveAlone
<1> QED BY <1>1, <1>2, PTL DEF ServicesSpec, Spec, GatewaySpec, WireSpec, EnrollmentSpec, SessionSpec,
                               CreationSpec, CollectionSpec, StagingSpec

\* Every machine between the Mac and the browser keeps its types, and with them what they
\* say of the step each is at, in any interleaving of the machines: the mailbox of the Mac's
\* socket, the gateway's sockets, the commands on their way, the enrolment and the session
\* of the device, the command rows, the collections and the staged downloads.
THEOREM ServicesTypesHold == ServicesSpec => []ServicesTypeOK
<1>1. /\ TypeOK /\ GatewayTypeOK /\ WireTypeOK /\ EnrollmentTypeOK /\ SessionTypeOK
      /\ CreationTypeOK /\ CollectionTypeOK /\ StagingTypeOK
      => ServicesTypeOK
  BY DEF ServicesTypeOK
<1> QED BY <1>1, ServicesAreTheirMachines, MailboxTypeCorrect, GatewayTypeCorrect, WireTypeCorrect,
           EnrollmentTypeCorrect, SessionTypeCorrect, CreationTypeCorrect, CollectionTypeCorrect,
           StagingTypeCorrect, PTL

\* What stands between the Mac and the browser keeps its word, with a mailbox of four replies
\* or more and commands the hops know: no reply is dropped, every hop says the same of a
\* command, the handshake comes first, a key names one command and enrols one device, late
\* requests change nothing, the lists agree and a staged file is where its job says it is.
THEOREM ServicesKeepTheirWord ==
    ASSUME Capacity >= 4, WireInputs
    PROVE  ServicesSpec =>
               /\ [](HandshakeHolds /\ IdentityIsKept /\ CollectionsAgree /\ StagesHold)
               /\ RepliesAreKept /\ HopsAgree /\ EnrolledOnce /\ LateRequestsChangeNothing
               /\ QueuedWasOffered
<1>1. Spec => RepliesAreKept
  BY RepliesAreNeverDropped
<1>2. WireSpec => HopsAgree
  BY HopsAlwaysAgree
<1> QED BY <1>1, <1>2, ServicesAreTheirMachines, HandshakeIsKept, IdentityHolds, CollectionsStayTrue,
           StagesAreKept, EnrollmentIsOnce, LateRequestsAreHarmless, OffersHold, PTL
=============================================================================
