---------------------------- MODULE DeviceProofs ----------------------------
(***************************************************************************)
(* Proofs about DeviceEnrollment, for any Macs, codes, attempts and limit, *)
(* and about DeviceSession, for any challenges, requests, connections and  *)
(* bounds.                                                                 *)
(*                                                                         *)
(* Enrolment.  The inductive invariant ties four pieces of state together: *)
(* every device was paid for by a consumed code, no two by the same one,   *)
(* every consumed code paid for one, and an attempt the cloud has answered *)
(* is the one whose code its device carries.  That last fact is why a      *)
(* second attempt with the same key cannot be answered: the device it      *)
(* would need to find missing is already there.                            *)
(*                                                                         *)
(* Sessions.  The inductive invariant says who may have won a challenge: a *)
(* request past consumeSessionChallenge holds a challenge that is          *)
(* consumed, and no two of them hold the same.  So two requests that both  *)
(* found a challenge unspent cannot both get past, and                     *)
(* last_authenticated_at is written once for each challenge that was won   *)
(* with the device still its own.                                          *)
(***************************************************************************)
EXTENDS DeviceEnrollment, DeviceSession, FiniteSetTheorems, TLAPS

-----------------------------------------------------------------------------
(* DeviceEnrollment.                                                       *)

Rows == {"none", "issued", "expired", "consumed"}

Steps == {"idle", "begun", "verified", "unknown", "answered", "lost", "saved", "refused"}

AttemptRecord == [key: Keys, code: Codes \cup {NoCode}, row: Rows, step: Steps]

DeviceRow == [status: {"none"}, code: {NoCode}] \cup [status: {"live", "revoked"}, code: Codes]

\* A device row carries a code exactly when it exists, and that code is spent.
DevicesArePaid ==
    \A k \in Keys : device[k].code # NoCode => pairing[device[k].code] = "consumed"

CodesAreNotShared ==
    \A k, l \in Keys : device[k].code = device[l].code /\ device[k].code # NoCode => k = l

SpentCodesBought ==
    \A c \in Codes : pairing[c] = "consumed" => \E k \in Keys : device[k].code = c

\* An attempt presents the code it was given, and once answered its device carries it.
AttemptsPresentCodes ==
    \A a \in Attempts :
        /\ attempt[a].step \notin {"idle", "refused"} => attempt[a].code \in Codes
        /\ Enrolled(a) => device[attempt[a].key].code = attempt[a].code

EnrollmentInv ==
    /\ EnrollmentTypeOK
    /\ DevicesArePaid /\ CodesAreNotShared /\ SpentCodesBought /\ AttemptsPresentCodes
    /\ KeyEnrolsOnce /\ SavedIsEnrolled

-----------------------------------------------------------------------------
(* Steps.                                                                  *)

LEMMA EnrollmentTypes ==
    EnrollmentTypeOK <=>
        /\ pairing \in [Codes -> {"none", "refused", "counted", "active", "expired", "consumed"}]
        /\ attempt \in [Attempts -> AttemptRecord]
        /\ device \in [Keys -> DeviceRow]
        /\ metadata \in [Keys -> BOOLEAN]
BY DEF EnrollmentTypeOK, AttemptRecord, DeviceRow, Rows, Steps

\* What a field update makes of a record of each kind.
LEMMA RecordTypes ==
    /\ \A r \in AttemptRecord, x \in Rows : [r EXCEPT !.row = x] \in AttemptRecord
    /\ \A r \in AttemptRecord, x \in Steps : [r EXCEPT !.step = x] \in AttemptRecord
    /\ \A r \in AttemptRecord, x \in Rows, y \in Steps :
          [r EXCEPT !.step = y, !.row = x] \in AttemptRecord
    /\ \A d \in DeviceRow : d.status = "live" => [d EXCEPT !.status = "revoked"] \in DeviceRow
BY DEF AttemptRecord, DeviceRow, Rows, Steps

LEMMA EnrollmentStarts == EnrollmentInit => EnrollmentInv
<1> SUFFICES ASSUME EnrollmentInit PROVE EnrollmentInv
  OBVIOUS
<1>1. Unused \in AttemptRecord
  BY EnrollmentAssumption DEF Unused, AttemptRecord, Rows, Steps
<1>2. EnrollmentTypeOK
  BY <1>1, EnrollmentTypes DEF EnrollmentInit, DeviceRow
<1>3. \A a \in Attempts : attempt[a].step = "idle"
  BY DEF EnrollmentInit, Unused
<1> QED BY <1>2, <1>3 DEF EnrollmentInit, EnrollmentInv, DevicesArePaid, CodesAreNotShared,
          SpentCodesBought, AttemptsPresentCodes, KeyEnrolsOnce, SavedIsEnrolled, Enrolled

\* A request for a code moves its row, which is not consumed before or after.
LEMMA PairingKeeps ==
    ASSUME EnrollmentInv, NEW c \in Codes, NEW to \in {"refused", "counted", "active", "expired"},
           pairing[c] # "consumed", pairing' = [pairing EXCEPT ![c] = to],
           UNCHANGED <<attempt, device, metadata>>
    PROVE  EnrollmentInv'
<1> USE DEF EnrollmentInv
<1>1. EnrollmentTypeOK'
  BY DEF EnrollmentTypeOK
<1>2. \A d \in Codes : pairing'[d] = "consumed" <=> pairing[d] = "consumed"
  BY DEF EnrollmentTypeOK
<1>3. \A k \in Keys : device[k].code # NoCode => device[k].code \in Codes
  BY DEF EnrollmentTypeOK
<1>4. DevicesArePaid' /\ CodesAreNotShared' /\ SpentCodesBought'
  BY <1>2, <1>3 DEF DevicesArePaid, CodesAreNotShared, SpentCodesBought
<1>5. AttemptsPresentCodes' /\ KeyEnrolsOnce' /\ SavedIsEnrolled'
  BY DEF AttemptsPresentCodes, KeyEnrolsOnce, SavedIsEnrolled, Enrolled
<1> QED BY <1>1, <1>4, <1>5

\* An attempt that moves without reaching or leaving an answer disturbs nothing.
LEMMA AttemptKeeps ==
    ASSUME EnrollmentInv, NEW a \in Attempts,
           attempt' \in [Attempts -> AttemptRecord],
           \A b \in Attempts : b # a => attempt'[b] = attempt[b],
           attempt'[a].step \notin {"idle", "refused"} => attempt'[a].code \in Codes,
           Enrolled(a)' => /\ Enrolled(a)
                           /\ attempt'[a].key = attempt[a].key
                           /\ attempt'[a].code = attempt[a].code,
           attempt[a].step = "saved" => attempt'[a].step = "saved",
           UNCHANGED <<pairing, device, metadata>>
    PROVE  EnrollmentInv'
<1> USE DEF EnrollmentInv
<1>1. EnrollmentTypeOK' /\ DevicesArePaid' /\ CodesAreNotShared' /\ SpentCodesBought'
  BY DEF EnrollmentTypeOK, AttemptRecord, Rows, Steps, DevicesArePaid, CodesAreNotShared,
     SpentCodesBought
<1>2. AttemptsPresentCodes'
  BY DEF AttemptsPresentCodes, Enrolled
<1>3. KeyEnrolsOnce'
  BY DEF KeyEnrolsOnce, Enrolled
<1>4. SavedIsEnrolled'
  BY DEF SavedIsEnrolled, Enrolled
<1> QED BY <1>1, <1>2, <1>3, <1>4

LEMMA CompletionKeeps ==
    ASSUME EnrollmentInv, NEW a \in Attempts, CompleteEnrollment(a)
    PROVE  EnrollmentInv'
<1> USE DEF EnrollmentInv
<1> DEFINE k == attempt[a].key
           c == attempt[a].code
           wins == attempt[a].row = "issued" /\ CodeIsFree(c) /\ KeyIsFree(k)
<1>1. k \in Keys /\ c \in Codes
  BY DEF EnrollmentTypeOK, AttemptsPresentCodes, CompleteEnrollment
<1>2. CASE ~wins
  <2>0. \E r \in Rows :
            attempt' = [attempt EXCEPT ![a].step = "refused", ![a].row = r]
    <3>1. attempt[a].row \in Rows
      BY DEF EnrollmentTypeOK, Rows
    <3>2. \/ attempt' = [attempt EXCEPT ![a].step = "refused", ![a].row = "consumed"]
          \/ attempt' = [attempt EXCEPT ![a].step = "refused", ![a].row = attempt[a].row]
      BY <1>2 DEF CompleteEnrollment, EnrollmentTypeOK
    <3> QED BY <3>1, <3>2 DEF Rows
  <2>1. UNCHANGED <<pairing, device, metadata>> /\ attempt'[a].step = "refused"
    BY <1>2, <2>0 DEF CompleteEnrollment, EnrollmentTypeOK
  <2>2. \A b \in Attempts : b # a => attempt'[b] = attempt[b]
    BY <2>0 DEF EnrollmentTypeOK
  <2>3. attempt' \in [Attempts -> AttemptRecord]
    <3>1. attempt \in [Attempts -> AttemptRecord]
      BY EnrollmentTypes
    <3> QED BY <2>0, <3>1 DEF AttemptRecord, Steps
  <2>4. attempt[a].step = "unknown"
    BY DEF CompleteEnrollment
  <2> QED BY <2>1, <2>2, <2>3, <2>4, AttemptKeeps DEF Enrolled
<1>3. CASE wins
  <2>1. /\ pairing' = [pairing EXCEPT ![c] = "consumed"]
        /\ device' = [device EXCEPT ![k] = [status |-> "live", code |-> c]]
        /\ attempt' = [attempt EXCEPT ![a].step = "answered", ![a].row = "consumed"]
        /\ metadata' = metadata
    BY <1>3 DEF CompleteEnrollment
  <2>2. EnrollmentTypeOK'
    <3>1. attempt' \in [Attempts -> AttemptRecord]
      <4>1. attempt \in [Attempts -> AttemptRecord]
        BY EnrollmentTypes
      <4> QED BY <2>1, <4>1 DEF AttemptRecord, Rows, Steps
    <3>2. device' \in [Keys -> DeviceRow]
      BY <1>1, <2>1, EnrollmentTypes DEF DeviceRow
    <3>3. pairing' \in [Codes -> {"none", "refused", "counted", "active", "expired", "consumed"}]
      BY <2>1 DEF EnrollmentTypeOK
    <3> QED BY <2>1, <3>1, <3>2, <3>3 DEF EnrollmentTypeOK, AttemptRecord, DeviceRow, Rows, Steps
  <2>3. pairing[c] = "active" /\ device[k].code = NoCode
    BY <1>1, <1>3 DEF CodeIsFree, KeyIsFree, EnrollmentTypeOK
  <2>4. \A l \in Keys : device[l].code # c
    BY <1>1, <2>3, EnrollmentAssumption DEF DevicesArePaid
  <2>5. \A l \in Keys : device'[l].code = IF l = k THEN c ELSE device[l].code
    BY <1>1, <2>1 DEF EnrollmentTypeOK
  <2>6. \A d \in Codes : pairing'[d] = IF d = c THEN "consumed" ELSE pairing[d]
    BY <1>1, <2>1 DEF EnrollmentTypeOK
  <2>7. \A l \in Keys : device[l].code # NoCode => device[l].code \in Codes
    BY DEF EnrollmentTypeOK
  <2>8. DevicesArePaid'
    BY <1>1, <2>5, <2>6, <2>7 DEF DevicesArePaid
  <2>9. CodesAreNotShared'
    BY <1>1, <2>4, <2>5 DEF CodesAreNotShared
  <2>10. SpentCodesBought'
    <3> SUFFICES ASSUME NEW d \in Codes, pairing'[d] = "consumed"
                 PROVE  \E l \in Keys : device'[l].code = d
      BY DEF SpentCodesBought
    <3>1. CASE d = c
      BY <3>1, <1>1, <2>5
    <3>2. CASE d # c
      <4>1. PICK l \in Keys : device[l].code = d
        BY <3>2, <2>6 DEF SpentCodesBought
      <4>2. l # k
        BY <4>1, <2>3, EnrollmentAssumption
      <4> QED BY <4>1, <4>2, <2>5
    <3> QED BY <3>1, <3>2
  <2>11. \A b \in Attempts : /\ attempt'[b].key = attempt[b].key
                             /\ attempt'[b].code = attempt[b].code
                             /\ attempt'[b].step = IF b = a THEN "answered" ELSE attempt[b].step
    BY <2>1 DEF EnrollmentTypeOK
  <2>12. \A b \in Attempts : Enrolled(b) => attempt[b].key # k
    BY <2>3, EnrollmentAssumption DEF AttemptsPresentCodes, Enrolled
  <2>13. AttemptsPresentCodes'
    <3>1. ASSUME NEW b \in Attempts, Enrolled(b)'
          PROVE  device'[attempt'[b].key].code = attempt'[b].code
      <4>1. CASE b = a
        BY <4>1, <1>1, <2>5, <2>11
      <4>2. CASE b # a
        <5>1. Enrolled(b) /\ attempt[b].key \in Keys
          BY <3>1, <4>2, <2>11 DEF Enrolled, EnrollmentTypeOK
        <5> QED BY <5>1, <2>5, <2>11, <2>12 DEF AttemptsPresentCodes
      <4> QED BY <4>1, <4>2
    <3> QED BY <3>1, <2>11, <1>1 DEF AttemptsPresentCodes
  <2>14. KeyEnrolsOnce'
    BY <2>11, <2>12 DEF KeyEnrolsOnce, Enrolled
  <2>15. SavedIsEnrolled'
    <3> SUFFICES ASSUME NEW l \in Keys, metadata[l]
                 PROVE  \E b \in Attempts : /\ attempt'[b].step = "saved" /\ attempt'[b].key = l
                                            /\ device'[l].code = attempt'[b].code
      BY <2>1 DEF SavedIsEnrolled
    <3>1. PICK b \in Attempts : /\ attempt[b].step = "saved" /\ attempt[b].key = l
                                /\ device[l].code = attempt[b].code
      BY DEF SavedIsEnrolled
    <3>2. b # a /\ l # k
      BY <3>1, <2>12 DEF CompleteEnrollment, Enrolled
    <3> QED BY <3>1, <3>2, <2>5, <2>11
  <2> QED BY <2>2, <2>8, <2>9, <2>10, <2>13, <2>14, <2>15
<1> QED BY <1>2, <1>3

LEMMA SavingKeeps ==
    ASSUME EnrollmentInv, NEW a \in Attempts, SaveEnrollment(a)
    PROVE  EnrollmentInv'
<1> USE DEF EnrollmentInv
<1>1. \A b \in Attempts : /\ attempt'[b].key = attempt[b].key
                          /\ attempt'[b].code = attempt[b].code
                          /\ attempt'[b].step = IF b = a THEN "saved" ELSE attempt[b].step
  BY DEF SaveEnrollment, EnrollmentTypeOK
<1>2. attempt[a].step = "answered" /\ attempt[a].key \in Keys
  BY DEF SaveEnrollment, EnrollmentTypeOK
<1>3. EnrollmentTypeOK'
  <2>1. /\ pairing \in [Codes -> {"none", "refused", "counted", "active", "expired", "consumed"}]
        /\ attempt \in [Attempts -> AttemptRecord] /\ device \in [Keys -> DeviceRow] /\ metadata \in [Keys -> BOOLEAN]
    BY EnrollmentTypes
  <2>2. [attempt[a] EXCEPT !.step = "saved"] \in AttemptRecord
    BY <2>1, RecordTypes DEF Steps
  <2>3. attempt' \in [Attempts -> AttemptRecord] /\ metadata' \in [Keys -> BOOLEAN]
    BY <2>1, <2>2 DEF SaveEnrollment
  <2>4. UNCHANGED <<pairing, device>>
    BY DEF SaveEnrollment
  <2> QED BY <2>1, <2>3, <2>4 DEF EnrollmentTypeOK, AttemptRecord, DeviceRow, Rows, Steps
<1>4. DevicesArePaid' /\ CodesAreNotShared' /\ SpentCodesBought'
  BY DEF SaveEnrollment, DevicesArePaid, CodesAreNotShared, SpentCodesBought
<1>5. AttemptsPresentCodes' /\ KeyEnrolsOnce'
  BY <1>1, <1>2 DEF SaveEnrollment, AttemptsPresentCodes, KeyEnrolsOnce, Enrolled
<1>6. SavedIsEnrolled'
  <2> SUFFICES ASSUME NEW l \in Keys, metadata'[l]
               PROVE  \E b \in Attempts : /\ attempt'[b].step = "saved" /\ attempt'[b].key = l
                                          /\ device[l].code = attempt'[b].code
    BY DEF SavedIsEnrolled, SaveEnrollment
  <2>1. CASE l = attempt[a].key
    BY <2>1, <1>1, <1>2 DEF AttemptsPresentCodes, Enrolled
  <2>2. CASE l # attempt[a].key
    BY <2>2, <1>1 DEF SavedIsEnrolled, SaveEnrollment, EnrollmentTypeOK
  <2> QED BY <2>1, <2>2
<1> QED BY <1>3, <1>4, <1>5, <1>6

LEMMA LosingKeeps ==
    ASSUME EnrollmentInv, NEW a \in Attempts, LoseAnswer(a)
    PROVE  EnrollmentInv'
<1>1. attempt'[a] = [attempt[a] EXCEPT !.step = "lost"]
  BY DEF LoseAnswer, EnrollmentInv, EnrollmentTypeOK
<1>2. attempt' \in [Attempts -> AttemptRecord]
  BY EnrollmentTypes, RecordTypes DEF LoseAnswer, EnrollmentInv, Steps
<1>3. \A b \in Attempts : b # a => attempt'[b] = attempt[b]
  BY DEF LoseAnswer, EnrollmentInv, EnrollmentTypeOK
<1> QED BY <1>1, <1>2, <1>3, AttemptKeeps
       DEF LoseAnswer, Enrolled, EnrollmentInv, AttemptsPresentCodes, EnrollmentTypeOK

LEMMA PresentingKeeps ==
    ASSUME EnrollmentInv, NEW a \in Attempts,
           \/ \E k \in Keys, c \in Codes : BeginEnrollment(a, k, c)
           \/ ExpireEnrollment(a) \/ EnrollmentForCompletion(a) \/ DeviceForThumbprint(a)
    PROVE  EnrollmentInv'
<1> DEFINE Typed == attempt' \in [Attempts -> AttemptRecord]
           Alone == \A b \in Attempts : b # a => attempt'[b] = attempt[b]
<1> USE DEF EnrollmentInv
<1>1. ASSUME NEW k \in Keys, NEW c \in Codes, BeginEnrollment(a, k, c)
      PROVE  EnrollmentInv'
  <2>1. Typed /\ Alone /\ UNCHANGED <<pairing, device, metadata>> /\ attempt[a].step = "idle"
    BY <1>1 DEF BeginEnrollment, EnrollmentTypeOK, AttemptRecord, Rows, Steps
  <2>2. attempt'[a].step \in {"begun", "refused"} /\ attempt'[a].code \in Codes
    BY <1>1 DEF BeginEnrollment, EnrollmentTypeOK
  <2> QED BY <2>1, <2>2, AttemptKeeps DEF Enrolled
<1>2. CASE ExpireEnrollment(a)
  <2>1. Typed /\ Alone /\ UNCHANGED <<pairing, device, metadata>>
    BY <1>2 DEF ExpireEnrollment, EnrollmentTypeOK, AttemptRecord, Rows, Steps
  <2>2. /\ attempt'[a].step = attempt[a].step /\ attempt'[a].code = attempt[a].code
        /\ attempt'[a].key = attempt[a].key
    BY <1>2 DEF ExpireEnrollment, EnrollmentTypeOK
  <2> QED BY <2>1, <2>2, AttemptKeeps DEF Enrolled, AttemptsPresentCodes
<1>3. CASE EnrollmentForCompletion(a) \/ DeviceForThumbprint(a)
  <2>1. Typed /\ Alone /\ UNCHANGED <<pairing, device, metadata>>
    BY <1>3 DEF EnrollmentForCompletion, DeviceForThumbprint, EnrollmentTypeOK, AttemptRecord,
       Rows, Steps
  <2>2. /\ attempt[a].step \in {"begun", "verified"}
        /\ attempt'[a].step \in {"verified", "unknown", "refused"}
        /\ attempt'[a].code = attempt[a].code
    BY <1>3 DEF EnrollmentForCompletion, DeviceForThumbprint, EnrollmentTypeOK
  <2> QED BY <2>1, <2>2, AttemptKeeps DEF Enrolled, AttemptsPresentCodes
<1> QED BY <1>1, <1>2, <1>3

LEMMA MacKeeps ==
    ASSUME EnrollmentInv, NEW k \in Keys, DisconnectMac(k) \/ RevokeEnrolled(k)
    PROVE  EnrollmentInv'
<1> USE DEF EnrollmentInv
<1>1. UNCHANGED <<pairing, attempt>>
  BY DEF DisconnectMac, RevokeEnrolled
<1>2. \A l \in Keys : device'[l].code = device[l].code /\ (metadata'[l] => metadata[l])
  BY DEF DisconnectMac, RevokeEnrolled, EnrollmentTypeOK
<1>3. EnrollmentTypeOK'
  <2>1. device' \in [Keys -> DeviceRow] /\ metadata' \in [Keys -> BOOLEAN]
    <3>1. device \in [Keys -> DeviceRow] /\ metadata \in [Keys -> BOOLEAN]
      BY EnrollmentTypes
    <3>2. CASE DisconnectMac(k)
      BY <3>1, <3>2 DEF DisconnectMac
    <3>3. CASE RevokeEnrolled(k)
      <4>1. [device[k] EXCEPT !.status = "revoked"] \in DeviceRow
        BY <3>1, <3>3, RecordTypes DEF RevokeEnrolled
      <4> QED BY <3>1, <3>3, <4>1 DEF RevokeEnrolled
    <3> QED BY <3>2, <3>3
  <2> QED BY <1>1, <2>1 DEF EnrollmentTypeOK, DeviceRow
<1>4. DevicesArePaid' /\ CodesAreNotShared' /\ SpentCodesBought'
  BY <1>1, <1>2 DEF DevicesArePaid, CodesAreNotShared, SpentCodesBought
<1>5. AttemptsPresentCodes'
  BY <1>1, <1>2 DEF AttemptsPresentCodes, Enrolled, EnrollmentTypeOK
<1>6. KeyEnrolsOnce' /\ SavedIsEnrolled'
  BY <1>1, <1>2 DEF KeyEnrolsOnce, SavedIsEnrolled, Enrolled
<1> QED BY <1>3, <1>4, <1>5, <1>6

LEMMA EnrollmentStep == EnrollmentInv /\ [EnrollmentNext]_enrollmentVars => EnrollmentInv'
<1> SUFFICES ASSUME EnrollmentInv, [EnrollmentNext]_enrollmentVars
             PROVE  EnrollmentInv'
  OBVIOUS
<1>1. ASSUME NEW c \in Codes, CountActive(c) \/ InsertPairing(c) \/ ExpirePairing(c)
      PROVE  EnrollmentInv'
  <2>1. /\ pairing[c] # "consumed" /\ UNCHANGED <<attempt, device, metadata>>
        /\ \E to \in {"refused", "counted", "active", "expired"} :
              pairing' = [pairing EXCEPT ![c] = to]
    BY <1>1 DEF CountActive, InsertPairing, ExpirePairing
  <2> QED BY <2>1, PairingKeeps
<1>2. ASSUME NEW a \in Attempts, NEW k \in Keys, NEW c \in Codes, BeginEnrollment(a, k, c)
      PROVE  EnrollmentInv'
  BY <1>2, PresentingKeeps
<1>3. ASSUME NEW a \in Attempts,
             ExpireEnrollment(a) \/ EnrollmentForCompletion(a) \/ DeviceForThumbprint(a)
      PROVE  EnrollmentInv'
  BY <1>3, PresentingKeeps
<1>4. ASSUME NEW a \in Attempts, CompleteEnrollment(a) \/ LoseAnswer(a) \/ SaveEnrollment(a)
      PROVE  EnrollmentInv'
  BY <1>4, CompletionKeeps, LosingKeeps, SavingKeeps
<1>5. ASSUME NEW k \in Keys, DisconnectMac(k) \/ RevokeEnrolled(k)
      PROVE  EnrollmentInv'
  BY <1>5, MacKeeps
<1>6. CASE UNCHANGED enrollmentVars
  BY <1>6 DEF enrollmentVars, EnrollmentInv, EnrollmentTypeOK, DevicesArePaid, CodesAreNotShared,
     SpentCodesBought, AttemptsPresentCodes, KeyEnrolsOnce, SavedIsEnrolled, Enrolled
<1> QED BY <1>1, <1>2, <1>3, <1>4, <1>5, <1>6 DEF EnrollmentNext

\* A device that is revoked is not touched again: no completion may insert over it.
LEMMA RevokedStays ==
    EnrollmentInv /\ [EnrollmentNext]_enrollmentVars =>
        \A k \in Keys : device[k].status = "revoked" => device'[k] = device[k]
<1> SUFFICES ASSUME EnrollmentInv, [EnrollmentNext]_enrollmentVars,
                    NEW k \in Keys, device[k].status = "revoked", device' # device
             PROVE  device'[k] = device[k]
  OBVIOUS
<1>1. \/ \E a \in Attempts : CompleteEnrollment(a)
      \/ \E l \in Keys : RevokeEnrolled(l)
  BY DEF EnrollmentNext, enrollmentVars, CountActive, InsertPairing, ExpirePairing,
     BeginEnrollment, ExpireEnrollment, EnrollmentForCompletion, DeviceForThumbprint,
     LoseAnswer, SaveEnrollment, DisconnectMac
<1>2. ASSUME NEW a \in Attempts, CompleteEnrollment(a)
      PROVE  device'[k] = device[k]
  BY <1>2 DEF CompleteEnrollment, KeyIsFree, EnrollmentInv, EnrollmentTypeOK
<1>3. ASSUME NEW l \in Keys, RevokeEnrolled(l)
      PROVE  device'[k] = device[k]
  BY <1>3 DEF RevokeEnrolled, EnrollmentInv, EnrollmentTypeOK
<1> QED BY <1>1, <1>2, <1>3

\* Counted, the devices of a code are one or none.
LEMMA SpentOnOne == EnrollmentInv => CodeBuysOneDevice
<1> SUFFICES ASSUME EnrollmentInv, NEW c \in Codes
             PROVE  Cardinality({k \in Keys : device[k].code = c})
                       = IF pairing[c] = "consumed" THEN 1 ELSE 0
  BY DEF CodeBuysOneDevice
<1> DEFINE bought == {k \in Keys : device[k].code = c}
<1>1. CASE pairing[c] = "consumed"
  <2>1. PICK k \in Keys : device[k].code = c
    BY <1>1 DEF EnrollmentInv, SpentCodesBought
  <2>2. bought = {k}
    BY <2>1, EnrollmentAssumption DEF EnrollmentInv, CodesAreNotShared
  <2> QED BY <1>1, <2>2, FS_Singleton
<1>2. CASE pairing[c] # "consumed"
  <2>1. bought = {}
    BY <1>2, EnrollmentAssumption DEF EnrollmentInv, DevicesArePaid
  <2> QED BY <1>2, <2>1, FS_EmptySet
<1> QED BY <1>1, <1>2

-----------------------------------------------------------------------------
(* Theorems.                                                               *)

\* The rows, the attempts and the file always are of their types: a device carries a code
\* exactly when it exists.
THEOREM EnrollmentTypeCorrect == EnrollmentSpec => []EnrollmentTypeOK
<1>1. EnrollmentInv => EnrollmentTypeOK
  BY DEF EnrollmentInv
<1> QED BY <1>1, EnrollmentStarts, EnrollmentStep, PTL DEF EnrollmentSpec

\* A code, a key and a device belong together once and for good: a code buys one device,
\* a key is enrolled by one attempt, what the Mac has on file is in the cloud, and a
\* revoked device stays revoked, however the requests of any number of Macs interleave
\* (createPairingChallenge, completeEnrollment, revokeDevice).
THEOREM EnrollmentIsOnce == EnrollmentSpec => EnrolledOnce
<1> DEFINE Safe == CodeBuysOneDevice /\ KeyEnrolsOnce /\ SavedIsEnrolled
           Stays == \A k \in Keys : device[k].status = "revoked" => device'[k] = device[k]
<1>1. EnrollmentInv => Safe
  BY SpentOnOne DEF EnrollmentInv
<1>2. EnrollmentInv /\ [EnrollmentNext]_enrollmentVars => [Stays]_enrollmentVars
  BY RevokedStays
<1>3. [][Stays]_enrollmentVars => RevocationIsTerminal
  BY PTL DEF RevocationIsTerminal
<1>4. EnrollmentSpec => []EnrollmentInv
  BY EnrollmentStarts, EnrollmentStep, PTL DEF EnrollmentSpec
<1> HIDE DEF Safe, Stays
<1>5. EnrollmentSpec => []Safe /\ RevocationIsTerminal
  BY <1>1, <1>2, <1>3, <1>4, PTL DEF EnrollmentSpec
<1> QED BY <1>5 DEF Safe, EnrolledOnce

-----------------------------------------------------------------------------
(* DeviceSession.                                                          *)

Won == {"consumed", "token", "expired"}

\* The challenges that were exchanged for a token.
Exchanged == {ch \in Challenges : \E r \in Requests : /\ completion[r].challenge = ch
                                                      /\ completion[r].step \in {"token", "expired"}}

WonOnce ==
    /\ \A r \in Requests : completion[r].step \in Won => challenge[completion[r].challenge] = "consumed"
    /\ \A r, s \in Requests : /\ completion[r].step \in Won /\ completion[s].step \in Won
                              /\ completion[r].challenge = completion[s].challenge
                              => r = s

Counted == authentications = Cardinality(Exchanged)

SessionInv == SessionTypeOK /\ WonOnce /\ Counted

\* The two halves of the state, with their types.
Completion == [challenge: {NoChallenge}, step: {"idle"}]
                 \cup [challenge: Challenges,
                       step: {"verified", "consumed", "token", "expired", "refused"}]

HandlerSteps == {"none", "establishing", "idle", "received", "accepted",
                 "acknowledged", "synced", "served", "closed"}

Frame == [step: HandlerSteps, sequence: 0..MaxBeats, job: Versions, library: Versions]

AuthTypes ==
    /\ revoked \in BOOLEAN /\ revoking \in BOOLEAN
    /\ challenge \in [Challenges -> {"none", "read", "issued", "expired", "consumed"}]
    /\ completion \in [Requests -> Completion]

ConnTypes ==
    /\ presence \in [conn: 0..MaxConns, sequence: 0..MaxBeats, beaten: BOOLEAN]
    /\ conn \in [Conns -> Frame]
    /\ open \in [Conns -> BOOLEAN]
    /\ version \in Versions /\ projected \in Versions /\ snapshot \in Versions
    /\ drops \in 0..MaxDrops

LEMMA SessionTypes ==
    SessionTypeOK <=> AuthTypes /\ ConnTypes /\ authentications \in 0..Cardinality(Challenges)
BY DEF SessionTypeOK, AuthTypes, ConnTypes, Completion, HandlerSteps, Frame

-----------------------------------------------------------------------------
(* Counting.                                                               *)

LEMMA ExchangedIsFinite == IsFiniteSet(Exchanged) /\ Cardinality(Exchanged) \in 0..Cardinality(Challenges)
<1>1. Exchanged \subseteq Challenges
  BY DEF Exchanged
<1>2. /\ IsFiniteSet(Exchanged) /\ Cardinality(Exchanged) <= Cardinality(Challenges)
      /\ Cardinality(Exchanged) \in Nat /\ Cardinality(Challenges) \in Nat
  BY <1>1, SessionAssumption, FS_Subset, FS_CardinalityType
<1> QED BY <1>2

LEMMA LatestIsNatural == Latest \in Nat
<1> DEFINE made == {n \in Conns : conn[n].step # "none"}
<1>1. IsFiniteSet(Conns)
  BY SessionAssumption, FS_Interval DEF Conns
<1>2. IsFiniteSet(made)
  BY <1>1, FS_Subset
<1> QED BY <1>2, FS_CardinalityType DEF Latest

\* What holds of the exchange and of the count holds of the bound on the count.
LEMMA CountIsBounded == AuthTypes /\ ConnTypes /\ WonOnce /\ Counted => SessionInv
BY ExchangedIsFinite, SessionTypes DEF SessionInv, Counted

LEMMA CountStaysBounded == (AuthTypes /\ ConnTypes /\ WonOnce /\ Counted)' => SessionInv'
BY CountIsBounded, PTL

-----------------------------------------------------------------------------
(* Steps.                                                                  *)

LEMMA SessionStarts == SessionInit => SessionInv
<1> SUFFICES ASSUME SessionInit PROVE SessionInv
  OBVIOUS
<1>1. AuthTypes /\ WonOnce /\ Exchanged = {}
  BY DEF SessionInit, AuthTypes, Completion, WonOnce, Won, Exchanged
<1>2. ConnTypes
  BY SessionAssumption DEF SessionInit, ConnTypes, Frame, HandlerSteps, Versions, NoPresence
<1>3. Counted
  BY <1>1, FS_EmptySet DEF SessionInit, Counted
<1> QED BY <1>1, <1>2, <1>3, CountIsBounded

\* A step of a handler or of the Mac leaves the challenges and requests alone.
LEMMA ConnKeeps ==
    ASSUME SessionInv, ConnTypes', revoked' = revoked, revoking' = revoking,
           UNCHANGED authVars
    PROVE  SessionInv'
<1>1. AuthTypes' /\ WonOnce' /\ Exchanged' = Exchanged
  BY SessionTypes DEF SessionInv, AuthTypes, WonOnce, Exchanged, authVars
<1>2. SessionTypeOK'
  BY <1>1, SessionTypes DEF SessionInv, SessionTypeOK, AuthTypes, ConnTypes, authVars,
     Completion, Frame, HandlerSteps
<1> QED BY <1>1, <1>2 DEF SessionInv, Counted, authVars

\* A step of a challenge that keeps the consumed ones disturbs no request.
LEMMA ChallengeKeeps ==
    ASSUME SessionInv, UNCHANGED <<completion, authentications>>, UNCHANGED connVars,
           AuthTypes',
           \A ch \in Challenges : challenge[ch] = "consumed" => challenge'[ch] = "consumed"
    PROVE  SessionInv'
<1>1. Exchanged' = Exchanged
  BY DEF Exchanged
<1>2. WonOnce'
  BY SessionTypes DEF SessionInv, WonOnce, Won, AuthTypes, Completion
<1>3. SessionTypeOK'
  BY SessionTypes DEF SessionInv, SessionTypeOK, AuthTypes, ConnTypes, connVars,
     Completion, Frame, HandlerSteps
<1> QED BY <1>1, <1>2, <1>3 DEF SessionInv, Counted

\* A request that neither wins its challenge nor gets a token disturbs no other.
LEMMA RequestKeeps ==
    ASSUME SessionInv, NEW r \in Requests, UNCHANGED <<revoked, revoking, challenge>>,
           UNCHANGED authentications, UNCHANGED connVars,
           completion' \in [Requests -> Completion],
           \A s \in Requests : s # r => completion'[s] = completion[s],
           completion'[r].step \in Won =>
               /\ completion[r].step \in Won
               /\ completion'[r].challenge = completion[r].challenge,
           completion'[r].step \in {"token", "expired"} <=> completion[r].step \in {"token", "expired"}
    PROVE  SessionInv'
<1>1. WonOnce'
  BY DEF SessionInv, WonOnce
<1>2. \A s \in Requests :
        completion'[s].step \in {"token", "expired"} =>
            completion'[s].challenge = completion[s].challenge
  BY DEF Won
<1>3. Exchanged' = Exchanged
  BY <1>2 DEF Exchanged
<1>4. SessionTypeOK'
  BY SessionTypes DEF SessionInv, SessionTypeOK, AuthTypes, ConnTypes, connVars,
     Completion, Frame, HandlerSteps
<1> QED BY <1>1, <1>3, <1>4 DEF SessionInv, Counted

\* The statement that consumes a challenge gives it to one request: no other has it.
LEMMA ConsumeKeeps ==
    ASSUME SessionInv, NEW r \in Requests, ConsumeSessionChallenge(r)
    PROVE  SessionInv'
<1> DEFINE ch == completion[r].challenge
<1>1. completion \in [Requests -> Completion] /\ ch \in Challenges
  BY SessionTypes DEF SessionInv, AuthTypes, Completion, ConsumeSessionChallenge
<1>2. CASE ~IsUnspent(ch)
  <2>1. completion' = [completion EXCEPT ![r].step = "refused"] /\ challenge' = challenge
    BY <1>2 DEF ConsumeSessionChallenge
  <2>2. completion' \in [Requests -> Completion]
    BY <1>1, <2>1 DEF Completion
  <2>3. completion'[r].step = "refused" /\ completion[r].step = "verified"
    BY <1>1, <2>1 DEF Completion, ConsumeSessionChallenge
  <2> QED BY <1>1, <2>1, <2>2, <2>3, RequestKeeps DEF ConsumeSessionChallenge, Won
<1>3. CASE IsUnspent(ch)
  <2>1. /\ completion' = [completion EXCEPT ![r].step = "consumed"]
        /\ challenge' = [challenge EXCEPT ![ch] = "consumed"]
        /\ UNCHANGED <<revoked, revoking, authentications>> /\ UNCHANGED connVars
    BY <1>3 DEF ConsumeSessionChallenge
  <2>2. completion' \in [Requests -> Completion]
    BY <1>1, <2>1 DEF Completion
  <2>3. AuthTypes' /\ ConnTypes'
    BY <2>1, <2>2, SessionTypes DEF SessionInv, AuthTypes, ConnTypes, connVars, Frame, HandlerSteps
  <2>4. \A s \in Requests : /\ completion'[s].challenge = completion[s].challenge
                            /\ completion'[s].step = IF s = r THEN "consumed" ELSE completion[s].step
    BY <1>1, <2>1 DEF Completion
  <2>5. \A c \in Challenges : challenge'[c] = IF c = ch THEN "consumed" ELSE challenge[c]
    BY <1>1, <2>1, SessionTypes DEF SessionInv, AuthTypes
  <2>6. \A s \in Requests : completion[s].step \in Won => /\ completion[s].challenge # ch
                                                          /\ completion[s].challenge \in Challenges
    BY <1>1, <1>3 DEF SessionInv, WonOnce, IsUnspent, Won, Completion
  <2>7. WonOnce'
    BY <1>1, <2>4, <2>5, <2>6 DEF SessionInv, WonOnce
  <2>8. completion[r].step = "verified"
    BY DEF ConsumeSessionChallenge
  <2>9. Exchanged' = Exchanged
    BY <2>4, <2>8 DEF Exchanged
  <2> QED BY <2>1, <2>3, <2>7, <2>9, CountStaysBounded DEF SessionInv, Counted
<1> QED BY <1>2, <1>3

\* The token of a request is the first and only one of its challenge.
LEMMA RecordKeeps ==
    ASSUME SessionInv, NEW r \in Requests, RecordAuthentication(r)
    PROVE  SessionInv'
<1> DEFINE ch == completion[r].challenge
<1>1. completion \in [Requests -> Completion] /\ ch \in Challenges /\ completion[r].step = "consumed"
  BY SessionTypes DEF SessionInv, AuthTypes, Completion, RecordAuthentication
<1>2. CASE ~MayAuthenticate
  <2>1. completion' = [completion EXCEPT ![r].step = "refused"] /\ authentications' = authentications
    BY <1>2 DEF RecordAuthentication
  <2>2. completion' \in [Requests -> Completion] /\ completion'[r].step = "refused"
    BY <1>1, <2>1 DEF Completion
  <2> QED BY <1>1, <2>1, <2>2, RequestKeeps DEF RecordAuthentication, Won
<1>3. CASE MayAuthenticate
  <2>1. /\ completion' = [completion EXCEPT ![r].step = "token"]
        /\ authentications' = authentications + 1
        /\ UNCHANGED <<revoked, revoking, challenge>> /\ UNCHANGED connVars
    BY <1>3 DEF RecordAuthentication
  <2>2. completion' \in [Requests -> Completion]
    BY <1>1, <2>1 DEF Completion
  <2>3. AuthTypes' /\ ConnTypes'
    BY <2>1, <2>2, SessionTypes DEF SessionInv, AuthTypes, ConnTypes, connVars, Frame, HandlerSteps
  <2>4. \A s \in Requests : /\ completion'[s].challenge = completion[s].challenge
                            /\ completion'[s].step = IF s = r THEN "token" ELSE completion[s].step
    BY <1>1, <2>1 DEF Completion
  <2>5. WonOnce'
    BY <1>1, <2>1, <2>4 DEF SessionInv, WonOnce, Won
  <2>6. ch \notin Exchanged
    BY <1>1 DEF Exchanged, SessionInv, WonOnce, Won
  <2>7. Exchanged' = Exchanged \cup {ch}
    BY <1>1, <2>4 DEF Exchanged
  <2>8. Cardinality(Exchanged \cup {ch}) = Cardinality(Exchanged) + 1
    BY <2>6, ExchangedIsFinite, FS_AddElement
  <2>9. Counted'
    BY <2>1, <2>7, <2>8 DEF SessionInv, Counted
  <2> QED BY <2>3, <2>5, <2>9, CountStaysBounded
<1> QED BY <1>2, <1>3

LEMMA RequestsKeep ==
    ASSUME SessionInv, NEW r \in Requests,
           \/ \E ch \in Challenges : SessionForCompletion(r, ch)
           \/ ConsumeSessionChallenge(r) \/ RecordAuthentication(r) \/ ExpireToken(r)
    PROVE  SessionInv'
<1>1. completion \in [Requests -> Completion]
  BY SessionTypes DEF SessionInv, AuthTypes
<1>2. ASSUME NEW ch \in Challenges, SessionForCompletion(r, ch)
      PROVE  SessionInv'
  <2>1. completion' \in [Requests -> Completion]
    BY <1>1, <1>2 DEF SessionForCompletion, Completion
  <2>2. completion'[r].step \in {"verified", "refused"} /\ completion[r].step = "idle"
    BY <1>1, <1>2 DEF SessionForCompletion
  <2>3. /\ UNCHANGED <<revoked, revoking, challenge>> /\ UNCHANGED authentications
        /\ UNCHANGED connVars /\ \A s \in Requests : s # r => completion'[s] = completion[s]
    BY <1>1, <1>2 DEF SessionForCompletion
  <2> QED BY <2>1, <2>2, <2>3, RequestKeeps DEF Won
<1>3. CASE ExpireToken(r)
  <2>1. completion' \in [Requests -> Completion]
    BY <1>1, <1>3 DEF ExpireToken, Completion
  <2>2. /\ completion'[r].step = "expired" /\ completion[r].step = "token"
        /\ completion'[r].challenge = completion[r].challenge
    BY <1>1, <1>3 DEF ExpireToken, Completion
  <2>3. /\ UNCHANGED <<revoked, revoking, challenge>> /\ UNCHANGED authentications
        /\ UNCHANGED connVars /\ \A s \in Requests : s # r => completion'[s] = completion[s]
    BY <1>1, <1>3 DEF ExpireToken
  <2> QED BY <2>1, <2>2, <2>3, RequestKeeps DEF Won
<1> QED BY <1>2, <1>3, ConsumeKeeps, RecordKeeps

LEMMA ChallengesKeep ==
    ASSUME SessionInv,
           \/ \E ch \in Challenges : ReadDevice(ch) \/ InsertChallenge(ch) \/ ExpireChallenge(ch)
           \/ RevokeDevice \/ InvalidateChallenges
    PROVE  SessionInv'
<1>1. AuthTypes
  BY SessionTypes DEF SessionInv
<1>2. ASSUME NEW ch \in Challenges, ReadDevice(ch) \/ InsertChallenge(ch) \/ ExpireChallenge(ch)
      PROVE  SessionInv'
  <2>1. /\ UNCHANGED <<completion, authentications>> /\ UNCHANGED connVars /\ AuthTypes'
        /\ \A c \in Challenges : challenge[c] = "consumed" => challenge'[c] = "consumed"
    BY <1>1, <1>2 DEF ReadDevice, InsertChallenge, ExpireChallenge, AuthTypes
  <2> QED BY <2>1, ChallengeKeeps
<1>3. CASE RevokeDevice \/ InvalidateChallenges
  <2>1. /\ UNCHANGED <<completion, authentications>> /\ UNCHANGED connVars /\ AuthTypes'
        /\ \A c \in Challenges : challenge[c] = "consumed" => challenge'[c] = "consumed"
    BY <1>1, <1>3 DEF RevokeDevice, InvalidateChallenges, AuthTypes, authVars
  <2> QED BY <2>1, ChallengeKeeps
<1> QED BY <1>2, <1>3

\* What a field update makes of a frame.
LEMMA FrameTypes ==
    ASSUME NEW f \in Frame
    PROVE  /\ \A to \in HandlerSteps : [f EXCEPT !.step = to] \in Frame
           /\ f.sequence \in 0..MaxBeats /\ f.job \in Versions /\ f.library \in Versions
BY DEF Frame

LEMMA HandlersKeep ==
    ASSUME SessionInv,
           \/ OpenRealtime \/ JobAdvances
           \/ \E n \in Conns : Handle(n) \/ SendHeartbeat(n) \/ DropConnection(n)
    PROVE  SessionInv'
<1>1. ConnTypes
  BY SessionTypes DEF SessionInv
<1> SUFFICES ConnTypes' /\ revoked' = revoked /\ revoking' = revoking /\ UNCHANGED authVars
  BY ConnKeeps
<1>2. \A n \in Conns : /\ conn[n] \in Frame /\ conn[n].sequence \in 0..MaxBeats
                       /\ conn[n].job \in Versions /\ conn[n].library \in Versions
  BY <1>1, FrameTypes DEF ConnTypes
<1>3. \A n \in Conns, to \in HandlerSteps : [conn EXCEPT ![n].step = to] \in [Conns -> Frame]
  BY <1>1, FrameTypes DEF ConnTypes
<1>4. ASSUME NEW n \in Conns
      PROVE  Established(n) \in [conn: 0..MaxConns, sequence: 0..MaxBeats, beaten: BOOLEAN]
  <2>1. n \in 0..MaxConns /\ 0 \in 0..MaxConns /\ 0 \in 0..MaxBeats
    BY SessionAssumption DEF Conns
  <2>2. NoPresence \in [conn: 0..MaxConns, sequence: 0..MaxBeats, beaten: BOOLEAN]
    BY <2>1 DEF NoPresence
  <2> QED BY <2>1, <2>2 DEF Established
<1>5. CASE OpenRealtime
  <2>1. Latest + 1 \in Conns
    BY <1>5, LatestIsNatural, SessionAssumption DEF OpenRealtime, Conns
  <2>2. "establishing" \in HandlerSteps
    BY DEF HandlerSteps
  <2>3. conn' \in [Conns -> Frame] /\ open' \in [Conns -> BOOLEAN]
    BY <1>1, <1>3, <1>5, <2>1, <2>2 DEF OpenRealtime, ConnTypes
  <2> QED BY <1>1, <1>5, <2>3 DEF OpenRealtime, ConnTypes
<1>6. CASE JobAdvances
  BY <1>1, <1>6, SessionAssumption DEF JobAdvances, ConnTypes, Versions
<1>7. ASSUME NEW n \in Conns, EstablishPresence(n)
      PROVE  ConnTypes' /\ revoked' = revoked /\ revoking' = revoking /\ UNCHANGED authVars
  <2>1. presence' \in [conn: 0..MaxConns, sequence: 0..MaxBeats, beaten: BOOLEAN]
    BY <1>1, <1>4, <1>7 DEF EstablishPresence, ConnTypes
  <2>2. \E to \in HandlerSteps : conn' = [conn EXCEPT ![n].step = to]
    BY <1>7 DEF EstablishPresence, HandlerSteps
  <2>3. conn' \in [Conns -> Frame]
    BY <2>2, <1>3
  <2> QED BY <1>1, <1>7, <2>1, <2>3 DEF EstablishPresence, ConnTypes
<1>8. ASSUME NEW n \in Conns, AcceptHeartbeat(n)
      PROVE  ConnTypes' /\ revoked' = revoked /\ revoking' = revoking /\ UNCHANGED authVars
  <2>1. presence' \in [conn: 0..MaxConns, sequence: 0..MaxBeats, beaten: BOOLEAN]
    BY <1>1, <1>2, <1>8 DEF AcceptHeartbeat, ConnTypes
  <2>2. \E to \in HandlerSteps : conn' = [conn EXCEPT ![n].step = to]
    BY <1>8 DEF AcceptHeartbeat, HandlerSteps
  <2>3. conn' \in [Conns -> Frame]
    BY <2>2, <1>3
  <2> QED BY <1>1, <1>8, <2>1, <2>3 DEF AcceptHeartbeat, ConnTypes
<1>9. ASSUME NEW n \in Conns, AcknowledgeCommands(n) \/ SyncJobStatus(n) \/ AnswerHeartbeat(n)
      PROVE  ConnTypes' /\ revoked' = revoked /\ revoking' = revoking /\ UNCHANGED authVars
  <2>1. conn' \in [Conns -> Frame]
    <3>1. \E to \in HandlerSteps : conn' = [conn EXCEPT ![n].step = to]
      BY <1>9 DEF AcknowledgeCommands, SyncJobStatus, AnswerHeartbeat, HandlerSteps
    <3> QED BY <3>1, <1>3
  <2>2. snapshot' \in Versions /\ projected' \in Versions
    BY <1>1, <1>2, <1>9 DEF AcknowledgeCommands, SyncJobStatus, AnswerHeartbeat, ConnTypes
  <2> QED BY <1>1, <1>9, <2>1, <2>2
          DEF AcknowledgeCommands, SyncJobStatus, AnswerHeartbeat, ConnTypes
<1>10. ASSUME NEW n \in Conns, SendHeartbeat(n)
       PROVE  ConnTypes' /\ revoked' = revoked /\ revoking' = revoking /\ UNCHANGED authVars
  <2> DEFINE next == IF conn[n].sequence < MaxBeats THEN conn[n].sequence + 1 ELSE MaxBeats
  <2>1. next \in 0..MaxBeats
    BY <1>2, SessionAssumption
  <2>2. conn' = [conn EXCEPT ![n] = [step |-> "received", job |-> version, library |-> version,
                                     sequence |-> next]]
    BY <1>10, <1>1 DEF SendHeartbeat, ConnTypes
  <2>3. conn' \in [Conns -> Frame]
    BY <1>1, <2>1, <2>2 DEF ConnTypes, Frame, HandlerSteps
  <2> QED BY <1>1, <1>10, <2>3 DEF SendHeartbeat, ConnTypes
<1>11. ASSUME NEW n \in Conns, DropConnection(n)
       PROVE  ConnTypes' /\ revoked' = revoked /\ revoking' = revoking /\ UNCHANGED authVars
  BY <1>1, <1>11, SessionAssumption DEF DropConnection, ConnTypes
<1> QED BY <1>5, <1>6, <1>7, <1>8, <1>9, <1>10, <1>11 DEF Handle

LEMMA SessionStep == SessionInv /\ [SessionNext]_sessionVars => SessionInv'
<1> SUFFICES ASSUME SessionInv, [SessionNext]_sessionVars
             PROVE  SessionInv'
  OBVIOUS
<1>1. CASE UNCHANGED sessionVars
  <2>1. ConnTypes' /\ revoked' = revoked /\ revoking' = revoking /\ UNCHANGED authVars
    BY <1>1, SessionTypes DEF SessionInv, sessionVars, authVars, ConnTypes
  <2> QED BY <2>1, ConnKeeps
<1> QED BY <1>1, RequestsKeep, ChallengesKeep, HandlersKeep DEF SessionNext

\* Two requests that hold a token of the same challenge are one.
LEMMA OneHolder == SessionInv => OneTokenPerChallenge
<1> SUFFICES ASSUME SessionInv, NEW ch \in Challenges
             PROVE  Cardinality(Holders(ch)) <= 1
  BY DEF OneTokenPerChallenge
<1>1. CASE Holders(ch) = {}
  BY <1>1, FS_EmptySet
<1>2. CASE Holders(ch) # {}
  <2>1. PICK r \in Requests : r \in Holders(ch)
    BY <1>2 DEF Holders
  <2>2. Holders(ch) = {r}
    BY <2>1 DEF Holders, SessionInv, WonOnce, Won
  <2>3. Cardinality({r}) = 1
    BY FS_Singleton
  <2> QED BY <2>2, <2>3
<1> QED BY <1>1, <1>2

\* Every statement that authenticates the device or touches its presence asks for it not
\* to be revoked, and nothing makes it so again.
LEMMA RevokedIsLeftAlone ==
    [SessionNext]_sessionVars => (revoked => UNCHANGED <<authentications, presence>>)
BY DEF SessionNext, sessionVars, authVars, connVars, ReadDevice, InsertChallenge, ExpireChallenge,
   SessionForCompletion, ConsumeSessionChallenge, RecordAuthentication, MayAuthenticate, ExpireToken,
   RevokeDevice, InvalidateChallenges, OpenRealtime, Handle, EstablishPresence, AcceptHeartbeat,
   AcknowledgeCommands, SyncJobStatus, AnswerHeartbeat, SendHeartbeat, DropConnection, JobAdvances

LEMMA SnapshotGrows == SessionInv /\ [SessionNext]_sessionVars => snapshot' >= snapshot
<1> SUFFICES ASSUME SessionInv, [SessionNext]_sessionVars
             PROVE  snapshot' >= snapshot
  OBVIOUS
<1>1. snapshot \in Nat /\ \A n \in Conns : conn[n].library \in Nat
  BY SessionTypes, SessionAssumption DEF SessionInv, ConnTypes, Frame, Versions
<1>2. \/ UNCHANGED snapshot
      \/ \E n \in Conns : AcknowledgeCommands(n)
  BY DEF SessionNext, sessionVars, connVars, ReadDevice, InsertChallenge, ExpireChallenge,
     SessionForCompletion, ConsumeSessionChallenge, RecordAuthentication, ExpireToken,
     RevokeDevice, InvalidateChallenges, OpenRealtime, Handle, EstablishPresence, AcceptHeartbeat,
     SyncJobStatus, AnswerHeartbeat, SendHeartbeat, DropConnection, JobAdvances
<1> QED BY <1>1, <1>2 DEF AcknowledgeCommands, IsNewer

-----------------------------------------------------------------------------
(* Theorems.                                                               *)

\* The rows, requests and connections are of their types, and last_authenticated_at is
\* written at most once for each challenge.
THEOREM SessionTypeCorrect == SessionSpec => []SessionTypeOK
<1>1. SessionInv => SessionTypeOK
  BY DEF SessionInv
<1> QED BY <1>1, SessionStarts, SessionStep, PTL DEF SessionSpec

\* A request that was overtaken changes nothing any more: a challenge is exchanged for one
\* token however many completions of it are under way (consumeSessionChallenge), a
\* revoked device is not authenticated and its presence not touched (establishPresence,
\* acceptHeartbeat), and the library snapshot never goes back to an older revision,
\* whichever handler acknowledges last (acknowledgeCommands).
THEOREM LateRequestsAreHarmless == SessionSpec => LateRequestsChangeNothing
<1> DEFINE Stopped == revoked => UNCHANGED <<authentications, presence>>
           Grows == snapshot' >= snapshot
<1>1. SessionSpec => []SessionInv
  BY SessionStarts, SessionStep, PTL DEF SessionSpec
<1>2. [SessionNext]_sessionVars => [Stopped]_sessionVars
  BY RevokedIsLeftAlone
<1>3. SessionInv /\ [SessionNext]_sessionVars => [Grows]_sessionVars
  BY SnapshotGrows
<1>4. [][Stopped]_sessionVars => RevocationStopsTheDevice
  BY PTL DEF RevocationStopsTheDevice
<1>5. [][Grows]_sessionVars => SnapshotNeverGoesBack
  BY PTL DEF SnapshotNeverGoesBack
<1> HIDE DEF Stopped, Grows
<1> QED BY <1>1, <1>2, <1>3, <1>4, <1>5, OneHolder, PTL DEF SessionSpec, LateRequestsChangeNothing

=============================================================================
