-------------------------- MODULE DeviceEnrollment --------------------------
(***************************************************************************)
(* How a Mac becomes a device of an account: the signed-in user asks for a *)
(* pairing code, `lustre cloud pair' presents it with the public key of    *)
(* the Mac, signs the enrollment challenge and saves the answer.  Every    *)
(* request is served by its own function instance, so the reads and the    *)
(* statements of two requests interleave; a statement is atomic.           *)
(*                                                                         *)
(* A device row is never deleted and its key thumbprint is unique (a       *)
(* unique index), so a device is named here by its key.                    *)
(***************************************************************************)
EXTENDS Naturals, FiniteSets

CONSTANTS
    Keys,       \* the Keychain keys, one per Mac
    Codes,      \* the POST /pairing-challenges requests, and the codes they give
    Attempts,   \* the runs of `lustre cloud pair'
    MaxActive   \* codes of an account that may be active at once (3 in the code)

NoCode == "none"

\* There is a Mac, and a code is never the mark for a missing one.
ASSUME EnrollmentAssumption == Keys # {} /\ NoCode \notin Codes

VARIABLES
    pairing,    \* the row of a code, and how far its request has come
    attempt,    \* a run of the command: its key, code, enrollment row and step
    device,     \* the device row of a key, with the code that paid for it
    metadata    \* cloud-enrollment.json: does the Mac of this key know it is paired

enrollmentVars == <<pairing, attempt, device, metadata>>

Active == {c \in Codes : pairing[c] = "active"}

Unused == [key |-> CHOOSE k \in Keys : TRUE, code |-> NoCode, row |-> "none", step |-> "idle"]

\* An attempt whose device the cloud has created.
Enrolled(a) == attempt[a].step \in {"answered", "lost", "saved"}

EnrollmentInit ==
    /\ pairing = [c \in Codes |-> "none"]
    /\ attempt = [a \in Attempts |-> Unused]
    /\ device = [k \in Keys |-> [status |-> "none", code |-> NoCode]]
    /\ metadata = [k \in Keys |-> FALSE]

-----------------------------------------------------------------------------
(* The codes.                                                              *)

\* createPairingChallenge counts the active codes ...
CountActive(c) ==
    /\ pairing[c] = "none"
    /\ pairing' = [pairing EXCEPT ![c] =
                      IF Cardinality(Active) >= MaxActive THEN "refused" ELSE "counted"]
    /\ UNCHANGED <<attempt, device, metadata>>

\* ... and inserts by another statement.
InsertPairing(c) ==
    /\ pairing[c] = "counted"
    /\ pairing' = [pairing EXCEPT ![c] = "active"]
    /\ UNCHANGED <<attempt, device, metadata>>

ExpirePairing(c) ==
    /\ pairing[c] = "active"
    /\ pairing' = [pairing EXCEPT ![c] = "expired"]
    /\ UNCHANGED <<attempt, device, metadata>>

-----------------------------------------------------------------------------
(* `lustre cloud pair'.                                                    *)

\* POST device-enrollments/challenge: only an active code opens an enrollment.
BeginEnrollment(a, k, c) ==
    /\ attempt[a].step = "idle"
    /\ pairing[c] \in {"active", "consumed", "expired"}
    /\ attempt' = [attempt EXCEPT ![a] =
                      IF pairing[c] = "active"
                      THEN [key |-> k, code |-> c, row |-> "issued", step |-> "begun"]
                      ELSE [key |-> k, code |-> c, row |-> "none", step |-> "refused"]]
    /\ UNCHANGED <<pairing, device, metadata>>

ExpireEnrollment(a) ==
    /\ attempt[a].row = "issued"
    /\ attempt' = [attempt EXCEPT ![a].row = "expired"]
    /\ UNCHANGED <<pairing, device, metadata>>

\* POST device-enrollments/complete reads the enrollment and verifies the signature ...
EnrollmentForCompletion(a) ==
    /\ attempt[a].step = "begun"
    /\ attempt' = [attempt EXCEPT ![a].step =
                      IF attempt[a].row = "issued" THEN "verified" ELSE "refused"]
    /\ UNCHANGED <<pairing, device, metadata>>

\* ... looks the thumbprint up (already_enrolled, device_revoked) ...
DeviceForThumbprint(a) ==
    /\ attempt[a].step = "verified"
    /\ attempt' = [attempt EXCEPT ![a].step =
                      IF device[attempt[a].key].status = "none" THEN "unknown" ELSE "refused"]
    /\ UNCHANGED <<pairing, device, metadata>>

\* Mutant: the code is consumed without `consumed_at IS NULL AND expires_at > now()'.
CodeIsFreeAlways(c) == c \in Codes

\* Mutant: the thumbprint is not unique; the device is inserted over the old one.
KeyIsFreeAlways(k) == k \in Keys

\* The condition under which the statement consumes a code, and the unique index.
CodeIsFree(c) == pairing[c] = "active"
KeyIsFree(k) == device[k].status = "none"

\* ... and runs completeEnrollment, one statement: it consumes the enrollment, then the
\* code, then inserts the device.  A code that is no longer active leaves the
\* enrollment consumed and no device; a thumbprint that is taken violates the unique
\* index, which undoes the whole statement.
CompleteEnrollment(a) ==
    LET k == attempt[a].key
        c == attempt[a].code
        open == attempt[a].row = "issued"
        wins == open /\ CodeIsFree(c) /\ KeyIsFree(k)
        undone == open /\ CodeIsFree(c) /\ ~KeyIsFree(k)
    IN
    /\ attempt[a].step = "unknown"
    /\ attempt' = [attempt EXCEPT ![a].step = IF wins THEN "answered" ELSE "refused",
                                  ![a].row = IF open /\ ~undone THEN "consumed" ELSE @]
    /\ pairing' = IF wins THEN [pairing EXCEPT ![c] = "consumed"] ELSE pairing
    /\ device' = IF wins THEN [device EXCEPT ![k] = [status |-> "live", code |-> c]] ELSE device
    /\ UNCHANGED metadata

\* The answer is lost, or the command is killed before it has saved it.
LoseAnswer(a) ==
    /\ attempt[a].step = "answered"
    /\ attempt' = [attempt EXCEPT ![a].step = "lost"]
    /\ UNCHANGED <<pairing, device, metadata>>

SaveEnrollment(a) ==
    /\ attempt[a].step = "answered"
    /\ attempt' = [attempt EXCEPT ![a].step = "saved"]
    /\ metadata' = [metadata EXCEPT ![attempt[a].key] = TRUE]
    /\ UNCHANGED <<pairing, device>>

\* `lustre cloud disconnect' removes the file and tells nobody.
DisconnectMac(k) ==
    /\ metadata[k]
    /\ metadata' = [metadata EXCEPT ![k] = FALSE]
    /\ UNCHANGED <<pairing, attempt, device>>

\* Mutant: revokes whatever it is given.
RevokeAny(k) ==
    /\ device' = [device EXCEPT ![k].status = "revoked"]
    /\ UNCHANGED <<pairing, attempt, metadata>>

RevokeEnrolled(k) ==
    /\ device[k].status = "live"
    /\ device' = [device EXCEPT ![k].status = "revoked"]
    /\ UNCHANGED <<pairing, attempt, metadata>>

EnrollmentNext ==
    \/ \E c \in Codes : CountActive(c) \/ InsertPairing(c) \/ ExpirePairing(c)
    \/ \E a \in Attempts, k \in Keys, c \in Codes : BeginEnrollment(a, k, c)
    \/ \E a \in Attempts :
          \/ ExpireEnrollment(a) \/ EnrollmentForCompletion(a) \/ DeviceForThumbprint(a)
          \/ CompleteEnrollment(a) \/ LoseAnswer(a) \/ SaveEnrollment(a)
    \/ \E k \in Keys : DisconnectMac(k) \/ RevokeEnrolled(k)

EnrollmentSpec == EnrollmentInit /\ [][EnrollmentNext]_enrollmentVars

-----------------------------------------------------------------------------
(* Properties.                                                             *)

EnrollmentTypeOK ==
    /\ pairing \in [Codes -> {"none", "refused", "counted", "active", "expired", "consumed"}]
    /\ attempt \in [Attempts -> [key: Keys, code: Codes \cup {NoCode},
                                 row: {"none", "issued", "expired", "consumed"},
                                 step: {"idle", "begun", "verified", "unknown", "answered",
                                        "lost", "saved", "refused"}]]
    /\ device \in [Keys -> [status: {"none"}, code: {NoCode}]
                            \cup [status: {"live", "revoked"}, code: Codes]]
    /\ metadata \in [Keys -> BOOLEAN]

\* However many Macs present a code at once, it is spent on exactly one device, and
\* a code that is spent bought one: completeEnrollment consumes and inserts together.
CodeBuysOneDevice ==
    \A c \in Codes :
        Cardinality({k \in Keys : device[k].code = c}) = IF pairing[c] = "consumed" THEN 1 ELSE 0

\* A key is enrolled by one attempt only, although the look-up of the thumbprint and
\* the insertion are apart.  So a Mac whose answer was lost is never paired again.
KeyEnrolsOnce ==
    \A a, b \in Attempts : Enrolled(a) /\ Enrolled(b) /\ attempt[a].key = attempt[b].key => a = b

\* What the Mac has on file is on file in the cloud, with a code this Mac presented.
SavedIsEnrolled ==
    \A k \in Keys : metadata[k] =>
        \E a \in Attempts : /\ attempt[a].step = "saved" /\ attempt[a].key = k
                            /\ device[k].code = attempt[a].code

\* Revocation is terminal: no completion that was under way when the device was
\* revoked brings it back.
RevocationIsTerminal ==
    [][\A k \in Keys : device[k].status = "revoked" => device'[k] = device[k]]_enrollmentVars

\* A code, a key and a device belong together once and for good (completeEnrollment).
EnrolledOnce == [](CodeBuysOneDevice /\ KeyEnrolsOnce /\ SavedIsEnrolled) /\ RevocationIsTerminal

=============================================================================
