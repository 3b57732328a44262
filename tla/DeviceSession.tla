--------------------------- MODULE DeviceSession ---------------------------
(***************************************************************************)
(* How an enrolled Mac authenticates and stays present: it asks for a      *)
(* session challenge, signs it, gets a token for ten minutes and opens the *)
(* WebSocket of the control plane (the transport without the gateway),     *)
(* whose handler establishes the presence of the connection and serves its *)
(* heartbeats.  Revocation, a second connection and the end of a socket    *)
(* meet these handlers between any two of their statements.                *)
(***************************************************************************)
EXTENDS Naturals, FiniteSets

CONSTANTS
    Challenges,     \* session challenges
    Requests,       \* requests that complete a challenge
    MaxConns,       \* connections the Mac opens, numbered in order
    MaxBeats,       \* heartbeats accepted per connection
    MaxVersion,     \* versions of the job and of the library
    MaxDrops        \* connections the network drops

NoChallenge == "none"
Conns == 1..MaxConns
Versions == 0..MaxVersion

ASSUME SessionAssumption ==
    /\ IsFiniteSet(Challenges) /\ NoChallenge \notin Challenges
    /\ MaxConns \in Nat /\ MaxBeats \in Nat /\ MaxVersion \in Nat /\ MaxDrops \in Nat

VARIABLES
    revoked,        \* lustre_devices.revoked_at IS NOT NULL
    revoking,       \* a revokeDevice call that has still to invalidate the challenges
    challenge,      \* row of a challenge
    completion,     \* challenge and step of a completion request
    authentications,\* how often last_authenticated_at was written
    presence,       \* the presence row: connection, sequence, has it a heartbeat
    conn,           \* handler of a connection: step, sequence and versions of its frame
    open,           \* is the socket of the connection open
    version,        \* job and library of the Mac
    projected,      \* version of the job in lustre_device_job_status
    snapshot,       \* revision of the library snapshot
    drops           \* connections dropped so far

sessionVars == <<revoked, revoking, challenge, completion, authentications, presence,
                 conn, open, version, projected, snapshot, drops>>

NoPresence == [conn |-> 0, sequence |-> 0, beaten |-> FALSE]

\* The connection the Mac opened last, 0 before the first.
Latest == Cardinality({n \in Conns : conn[n].step # "none"})

Holders(ch) == {r \in Requests : completion[r].challenge = ch /\ completion[r].step = "token"}

SessionInit ==
    /\ revoked = FALSE /\ revoking = FALSE
    /\ challenge = [ch \in Challenges |-> "none"]
    /\ completion = [r \in Requests |-> [challenge |-> NoChallenge, step |-> "idle"]]
    /\ authentications = 0
    /\ presence = NoPresence
    /\ conn = [n \in Conns |-> [step |-> "none", sequence |-> 0, job |-> 0, library |-> 0]]
    /\ open = [n \in Conns |-> FALSE]
    /\ version = 0 /\ projected = 0 /\ snapshot = 0
    /\ drops = 0

connVars == <<presence, conn, open, version, projected, snapshot, drops>>
authVars == <<challenge, completion, authentications>>

-----------------------------------------------------------------------------
(* Session challenges.                                                     *)

\* createSessionChallenge looks at the device ...
ReadDevice(ch) ==
    /\ challenge[ch] = "none" /\ ~revoked
    /\ challenge' = [challenge EXCEPT ![ch] = "read"]
    /\ UNCHANGED <<revoked, revoking, completion, authentications, connVars>>

\* ... and inserts a challenge, which a revocation in between does not invalidate.
InsertChallenge(ch) ==
    /\ challenge[ch] = "read"
    /\ challenge' = [challenge EXCEPT ![ch] = "issued"]
    /\ UNCHANGED <<revoked, revoking, completion, authentications, connVars>>

ExpireChallenge(ch) ==
    /\ challenge[ch] = "issued"
    /\ challenge' = [challenge EXCEPT ![ch] = "expired"]
    /\ UNCHANGED <<revoked, revoking, completion, authentications, connVars>>

\* POST device-sessions/complete reads the challenge and the device and verifies the
\* signature (the Mac's own, over this challenge) ...
SessionForCompletion(r, ch) ==
    /\ completion[r].step = "idle" /\ challenge[ch] \notin {"none", "read"}
    /\ completion' = [completion EXCEPT ![r] =
          [challenge |-> ch,
           step |-> IF challenge[ch] = "issued" /\ ~revoked THEN "verified" ELSE "refused"]]
    /\ UNCHANGED <<revoked, revoking, challenge, authentications, connVars>>

\* Mutant: the challenge that was read is consumed without looking again.
IsUnspentWhenRead(ch) == challenge[ch] # "none"

\* The condition of consumeSessionChallenge's update.
IsUnspent(ch) == challenge[ch] = "issued"

\* ... consumes the challenge ...
ConsumeSessionChallenge(r) ==
    LET ch == completion[r].challenge IN
    /\ completion[r].step = "verified"
    /\ IF IsUnspent(ch)
       THEN /\ challenge' = [challenge EXCEPT ![ch] = "consumed"]
            /\ completion' = [completion EXCEPT ![r].step = "consumed"]
       ELSE /\ completion' = [completion EXCEPT ![r].step = "refused"]
            /\ UNCHANGED challenge
    /\ UNCHANGED <<revoked, revoking, authentications, connVars>>

\* Mutant: the device was found not revoked before the proof was verified.
MayAuthenticateAlways == TRUE

\* The condition on which last_authenticated_at is written and the presence touched.
MayAuthenticate == ~revoked

\* ... and records the authentication, or finds the device revoked; the token follows.
RecordAuthentication(r) ==
    /\ completion[r].step = "consumed"
    /\ completion' = [completion EXCEPT ![r].step =
                         IF MayAuthenticate THEN "token" ELSE "refused"]
    /\ authentications' = IF MayAuthenticate THEN authentications + 1 ELSE authentications
    /\ UNCHANGED <<revoked, revoking, challenge, connVars>>

\* Ten minutes later.
ExpireToken(r) ==
    /\ completion[r].step = "token"
    /\ completion' = [completion EXCEPT ![r].step = "expired"]
    /\ UNCHANGED <<revoked, revoking, challenge, authentications, connVars>>

\* revokeDevice: the device first, then its pending challenges.
RevokeDevice ==
    /\ ~revoked
    /\ revoked' = TRUE /\ revoking' = TRUE
    /\ UNCHANGED <<authVars, connVars>>

InvalidateChallenges ==
    /\ revoking
    /\ revoking' = FALSE
    /\ challenge' = [ch \in Challenges |-> IF challenge[ch] \in {"issued", "expired"}
                                           THEN "consumed" ELSE challenge[ch]]
    /\ UNCHANGED <<revoked, completion, authentications, connVars>>

-----------------------------------------------------------------------------
(* The WebSocket handler of the control plane.                             *)

\* The Mac presents a token; the handler does not look at the device yet.
OpenRealtime ==
    /\ Latest < MaxConns /\ \A n \in Conns : ~open[n]
    /\ \E r \in Requests : completion[r].step = "token"
    /\ conn' = [conn EXCEPT ![Latest + 1].step = "establishing"]
    /\ open' = [open EXCEPT ![Latest + 1] = TRUE]
    /\ UNCHANGED <<revoked, revoking, authVars, presence, version, projected, snapshot, drops>>

\* Mutant: the first connection keeps the row (ON CONFLICT DO NOTHING).
EstablishedFirst(n) == IF presence.conn = 0 THEN [NoPresence EXCEPT !.conn = n] ELSE presence

\* The row a connection leaves: a newer one supersedes the generation before.
Established(n) == [NoPresence EXCEPT !.conn = n]

\* establishPresence: one statement, which may come after a newer connection's.
EstablishPresence(n) ==
    /\ conn[n].step = "establishing"
    /\ IF MayAuthenticate
       THEN /\ presence' = Established(n)
            /\ conn' = [conn EXCEPT ![n].step = "idle"]
            /\ UNCHANGED open
       ELSE /\ conn' = [conn EXCEPT ![n].step = "closed"]
            /\ open' = [open EXCEPT ![n] = FALSE]
            /\ UNCHANGED presence
    /\ UNCHANGED <<revoked, revoking, authVars, version, projected, snapshot, drops>>

\* The agent sends the next heartbeat when the last one was answered.  MaxBeats bounds
\* the heartbeats of a connection that are accepted; those that are refused need none.
SendHeartbeat(n) ==
    /\ open[n] /\ conn[n].step = "idle"
    /\ conn[n].sequence < MaxBeats \/ presence.conn # n
    /\ conn' = [conn EXCEPT ![n] =
          [step |-> "received", job |-> version, library |-> version,
           sequence |-> IF @.sequence < MaxBeats THEN @.sequence + 1 ELSE MaxBeats]]
    /\ UNCHANGED <<revoked, revoking, authVars, presence, open, version, projected, snapshot, drops>>

\* acceptHeartbeat: only the connection the row names, in order, and a live device.
HoldsPresence(n) == presence.conn = n /\ presence.sequence < conn[n].sequence

AcceptHeartbeat(n) ==
    /\ conn[n].step = "received"
    /\ IF HoldsPresence(n) /\ MayAuthenticate
       THEN /\ presence' = [presence EXCEPT !.sequence = conn[n].sequence, !.beaten = TRUE]
            /\ conn' = [conn EXCEPT ![n].step = "accepted"]
            /\ UNCHANGED open
       ELSE /\ conn' = [conn EXCEPT ![n].step = "closed"]
            /\ open' = [open EXCEPT ![n] = FALSE]
            /\ UNCHANGED presence
    /\ UNCHANGED <<revoked, revoking, authVars, version, projected, snapshot, drops>>

\* Mutant: the snapshot is overwritten whatever its revision.
IsNewerAlways(revision) == revision \in Versions

\* The WHERE of the snapshot's ON CONFLICT.
IsNewer(revision) == snapshot <= revision

\* acknowledgeCommands: the answer of a library command also updates the snapshot.
\* It runs beside syncJobStatus (Promise.all), in either order.
AcknowledgeCommands(n) ==
    /\ conn[n].step \in {"accepted", "synced"}
    /\ snapshot' = IF IsNewer(conn[n].library) THEN conn[n].library ELSE snapshot
    /\ conn' = [conn EXCEPT ![n].step = IF @ = "accepted" THEN "acknowledged" ELSE "served"]
    /\ UNCHANGED <<revoked, revoking, authVars, presence, open, version, projected, drops>>

\* syncJobStatus overwrites the row; it compares neither revocation nor updated_at.
SyncJobStatus(n) ==
    /\ conn[n].step \in {"accepted", "acknowledged"}
    /\ projected' = conn[n].job
    /\ conn' = [conn EXCEPT ![n].step = IF @ = "accepted" THEN "synced" ELSE "served"]
    /\ UNCHANGED <<revoked, revoking, authVars, presence, open, version, snapshot, drops>>

\* The answer, with the next pending command.  A closed socket takes none.
AnswerHeartbeat(n) ==
    /\ conn[n].step = "served"
    /\ conn' = [conn EXCEPT ![n].step = IF open[n] THEN "idle" ELSE "closed"]
    /\ UNCHANGED <<revoked, revoking, authVars, presence, open, version, projected, snapshot, drops>>

\* The network drops the connection; a handler that is under way goes on.
DropConnection(n) ==
    /\ open[n] /\ drops < MaxDrops
    /\ open' = [open EXCEPT ![n] = FALSE]
    /\ drops' = drops + 1
    /\ UNCHANGED <<revoked, revoking, authVars, presence, conn, version, projected, snapshot>>

JobAdvances ==
    /\ version < MaxVersion
    /\ version' = version + 1
    /\ UNCHANGED <<revoked, revoking, authVars, presence, conn, open, projected, snapshot, drops>>

Handle(n) ==
    \/ EstablishPresence(n) \/ AcceptHeartbeat(n) \/ AcknowledgeCommands(n)
    \/ SyncJobStatus(n) \/ AnswerHeartbeat(n)

SessionNext ==
    \/ \E ch \in Challenges : ReadDevice(ch) \/ InsertChallenge(ch) \/ ExpireChallenge(ch)
    \/ \E r \in Requests :
          \/ \E ch \in Challenges : SessionForCompletion(r, ch)
          \/ ConsumeSessionChallenge(r) \/ RecordAuthentication(r) \/ ExpireToken(r)
    \/ RevokeDevice \/ InvalidateChallenges
    \/ OpenRealtime
    \/ \E n \in Conns : Handle(n) \/ SendHeartbeat(n) \/ DropConnection(n)
    \/ JobAdvances

SessionSpec == SessionInit /\ [][SessionNext]_sessionVars

\* Handlers run to their end, and the agent connects and beats whenever it can.  Nobody
\* has to revoke, drop a connection, or let anything expire.
SessionFairness ==
    /\ WF_sessionVars(OpenRealtime)
    /\ \A n \in Conns : WF_sessionVars(Handle(n)) /\ WF_sessionVars(SendHeartbeat(n))

SessionFairSpec == SessionSpec /\ SessionFairness

-----------------------------------------------------------------------------
(* Properties.                                                             *)

SessionTypeOK ==
    /\ revoked \in BOOLEAN /\ revoking \in BOOLEAN
    /\ challenge \in [Challenges -> {"none", "read", "issued", "expired", "consumed"}]
    /\ completion \in [Requests -> [challenge: {NoChallenge}, step: {"idle"}]
                          \cup [challenge: Challenges,
                                step: {"verified", "consumed", "token", "expired", "refused"}]]
    /\ authentications \in 0..Cardinality(Challenges)
    /\ presence \in [conn: 0..MaxConns, sequence: 0..MaxBeats, beaten: BOOLEAN]
    /\ conn \in [Conns -> [step: {"none", "establishing", "idle", "received", "accepted",
                                  "acknowledged", "synced", "served", "closed"},
                           sequence: 0..MaxBeats, job: Versions, library: Versions]]
    /\ open \in [Conns -> BOOLEAN]
    /\ version \in Versions /\ projected \in Versions /\ snapshot \in Versions
    /\ drops \in 0..MaxDrops

\* A challenge is exchanged for one token, whichever of two concurrent completions
\* of it comes first: both may have found it unspent.
OneTokenPerChallenge == \A ch \in Challenges : Cardinality(Holders(ch)) <= 1

\* Once the device is revoked nothing authenticates it and nothing touches its
\* presence, however far the requests had come that were under way.
RevocationStopsTheDevice ==
    [][revoked => UNCHANGED <<authentications, presence>>]_sessionVars

\* The library snapshot never goes back to an older revision, though the handler of a
\* dropped connection may write after that of its successor.
SnapshotNeverGoesBack == [][snapshot' >= snapshot]_sessionVars

\* A request that was overtaken, by its own repetition, by a revocation or by the next
\* connection, changes nothing any more.
LateRequestsChangeNothing ==
    []OneTokenPerChallenge /\ RevocationStopsTheDevice /\ SnapshotNeverGoesBack

\* However late the handler of a dropped connection establishes its presence, the Mac
\* ends as the device on record, or revoked, or without a token to connect with.
PresenceSettles ==
    <>[](\/ revoked
         \/ \A r \in Requests : completion[r].step # "token"
         \/ \E n \in Conns : n = Latest /\ open[n] /\ presence.conn = n /\ presence.beaten)
=============================================================================
