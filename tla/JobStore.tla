------------------------------ MODULE JobStore ------------------------------
(***************************************************************************)
(* The durable job table (Sources/LustreCore/JobStore.swift) as a library  *)
(* of operators over one row per job.  The table itself is the variable    *)
(* `rows' of the module that uses the store; every operator below is what  *)
(* one call of the JobStore actor does to it, atomically.                  *)
(*                                                                         *)
(* A row keeps what the queue decides by: the status and the queue         *)
(* priority.  Title, media links, bytes, logs and timestamps are left out. *)
(***************************************************************************)
EXTENDS Naturals

CONSTANTS Jobs,         \* the job identifiers (UUIDs) that may be used
          MaxPriority   \* bound on queuePriority, which the code lets grow

ASSUME StoreAssumption == MaxPriority \in Nat

JobStatus == {"queued", "running", "paused", "completed", "failed",
              "cancelled", "verificationRequired"}

JobAction == {"pause", "resume", "cancel", "retry", "forceStart"}

Priority == 0..MaxPriority

\* "absent" is a job whose row was never inserted or has been deleted.
Row == [status: JobStatus \cup {"absent"}, priority: Priority]

NoRow == [status |-> "absent", priority |-> 0]

Present(row) == row.status # "absent"

-----------------------------------------------------------------------------
\* The private extension JobStatus.allows(_:).
Allowed ==
    {<<"queued", "pause">>,  <<"queued", "cancel">>, <<"queued", "forceStart">>,
     <<"running", "pause">>, <<"running", "cancel">>,
     <<"paused", "resume">>, <<"paused", "cancel">>,
     <<"failed", "retry">>,  <<"cancelled", "retry">>,
     <<"verificationRequired", "retry">>, <<"verificationRequired", "cancel">>}

Allows(status, action) == <<status, action>> \in Allowed

\* The record JobStore.apply(_:to:) computes, stores and returns.
Applied(row, action) ==
    CASE action = "pause"               -> [row EXCEPT !.status = "paused"]
      [] action \in {"resume", "retry"} -> [row EXCEPT !.status = "queued"]
      [] action = "cancel"              -> [row EXCEPT !.status = "cancelled"]
      [] action = "forceStart"          -> row

\* Mutant: INSERT OR REPLACE.
Upserted(rows, j, row) == [rows EXCEPT ![j] = row]

\* UPDATE jobs SET payload = ... WHERE id = ?: the whole record is replaced,
\* and nothing happens, silently, when the row is gone.
Replaced(rows, j, row) ==
    IF Present(rows[j]) THEN [rows EXCEPT ![j] = row] ELSE rows

WithStatus(row, status) == [row EXCEPT !.status = status]

JobsWithStatus(rows, status) == {j \in Jobs : rows[j].status = status}
=============================================================================
