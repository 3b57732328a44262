---------------------------- MODULE MCAgentQueue ----------------------------
(* AgentQueue for TLC: what the callers may do is chosen per .cfg.         *)
EXTENDS AgentQueue, TLC

CONSTANTS c1, c2, j1, j2

\* Callers and jobs are interchangeable; used by the safety runs only.
Symmetry == Permutations({c1, c2}) \cup Permutations({j1, j2})

AllRoutes == {"local", "prepared", "staged", "cloud"}

OneRoute  == {"local"}

Everything == Operations

\* Everything but reordering and the removal of a job that is gone.
Ordinary == JobAction \cup {"create", "remove", "limit"}

\* Only operations that write a row once, and reschedule.
SingleWrite == {"create", "remove", "limit"}

PauseResume == {"create", "pause", "resume", "cancel", "retry"}
=============================================================================
