---------------------------- MODULE CommandLife ----------------------------
(***************************************************************************)
(* What a person who sends commands to a device may rely on, with no       *)
(* connections, heartbeats or acknowledgements: commands are worked off    *)
(* one at a time in the order they were given, and the answer, given once, *)
(* tells whether a command took effect; only the failure of an unsure one  *)
(* leaves that open.                                                       *)
(***************************************************************************)
EXTENDS Naturals

CONSTANTS N,        \* how many commands there may be; 1..N in creation order
          Expiring, \* the commands that expire when they wait too long
          Unsure    \* the commands that may fail after they took effect

VARIABLES stage,    \* how the command looks to its sender
          done      \* the commands that have taken effect

lifeVars == <<stage, done>>

Stages == {"none", "open", "completed", "failed"}

Settled(c) == stage[c] \in {"completed", "failed"}

Turn(c) == \A d \in 1..(c - 1) : Settled(d)

Answer(c, result) ==
    stage[c] = "open" /\ stage' = [stage EXCEPT ![c] = result] /\ UNCHANGED done

Give(c) ==
    /\ stage[c] = "none"
    /\ \A d \in 1..(c - 1) : stage[d] # "none"
    /\ stage' = [stage EXCEPT ![c] = "open"]
    /\ UNCHANGED done

\* An expiring command may still take effect after it has been given up.
Execute(c) ==
    /\ stage[c] = "open" \/ (c \in Expiring /\ stage[c] = "failed")
    /\ c \notin done /\ Turn(c)
    /\ done' = done \cup {c}
    /\ UNCHANGED stage

Confirm(c) == c \in done /\ Answer(c, "completed")

Refuse(c) == c \notin done \ Unsure /\ Turn(c) /\ Answer(c, "failed")

Expire == \E S \in SUBSET {c \in Expiring : stage[c] = "open"} :
    /\ stage' = [c \in 1..N |-> IF c \in S THEN "failed" ELSE stage[c]]
    /\ UNCHANGED done

LifeNext ==
    \/ \E c \in 1..N : Give(c) \/ Execute(c) \/ Confirm(c) \/ Refuse(c)
    \/ Expire

LifeSpec ==
    stage = [c \in 1..N |-> "none"] /\ done = {} /\ [][LifeNext]_lifeVars
=============================================================================
