---------------------------- MODULE JobContract -----------------------------
(***************************************************************************)
(* What the pipeline promises the client of POST /jobs: a job is           *)
(* accepted, its blocks are worked on, each block is resolved exactly once *)
(* (as produced or as lost), the drama is assembled only when no block is  *)
(* outstanding, it consists of exactly the blocks that were not lost, and  *)
(* nothing about a finished job changes.  At any time before the end the   *)
(* job may be abandoned instead.                                           *)
(***************************************************************************)
CONSTANTS Job, Part        \* Part[j]: the blocks of j

VARIABLES
  phase,    \* where the job is
  todo,     \* its outstanding blocks
  lost,     \* the blocks given up
  drama     \* the blocks of the finished asset

cvars == <<phase, todo, lost, drama>>

Init ==
  /\ phase = [j \in Job |-> "none"]
  /\ todo = [j \in Job |-> {}]
  /\ lost = [j \in Job |-> {}]
  /\ drama = [j \in Job |-> {}]

Move(j, from, to) ==
  /\ phase[j] = from
  /\ phase' = [phase EXCEPT ![j] = to]

Accept(j) ==
  /\ Move(j, "none", "accepted")
  /\ UNCHANGED <<todo, lost, drama>>

Start(j) ==
  /\ Move(j, "accepted", "running")
  /\ todo' = [todo EXCEPT ![j] = Part[j]]
  /\ UNCHANGED <<lost, drama>>

Produce(j, i) ==
  /\ phase[j] = "running"
  /\ i \in todo[j]
  /\ todo' = [todo EXCEPT ![j] = @ \ {i}]
  /\ UNCHANGED <<phase, lost, drama>>

Lose(j, i) ==
  /\ phase[j] = "running"
  /\ i \in todo[j]
  /\ todo' = [todo EXCEPT ![j] = @ \ {i}]
  /\ lost' = [lost EXCEPT ![j] = @ \cup {i}]
  /\ UNCHANGED <<phase, drama>>

Assemble(j) ==
  /\ Move(j, "running", "assembling")
  /\ todo[j] = {}
  /\ UNCHANGED <<todo, lost, drama>>

Complete(j) ==
  /\ Move(j, "assembling", "completed")
  /\ drama' = [drama EXCEPT ![j] = Part[j] \ lost[j]]
  /\ UNCHANGED <<todo, lost>>

Abandon(j) ==
  /\ phase[j] \in {"accepted", "running", "assembling"}
  /\ phase' = [phase EXCEPT ![j] = "failed"]
  /\ todo' = [todo EXCEPT ![j] = {}]
  /\ lost' = [lost EXCEPT ![j] = {}]
  /\ UNCHANGED drama

Next ==
  \E j \in Job :
    \/ Accept(j) \/ Start(j) \/ Assemble(j) \/ Complete(j) \/ Abandon(j)
    \/ \E i \in Part[j] : Produce(j, i) \/ Lose(j, i)

Spec == Init /\ [][Next]_cvars
=============================================================================
