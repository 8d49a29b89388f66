------------------------------ MODULE JobPool ------------------------------
(***************************************************************************)
(* What the executor of episodes promises its caller: a bounded number of  *)
(* admitted jobs, each of which runs at most once and is settled at most   *)
(* once, with a result that says truly whether it ran.                     *)
(***************************************************************************)
EXTENDS FiniteSets, Naturals

CONSTANTS Jobs, MaxPending

VARIABLES
  phase,   \* of each job
  ran,     \* the jobs whose function has begun
  told     \* what the caller was told about each job

Phases == {"new", "admitted", "settled", "dropped"}
Told   == {"nothing", "value", "error", "no_answer", "deadline", "queued", "raised"}

PoolInit ==
  /\ phase = [j \in Jobs |-> "new"]
  /\ ran = {}
  /\ told = [j \in Jobs |-> "nothing"]

Admitted == {j \in Jobs : phase[j] = "admitted"}

\* A job may begin in the step that admits it.
Admit(j) ==
  /\ phase[j] = "new"
  /\ Cardinality(Admitted) < MaxPending
  /\ phase' = [phase EXCEPT ![j] = "admitted"]
  /\ \E begun \in {{}, {j}} : ran' = ran \cup begun
  /\ UNCHANGED told

Begin(j) ==
  /\ phase[j] = "admitted"
  /\ j \notin ran
  /\ ran' = ran \cup {j}
  /\ UNCHANGED <<phase, told>>

\* Only a job that never ran is told to have waited in the queue.
Settle(j) ==
  /\ phase[j] = "admitted"
  /\ \E t \in Told \ {"nothing"} :
       /\ t = "queued" <=> j \notin ran
       /\ told' = [told EXCEPT ![j] = t]
  /\ phase' = [phase EXCEPT ![j] = "settled"]
  /\ UNCHANGED ran

DropAll ==
  /\ phase' = [j \in Jobs |-> IF phase[j] = "admitted" THEN "dropped" ELSE phase[j]]
  /\ UNCHANGED <<ran, told>>

PoolNext == DropAll \/ \E j \in Jobs : Admit(j) \/ Begin(j) \/ Settle(j)

PoolSpec == PoolInit /\ [][PoolNext]_<<phase, ran, told>>
=============================================================================
