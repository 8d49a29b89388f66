------------------------------ MODULE Harness ------------------------------
(***************************************************************************)
(* harness_v2/core.py: Harness.run_one, one policy on one episode of        *)
(* WorkflowBackend.  The policy decides, the harness validates the form of  *)
(* the action, has the backend execute it, compares state digests around    *)
(* every call, and advances the backend after each accepted action.         *)
(*                                                                         *)
(* The policy is any policy: it may send the actions of module Workflow,    *)
(* ones the backend rejects, malformed ones, and waits until a timestamp    *)
(* that advance refuses.  An advance may also fail in the middle of a tick: *)
(* reset does not validate the profile's reorder points, and the first      *)
(* consumption of a stocked supply converts its reorder point to an integer.*)
(*                                                                         *)
(* WorkflowBackend rejects before it changes anything, so the status        *)
(* backend_atomicity_violation is one this backend never earns.            *)
(***************************************************************************)
EXTENDS Workflow

CONSTANTS
  MaxDecisions,   \* episode.max_decisions
  Unreadable      \* supplies whose reorder point in the profile is not a number

ASSUME HarnessAssumption ==
  /\ MaxDecisions \in Nat
  /\ Unreadable \subseteq Supplies \cap Devices

VARIABLES
  decisions,  \* actions the backend has answered
  status,     \* "running", or the status of the sealed run
  before,     \* pre_advance_digest
  trace       \* public_records: their types and indices

runVars == <<decisions, status, before, trace>>

\* What state_digest digests: not the events of the last view.
Digest == <<scenario, exog, step, dev, taskVars, homeVars, ruleVars, cost, pending>>

Observation(i, s) == [type |-> "observation", index |-> i, at |-> s]
Record(type)      == [type |-> type, index |-> decisions, at |-> step]

HarnessInit ==
  /\ Init
  /\ decisions = 0 /\ status = "running" /\ before = Digest
  /\ trace = <<Observation(0, 0)>>

Between == status = "running" /\ phase = "execute"

\* The loop asks the policy only while the episode goes on and budget is left.
Asked == Between /\ ~Terminal /\ decisions < MaxDecisions

Decide ==
  /\ Asked /\ AgentStep
  /\ decisions' = decisions + 1
  /\ trace' = Append(trace, Record("accepted"))
  /\ before' = Digest'
  /\ UNCHANGED status

\* The rest of execute_atomic, before the digest is taken.
Execute ==
  /\ status = "running" /\ ApplyNext
  /\ before' = Digest'
  /\ UNCHANGED <<decisions, status, trace>>

\* There is an action to send that the backend rejects.
Rejectable ==
  \/ \E cs \in Batches[scenario] : ~CommandsOk(cs)
  \/ \E t \in RuleTemplates[scenario] : ~RuleOk(t)
  \/ \E t \in RuleTemplates[scenario] : \A r \in rules : r.id # t.id   \* to be cancelled

\* Mutant of Reject: a rejected action is free.
RejectMutant ==
  /\ Asked /\ Rejectable
  /\ trace' = Append(trace, Record("rejected"))
  /\ UNCHANGED <<vars, decisions, status, before>>

\* A rejected action uses up a decision and no time.
Reject ==
  /\ Asked /\ Rejectable
  /\ decisions' = decisions + 1
  /\ trace' = Append(trace, Record("rejected"))
  /\ UNCHANGED <<vars, status, before>>

\* validate_agent_action refuses the action.
Malformed ==
  /\ Asked
  /\ trace' = Append(trace, Record("protocol_error"))
  /\ status' = "protocol_invalid"
  /\ UNCHANGED <<vars, decisions, before>>

\* The status of a run whose advance raised.
Failure(digest) == IF digest = before THEN "backend_advance_failed"
                                      ELSE "backend_advance_atomicity_violation"

\* Mutant of RefusedWait: the exception is swallowed and the loop goes on.
RefusedWaitMutant ==
  /\ Asked
  /\ before' = Digest
  /\ decisions' = decisions + 1
  /\ trace' = Append(trace, Record("accepted"))
  /\ UNCHANGED <<vars, status>>

\* wait until a timestamp without an offset, or one that has passed: it is
\* accepted, and advance raises before its first tick.
RefusedWait ==
  /\ Asked
  /\ before' = Digest
  /\ decisions' = decisions + 1
  /\ trace' = trace \o <<Record("accepted"), [Record("backend_error") EXCEPT !.index = @ + 1]>>
  /\ status' = "backend_advance_failed"
  /\ UNCHANGED vars

\* The turn of a stocked supply reads its reorder point.
Reads(d) == /\ Turn(d) /\ step % ConsumptionTicks = 0
            /\ dev[d].state = "stocked" /\ dev[d].level > Cfg.consumption_units

Raises == \E d \in Unreadable : Reads(d)

\* The consumption that came before the conversion stays done.
AdvanceRaises ==
  /\ status = "running"
  /\ \E d \in Unreadable :
       Reads(d) /\ dev' = [dev EXCEPT ![d].level = @ - Cfg.consumption_units]
  /\ UNCHANGED <<outsideVars, step, taskVars, homeVars, ruleVars, cost, busVars, phase,
                 batch, todo, current, due, wait, decisions, before>>
  /\ status' = Failure(Digest')
  /\ trace' = Append(trace, Record("backend_error"))

Advance ==
  /\ status = "running" /\ ~Raises
  /\ Running /\ ~(phase = "accepted" /\ batch # <<>>)
  /\ trace' = IF phase' = "execute" THEN Append(trace, Observation(decisions, step)) ELSE trace
  /\ UNCHANGED <<decisions, status, before>>

\* while not step.terminal
Complete ==
  /\ Between /\ Terminal
  /\ status' = "completed"
  /\ UNCHANGED <<vars, decisions, before, trace>>

\* Mutants of Exhaust: the budget is tested before the horizon; off by one.
ExhaustFirst ==
  /\ Between /\ decisions >= MaxDecisions
  /\ status' = "decision_budget_exhausted"
  /\ UNCHANGED <<vars, decisions, before, trace>>

ExhaustLate ==
  /\ Between /\ ~Terminal /\ decisions > MaxDecisions
  /\ status' = "decision_budget_exhausted"
  /\ UNCHANGED <<vars, decisions, before, trace>>

Exhaust ==
  /\ Between /\ ~Terminal /\ decisions >= MaxDecisions
  /\ status' = "decision_budget_exhausted"
  /\ UNCHANGED <<vars, decisions, before, trace>>

Sealed == status # "running" /\ UNCHANGED <<vars, runVars>>

RunStep == Decide \/ Execute \/ Reject \/ Malformed \/ RefusedWait \/ AdvanceRaises
           \/ Advance \/ Complete \/ Exhaust

HarnessNext == RunStep \/ Sealed

\* run_one is one thread, and the policy is assumed to answer when it is asked.
HarnessSpec == HarnessInit /\ [][HarnessNext]_<<vars, runVars>>
                           /\ WF_<<vars, runVars>>(RunStep)

(***************************************************************************)
(* Properties.                                                             *)
(***************************************************************************)

LastView == CHOOSE i \in 1..Len(trace) :
              /\ trace[i].type = "observation"
              /\ \A j \in i+1..Len(trace) : trace[j].type # "observation"

Accepted == {i \in 1..Len(trace) : trace[i].type = "accepted"}

\* The status of a sealed run tells what became of the episode.  A run that
\* reaches the horizon with its last decision is completed, not exhausted; a
\* failed advance is reported as clean only if the backend is still at the step of
\* the last observation with nothing half done, and as a violation whenever ticks
\* were taken that no observation shows.
StatusTruth ==
  /\ status = "completed" => Terminal
  /\ status = "decision_budget_exhausted" => ~Terminal /\ decisions = MaxDecisions
  /\ status = "backend_advance_failed" => step = trace[LastView].at /\ phase = "execute"
  /\ status = "backend_advance_atomicity_violation" => step > trace[LastView].at

\* Readers of the public trace join an observation with the action before it by
\* index: observation n follows the accepted action n - 1 with nothing between, an
\* accepted action is followed by its observation or by the failure that ended the
\* run, and the actions are numbered without a gap, rejected ones included.
TraceAligned ==
  /\ \A i \in 2..Len(trace) : trace[i].type = "observation" =>
       /\ trace[i-1].type = "accepted"
       /\ trace[i].index = trace[i-1].index + 1
       /\ trace[i].at > trace[i-1].at
  /\ \A i \in Accepted : i < Len(trace) => trace[i+1].type \in {"observation", "backend_error"}
  /\ LET actions == {i \in 1..Len(trace) : trace[i].type \in {"accepted", "rejected"}}
     IN  {trace[i].index : i \in actions} = 0..decisions-1 /\ Cardinality(actions) = decisions

\* A policy cannot stop time by talking: between calls the clock shows at least
\* one tick for every accepted action.
TimePerAction == Between => step >= Cardinality(Accepted)

\* Every run ends, whatever the policy sends: accepted actions run into the
\* horizon, rejected ones into the decision budget.
RunEnds == <>(status # "running")
=============================================================================
