---------------------------- MODULE AgentSession ----------------------------
(***************************************************************************)
(* unified_compiler/llm_backend_session.py with inference_budget.py and    *)
(* decision_wait.py: one model drives one facade.  The model decides what  *)
(* to do and how long to wait; the session holds the action for as many    *)
(* native steps as that takes, pays for each question from a budget, and   *)
(* says whose fault it was when it ends early.                             *)
(***************************************************************************)
EXTENDS AgentFacade, Sequences

CONSTANTS
  Controls,    \* the actions a model may ask for
  Durations,   \* the waits it may ask for, in seconds
  Declared,    \* horizon_seconds of the route's metadata
  MaxCalls, MaxMessage, MaxTotal,  \* the three limits of InferenceBudget
  Opening      \* size of the first two messages; every later record counts one

NoAction == "null"
Waiting  == "wait"

ASSUME SessionConstants ==
  /\ Controls \cap {NoAction, Waiting} = {}
  /\ Durations \subseteq Nat \ {0} /\ Declared \in Nat
  /\ MaxCalls \in Nat \ {0} /\ MaxMessage \in Nat \ {0} /\ MaxTotal \in Nat \ {0}
  /\ Opening \in Nat \ {0}

VARIABLES
  stage,       \* what run_session does next
  autonomous,  \* autonomous_wait
  budget,      \* attempted_calls and total_message_bytes
  size,        \* of the conversation as it would be sent
  document,    \* the decision being carried out: action, wait and target
  last,        \* last_action
  sent,        \* report["transitions"]: the action of each native step and its time
  made,        \* report["decisions"]
  outcome      \* status and failure_owner of the report

sessionVars == <<stage, autonomous, budget, size, document, last, sent, made, outcome>>
vars == <<facadeVars, sessionVars>>

NoDocument == [action |-> NoAction, event |-> FALSE, target |-> 0]
NoOwner    == "none"
Unfinished == [status |-> "starting", owner |-> NoOwner]

SessionInit ==
  /\ FacadeInit
  /\ stage = "open" /\ autonomous \in BOOLEAN
  /\ budget = [calls |-> 0, bytes |-> 0] /\ size = 0
  /\ document = NoDocument /\ last = NoAction
  /\ sent = <<>> /\ made = <<>>
  /\ outcome = Unfinished

\* Where the transitions of the decision being carried out begin.
Begin == IF made = <<>> THEN 0 ELSE made[Len(made)].stop

End(status, owner) ==
  /\ stage' = "close"
  /\ outcome' = [status |-> status, owner |-> owner]
  /\ UNCHANGED <<autonomous, budget, size, document, last, sent, made>>

(***************************************************************************)
(* From the factory to the first question                                  *)
(***************************************************************************)
FactoryRefuses ==
  /\ stage = "open"
  /\ stage' = "finished"
  /\ outcome' \in {[status |-> "action_rejected", owner |-> "infrastructure"],
                   [status |-> "initialization_error", owner |-> "infrastructure"]}
  /\ UNCHANGED <<autonomous, budget, size, document, last, sent, made, facadeVars>>

Open ==
  /\ stage = "open"
  /\ \/ /\ ResetOk
        /\ stage' = IF life'.terminal THEN "verify" ELSE "ask"
        /\ size' = Opening
        /\ UNCHANGED <<autonomous, budget, document, last, sent, made, outcome>>
     \/ /\ ResetOk \/ ResetRaises \/ ResetUnreadable
        /\ End("initialization_error", "infrastructure")

(***************************************************************************)
(* The question                                                            *)
(***************************************************************************)
\* Mutant of OverBudget: the bytes of this request are not counted yet.
OverBudgetMutant ==
  \/ size > MaxMessage
  \/ budget.calls >= MaxCalls
  \/ budget.bytes > MaxTotal

OverBudget ==
  \/ size > MaxMessage
  \/ budget.calls >= MaxCalls
  \/ budget.bytes + size > MaxTotal

Refuse ==
  /\ stage = "ask" /\ OverBudget
  /\ End("budget_exhausted", "infrastructure_budget")
  /\ UNCHANGED facadeVars

\* The call is paid before it is made, so one that raises has used it up.
Ask ==
  /\ stage = "ask" /\ ~OverBudget
  /\ budget' = [calls |-> budget.calls + 1, bytes |-> budget.bytes + size]
  /\ \/ stage' = "answered" /\ UNCHANGED outcome
     \/ stage' = "close" /\ outcome' = [status |-> "model_transport_error", owner |-> "transport"]
  /\ UNCHANGED <<autonomous, size, document, last, sent, made, facadeVars>>

(***************************************************************************)
(* The answer                                                              *)
(***************************************************************************)
\* decode_decision: native intervals are not enlarged, the wake is rounded up.
Target(duration) ==
  LET intervals == (duration + Tick - 1) \div Tick
      boundary  == clock + intervals * Tick
  IN  IF boundary < Declared THEN boundary ELSE Declared

Decode ==
  /\ stage = "answered"
  /\ \E action \in Controls \cup {NoAction}, d \in Durations, event \in BOOLEAN :
       document' = [action |-> action,
                    event  |-> autonomous /\ event,
                    target |-> IF autonomous THEN Target(d) ELSE clock]
  /\ stage' = "execute"
  /\ UNCHANGED <<autonomous, budget, size, last, sent, made, outcome, facadeVars>>

Undecodable ==
  /\ stage = "answered"
  /\ \/ End("model_output_budget_error", "infrastructure_output_budget")
     \/ End("model_format_error", "model_format")
  /\ UNCHANGED facadeVars

(***************************************************************************)
(* Carrying it out                                                         *)
(***************************************************************************)
First == Len(sent) = Begin

\* Mutant of Held: a discrete command is repeated like a setpoint.
HeldMutant ==
  IF ~autonomous \/ document.action # NoAction THEN document.action ELSE
  IF route \in {"d0_exogenous_context", Workflow} THEN Waiting ELSE last

\* held_action: a discrete command is given once, a setpoint at every step.
Held ==
  IF ~autonomous THEN document.action
  ELSE IF route \in {"d0_exogenous_context", Workflow}
       THEN IF First /\ document.action # NoAction THEN document.action ELSE Waiting
       ELSE IF document.action # NoAction THEN document.action ELSE last

\* A continuous control that was never set cannot be held.
NothingToHold ==
  /\ stage = "execute" /\ autonomous /\ Held = NoAction
  /\ End("model_format_error", "model_format")
  /\ UNCHANGED facadeVars

\* A wait of the household's own is not nested in an outer one.
NativeWait == document.action # NoAction /\ document.target <= clock + Tick /\ ~document.event

Execute ==
  /\ stage = "execute" /\ Held # NoAction
  /\ \E n \in Strides : StepTaken(n) /\ (n > 1 => First /\ NativeWait)
  /\ sent' = Append(sent, [action |-> Held, at |-> clock'])
  /\ stage' = "check"
  /\ UNCHANGED <<autonomous, budget, size, document, last, made, outcome>>

\* Preflight and execute_atomic judge the action alone and never refuse a wait,
\* so only a first step can be refused; every schema refuses null.
StepFails ==
  IF Held = NoAction THEN ~autonomous /\ StepRefused
  ELSE StepBreaks \/ StepUnreadable \/ (First /\ (StepRefused \/ StepRejected))

\* Mutant of ExecuteFails: the stage is still that of the decision.
ExecuteFailsMutant ==
  /\ stage = "execute" /\ StepFails
  /\ IF reply' = "action_error" THEN End("action_rejected", "model_action")
                                ELSE End("model_format_error", "model_format")

ExecuteFails ==
  /\ stage = "execute" /\ StepFails
  /\ IF reply' = "action_error" THEN End("action_rejected", "model_action")
                                ELSE End("native_execution_error", "infrastructure")

Woken == life.terminal \/ ~autonomous \/ clock >= document.target

\* The receipt is compared with what the facade shows.
Check ==
  /\ stage = "check"
  /\ Observe /\ reply' = "observation"
  /\ ~Woken
  /\ stage' = "execute"
  /\ UNCHANGED <<autonomous, budget, size, document, last, sent, made, outcome>>

\* Mutant of Wake: what is remembered as last action is what was sent last.
WakeMutant ==
  /\ stage = "check"
  /\ Observe /\ reply' = "observation"
  /\ Woken \/ document.event
  /\ made' = Append(made, [start |-> Begin, stop |-> Len(sent), document |-> document,
                           held |-> last, early |-> ~Woken])
  /\ last' = sent[Len(sent)].action
  /\ size' = size + 1 + (Len(sent) - Begin)
  /\ stage' = IF life.terminal THEN "verify" ELSE "ask"
  /\ document' = NoDocument
  /\ UNCHANGED <<autonomous, budget, sent, outcome>>

\* The decision ends: the history gains an action and a delta for each step.
Wake ==
  /\ stage = "check"
  /\ Observe /\ reply' = "observation"
  /\ Woken \/ document.event
  /\ made' = Append(made, [start |-> Begin, stop |-> Len(sent), document |-> document,
                           held |-> last, early |-> ~Woken])
  /\ last' = IF document.action = NoAction THEN last ELSE document.action
  /\ size' = size + 1 + (Len(sent) - Begin)
  /\ stage' = IF life.terminal THEN "verify" ELSE "ask"
  /\ document' = NoDocument
  /\ UNCHANGED <<autonomous, budget, sent, outcome>>

\* A receipt whose clock, delta or observation cannot be confirmed.
CheckFails ==
  /\ stage = "check"
  /\ Observe
  /\ End("receipt_protocol_error", "infrastructure")

\* The history that was sent is read back once more before the status is set.
Verify ==
  /\ stage = "verify"
  /\ \/ End("native_terminal_reached", NoOwner)
     \/ End("final_verification_error", "infrastructure")
  /\ UNCHANGED facadeVars

\* Mutant of CloseBackend: only a session that ran to its end closes.
CloseBackendMutant ==
  /\ stage = "close"
  /\ stage' = "finished"
  /\ IF outcome.owner = NoOwner THEN Close ELSE UNCHANGED facadeVars
  /\ UNCHANGED <<autonomous, budget, size, document, last, sent, made, outcome>>

CloseBackend ==
  /\ stage = "close"
  /\ stage' = "finished"
  /\ \/ Close /\ UNCHANGED outcome
     \/ CloseRaises /\ outcome' = [outcome EXCEPT !.status = "cleanup_error"]
  /\ UNCHANGED <<autonomous, budget, size, document, last, sent, made>>

SessionNext ==
  \/ FactoryRefuses \/ Open \/ Refuse \/ Ask \/ Decode \/ Undecodable
  \/ NothingToHold \/ Execute \/ ExecuteFails \/ Check \/ Wake \/ CheckFails
  \/ Verify \/ CloseBackend

\* The session is one thread, and its client answers or raises in the end.
SessionSpec == SessionInit /\ [][SessionNext]_vars /\ WF_vars(SessionNext)
=============================================================================
