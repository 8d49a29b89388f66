------------------------- MODULE SessionProperties -------------------------
(***************************************************************************)
(* What a session's report can be relied on for.                           *)
(***************************************************************************)
EXTENDS AgentSession

\* Every variable has its type.
TypeOK ==
  /\ route \in Routes /\ autonomous \in BOOLEAN
  /\ life \in [started : BOOLEAN, terminal : BOOLEAN, closed : BOOLEAN, poisoned : BOOLEAN]
  /\ clock \in Nat
  /\ world \in [epoch : Nat, at : Nat, torn : {"no", "reset", "step"}]
  /\ seen \in [epoch : Nat, at : Nat]
  /\ stage \in {"open", "ask", "answered", "execute", "check", "verify", "close", "finished"}
  /\ budget \in [calls : Nat, bytes : Nat] /\ size \in Nat
  /\ document \in [action : Controls \cup {NoAction}, event : BOOLEAN, target : Nat]
  /\ last \in Controls \cup {NoAction}
  /\ \A i \in 1..Len(sent) : sent[i].action \in Controls \cup {NoAction, Waiting}

\* Every decision is paid for once, before it is made; calls and bytes stay
\* within the budget, and what was not paid for was not done.
Paying == stage \in {"answered", "execute", "check"}
DecisionsPaid ==
  /\ budget.calls <= MaxCalls /\ budget.bytes <= MaxTotal
  /\ budget.calls >= Len(made) + (IF Paying THEN 1 ELSE 0)
  /\ budget.calls <= Len(made) + 1
  /\ outcome.owner = "infrastructure_budget" => budget.calls = Len(made)

\* A session that ends on the model's format, the transport or a budget has done
\* nothing for the decision it could not make: every native step belongs to a
\* decision of the report.
NoHalfDecision ==
  outcome.owner \in {"model_format", "transport", "infrastructure_budget",
                     "infrastructure_output_budget"} => First

\* "Discrete commands/rule operations execute once; remaining intervals are
\* genuine no-command waits", "An explicit continuous control is held by
\* reapplying its setpoint each native interval", and the wake "rounds up to a
\* native boundary": in the steps of every decision.
Discrete == route \in {"d0_exogenous_context", Workflow}
CarriedOut(d) ==
  /\ d.start < d.stop
  /\ \A i \in d.start + 1 .. d.stop :
       /\ sent[i].action =
            IF d.document.action # NoAction /\ (~Discrete \/ i = d.start + 1) THEN d.document.action
            ELSE IF Discrete THEN Waiting ELSE d.held
       /\ i < d.stop => sent[i].at < d.document.target
  /\ ~d.early => sent[d.stop].at >= d.document.target \/ sent[d.stop].at >= NativeEnd
DecisionsCarriedOut ==
  autonomous => /\ \A k \in 1..Len(made) : CarriedOut(made[k])
                /\ \A k \in 2..Len(made) : made[k].start = made[k - 1].stop

\* Every session ends, with its backend closed unless closing raised or there
\* never was an episode.
SessionEnds ==
  <>(stage = "finished" /\ (life.closed \/ outcome.status = "cleanup_error" \/ world.epoch = 0))
=============================================================================
