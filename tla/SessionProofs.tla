---------------------------- MODULE SessionProofs ----------------------------
(***************************************************************************)
(* For every route, tick, horizon, budget and model, and calls in any       *)
(* order: what a facade shows is the present and a broken episode is not    *)
(* stepped; a session uses the facade within its protocol; and what a       *)
(* session reports it has done, and paid for, it has.                       *)
(***************************************************************************)
EXTENDS SessionProperties, TLAPS

(***************************************************************************)
(* The facade                                                              *)
(***************************************************************************)
FacadeType ==
  /\ life \in [started : BOOLEAN, terminal : BOOLEAN, closed : BOOLEAN, poisoned : BOOLEAN]
  /\ world \in [epoch : Nat, at : Nat, torn : {"no", "reset", "step"}]

\* A usable facade is what both properties are about, so that its flags, which the
\* calls set in several places, must follow what has happened to the native side.
FacadeInv == FacadeType /\ ShowsThePresent

\* The facade's invariant holds before the first call.
LEMMA FacadeStarts == FacadeInit => FacadeInv
BY FacadeConstants
DEF FacadeInit, FacadeInv, FacadeType, ShowsThePresent, Usable, Flags

\* Every call keeps the facade's invariant.
LEMMA FacadeKeeps == FacadeInv /\ [FacadeNext]_facadeVars => FacadeInv'
<1> SUFFICES ASSUME FacadeInv, [FacadeNext]_facadeVars PROVE FacadeInv'
  OBVIOUS
<1> USE FacadeConstants DEF FacadeInv, FacadeType, ShowsThePresent, Usable
<1>1. CASE ResetOk
  BY <1>1 DEF ResetOk, NewEpoch, Flags, At
<1>2. CASE ResetRaises
  BY <1>2 DEF ResetRaises, NewEpoch, Flags
<1>3. CASE ResetUnreadable
  BY <1>3 DEF ResetUnreadable, NewEpoch, Flags, Household
<1>4. CASE Observe
  BY <1>4 DEF Observe, At
<1>5. CASE LegalActions
  BY <1>5 DEF LegalActions, At
<1>6. CASE StepRefused
  BY <1>6 DEF StepRefused, At
<1>7. CASE StepBreaks
  BY <1>7 DEF StepBreaks, Poisoned
<1>8. CASE StepUnreadable
  <2>1. world' = [world EXCEPT !.at = @ + 1 * Tick]
    BY <1>8 DEF StepUnreadable, Native
  <2>2. world' \in [epoch : Nat, at : Nat, torn : {"no", "reset", "step"}]
    BY <2>1
  <2>3. life' = [life EXCEPT !.poisoned = TRUE, !.terminal = TRUE]
    BY <1>8 DEF StepUnreadable, Poisoned
  <2>4. life' \in [started : BOOLEAN, terminal : BOOLEAN, closed : BOOLEAN, poisoned : BOOLEAN]
    BY <2>3
  <2>5. life'.poisoned
    BY <2>3
  <2> QED
    BY <2>2, <2>4, <2>5
<1>9. CASE StepRejected
  BY <1>9 DEF StepRejected, Poisoned
<1>10. ASSUME NEW n \in Strides, StepTaken(n) PROVE FacadeInv'
  <2>1. n * Tick \in Nat
    OBVIOUS
  <2>2. world' = [world EXCEPT !.at = @ + n * Tick]
    BY <1>10 DEF StepTaken, Native
  <2>3. world' \in [epoch : Nat, at : Nat, torn : {"no", "reset", "step"}]
    BY <2>1, <2>2
  <2>4. world'.torn = "no"
    BY <1>10, <2>2 DEF StepTaken, Running
  <2> QED
    BY <1>10, <2>3, <2>4 DEF StepTaken, Running, At
<1>11. CASE Close
  BY <1>11 DEF Close, Flags
<1>12. CASE CloseRaises
  BY <1>12 DEF CloseRaises, At
<1>13. CASE UNCHANGED facadeVars
  BY <1>13 DEF facadeVars, At
<1> QED
  BY <1>1, <1>2, <1>3, <1>4, <1>5, <1>6, <1>7, <1>8, <1>9, <1>10, <1>11, <1>12, <1>13
  DEF FacadeNext, Step

\* What the facade shows has its type.
FacadeShows == route \in Routes /\ clock \in Nat /\ seen \in [epoch : Nat, at : Nat]

\* The route of a facade never changes.
LEMMA RouteFixed == [FacadeNext]_facadeVars => route' = route
BY DEF FacadeNext, facadeVars, ResetOk, ResetRaises, ResetUnreadable, NewEpoch, Observe, LegalActions,
       Step, StepRefused, StepBreaks, StepUnreadable, StepRejected, StepTaken, Close, CloseRaises

\* Every call keeps the type of what the facade shows.
LEMMA FacadeShown == FacadeInv /\ FacadeInv' /\ FacadeShows /\ [FacadeNext]_facadeVars => FacadeShows'
<1> SUFFICES ASSUME FacadeInv, FacadeInv', FacadeShows, [FacadeNext]_facadeVars PROVE FacadeShows'
  OBVIOUS
<1>1. world'.at \in Nat /\ At(world) \in [epoch : Nat, at : Nat] /\ At(world') \in [epoch : Nat, at : Nat]
  BY DEF FacadeInv, FacadeType, At
<1>2. Nothing \in [epoch : Nat, at : Nat]
  BY DEF Nothing
<1>3. route' = route
  BY RouteFixed
<1>4. clock' \in {0, clock, world'.at}
  BY DEF FacadeNext, facadeVars, ResetOk, ResetRaises, ResetUnreadable, Observe, LegalActions,
         Step, StepRefused, StepBreaks, StepUnreadable, StepRejected, StepTaken, Close, CloseRaises
<1>5. seen' \in {seen, Nothing, At(world), At(world')}
  BY DEF FacadeNext, facadeVars, ResetOk, ResetRaises, ResetUnreadable, Observe, LegalActions,
         Step, StepRefused, StepBreaks, StepUnreadable, StepRejected, StepTaken, Close, CloseRaises
<1> QED  BY <1>1, <1>2, <1>3, <1>4, <1>5 DEF FacadeShows

\* As long as a facade answers, what it shows is the present of an unbroken episode.
THEOREM FacadeShowsThePresent == FacadeSpec => []ShowsThePresent
<1>1. FacadeInv => ShowsThePresent
  BY DEF FacadeInv
<1> QED  BY <1>1, FacadeStarts, FacadeKeeps, PTL DEF FacadeSpec

\* Time passes within an episode only in a step of a facade that is running.
LEMMA OnlyStepsPassTime ==
  ASSUME FacadeInv, FacadeNext, world'.epoch = world.epoch, world'.at # world.at
  PROVE  world.torn = "no" /\ Running
<1> USE DEF FacadeInv, FacadeType
<1>1. ~ResetOk /\ ~ResetRaises /\ ~ResetUnreadable
  <2>1. ASSUME NEW torn, NewEpoch(torn) PROVE world'.epoch # world.epoch
    <3>1. world'.epoch = world.epoch + 1
      BY <2>1 DEF NewEpoch
    <3> QED  BY <3>1
  <2> QED  BY <2>1 DEF ResetOk, ResetRaises, ResetUnreadable
<1>2. ~Observe /\ ~LegalActions /\ ~Close /\ ~CloseRaises
  BY DEF Observe, LegalActions, Close, CloseRaises
<1>3. ~StepRefused /\ ~StepBreaks /\ ~StepRejected
  BY DEF StepRefused, StepBreaks, StepRejected
<1>4. StepUnreadable \/ \E n \in Strides : StepTaken(n)
  BY <1>1, <1>2, <1>3 DEF FacadeNext, Step
<1>5. Running
  BY <1>4 DEF StepUnreadable, StepTaken
<1> QED  BY <1>5 DEF Running, ShowsThePresent

\* An episode in which a native call raised is never stepped again.
THEOREM BrokenEpisodesRest == FacadeSpec => BrokenNeverStepped
<1>1. FacadeInv /\ [FacadeNext]_facadeVars =>
        [world'.epoch = world.epoch /\ world'.at # world.at => world.torn = "no" /\ Running]_facadeVars
  BY OnlyStepsPassTime
<1> QED
  BY <1>1, FacadeStarts, FacadeKeeps, PTL DEF FacadeSpec, BrokenNeverStepped

(***************************************************************************)
(* The session                                                             *)
(***************************************************************************)
Document   == [action : Controls \cup {NoAction}, event : BOOLEAN, target : Nat]
Transition == [action : Controls \cup {NoAction, Waiting}, at : Nat]
Decision   == [start : Nat, stop : Nat, document : Document,
               held : Controls \cup {NoAction}, early : BOOLEAN]

Statuses == {"starting", "action_rejected", "initialization_error", "budget_exhausted",
             "model_transport_error", "model_output_budget_error", "model_format_error",
             "native_execution_error", "receipt_protocol_error", "native_terminal_reached",
             "final_verification_error", "cleanup_error"}
Owners   == {NoOwner, "infrastructure", "infrastructure_budget", "infrastructure_output_budget",
             "transport", "model_format", "model_action"}
Outcome  == [status : Statuses, owner : Owners]

SessionType ==
  /\ TypeOK
  /\ sent \in Seq(Transition) /\ made \in Seq(Decision)
  /\ outcome \in Outcome

Between   == stage \in {"open", "ask", "answered", "verify"}
Executing == stage \in {"execute", "check"}
Over      == stage \in {"close", "finished"}

\* The steps of the decision in hand are those after the last decision made; outside
\* a decision there are none, and the receipt in hand is of the last of them.
Sequenced ==
  /\ Begin <= Len(sent)
  /\ \A k \in 1..Len(made) : made[k].stop <= Len(sent)
  /\ Between => First
  /\ stage = "check" => ~First /\ clock = sent[Len(sent)].at /\ (life.terminal => clock >= NativeEnd)

\* A call is one ahead of the decisions while one is in hand.
Accounted ==
  /\ DecisionsPaid
  /\ ~Over => budget.calls = Len(made) + (IF Paying THEN 1 ELSE 0) /\ outcome = Unfinished

\* A decision that has begun has something to hold.
Blamed ==
  /\ NoHalfDecision
  /\ Executing /\ autonomous /\ ~First => Held # NoAction

\* The action of the i-th step, one of a decision whose steps begin after start.
Due(i, start, action, held) ==
  IF action # NoAction /\ (~Discrete \/ i = start + 1) THEN action
  ELSE IF Discrete THEN Waiting ELSE held

\* The decision in hand is carried out so far, and its wake is still to come.
InHand ==
  Executing =>
    \A i \in Begin + 1 .. Len(sent) :
      /\ sent[i].action = Due(i, Begin, document.action, last)
      /\ stage = "execute" \/ i < Len(sent) => sent[i].at < document.target
Carried == DecisionsCarriedOut /\ (autonomous => InHand)

SessionInv == SessionType /\ Sequenced /\ Accounted /\ Blamed /\ Carried

\* Initially nothing is decided, sent or paid.
LEMMA SessionStarts == SessionInit => SessionInv
<1> SUFFICES ASSUME SessionInit PROVE SessionInv
  OBVIOUS
<1>1. FacadeType /\ FacadeShows
  BY FacadeStarts DEF SessionInit, FacadeInv, FacadeShows, FacadeInit, Nothing
<1>2. sent = <<>> /\ made = <<>> /\ stage = "open" /\ outcome.owner = "none" /\ outcome = Unfinished
  BY DEF SessionInit, Unfinished, NoOwner
<1>3. Len(sent) = 0 /\ Len(made) = 0 /\ 1..0 = {}
  BY <1>2
<1>4. SessionType
  <2>1. TypeOK
    BY <1>1, <1>3, SessionConstants
    DEF SessionInit, FacadeType, FacadeShows, TypeOK, NoDocument
  <2>2. sent \in Seq(Transition) /\ made \in Seq(Decision)
    BY <1>2
  <2>3. outcome \in Outcome
    BY <1>2 DEF Unfinished, NoOwner, Outcome, Statuses, Owners
  <2> QED  BY <2>1, <2>2, <2>3 DEF SessionType
<1>5. Begin = 0 /\ First
  BY <1>2 DEF Begin, First
<1>6. Sequenced
  BY <1>2, <1>3, <1>5 DEF Sequenced, Between
<1>7. budget.calls = 0 /\ budget.bytes = 0
  BY DEF SessionInit
<1>8. Accounted
  BY <1>2, <1>3, <1>7, SessionConstants DEF Accounted, DecisionsPaid, Paying, Over
<1>9. Blamed
  BY <1>2, <1>5 DEF Blamed, NoHalfDecision, Executing
<1>10. Carried
  <2>1. 2..0 = {}
    OBVIOUS
  <2> QED  BY <1>2, <1>3, <2>1 DEF Carried, DecisionsCarriedOut, InHand, Executing
<1> QED  BY <1>4, <1>6, <1>8, <1>9, <1>10 DEF SessionInv

\* Every step of a session is a call of its facade or leaves the facade alone.
LEMMA SessionCallsFacade == [SessionNext]_vars => [FacadeNext]_facadeVars
<1> SUFFICES ASSUME [SessionNext]_vars PROVE FacadeNext \/ UNCHANGED facadeVars
  OBVIOUS
<1>1. CASE Open
  BY <1>1 DEF Open, FacadeNext
<1>2. CASE Execute
  BY <1>2 DEF Execute, FacadeNext, Step
<1>3. CASE ExecuteFails
  BY <1>3 DEF ExecuteFails, StepFails, FacadeNext, Step
<1>4. CASE Check \/ Wake \/ CheckFails
  BY <1>4 DEF Check, Wake, CheckFails, FacadeNext
<1>5. CASE CloseBackend
  BY <1>5 DEF CloseBackend, FacadeNext
<1>6. CASE FactoryRefuses \/ Refuse \/ Ask \/ Decode \/ Undecodable \/ NothingToHold \/ Verify
  BY <1>6 DEF FactoryRefuses, Refuse, Ask, Decode, Undecodable, NothingToHold, Verify
<1>7. CASE UNCHANGED vars
  BY <1>7 DEF vars
<1> QED
  BY <1>1, <1>2, <1>3, <1>4, <1>5, <1>6, <1>7 DEF SessionNext

\* A session uses its facade within the facade's contract: what is proved of the
\* facade under any caller holds in a session.
THEOREM SessionUsesTheFacade == SessionSpec => FacadeSpec
<1>1. SessionInit => FacadeInit
  BY DEF SessionInit
<1> QED  BY <1>1, SessionCallsFacade, PTL DEF SessionSpec, FacadeSpec

\* A session that ends keeps its books: it may blame the budget only when every call
\* it paid for has become a decision, and the model, the transport or a budget only
\* when no decision has begun.
LEMMA EndsInOrder ==
  ASSUME SessionInv, FacadeInv', FacadeShows', route' = route, Over',
         UNCHANGED <<autonomous, budget, size, document, last, sent, made>>,
         outcome' \in Outcome,
         outcome'.owner = "infrastructure_budget" => budget.calls = Len(made),
         outcome'.owner \in {"model_format", "transport", "infrastructure_budget",
                              "infrastructure_output_budget"} => First
  PROVE  SessionInv'
<1>1. SessionType'
  BY DEF SessionInv, SessionType, TypeOK, Over, FacadeInv, FacadeType, FacadeShows
<1>2. Begin' = Begin /\ First' = First
  BY DEF Begin, First
<1>3. Sequenced'
  BY <1>2 DEF SessionInv, Sequenced, Over, Between
<1>4. Len(made) \in Nat /\ budget.calls \in Nat /\ ~Paying'
  BY DEF SessionInv, SessionType, TypeOK, Over, Paying
<1>5. Accounted'
  BY <1>4 DEF SessionInv, Accounted, DecisionsPaid, Over
<1>6. Blamed'
  BY <1>2 DEF Blamed, NoHalfDecision, Over, Executing
<1>7. Carried'
  BY DEF SessionInv, Carried, DecisionsCarriedOut, CarriedOut, Discrete, Over, InHand, Executing
<1> QED  BY <1>1, <1>3, <1>5, <1>6, <1>7 DEF SessionInv

\* The steps that end a session.
LEMMA EndKeeps ==
  ASSUME SessionInv, FacadeInv', FacadeShows', route' = route,
         FactoryRefuses \/ (Open /\ Over') \/ Refuse \/ Undecodable \/ NothingToHold \/ ExecuteFails
           \/ CheckFails \/ Verify \/ CloseBackend
  PROVE  SessionInv'
<1> USE DEF Owners, Statuses, NoOwner
<1>1. /\ stage = "answered" => First
      /\ stage = "ask" => First /\ budget.calls = Len(made)
      /\ outcome \in Outcome
      /\ outcome.owner = "infrastructure_budget" => budget.calls = Len(made)
      /\ NoHalfDecision
  BY DEF SessionInv, SessionType, Sequenced, Accounted, DecisionsPaid, Blamed, Between, Over, Paying, TypeOK
<1>2. ASSUME NEW status \in Statuses, NEW owner \in Owners, End(status, owner),
             owner = "infrastructure_budget" => budget.calls = Len(made),
             owner \in {"model_format", "transport", "infrastructure_budget",
                        "infrastructure_output_budget"} => First
      PROVE  SessionInv'
  <2>1. outcome' \in Outcome /\ outcome'.owner = owner
    BY <1>2 DEF End, Outcome
  <2> QED  BY <1>2, <2>1, EndsInOrder DEF End, Over
<1>3. CASE FactoryRefuses
  <2>1. outcome' \in Outcome /\ outcome'.owner = "infrastructure"
    BY <1>3 DEF FactoryRefuses, Outcome
  <2> QED  BY <1>3, <2>1, EndsInOrder DEF FactoryRefuses, Over
<1>4. CASE Open /\ Over'
  <2>1. End("initialization_error", "infrastructure")
    BY <1>4 DEF Open, Over
  <2> QED  BY <1>2, <2>1
<1>5. CASE Refuse
  BY <1>1, <1>2, <1>5 DEF Refuse
<1>6. CASE Undecodable
  BY <1>1, <1>2, <1>6 DEF Undecodable
<1>7. CASE NothingToHold
  <2>1. First
    BY <1>7 DEF NothingToHold, SessionInv, Blamed, Executing
  <2> QED  BY <1>2, <1>7, <2>1 DEF NothingToHold
<1>8. CASE ExecuteFails
  BY <1>2, <1>8 DEF ExecuteFails
<1>9. CASE CheckFails
  BY <1>2, <1>9 DEF CheckFails
<1>10. CASE Verify
  BY <1>2, <1>10 DEF Verify
<1>11. CASE CloseBackend
  <2>1. outcome' \in Outcome /\ outcome'.owner = outcome.owner
    BY <1>1, <1>11 DEF CloseBackend, Outcome
  <2> QED  BY <1>1, <1>11, <2>1, EndsInOrder DEF CloseBackend, Over, NoHalfDecision
<1> QED  BY <1>3, <1>4, <1>5, <1>6, <1>7, <1>8, <1>9, <1>10, <1>11

\* The wake of a decision is a time.
LEMMA TargetIsTime == ASSUME clock \in Nat, NEW d \in Nat PROVE Target(d) \in Nat
<1>1. d + Tick - 1 \in Nat
  BY FacadeConstants
<1>2. (d + Tick - 1) \div Tick \in Nat
  BY <1>1, FacadeConstants
<1>3. \A n \in Nat : clock + n * Tick \in Nat
  BY FacadeConstants
<1> QED  BY <1>2, <1>3, SessionConstants DEF Target

\* Between decisions, and from a question to the first step, nothing is sent or made.
LEMMA AskKeeps ==
  ASSUME SessionInv, FacadeInv', FacadeShows', route' = route, (Open /\ ~Over') \/ Ask
  PROVE  SessionInv'
<1> USE DEF Owners, Statuses, NoOwner
<1>1. /\ UNCHANGED <<autonomous, document, last, sent, made>>
      /\ stage' \in {"ask", "verify", "answered", "close"}
      /\ First /\ size' \in Nat
  BY SessionConstants
  DEF SessionInv, SessionType, TypeOK, Sequenced, Between, Open, Ask, Over, End
<1>2. Len(made) \in Nat /\ budget.calls \in Nat /\ budget.bytes \in Nat /\ size \in Nat
  BY DEF SessionInv, SessionType, TypeOK
<1>3. CASE Open /\ ~Over'
  <2>1. budget' = budget /\ outcome' = outcome /\ stage = "open" /\ stage' \in {"ask", "verify"}
    BY <1>3 DEF Open, End, Over
  <2>2. Accounted'
    BY <1>1, <1>2, <2>1 DEF SessionInv, Accounted, DecisionsPaid, Over, Paying
  <2>3. SessionType'
    BY <1>1, <2>1 DEF SessionInv, SessionType, TypeOK, FacadeInv, FacadeType, FacadeShows
  <2>4. Begin' = Begin /\ First' = First
    BY <1>1 DEF Begin, First
  <2>5. Sequenced'
    BY <1>1, <2>1, <2>4 DEF SessionInv, Sequenced, Between
  <2>6. Blamed'
    BY <1>1, <2>1, <2>4 DEF SessionInv, Blamed, NoHalfDecision, Executing
  <2>7. Carried'
    BY <1>1, <2>1 DEF SessionInv, Carried, DecisionsCarriedOut, CarriedOut, Discrete, InHand, Executing
  <2> QED  BY <2>2, <2>3, <2>5, <2>6, <2>7 DEF SessionInv
<1>4. CASE Ask
  <2>1. /\ budget' = [calls |-> budget.calls + 1, bytes |-> budget.bytes + size]
        /\ budget'.calls = budget.calls + 1 /\ budget'.bytes = budget.bytes + size
        /\ budget' \in [calls : Nat, bytes : Nat]
    BY <1>2, <1>4 DEF Ask
  <2>2. budget.calls = Len(made) /\ outcome = Unfinished /\ budget.calls < MaxCalls
        /\ budget.bytes + size <= MaxTotal /\ stage = "ask"
    BY <1>2, <1>4, SessionConstants DEF SessionInv, Accounted, Ask, OverBudget, Over, Paying
  <2>3. \/ stage' = "answered" /\ outcome' = Unfinished
        \/ stage' = "close" /\ outcome' = [status |-> "model_transport_error", owner |-> "transport"]
    BY <1>4, <2>2 DEF Ask
  <2>4. outcome' \in Outcome /\ outcome'.owner # "infrastructure_budget"
    BY <2>3 DEF Outcome, Unfinished
  <2>5. Accounted'
    BY <1>1, <1>2, <2>1, <2>2, <2>3, <2>4, SessionConstants DEF Accounted, DecisionsPaid, Over, Paying
  <2>6. SessionType'
    BY <1>1, <1>2, <1>4, <2>1, <2>4 DEF Ask, SessionInv, SessionType, TypeOK, FacadeInv, FacadeType, FacadeShows
  <2>7. Begin' = Begin /\ First' = First
    BY <1>1 DEF Begin, First
  <2>8. Sequenced'
    BY <1>1, <2>3, <2>7 DEF SessionInv, Sequenced, Between
  <2>9. Blamed'
    BY <1>1, <2>3, <2>7 DEF SessionInv, Blamed, NoHalfDecision, Executing
  <2>10. Carried'
    BY <1>1, <2>3 DEF SessionInv, Carried, DecisionsCarriedOut, CarriedOut, Discrete, InHand, Executing
  <2> QED  BY <2>5, <2>6, <2>8, <2>9, <2>10 DEF SessionInv
<1> QED  BY <1>3, <1>4

\* A decoded decision has begun nothing.
LEMMA DecodeKeeps ==
  ASSUME SessionInv, FacadeInv', FacadeShows, FacadeShows', route' = route, Decode
  PROVE  SessionInv'
<1>1. /\ stage = "answered" /\ stage' = "execute"
      /\ UNCHANGED <<autonomous, budget, size, last, sent, made, outcome>>
  BY DEF Decode
<1>2. document' \in Document
  <2>1. PICK action \in Controls \cup {NoAction}, d \in Durations, event \in BOOLEAN :
          document' = [action |-> action,
                       event  |-> autonomous /\ event,
                       target |-> IF autonomous THEN Target(d) ELSE clock]
    BY DEF Decode
  <2>2. (IF autonomous THEN Target(d) ELSE clock) \in Nat
    BY TargetIsTime, SessionConstants DEF FacadeShows
  <2>3. (autonomous /\ event) \in BOOLEAN
    OBVIOUS
  <2> QED  BY <2>1, <2>2, <2>3 DEF Document
<1>3. First /\ Begin' = Begin /\ First'
  BY <1>1 DEF SessionInv, Sequenced, Between, Begin, First
<1>4. SessionType'
  BY <1>1, <1>2 DEF SessionInv, SessionType, TypeOK, Document, FacadeInv, FacadeType, FacadeShows
<1>5. Sequenced'
  BY <1>1, <1>3 DEF SessionInv, Sequenced, Between
<1>6. Accounted'
  BY <1>1 DEF SessionInv, Accounted, DecisionsPaid, Over, Paying
<1>7. Blamed'
  BY <1>1, <1>3 DEF SessionInv, Blamed, NoHalfDecision
<1>8. Carried'
  <2>1. Begin' + 1 .. Len(sent') = {}
    BY <1>3 DEF First, SessionInv, SessionType
  <2>2. InHand'
    BY <2>1 DEF InHand
  <2> QED  BY <1>1, <2>2 DEF SessionInv, Carried, DecisionsCarriedOut, CarriedOut, Discrete
<1> QED  BY <1>4, <1>5, <1>6, <1>7, <1>8 DEF SessionInv

\* What the report's lists hold.
LEMMA ReportTyped ==
  ASSUME SessionInv
  PROVE  /\ \A k \in 1..Len(made) : made[k] \in Decision /\ made[k].stop \in Nat
         /\ \A i \in 1..Len(sent) : sent[i] \in Transition
         /\ Len(made) \in Nat /\ Len(sent) \in Nat
         /\ Begin \in Nat /\ Begin <= Len(sent)
<1>1. /\ \A k \in 1..Len(made) : made[k] \in Decision
      /\ \A i \in 1..Len(sent) : sent[i] \in Transition
      /\ Len(made) \in Nat /\ Len(sent) \in Nat
      /\ made # <<>> => Len(made) \in 1..Len(made)
  BY DEF SessionInv, SessionType
<1>2. \A d \in Decision : d.stop \in Nat
  BY DEF Decision
<1> QED  BY <1>1, <1>2 DEF Begin, SessionInv, Sequenced

\* A native step is what the decision in hand asks for, before its wake.
LEMMA ExecuteKeeps ==
  ASSUME SessionInv, FacadeInv', FacadeShows, FacadeShows', route' = route, Execute
  PROVE  SessionInv'
<1> DEFINE step == [action |-> Held, at |-> clock']
<1>1. /\ stage = "execute" /\ stage' = "check" /\ Held # NoAction
      /\ UNCHANGED <<autonomous, budget, size, document, last, made, outcome>>
      /\ sent' = Append(sent, step)
      /\ life'.terminal => clock' >= NativeEnd
  <2>1. PICK n \in Strides : StepTaken(n)
    BY DEF Execute
  <2>2. life'.terminal => clock' >= NativeEnd
    BY <2>1 DEF StepTaken, Running, Usable, FacadeInv, FacadeType
  <2> QED  BY <2>2 DEF Execute
<1>2. step \in Transition
  BY DEF SessionInv, SessionType, TypeOK, FacadeShows, Held, Transition
<1>3. /\ sent \in Seq(Transition) /\ sent' \in Seq(Transition)
      /\ Len(sent) \in Nat /\ Len(sent') = Len(sent) + 1
      /\ \A i \in 1..Len(sent) : sent'[i] = sent[i]
      /\ sent'[Len(sent) + 1] = step
  BY <1>1, <1>2 DEF SessionInv, SessionType
<1>4. Begin' = Begin /\ Begin \in Nat /\ Begin <= Len(sent)
  BY <1>1, ReportTyped DEF Begin
<1>5. ~First'
  BY <1>3, <1>4 DEF First
<1>6. SessionType'
  <2>1. \A i \in 1..Len(sent') : sent'[i].action \in Controls \cup {NoAction, Waiting}
    <3>1. \A i \in 1..Len(sent') : sent'[i] \in Transition
      BY <1>3
    <3> QED  BY <3>1 DEF Transition
  <2> QED
    BY <1>1, <1>3, <2>1 DEF SessionInv, SessionType, TypeOK, FacadeInv, FacadeType, FacadeShows
<1>7. Sequenced'
  <2>1. \A k \in 1..Len(made) : made[k].stop \in Nat /\ made[k].stop <= Len(sent)
    BY ReportTyped DEF SessionInv, Sequenced
  <2>2. \A k \in 1..Len(made') : made'[k].stop <= Len(sent')
    BY <1>1, <1>3, <2>1
  <2>3. clock' = sent'[Len(sent')].at
    BY <1>3
  <2> QED  BY <1>1, <1>3, <1>4, <1>5, <2>2, <2>3 DEF Sequenced, Between
<1>8. Accounted'
  BY <1>1 DEF SessionInv, Accounted, DecisionsPaid, Over, Paying
<1>9. Blamed'
  <2>1. outcome'.owner = "none"
    BY <1>1 DEF SessionInv, Accounted, Over, Unfinished, NoOwner
  <2>2. autonomous => Held' # NoAction
    BY <1>1, <1>5, SessionConstants DEF Held, NoAction, Waiting
  <2> QED  BY <1>1, <2>1, <2>2 DEF Blamed, NoHalfDecision
<1>10. Carried'
  <2>1. \A d \in Decision : d.stop <= Len(sent) /\ CarriedOut(d) => CarriedOut(d)'
    <3> SUFFICES ASSUME NEW d \in Decision, d.stop <= Len(sent), CarriedOut(d) PROVE CarriedOut(d)'
      OBVIOUS
    <3>1. d.start \in Nat /\ d.stop \in Nat
      BY DEF Decision
    <3>2. \A i \in d.start + 1 .. d.stop : sent'[i] = sent[i]
      BY <1>3, <3>1
    <3>3. sent'[d.stop] = sent[d.stop]
      BY <1>3, <3>1 DEF CarriedOut
    <3> QED  BY <3>2, <3>3 DEF CarriedOut, Discrete
  <2>2. DecisionsCarriedOut'
    BY <1>1, <2>1 DEF SessionInv, SessionType, Sequenced, Carried, DecisionsCarriedOut
  <2>3. ASSUME autonomous PROVE InHand'
    <3> DEFINE due(i) == Due(i, Begin, document.action, last)
    <3>1. \A i \in Begin + 1 .. Len(sent) : sent[i].action = due(i) /\ sent[i].at < document.target
      BY <1>1, <2>3 DEF SessionInv, Carried, InHand, Executing
    <3>2. Held = due(Len(sent) + 1)
      <4>1. First <=> Len(sent) + 1 = Begin + 1
        BY <1>3, <1>4 DEF First
      <4> QED  BY <1>1, <2>3, <4>1 DEF Due, Held, Discrete
    <3>3. \A i : Due(i, Begin, document.action, last)' = due(i)
      BY <1>1, <1>4 DEF Due, Discrete
    <3> HIDE DEF due
    <3>4. \A i \in Begin + 1 .. Len(sent') :
            sent'[i].action = due(i) /\ (i < Len(sent') => sent'[i].at < document.target)
      <4> SUFFICES ASSUME NEW i \in Begin + 1 .. Len(sent')
                   PROVE  sent'[i].action = due(i) /\ (i < Len(sent') => sent'[i].at < document.target)
        OBVIOUS
      <4>1. CASE i = Len(sent) + 1
        BY <1>3, <3>2, <4>1
      <4>2. CASE i # Len(sent) + 1
        <5>1. i \in Begin + 1 .. Len(sent) /\ i \in 1..Len(sent)
          BY <1>3, <1>4, <4>2
        <5> QED  BY <1>3, <3>1, <5>1
      <4> QED  BY <4>1, <4>2
    <3> QED  BY <1>1, <1>4, <3>3, <3>4 DEF InHand
  <2> QED  BY <1>1, <2>2, <2>3 DEF Carried
<1> QED  BY <1>6, <1>7, <1>8, <1>9, <1>10 DEF SessionInv

\* What an answered observation leaves of the facade.
LEMMA ObserveLeaves == Observe => UNCHANGED <<life, clock>>
BY DEF Observe

\* The next interval is begun only before the wake.
LEMMA CheckKeeps ==
  ASSUME SessionInv, FacadeInv', FacadeShows, FacadeShows', route' = route, Check
  PROVE  SessionInv'
<1>1. /\ stage = "check" /\ stage' = "execute" /\ clock' = clock
      /\ UNCHANGED <<autonomous, budget, size, document, last, sent, made, outcome>>
  BY ObserveLeaves DEF Check
<1>2. Begin' = Begin /\ First' = First
  BY <1>1 DEF Begin, First
<1>3. SessionType'
  BY <1>1 DEF SessionInv, SessionType, TypeOK, FacadeInv, FacadeType, FacadeShows
<1>4. Sequenced'
  BY <1>1, <1>2 DEF SessionInv, Sequenced, Between
<1>5. Accounted'
  BY <1>1 DEF SessionInv, Accounted, DecisionsPaid, Over, Paying
<1>6. Blamed'
  <2>1. Held' = Held
    BY <1>1, <1>2 DEF Held
  <2> QED  BY <1>1, <1>2, <2>1 DEF SessionInv, Blamed, NoHalfDecision, Executing
<1>7. Carried'
  <2>1. DecisionsCarriedOut'
    BY <1>1 DEF SessionInv, Carried, DecisionsCarriedOut, CarriedOut, Discrete
  <2>2. ASSUME autonomous PROVE InHand'
    <3>1. sent[Len(sent)].at < document.target
      <4>1. clock \in Nat /\ document.target \in Nat /\ ~(clock >= document.target)
        BY <2>2 DEF FacadeShows, SessionInv, SessionType, TypeOK, Check, Woken
      <4> QED  BY <1>1, <4>1 DEF SessionInv, Sequenced
    <3>2. \A i \in Begin + 1 .. Len(sent) : i < Len(sent) \/ i = Len(sent)
      BY DEF SessionInv, SessionType
    <3> QED  BY <1>1, <1>2, <2>2, <3>1, <3>2 DEF SessionInv, Carried, InHand, Executing, Due, Discrete
  <2> QED  BY <1>1, <2>1, <2>2 DEF Carried
<1> QED  BY <1>3, <1>4, <1>5, <1>6, <1>7 DEF SessionInv

\* A decision that ends has been carried out from its first step to its wake.
LEMMA WakeKeeps ==
  ASSUME SessionInv, FacadeInv', FacadeShows, FacadeShows', route' = route, Wake
  PROVE  SessionInv'
<1> DEFINE done == [start |-> Begin, stop |-> Len(sent), document |-> document,
                    held |-> last, early |-> ~Woken]
<1>1. /\ stage = "check" /\ stage' \in {"verify", "ask"} /\ UNCHANGED <<life, clock>>
      /\ made' = Append(made, done) /\ document' = NoDocument
      /\ last' \in {last, document.action}
      /\ size' = size + 1 + (Len(sent) - Begin)
      /\ UNCHANGED <<autonomous, budget, sent, outcome>>
  BY ObserveLeaves DEF Wake
<1>2. /\ Begin \in Nat /\ Len(sent) \in Nat /\ Begin < Len(sent)
      /\ clock = sent[Len(sent)].at /\ (life.terminal => clock >= NativeEnd)
  BY <1>1, ReportTyped DEF SessionInv, Sequenced, First
<1>3. done \in Decision
  <2>1. document \in Document /\ last \in Controls \cup {NoAction} /\ (~Woken) \in BOOLEAN
    BY DEF SessionInv, SessionType, TypeOK, Document
  <2> QED  BY <1>2, <2>1 DEF Decision
<1>4. /\ made \in Seq(Decision) /\ made' \in Seq(Decision) /\ made' # <<>>
      /\ Len(made) \in Nat /\ Len(made') = Len(made) + 1
      /\ \A k \in 1..Len(made) : made'[k] = made[k]
      /\ made'[Len(made) + 1] = done
  BY <1>1, <1>3 DEF SessionInv, SessionType
<1> HIDE DEF done
<1>5. done.start = Begin /\ done.stop = Len(sent)
  BY DEF done
<1>6. Begin' = Len(sent) /\ First'
  BY <1>1, <1>4, <1>5 DEF Begin, First
<1>7. SessionType'
  <2>1. size' \in Nat
    <3>1. Len(sent) - Begin \in Nat
      BY <1>2
    <3>2. size \in Nat
      BY DEF SessionInv, SessionType, TypeOK
    <3> QED  BY <1>1, <3>1, <3>2
  <2>2. document' \in Document /\ last' \in Controls \cup {NoAction}
    BY <1>1 DEF NoDocument, SessionInv, SessionType, TypeOK, Document
  <2> QED
    BY <1>1, <1>4, <2>1, <2>2 DEF SessionInv, SessionType, TypeOK, Document, FacadeInv, FacadeType, FacadeShows
<1>8. Sequenced'
  <2>1. \A k \in 1..Len(made) : made[k].stop <= Len(sent)
    BY DEF SessionInv, Sequenced
  <2>2. \A k \in 1..Len(made') : made'[k].stop <= Len(sent')
    BY <1>1, <1>2, <1>4, <1>5, <2>1
  <2> QED  BY <1>1, <1>2, <1>6, <2>2 DEF Sequenced, Between
<1>9. Accounted'
  <2>1. budget.calls \in Nat /\ budget.bytes \in Nat
    BY DEF SessionInv, SessionType, TypeOK
  <2>2. outcome.owner = "none" /\ outcome = Unfinished
    BY <1>1 DEF SessionInv, Accounted, Over, Unfinished, NoOwner
  <2>3. Accounted /\ Paying /\ ~Over /\ ~Paying' /\ ~Over'
    BY <1>1 DEF SessionInv, Paying, Over
  <2> QED  BY <1>1, <1>4, <2>1, <2>2, <2>3 DEF Accounted, DecisionsPaid
<1>10. Blamed'
  BY <1>1, <1>6 DEF SessionInv, Blamed, NoHalfDecision, Executing
<1>11. Carried'
  <2>1. ~Executing'
    BY <1>1 DEF Executing
  <2>2. ASSUME autonomous PROVE DecisionsCarriedOut'
    <3>1. ASSUME NEW d \in Decision, d = done PROVE CarriedOut(d)'
      <4>1. \A i \in Begin + 1 .. Len(sent) :
              sent[i].action = Due(i, Begin, document.action, last)
              /\ (i < Len(sent) => sent[i].at < document.target)
        BY <1>1, <2>2 DEF SessionInv, Carried, InHand, Executing
      <4>2. /\ d.document = document /\ d.held = last /\ d.start = Begin /\ d.stop = Len(sent)
            /\ ~d.early => life.terminal \/ clock >= document.target
        BY <2>2, <3>1 DEF done, Woken
      <4>3. CarriedOut(d)
        BY <1>2, <4>1, <4>2 DEF CarriedOut, Due
      <4> QED  BY <1>1, <4>3 DEF CarriedOut, Discrete
    <3>2. ASSUME NEW d \in Decision, CarriedOut(d) PROVE CarriedOut(d)'
      BY <1>1, <3>2 DEF CarriedOut, Discrete
    <3>3. DecisionsCarriedOut
      BY DEF SessionInv, Carried
    <3>4. \A k \in 1..Len(made') : CarriedOut(made[k])'
      <4> SUFFICES ASSUME NEW k \in 1..Len(made') PROVE CarriedOut(made[k])'
        OBVIOUS
      <4>1. CASE k = Len(made) + 1
        BY <1>3, <1>4, <3>1, <4>1
      <4>2. CASE k # Len(made) + 1
        <5>1. k \in 1..Len(made) /\ made'[k] = made[k] /\ made[k] \in Decision
          BY <1>4, <4>2
        <5>2. CarriedOut(made[k])
          BY <2>2, <3>3, <5>1 DEF DecisionsCarriedOut
        <5> QED  BY <3>2, <5>1, <5>2
      <4> QED  BY <4>1, <4>2
    <3>5. \A k \in 2..Len(made') : made'[k].start = made'[k - 1].stop
      <4> SUFFICES ASSUME NEW k \in 2..Len(made') PROVE made'[k].start = made'[k - 1].stop
        OBVIOUS
      <4>1. CASE k = Len(made) + 1
        <5>1. made # <<>> /\ k - 1 = Len(made) /\ Len(made) \in 1..Len(made)
          BY <1>4, <4>1
        <5> QED  BY <1>4, <1>5, <4>1, <5>1 DEF Begin
      <4>2. CASE k # Len(made) + 1
        <5>1. k \in 2..Len(made) /\ made'[k] = made[k] /\ made'[k - 1] = made[k - 1]
          BY <1>4, <4>2
        <5> QED  BY <2>2, <3>3, <5>1 DEF DecisionsCarriedOut
      <4> QED  BY <4>1, <4>2
    <3> QED  BY <3>4, <3>5 DEF DecisionsCarriedOut
  <2>3. ~autonomous => DecisionsCarriedOut'
    BY <1>1 DEF DecisionsCarriedOut
  <2> QED  BY <1>1, <2>1, <2>2, <2>3 DEF Carried, InHand
<1> QED  BY <1>7, <1>8, <1>9, <1>10, <1>11 DEF SessionInv

\* Every step of a session keeps the session's invariant.
LEMMA SessionKeeps ==
  FacadeInv /\ FacadeInv' /\ FacadeShows /\ FacadeShows' /\ SessionInv /\ [SessionNext]_vars => SessionInv'
<1> SUFFICES ASSUME FacadeInv, FacadeInv', FacadeShows, FacadeShows', SessionInv, [SessionNext]_vars
             PROVE  SessionInv'
  OBVIOUS
<1>1. route' = route
  BY SessionCallsFacade, RouteFixed
<1>2. CASE FactoryRefuses \/ (Open /\ Over') \/ Refuse \/ Undecodable \/ NothingToHold \/ ExecuteFails
             \/ CheckFails \/ Verify \/ CloseBackend
  BY <1>1, <1>2, EndKeeps
<1>3. CASE (Open /\ ~Over') \/ Ask
  BY <1>1, <1>3, AskKeeps
<1>4. CASE Decode
  BY <1>1, <1>4, DecodeKeeps
<1>5. CASE Execute
  BY <1>1, <1>5, ExecuteKeeps
<1>6. CASE Check
  BY <1>1, <1>6, CheckKeeps
<1>7. CASE Wake
  BY <1>1, <1>7, WakeKeeps
<1>8. CASE UNCHANGED vars
  <2>1. UNCHANGED <<sessionVars, facadeVars>>
    BY <1>8 DEF vars
  <2>2. Begin' = Begin /\ First' = First /\ Held' = Held
    BY <2>1 DEF sessionVars, facadeVars, Begin, First, Held
  <2>3. SessionType' /\ Sequenced' /\ Accounted' /\ Blamed'
    BY <2>1, <2>2
    DEF sessionVars, facadeVars, SessionInv, SessionType, TypeOK, Sequenced, Between, Accounted,
        DecisionsPaid, Paying, Over, Blamed, NoHalfDecision, Executing
  <2>4. Carried'
    BY <2>1, <2>2
    DEF sessionVars, facadeVars, SessionInv, Carried, DecisionsCarriedOut, CarriedOut, InHand, Due,
        Executing, Discrete
  <2> QED  BY <2>3, <2>4 DEF SessionInv
<1> QED  BY <1>2, <1>3, <1>4, <1>5, <1>6, <1>7, <1>8 DEF SessionNext

\* In every session the facade's and the session's invariants hold together.
LEMMA SessionInvariant == SessionSpec => [](FacadeInv /\ FacadeShows /\ SessionInv)
<1>1. SessionInit => FacadeInv /\ FacadeShows /\ SessionInv
  BY FacadeStarts, SessionStarts DEF SessionInit, FacadeShows, FacadeInit, Nothing
<1>2. FacadeInv /\ FacadeShows /\ SessionInv /\ [SessionNext]_vars
        => FacadeInv' /\ FacadeShows' /\ SessionInv'
  BY SessionCallsFacade, FacadeKeeps, FacadeShown, SessionKeeps
<1> QED  BY <1>1, <1>2, PTL DEF SessionSpec

\* Every variable of a session and of its facade has its type, whatever the model
\* answers and the native side does.
THEOREM SessionsAreTyped == SessionSpec => []TypeOK
<1>1. SessionInv => TypeOK
  BY DEF SessionInv, SessionType
<1> QED  BY <1>1, SessionInvariant, PTL

\* Every decision is paid for once and before it is made, within the budget.
THEOREM SessionsPay == SessionSpec => []DecisionsPaid
<1>1. SessionInv => DecisionsPaid
  BY DEF SessionInv, Accounted
<1> QED  BY <1>1, SessionInvariant, PTL

\* A session that blames the model's format, the transport or a budget has left no
\* native step that is not a reported decision's.
THEOREM SessionsDoNothingByHalves == SessionSpec => []NoHalfDecision
<1>1. SessionInv => NoHalfDecision
  BY DEF SessionInv, Blamed
<1> QED  BY <1>1, SessionInvariant, PTL

\* The native steps of every reported decision are those it asks for: a command
\* once, a setpoint at each, none after the wake; and no step is between decisions.
THEOREM SessionsCarryOut == SessionSpec => []DecisionsCarriedOut
<1>1. SessionInv => DecisionsCarriedOut
  BY DEF SessionInv, Carried
<1> QED  BY <1>1, SessionInvariant, PTL

=============================================================================
