---------------------------- MODULE BackendProofs ----------------------------
(***************************************************************************)
(* Rules and calls of the backend, proved for every instance of Workflow.   *)
(*                                                                         *)
(* The life of installed rules: a rule is installed exactly while it has a  *)
(* duty ahead (RuleWindow), ids and sequence numbers are distinct           *)
(* (RulesDistinct), and the rules implement the abstract book of timers     *)
(* (RulesKeepTime).                                                        *)
(*                                                                         *)
(* A call: every command that takes effect is allowed by the state it finds *)
(* (AppliedLegal), no event is lost, repeated or reordered on its way to    *)
(* the agent (EventsDelivered), waits end with their event and within the   *)
(* horizon (WaitNeverOvershoots, WaitWithinHorizon), and no rule disappears *)
(* unheard of (NoSilentRetirement).                                        *)
(***************************************************************************)
EXTENDS WorkflowProperties, SequenceTheorems, WellFoundedInduction, TLAPS

Phases == {"execute", "accepted", "firing", "releasing", "exogenous", "clocks", "dynamics"}

\* What the rules, and the part of a tick that processes them, are made of.
RuleTypes ==
  /\ step \in Nat /\ ruleSeq \in Nat
  /\ rules \subseteq Rule
  /\ todo \subseteq rules /\ current \in rules \cup {NoRule}
  /\ phase \in Phases

RuleShape ==
  \A r \in rules : r.seq < ruleSeq /\ (r.release # 0 => r.fire < r.release)

\* The rule in hand is the earliest of those left, and no rule is in hand or left
\* outside the two phases that process rules.
RuleTurn ==
  /\ current \notin todo
  /\ current # NoRule => \A q \in todo : current.seq <= q.seq
  /\ phase \notin {"firing", "releasing"} => todo = {} /\ current = NoRule
  /\ phase \in {"firing", "releasing"} => step > 0

RuleInv == RuleTypes /\ RuleShape /\ RulesDistinct /\ RuleTurn /\ RuleWindow

ruleState == <<step, rules, ruleSeq, todo, current>>

\* Initially there are no rules.
LEMMA RuleInit == Init => RuleInv
<1> SUFFICES ASSUME Init PROVE RuleInv
  OBVIOUS
<1>1. /\ step = 0 /\ ruleSeq = 0 /\ rules = {} /\ todo = {} /\ current = NoRule
      /\ phase = "execute"
  BY DEF Init
<1> QED BY <1>1 DEF RuleInv, RuleTypes, RuleShape, RulesDistinct, RuleTurn, RuleWindow, Phases

\* The devices move without touching rules, clock or control.
LEMMA DynamicsFrame ==
  ASSUME Dynamics
  PROVE  UNCHANGED ruleState /\ UNCHANGED <<phase, batch, wait, scenario, exog, cost, household, runtime>>
         /\ phase = "dynamics"
BY DEF Dynamics, Washer, Dishwasher, Cycle, VacuumCleans, VacuumReturns, VacuumCharges, Garage,
   Lock, IntercomRings, IntercomAnswered, Fridge, Stove, Bathroom, CoffeeBrews, CoffeeCools,
   Alarm, Supply, Becomes, Turn, ruleState, ruleVars, outsideVars

\* Most steps leave rules and clock alone and stay outside the phases that process
\* rules, or inside one of them.
LEMMA RuleFrame ==
  ASSUME RuleInv, UNCHANGED ruleState,
         \/ phase' = phase
         \/ phase \notin {"firing", "releasing"} /\ phase' \in Phases \ {"firing", "releasing"}
  PROVE  RuleInv'
BY DEF RuleInv, RuleTypes, RuleShape, RulesDistinct, RuleTurn, RuleWindow, Phases, Handled,
   Waiting, Released, ruleState

\* An installed rule has a fresh id, the highest number, and its firing ahead.
LEMMA RuleInstalled ==
  ASSUME RuleInv, NEW t \in Template, InstallRule(t)
  PROVE  RuleInv'
<1>1. phase = "execute" /\ phase' = "accepted" /\ UNCHANGED <<step, todo, current>>
  BY DEF InstallRule, Idle, Accept
<1> DEFINE n == [id |-> t.id, fire |-> t.fire, release |-> t.release, cmds |-> t.cmds,
                 rel |-> t.rel, seq |-> ruleSeq]
<1>2. rules' = rules \cup {n} /\ ruleSeq' = ruleSeq + 1
  BY DEF InstallRule
<1>3. n \in Rule
  BY DEF Rule, Template, RuleInv, RuleTypes
<1>4. /\ \A r \in rules : r.id # n.id /\ r.seq < n.seq
      /\ step < n.fire /\ (n.release # 0 => n.fire < n.release)
  BY DEF InstallRule, RuleOk, RuleInv, RuleShape
<1>5. todo = {} /\ current = NoRule
  BY <1>1 DEF RuleInv, RuleTurn
<1>6. RuleTypes'
  BY <1>1, <1>2, <1>3 DEF RuleInv, RuleTypes, Phases
<1>7. RuleShape'
  BY <1>2, <1>4 DEF RuleInv, RuleTypes, RuleShape, Rule
<1>8. RulesDistinct'
  BY <1>2, <1>4, SMT DEF RuleInv, RuleTypes, RulesDistinct, Rule
<1>9. RuleTurn'
  BY <1>1, <1>5 DEF RuleTurn
<1>10. RuleWindow'
  <2>1. \A r \in rules' : ~Handled(r)'
    BY <1>1, <1>2, <1>3, <1>5, InputAssumption DEF Handled, RuleInv, RuleTypes
  <2>2. \A r \in rules : Waiting(r) \/ Released(r)
    BY <1>1, <1>5, InputAssumption DEF RuleInv, RuleTypes, RuleWindow, Handled
  <2> QED BY <1>1, <1>2, <1>4, <2>1, <2>2 DEF RuleWindow, Waiting, Released
<1> QED BY <1>6, <1>7, <1>8, <1>9, <1>10 DEF RuleInv

\* Cancelling takes one rule away and disturbs no other.
LEMMA RuleCancelled ==
  ASSUME RuleInv, NEW r \in rules, CancelRule(r)
  PROVE  RuleInv'
<1>1. /\ phase = "execute" /\ phase' = "accepted" /\ UNCHANGED <<step, ruleSeq, todo, current>>
      /\ rules' = rules \ {r}
  BY DEF CancelRule, Idle, Accept
<1>2. todo = {} /\ current = NoRule
  BY <1>1 DEF RuleInv, RuleTurn
<1>3. RuleTypes' /\ RuleShape' /\ RulesDistinct' /\ RuleTurn'
  BY <1>1, <1>2 DEF RuleInv, RuleTypes, RuleShape, RulesDistinct, RuleTurn, Phases
<1>4. RuleWindow'
  BY <1>1, <1>2 DEF RuleInv, RuleWindow, Waiting, Released, Handled
<1> QED BY <1>3, <1>4 DEF RuleInv

\* When a tick starts, the rules due to fire are the ones to process.
LEMMA TickStarted ==
  ASSUME RuleInv, StartTick
  PROVE  RuleInv'
<1>1. /\ phase = "accepted" /\ phase' = "firing" /\ UNCHANGED <<rules, ruleSeq, current>>
      /\ step' = step + 1 /\ todo' = {r \in rules : r.fire = step'}
  BY DEF StartTick, ruleVars
<1>2. todo = {} /\ current = NoRule
  BY <1>1 DEF RuleInv, RuleTurn
<1>3. RuleTypes' /\ RuleShape' /\ RulesDistinct' /\ RuleTurn'
  BY <1>1, <1>2, InputAssumption
  DEF RuleInv, RuleTypes, RuleShape, RulesDistinct, RuleTurn, Phases
<1>4. RuleWindow'
  <2> SUFFICES ASSUME NEW r \in rules
               PROVE  IF Handled(r)'
                      THEN r.fire = step'
                      ELSE Waiting(r)' \/ Released(r)' \/ r.release = step'
    BY <1>1 DEF RuleWindow
  <2>1. r \in Rule /\ r # NoRule /\ step \in Nat
    BY InputAssumption DEF RuleInv, RuleTypes
  <2>2. Waiting(r) \/ Released(r)
    BY <1>1, <1>2, <2>1 DEF RuleInv, RuleWindow, Handled
  <2>3. Handled(r)' <=> r.fire = step'
    BY <1>1, <1>2, <2>1 DEF Handled
  <2> QED BY <1>1, <2>1, <2>2, <2>3 DEF Waiting, Released, Rule
<1> QED BY <1>3, <1>4 DEF RuleInv

\* The rule taken in hand is the earliest of those to process.
LEMMA RuleTaken ==
  ASSUME RuleInv, NEW r \in todo, TakeRule(r)
  PROVE  RuleInv'
<1>1. /\ current = NoRule /\ current' = r /\ todo' = todo \ {r}
      /\ \A q \in todo : r.seq <= q.seq
      /\ phase \in {"firing", "releasing"} /\ UNCHANGED <<step, phase, rules, ruleSeq>>
  BY DEF TakeRule, ruleVars
<1>2. RuleTypes' /\ RuleShape' /\ RulesDistinct' /\ RuleTurn'
  BY <1>1, InputAssumption DEF RuleInv, RuleTypes, RuleShape, RulesDistinct, RuleTurn
<1>3. \A q \in rules : Handled(q)' <=> Handled(q)
  BY <1>1, InputAssumption DEF RuleInv, RuleTypes, Handled
<1>4. RuleWindow'
  BY <1>1, <1>3 DEF RuleInv, RuleWindow, Waiting, Released
<1> QED BY <1>2, <1>4 DEF RuleInv

\* A rule that has fired is gone or waits for its release.
LEMMA RuleFiredKeeps ==
  ASSUME RuleInv, RuleFired
  PROVE  RuleInv'
<1>1. /\ phase = "firing" /\ current # NoRule /\ current' = NoRule
      /\ rules' = IF current.release = 0 THEN rules \ {current} ELSE rules
      /\ UNCHANGED <<step, phase, ruleSeq, todo>>
  BY DEF RuleFired
<1>2. current \in rules /\ current \in Rule /\ current \notin todo
  BY <1>1 DEF RuleInv, RuleTypes, RuleTurn
<1>3. RuleTypes' /\ RuleShape' /\ RulesDistinct' /\ RuleTurn'
  BY <1>1, <1>2, InputAssumption DEF RuleInv, RuleTypes, RuleShape, RulesDistinct, RuleTurn
<1>4. RuleWindow'
  <2> SUFFICES ASSUME NEW r \in rules'
               PROVE  IF Handled(r)'
                      THEN r.fire = step
                      ELSE Waiting(r) \/ Released(r) \/ r.release = step
    BY <1>1 DEF RuleWindow, Waiting, Released
  <2>1. r \in rules /\ r \in Rule /\ r # NoRule /\ step \in Nat
    BY <1>1, InputAssumption DEF RuleInv, RuleTypes
  <2>2. Handled(r)' <=> r \in todo
    BY <1>1, <2>1 DEF Handled
  <2>3. CASE r # current
    BY <1>1, <2>1, <2>2, <2>3 DEF RuleInv, RuleWindow, Handled
  <2>4. CASE r = current
    <3>1. r.release # 0 /\ r.fire = step
      BY <1>1, <2>1, <2>4 DEF RuleInv, RuleWindow, Handled
    <3>2. r.fire < r.release
      BY <2>1, <3>1 DEF RuleInv, RuleShape
    <3> QED BY <1>2, <2>1, <2>2, <2>4, <3>1, <3>2 DEF Released, Rule
  <2> QED BY <2>3, <2>4
<1> QED BY <1>3, <1>4 DEF RuleInv

\* When all have fired, the rules due for release are the ones to process.
LEMMA ReleasesStarted ==
  ASSUME RuleInv, StartReleases
  PROVE  RuleInv'
<1>1. /\ phase = "firing" /\ phase' = "releasing" /\ todo = {} /\ current = NoRule
      /\ todo' = {r \in rules : r.release = step}
      /\ UNCHANGED <<step, rules, ruleSeq, current>>
  BY DEF StartReleases, ruleVars
<1>2. RuleTypes' /\ RuleShape' /\ RulesDistinct' /\ RuleTurn'
  BY <1>1, InputAssumption DEF RuleInv, RuleTypes, RuleShape, RulesDistinct, RuleTurn, Phases
<1>3. RuleWindow'
  <2> SUFFICES ASSUME NEW r \in rules
               PROVE  IF Handled(r)' THEN r.release = step ELSE Waiting(r) \/ Released(r)
    BY <1>1 DEF RuleWindow, Waiting, Released
  <2>1. r # NoRule
    BY InputAssumption DEF RuleInv, RuleTypes
  <2>2. ~Handled(r) /\ (Handled(r)' <=> r.release = step)
    BY <1>1, <2>1 DEF Handled
  <2> QED BY <1>1, <2>2 DEF RuleInv, RuleWindow
<1> QED BY <1>2, <1>3 DEF RuleInv

\* A rule that was released is gone.
LEMMA RuleReleasedKeeps ==
  ASSUME RuleInv, RuleReleased
  PROVE  RuleInv'
<1>1. /\ phase = "releasing" /\ current # NoRule /\ current' = NoRule
      /\ rules' = rules \ {current} /\ UNCHANGED <<step, phase, ruleSeq, todo>>
  BY DEF RuleReleased
<1>2. current \in rules /\ current \notin todo
  BY <1>1 DEF RuleInv, RuleTypes, RuleTurn
<1>3. RuleTypes' /\ RuleShape' /\ RulesDistinct' /\ RuleTurn'
  BY <1>1, <1>2, InputAssumption DEF RuleInv, RuleTypes, RuleShape, RulesDistinct, RuleTurn
<1>4. \A r \in rules' : r \in rules /\ r # current /\ r # NoRule
  BY <1>1, InputAssumption DEF RuleInv, RuleTypes
<1>5. RuleWindow'
  BY <1>1, <1>4 DEF RuleInv, RuleWindow, Waiting, Released, Handled
<1> QED BY <1>3, <1>5 DEF RuleInv

\* When all are released, no rule has a duty at this step.
LEMMA RulesAreDone ==
  ASSUME RuleInv, RulesDone
  PROVE  RuleInv'
<1>1. /\ phase = "releasing" /\ phase' = "exogenous" /\ todo = {} /\ current = NoRule
      /\ UNCHANGED ruleState
  BY DEF RulesDone, ruleVars, ruleState
<1>2. RuleTypes' /\ RuleShape' /\ RulesDistinct' /\ RuleTurn'
  BY <1>1 DEF RuleInv, RuleTypes, RuleShape, RulesDistinct, RuleTurn, Phases, ruleState
<1>3. RuleWindow'
  BY <1>1, InputAssumption
  DEF RuleInv, RuleTypes, RuleWindow, Waiting, Released, Handled, ruleState
<1> QED BY <1>2, <1>3 DEF RuleInv

\* The scenario is drawn at reset and stays.
ScenarioKnown == scenario \in Scenarios

\* The scenario is one of Scenarios.
LEMMA ScenarioInit == Init => ScenarioKnown
BY DEF Init, ScenarioKnown

\* The scenario never changes.
LEMMA ScenarioNext == [Next]_vars => UNCHANGED scenario
<1> SUFFICES ASSUME [Next]_vars PROVE UNCHANGED scenario
  OBVIOUS
<1>1. CASE AgentStep
  BY <1>1 DEF AgentStep, Act, InstallRule, CancelRule, Wait, Accept, outsideVars
<1>2. CASE Running
  <2>1. CASE Dynamics
    BY <2>1, DynamicsFrame
  <2> QED BY <1>2, <2>1 DEF Running, ApplyNext, StartTick, TakeRule, RuleCommand, RuleFired,
             StartReleases, RuleReleased, RulesDone, Exogenous, ExogenousDone, Clocks,
             NextMicroTick, ReturnView, outsideVars
<1>3. CASE UNCHANGED vars
  BY <1>3 DEF vars, outsideVars
<1> QED BY <1>1, <1>2, <1>3 DEF Next, Over

\* No step of Workflow disturbs RuleInv.
LEMMA RuleNext == ScenarioKnown /\ RuleInv /\ [Next]_vars => RuleInv'
<1> SUFFICES ASSUME ScenarioKnown, RuleInv, [Next]_vars PROVE RuleInv'
  OBVIOUS
<1>1. CASE AgentStep
  <2>1. ASSUME NEW cs \in Batches[scenario], Act(cs) PROVE RuleInv'
    BY <2>1, RuleFrame DEF Act, Idle, Accept, ruleState, ruleVars, Phases
  <2>2. ASSUME NEW t \in RuleTemplates[scenario], InstallRule(t) PROVE RuleInv'
    <3>1. t \in Template
      BY InputAssumption DEF ScenarioKnown
    <3> QED BY <2>2, <3>1, RuleInstalled
  <2>3. ASSUME NEW r \in rules, CancelRule(r) PROVE RuleInv'
    BY <2>3, RuleCancelled
  <2>4. ASSUME NEW s \in WaitSeconds, NEW f \in WaitFilters, Wait(s, f) PROVE RuleInv'
    BY <2>4, RuleFrame DEF Wait, Idle, Accept, ruleState, ruleVars, Phases
  <2> QED BY <1>1, <2>1, <2>2, <2>3, <2>4 DEF AgentStep
<1>2. CASE Running
  <2>1. CASE ApplyNext
    BY <2>1, RuleFrame DEF ApplyNext, ruleState, ruleVars
  <2>2. CASE StartTick
    BY <2>2, TickStarted
  <2>3. CASE \E r \in todo : TakeRule(r)
    BY <2>3, RuleTaken
  <2>4. CASE RuleCommand
    BY <2>4, RuleFrame DEF RuleCommand, ruleState, ruleVars
  <2>5. CASE RuleFired
    BY <2>5, RuleFiredKeeps
  <2>6. CASE StartReleases
    BY <2>6, ReleasesStarted
  <2>7. CASE RuleReleased
    BY <2>7, RuleReleasedKeeps
  <2>8. CASE RulesDone
    BY <2>8, RulesAreDone
  <2>9. CASE (\E s \in Streams : Exogenous(s)) \/ ExogenousDone
    BY <2>9, RuleFrame DEF Exogenous, ExogenousDone, ruleState, ruleVars, Phases
  <2>10. CASE Clocks
    BY <2>10, RuleFrame DEF Clocks, ruleState, ruleVars, Phases
  <2>11. CASE Dynamics
    BY <2>11, DynamicsFrame, RuleFrame
  <2>12. CASE NextMicroTick \/ ReturnView
    BY <2>12, RuleFrame DEF NextMicroTick, ReturnView, ruleState, ruleVars, Phases
  <2> QED BY <1>2, <2>1, <2>2, <2>3, <2>4, <2>5, <2>6, <2>7, <2>8, <2>9, <2>10, <2>11, <2>12
          DEF Running
<1>3. CASE UNCHANGED vars
  BY <1>3, RuleFrame DEF vars, ruleState, ruleVars
<1> QED BY <1>1, <1>2, <1>3 DEF Next, Over

\* The invariant the other theorems rest on.
THEOREM RuleInvariant == Spec => [](ScenarioKnown /\ RuleInv)
<1>1. Init => ScenarioKnown /\ RuleInv
  BY RuleInit, ScenarioInit
<1>2. ScenarioKnown /\ RuleInv /\ [Next]_vars => (ScenarioKnown /\ RuleInv)'
  BY RuleNext, ScenarioNext DEF ScenarioKnown
<1> QED BY <1>1, <1>2, PTL DEF Spec

\* A rule is installed exactly while a duty of it lies ahead: whatever rules an
\* agent installs and cancels, and however many ticks a call takes, none fires
\* twice, is released before it fired, or outlives its last duty.
THEOREM RulesInWindow == Spec => []RuleWindow
<1>1. RuleInv => RuleWindow
  BY DEF RuleInv
<1> QED BY <1>1, RuleInvariant, PTL

\* The order in which the rules due at one step are processed is always total.
THEOREM RulesAreDistinct == Spec => []RulesDistinct
<1>1. RuleInv => RulesDistinct
  BY DEF RuleInv
<1> QED BY <1>1, RuleInvariant, PTL

(***************************************************************************)
(* The rules implement the abstract book of timers (RuleBook): installing,  *)
(* cancelling, firing and releasing a rule are the steps of the book of the *)
(* same name, starting a tick lets its clock pass, and every other step     *)
(* leaves the book alone.                                                  *)
(***************************************************************************)

bookVars == <<step, {Entry(r) : r \in rules}>>

\* Entries of different rules differ.
LEMMA EntryUnique ==
  ASSUME RuleInv, NEW r \in rules, NEW q \in rules, r # q
  PROVE  Entry(r) # Entry(q)
BY DEF RuleInv, RulesDistinct, Entry

\* Between calls and when a tick starts nothing in the book is due.
LEMMA BookSettled ==
  ASSUME RuleInv, phase \in {"execute", "accepted"}
  PROVE  Book!Settled
<1>1. todo = {} /\ current = NoRule /\ step \in Nat
  BY DEF RuleInv, RuleTurn, RuleTypes
<1> SUFFICES ASSUME NEW r \in rules
             PROVE  ~Book!DueFire(Entry(r)) /\ ~Book!DueRelease(Entry(r))
  BY DEF Book!Settled
<1>2. r \in Rule /\ r # NoRule
  BY InputAssumption DEF RuleInv, RuleTypes
<1>3. Waiting(r) \/ Released(r)
  BY <1>1, <1>2 DEF RuleInv, RuleWindow, Handled
<1>4. Fired(r) <=> r.fire <= step
  BY <1>1, <1>2 DEF Fired, Rule
<1>5. Entry(r).fire = r.fire /\ Entry(r).release = r.release /\ Entry(r).fired = Fired(r)
  BY DEF Entry
<1>6. r.fire \in Nat /\ r.release \in Nat
  BY <1>2 DEF Rule
<1>7. ~Book!DueFire(Entry(r))
  BY <1>1, <1>3, <1>4, <1>5, <1>6 DEF Book!DueFire, Waiting, Released
<1>8. ~Book!DueRelease(Entry(r))
  BY <1>1, <1>3, <1>4, <1>5, <1>6 DEF Book!DueRelease, Waiting, Released
<1> QED BY <1>7, <1>8

\* A step that neither changes the rules nor fires one leaves the book alone.
LEMMA BookStutters ==
  ASSUME UNCHANGED <<step, rules>>, \A r \in rules : Fired(r)' = Fired(r)
  PROVE  UNCHANGED bookVars
BY DEF bookVars, Entry

\* So does a step that keeps the rules and does not enter or leave their two phases.
LEMMA BookFrame ==
  ASSUME RuleInv, UNCHANGED ruleState,
         \/ phase' = phase
         \/ phase \notin {"firing", "releasing"} /\ phase' \in Phases \ {"firing", "releasing"}
  PROVE  UNCHANGED bookVars
<1>1. ASSUME NEW r \in rules PROVE Fired(r)' = Fired(r)
  BY DEF Fired, Handled, ruleState
<1> QED BY <1>1, BookStutters DEF ruleState

\* Installing a rule is an installation in the book.
LEMMA InstallInBook ==
  ASSUME RuleInv, NEW t \in Template, InstallRule(t)
  PROVE  Book!Next
<1>1. PICK n : n = [id |-> t.id, fire |-> t.fire, release |-> t.release, cmds |-> t.cmds,
                    rel |-> t.rel, seq |-> ruleSeq]
  OBVIOUS
<1>2. /\ phase = "execute" /\ phase' = "accepted" /\ UNCHANGED <<step, todo, current>>
      /\ rules' = rules \cup {n}
      /\ step < n.fire /\ (n.release # 0 => n.fire < n.release)
      /\ \A r \in rules : r.id # n.id
  BY <1>1 DEF InstallRule, Idle, Accept, RuleOk
<1>3. /\ step \in Nat /\ todo = {} /\ current = NoRule /\ n.fire \in Nat /\ n.release \in Nat
      /\ \A r \in rules : r.seq < n.seq
  BY <1>1, <1>2 DEF RuleInv, RuleTypes, RuleShape, RuleTurn, Template
<1> DEFINE e == [id |-> n.id, fire |-> n.fire, release |-> n.release, seq |-> n.seq,
                 fired |-> FALSE]
<1>4. Entry(n)' = e
  <2>1. Fired(n)' = FALSE
    BY <1>2, <1>3 DEF Fired
  <2> QED BY <2>1 DEF Entry
<1>5. ASSUME NEW r \in rules PROVE Entry(r)' = Entry(r)
  <2>1. Fired(r)' = Fired(r)
    BY <1>2, <1>3 DEF Fired, Handled
  <2> QED BY <2>1 DEF Entry
<1>6. {Entry(r) : r \in rules}' = {Entry(r) : r \in rules} \cup {e}
  BY <1>2, <1>4, <1>5
<1>7. e \notin {Entry(r) : r \in rules}
  BY <1>2 DEF Entry
<1>8. Book!Settled
  BY <1>2, BookSettled
<1>9. Book!Install(e)
  <2>1. \A r \in rules : Entry(r).id # e.id /\ Entry(r).seq < e.seq
    BY <1>2, <1>3 DEF Entry
  <2>2. ~e.fired /\ e.fire > step /\ (e.release # 0 => e.release > e.fire)
    BY <1>2, <1>3
  <2> HIDE DEF e
  <2> QED BY <1>2, <1>6, <1>8, <2>1, <2>2 DEF Book!Install
<1> HIDE DEF e
<1> QED BY <1>6, <1>7, <1>9 DEF Book!Next

\* Cancelling a rule takes its entry out of the book.
LEMMA CancelInBook ==
  ASSUME RuleInv, NEW r \in rules, CancelRule(r)
  PROVE  Book!Next
<1>1. /\ phase = "execute" /\ phase' = "accepted" /\ UNCHANGED <<step, todo, current>>
      /\ rules' = rules \ {r}
  BY DEF CancelRule, Idle, Accept
<1>2. \A q \in rules : Entry(q)' = Entry(q)
  BY <1>1 DEF Entry, Fired, Handled
<1>3. {Entry(q) : q \in rules}' = {Entry(q) : q \in rules} \ {Entry(r)}
  BY <1>1, <1>2, EntryUnique
<1>4. Book!Settled
  BY <1>1, BookSettled
<1>5. Book!Cancel(Entry(r))
  BY <1>1, <1>3, <1>4 DEF Book!Cancel
<1> QED BY <1>5 DEF Book!Next

\* Starting a tick passes time, and the entries due before are none.
LEMMA TickInBook ==
  ASSUME RuleInv, StartTick
  PROVE  Book!Next
<1>1. /\ phase = "accepted" /\ phase' = "firing" /\ UNCHANGED <<rules, current>>
      /\ step' = step + 1 /\ todo' = {r \in rules : r.fire = step'}
  BY DEF StartTick, ruleVars
<1>2. todo = {} /\ current = NoRule /\ step \in Nat
  BY <1>1 DEF RuleInv, RuleTurn, RuleTypes
<1>3. ASSUME NEW r \in rules PROVE Entry(r)' = Entry(r)
  <2>1. r \in Rule /\ r # NoRule /\ r.fire \in Nat
    BY InputAssumption DEF RuleInv, RuleTypes, Rule
  <2>2. Fired(r) <=> r.fire <= step
    BY <1>1, <1>2, <2>1 DEF Fired
  <2>3. Fired(r)' <=> r.fire <= step
    BY <1>1, <1>2, <2>1 DEF Fired, Handled
  <2>4. Fired(r)' = Fired(r)
    BY <2>2, <2>3 DEF Fired
  <2> QED BY <2>4 DEF Entry
<1>4. Book!Settled
  BY <1>1, BookSettled
<1>5. Book!Pass
  BY <1>1, <1>3, <1>4 DEF Book!Pass
<1> QED BY <1>5 DEF Book!Next

\* Taking a rule in hand leaves the book alone: it counts as fired once its turn is over.
LEMMA TakeInBook ==
  ASSUME RuleInv, NEW r \in todo, TakeRule(r)
  PROVE  UNCHANGED bookVars
<1>1. /\ current = NoRule /\ current' = r /\ todo' = todo \ {r}
      /\ UNCHANGED <<step, phase, rules>>
  BY DEF TakeRule, ruleVars
<1>2. ASSUME NEW q \in rules PROVE Fired(q)' = Fired(q)
  <2>1. q # NoRule
    BY InputAssumption DEF RuleInv, RuleTypes
  <2> QED BY <1>1, <2>1 DEF Fired, Handled
<1> QED BY <1>1, <1>2, BookStutters

\* The rule in hand is due, and the first of those that are.
LEMMA CurrentIsDue ==
  ASSUME RuleInv, current # NoRule, phase = "firing"
  PROVE  /\ current \in rules /\ Book!DueFire(Entry(current))
         /\ \A q \in rules : Book!DueFire(Entry(q)) => Entry(current).seq <= Entry(q).seq
<1>1. current \in rules /\ current \in Rule /\ current.fire = step /\ step \in Nat
  BY DEF RuleInv, RuleTypes, RuleWindow, Handled
<1>2. ASSUME NEW q \in rules
      PROVE  Book!DueFire(Entry(q)) <=> q.fire = step /\ Handled(q)
  <2>1. Entry(q).fire = q.fire /\ Entry(q).fired = Fired(q)
    BY DEF Entry
  <2>2. Fired(q) <=> q.fire <= step /\ ~Handled(q)
    BY DEF Fired
  <2>3. q.fire \in Nat
    BY DEF RuleInv, RuleTypes, Rule
  <2> QED BY <1>1, <2>1, <2>2, <2>3 DEF Book!DueFire
<1>3. Book!DueFire(Entry(current))
  BY <1>1, <1>2 DEF Handled
<1>4. ASSUME NEW q \in rules, Book!DueFire(Entry(q)) PROVE Entry(current).seq <= Entry(q).seq
  <2>1. q = current \/ q \in todo
    BY <1>2, <1>4 DEF Handled
  <2>2. current.seq <= q.seq
    BY <1>1, <2>1 DEF RuleInv, RuleTurn, Rule
  <2> QED BY <2>2 DEF Entry
<1> QED BY <1>1, <1>3, <1>4

\* The end of a rule's turn in the first pass fires its entry.
LEMMA FireInBook ==
  ASSUME RuleInv, RuleFired
  PROVE  Book!Next
<1> DEFINE book == {Entry(r) : r \in rules}
<1>1. PICK c : c = current
  OBVIOUS
<1>2. /\ phase = "firing" /\ c # NoRule /\ current = c /\ current' = NoRule
      /\ rules' = IF c.release = 0 THEN rules \ {c} ELSE rules
      /\ UNCHANGED <<step, phase, todo>>
  BY <1>1 DEF RuleFired
<1>3. /\ c \in rules /\ c \notin todo /\ c.fire = step /\ Book!DueFire(Entry(c))
      /\ \A q \in rules : Book!DueFire(Entry(q)) => Entry(c).seq <= Entry(q).seq
  BY <1>2, CurrentIsDue DEF RuleInv, RuleTurn, Book!DueFire, Entry
<1>4. ASSUME NEW q \in rules, q # c PROVE Entry(q)' = Entry(q)
  <2>1. Handled(q)' <=> Handled(q)
    BY <1>2, <1>4, InputAssumption DEF Handled, RuleInv, RuleTypes
  <2>2. Fired(q)' = Fired(q)
    BY <1>2, <2>1 DEF Fired
  <2> QED BY <2>2 DEF Entry
<1>5. CASE c.release = 0
  <2>1. book' = book \ {Entry(c)}
    BY <1>2, <1>3, <1>4, <1>5, EntryUnique
  <2>2. Entry(c).release = 0
    BY <1>5 DEF Entry
  <2>3. Book!Fire(Entry(c))
    BY <1>2, <1>3, <2>1, <2>2 DEF Book!Fire
  <2> QED BY <1>3, <2>3 DEF Book!Next
<1>6. CASE c.release # 0
  <2>1. Fired(c)' = TRUE
    <3>1. c.fire <= step /\ ~Handled(c)'
      BY <1>2, <1>3 DEF Handled, RuleInv, RuleTypes
    <3> QED BY <1>2, <3>1 DEF Fired
  <2>2. Entry(c)' = [Entry(c) EXCEPT !.fired = TRUE]
    <3>1. Entry(c)' = [id |-> c.id, fire |-> c.fire, release |-> c.release, seq |-> c.seq,
                       fired |-> TRUE]
      BY <2>1 DEF Entry
    <3>2. [Entry(c) EXCEPT !.fired = TRUE]
            = [id |-> c.id, fire |-> c.fire, release |-> c.release, seq |-> c.seq,
               fired |-> TRUE]
      <4>1. PICK x : x = Fired(c)
        OBVIOUS
      <4>2. PICK y : y = TRUE
        OBVIOUS
      <4>3. Entry(c) = [id |-> c.id, fire |-> c.fire, release |-> c.release, seq |-> c.seq,
                        fired |-> x]
        BY <4>1 DEF Entry
      <4>4. [Entry(c) EXCEPT !.fired = y]
              = [id |-> c.id, fire |-> c.fire, release |-> c.release, seq |-> c.seq,
                 fired |-> y]
        BY <4>3, SMT
      <4> QED BY <4>2, <4>4, Zenon
    <3> QED BY <3>1, <3>2
  <2>3. book' = (book \ {Entry(c)}) \cup {[Entry(c) EXCEPT !.fired = TRUE]}
    <3>1. rules' = rules
      BY <1>2, <1>6
    <3>2. PICK e : e = [Entry(c) EXCEPT !.fired = TRUE]
      OBVIOUS
    <3>3. \A q \in rules \ {c} : Entry(q) # Entry(c)
      BY <1>3, EntryUnique
    <3>4. \A q \in rules \ {c} : Entry(q)' = Entry(q)
      BY <1>4
    <3>5. Entry(c)' = e
      BY <2>2, <3>2
    <3>6. book' = (book \ {Entry(c)}) \cup {e}
      BY <1>3, <3>1, <3>3, <3>4, <3>5
    <3> QED BY <3>2, <3>6
  <2>4. Entry(c).release # 0
    BY <1>6 DEF Entry
  <2>5. Book!Fire(Entry(c))
    BY <1>2, <1>3, <2>3, <2>4 DEF Book!Fire
  <2> QED BY <1>3, <2>5 DEF Book!Next
<1> QED BY <1>5, <1>6

\* Going from firings to releases leaves the book alone.
LEMMA StartReleasesInBook ==
  ASSUME RuleInv, StartReleases
  PROVE  UNCHANGED bookVars
<1>1. /\ phase = "firing" /\ phase' = "releasing" /\ todo = {} /\ current = NoRule
      /\ UNCHANGED <<step, rules, current>>
  BY DEF StartReleases, ruleVars
<1>2. ASSUME NEW q \in rules PROVE Fired(q)' = Fired(q)
  <2>1. q # NoRule
    BY InputAssumption DEF RuleInv, RuleTypes
  <2> QED BY <1>1, <2>1 DEF Fired, Handled
<1> QED BY <1>1, <1>2, BookStutters

\* The end of a rule's turn in the second pass releases its entry.
LEMMA ReleaseInBook ==
  ASSUME RuleInv, RuleReleased
  PROVE  Book!Next
<1> DEFINE book == {Entry(r) : r \in rules}
<1>1. PICK c : c = current
  OBVIOUS
<1>2. /\ phase = "releasing" /\ c # NoRule /\ current = c
      /\ rules' = rules \ {c} /\ UNCHANGED <<step, phase, todo>>
  BY <1>1 DEF RuleReleased
<1>3. /\ c \in rules /\ c \in Rule /\ step \in Nat /\ c.release = step
      /\ \A q \in todo : c.seq <= q.seq
  BY <1>2 DEF RuleInv, RuleTypes, RuleTurn, RuleWindow, Handled
<1>4. ASSUME NEW q \in rules PROVE Entry(q)' = Entry(q)
  <2>1. Fired(q)' = Fired(q)
    BY <1>2 DEF Fired
  <2> QED BY <2>1 DEF Entry
<1>5. book' = book \ {Entry(c)}
  BY <1>2, <1>3, <1>4, EntryUnique
<1>6. ASSUME NEW q \in rules
      PROVE  /\ ~Book!DueFire(Entry(q))
             /\ Book!DueRelease(Entry(q)) <=> q.fire <= step /\ q.release = step
  <2>1. Entry(q).fire = q.fire /\ Entry(q).release = q.release /\ Entry(q).fired = Fired(q)
    BY DEF Entry
  <2>2. Fired(q) <=> q.fire <= step
    BY <1>2, <1>3 DEF Fired, RuleInv, RuleTypes, Rule
  <2>3. q.fire \in Nat
    BY DEF RuleInv, RuleTypes, Rule
  <2> QED BY <1>3, <2>1, <2>2, <2>3 DEF Book!DueFire, Book!DueRelease
<1>7. Book!DueRelease(Entry(c))
  <2>1. c.release # 0 => c.fire < c.release
    BY <1>3 DEF RuleInv, RuleShape
  <2>2. step > 0
    BY <1>2 DEF RuleInv, RuleTurn
  <2> QED BY <1>3, <1>6, <2>1, <2>2 DEF Rule
<1>8. ASSUME NEW q \in rules, Book!DueRelease(Entry(q)) PROVE Entry(c).seq <= Entry(q).seq
  <2>1. q = c \/ q \in todo
    BY <1>2, <1>3, <1>6, <1>8 DEF RuleInv, RuleWindow, Handled, Waiting, Released, RuleTypes, Rule
  <2>2. c.seq <= q.seq
    BY <1>3, <2>1 DEF Rule
  <2> QED BY <2>2 DEF Entry
<1>9. Book!Release(Entry(c))
  BY <1>2, <1>5, <1>6, <1>7, <1>8 DEF Book!Release
<1> QED BY <1>3, <1>9 DEF Book!Next

\* Leaving the rules for the outside events leaves the book alone.
LEMMA RulesDoneInBook ==
  ASSUME RuleInv, RulesDone
  PROVE  UNCHANGED bookVars
<1>1. /\ phase = "releasing" /\ phase' = "exogenous" /\ UNCHANGED ruleState
  BY DEF RulesDone, ruleVars, ruleState
<1>2. ASSUME NEW q \in rules PROVE Fired(q)' = Fired(q)
  BY <1>1 DEF Fired, ruleState
<1> QED BY <1>1, <1>2, BookStutters DEF ruleState

\* Every step of Workflow is a step of the book or leaves it alone.
LEMMA BookSimulated == ScenarioKnown /\ RuleInv /\ [Next]_vars => [Book!Next]_bookVars
<1> SUFFICES ASSUME ScenarioKnown, RuleInv, [Next]_vars PROVE [Book!Next]_bookVars
  OBVIOUS
<1>1. CASE AgentStep
  <2>1. ASSUME NEW cs \in Batches[scenario], Act(cs) PROVE UNCHANGED bookVars
    BY <2>1, BookFrame DEF Act, Idle, Accept, ruleState, ruleVars, Phases
  <2>2. ASSUME NEW t \in RuleTemplates[scenario], InstallRule(t) PROVE Book!Next
    <3>1. t \in Template
      BY InputAssumption DEF ScenarioKnown
    <3> QED BY <2>2, <3>1, InstallInBook
  <2>3. ASSUME NEW r \in rules, CancelRule(r) PROVE Book!Next
    BY <2>3, CancelInBook
  <2>4. ASSUME NEW s \in WaitSeconds, NEW f \in WaitFilters, Wait(s, f)
        PROVE  UNCHANGED bookVars
    BY <2>4, BookFrame DEF Wait, Idle, Accept, ruleState, ruleVars, Phases
  <2> QED BY <1>1, <2>1, <2>2, <2>3, <2>4 DEF AgentStep
<1>2. CASE Running
  <2>1. CASE ApplyNext
    BY <2>1, BookFrame DEF ApplyNext, ruleState, ruleVars
  <2>2. CASE StartTick
    BY <2>2, TickInBook
  <2>3. CASE \E r \in todo : TakeRule(r)
    BY <2>3, TakeInBook
  <2>4. CASE RuleCommand
    BY <2>4, BookFrame DEF RuleCommand, ruleState, ruleVars
  <2>5. CASE RuleFired
    BY <2>5, FireInBook
  <2>6. CASE StartReleases
    BY <2>6, StartReleasesInBook
  <2>7. CASE RuleReleased
    BY <2>7, ReleaseInBook
  <2>8. CASE RulesDone
    BY <2>8, RulesDoneInBook
  <2>9. CASE (\E s \in Streams : Exogenous(s)) \/ ExogenousDone
    BY <2>9, BookFrame DEF Exogenous, ExogenousDone, ruleState, ruleVars, Phases
  <2>10. CASE Clocks
    BY <2>10, BookFrame DEF Clocks, ruleState, ruleVars, Phases
  <2>11. CASE Dynamics
    BY <2>11, DynamicsFrame, BookFrame
  <2>12. CASE NextMicroTick \/ ReturnView
    BY <2>12, BookFrame DEF NextMicroTick, ReturnView, ruleState, ruleVars, Phases
  <2> QED BY <1>2, <2>1, <2>2, <2>3, <2>4, <2>5, <2>6, <2>7, <2>8, <2>9, <2>10, <2>11, <2>12
          DEF Running
<1>3. CASE UNCHANGED vars
  BY <1>3, BookFrame DEF vars, ruleState, ruleVars
<1> QED BY <1>1, <1>2, <1>3 DEF Next, Over

\* The rules implement the book of timers: in every run, whatever the devices, the
\* agent and the outside do, each rule fires once and is released once, at its own
\* steps, all firings of a step before its releases, both in the order of
\* installation, and no tick starts while a rule is due.
THEOREM RulesImplementBook == Spec => RulesKeepTime
<1>1. Init => Book!Init
  <2> SUFFICES ASSUME Init PROVE Book!Init
    OBVIOUS
  <2>1. step = 0 /\ rules = {}
    BY DEF Init
  <2> QED BY <2>1 DEF Book!Init
<1>2. ScenarioKnown /\ RuleInv /\ [Next]_vars
        => [Book!Next]_<<step, {Entry(r) : r \in rules}>>
  BY BookSimulated DEF bookVars
<1> QED BY <1>1, <1>2, RuleInvariant, PTL DEF Spec, RulesKeepTime, Book!Spec

(***************************************************************************)
(* Commands.  A batch that was validated as a whole stays legal while it is *)
(* applied, because its commands are on different devices and a command is  *)
(* judged by its own device and by what no command changes.                *)
(***************************************************************************)

\* The devices are the same throughout; their records change.
DevShape == dev = [d \in Devices |-> dev[d]]

\* Commands are left to apply only after an accepted act, or for the rule in hand.
BatchShape ==
  /\ batch \in Seq(Command)
  /\ phase \notin {"accepted", "firing", "releasing"} => batch = <<>>
  /\ phase \in {"firing", "releasing"} /\ current = NoRule => batch = <<>>

BatchInv == DevShape /\ BatchShape /\ BatchStaysLegal

\* Initially there is no batch.
LEMMA BatchInit == Init => BatchInv
<1> SUFFICES ASSUME Init PROVE BatchInv
  OBVIOUS
<1>1. dev = [d \in Devices |-> ScenarioDevice(scenario, d)] /\ batch = <<>> /\ phase = "execute"
  BY DEF Init
<1>2. DevShape
  BY <1>1 DEF DevShape
<1> QED BY <1>1, <1>2 DEF BatchInv, BatchShape, BatchStaysLegal

\* Every step keeps the table of devices a function on Devices.
LEMMA ShapeNext == DevShape /\ [Next]_vars => DevShape'
<1> SUFFICES ASSUME DevShape, [Next]_vars PROVE DevShape'
  OBVIOUS
<1>1. CASE UNCHANGED dev
  BY <1>1 DEF DevShape
<1>2. ASSUME NEW c, ApplyCommand(c) PROVE DevShape'
  BY <1>2 DEF ApplyCommand, DevShape
<1>3. ASSUME NEW d, NEW r, NEW t, NEW o, Becomes(d, r, t, o) PROVE DevShape'
  BY <1>3 DEF Becomes, DevShape
<1>4. ASSUME NEW s \in Streams, Exogenous(s) PROVE DevShape'
  BY <1>4 DEF Exogenous, StreamDevices, DevShape
<1>5. CASE Dynamics
  BY <1>3, <1>5 DEF Dynamics, Washer, Dishwasher, Cycle, VacuumCleans, VacuumReturns,
     VacuumCharges, Garage, Lock, IntercomRings, IntercomAnswered, Fridge, Stove, Bathroom,
     CoffeeBrews, CoffeeCools, Alarm, Supply
<1>6. CASE AgentStep
  BY <1>1, <1>6 DEF AgentStep, Act, InstallRule, CancelRule, Wait, Accept
<1>7. CASE Running /\ ~Dynamics
  BY <1>1, <1>2, <1>4, <1>7 DEF Running, ApplyNext, StartTick, TakeRule, RuleCommand, RuleFired,
     StartReleases, RuleReleased, RulesDone, ExogenousDone, Clocks, NextMicroTick, ReturnView
<1> QED BY <1>1, <1>5, <1>6, <1>7 DEF Next, Over, vars

\* What remains of a legal batch is legal after its first command was applied.
LEMMA RestStaysLegal ==
  ASSUME BatchInv, ApplyNext
  PROVE  BatchStaysLegal'
<1>1. PICK c : c = Head(batch)
  OBVIOUS
<1>2. PICK rest : rest = Tail(batch)
  OBVIOUS
<1>3. /\ phase = "accepted" /\ batch # <<>> /\ batch \in Seq(Command) /\ batch' = rest
      /\ dev = [d \in Devices |-> dev[d]]
      /\ dev' = [dev EXCEPT ![c.device] = Applied(c, @)]
      /\ UNCHANGED <<scenario, household>>
  BY <1>1, <1>2 DEF BatchInv, BatchShape, DevShape, ApplyNext, ApplyCommand, outsideVars
<1>4. DistinctDevices(batch) /\ \A i \in 1..Len(batch) : CommandOk(batch[i])
  BY <1>3 DEF BatchInv, BatchStaysLegal
<1>5. /\ rest \in Seq(Command) /\ Len(rest) = Len(batch) - 1
      /\ \A i \in 1..Len(rest) : i + 1 \in 1..Len(batch) /\ rest[i] = batch[i + 1]
      /\ c = batch[1] /\ 1 \in 1..Len(batch)
  BY <1>1, <1>2, <1>3
<1>6. DistinctDevices(rest)
  BY <1>3, <1>4, <1>5 DEF DistinctDevices
<1>7. ASSUME NEW i \in 1..Len(rest)
      PROVE  CommandOk(rest[i])'
  <2>1. /\ rest[i] \in Command /\ i + 1 \in 1..Len(batch) /\ i + 1 # 1
        /\ rest[i] = batch[i + 1]
    BY <1>5
  <2>2. rest[i].device \in Devices /\ CommandOk(rest[i])
    BY <1>4, <2>1 DEF Command
  <2>3. rest[i].device # c.device
    BY <1>4, <1>5, <2>1 DEF DistinctDevices
  <2>4. PICK b : b = rest[i]
    OBVIOUS
  <2>5. dev'[b.device] = dev[b.device]
    BY <1>3, <2>2, <2>3, <2>4
  <2>6. CommandOk(b)'
    BY <1>3, <2>2, <2>4, <2>5 DEF CommandOk, Legal
  <2> QED BY <2>4, <2>6
<1> QED BY <1>3, <1>6, <1>7 DEF BatchStaysLegal

\* An empty batch is legal.
LEMMA Empty == DistinctDevices(<<>>) /\ 1..Len(<<>>) = {}
BY DEF DistinctDevices

\* Every step keeps what is left of an accepted batch legal.
LEMMA BatchNext == ScenarioKnown /\ RuleInv /\ BatchInv /\ [Next]_vars => BatchInv'
<1> SUFFICES ASSUME ScenarioKnown, RuleInv, BatchInv, [Next]_vars PROVE BatchInv'
  OBVIOUS
<1> USE DEF BatchInv
<1>1. DevShape'
  BY ShapeNext
<1>2. CASE AgentStep
  <2>1. ASSUME NEW cs \in Batches[scenario], Act(cs) PROVE BatchShape' /\ BatchStaysLegal'
    <3>1. cs \in Seq(Command) /\ CommandsOk(cs) /\ batch' = cs /\ phase' = "accepted"
          /\ UNCHANGED <<scenario, dev, household>>
      BY <2>1, InputAssumption DEF Act, Accept, ScenarioKnown, outsideVars, homeVars
    <3> QED BY <3>1 DEF BatchShape, BatchStaysLegal, CommandsOk, CommandOk
  <2>2. CASE phase = "execute" /\ phase' = "accepted" /\ UNCHANGED batch
    <3>1. batch = <<>> /\ batch' = <<>> /\ <<>> \in Seq(Command)
      BY <2>2 DEF BatchShape
    <3> QED BY <1>1, <2>2, <3>1, Empty DEF BatchShape, BatchStaysLegal
  <2> QED BY <1>1, <1>2, <2>1, <2>2 DEF AgentStep, InstallRule, CancelRule, Wait, Idle, Accept
<1>3. CASE Running
  <2>1. CASE ApplyNext
    BY <1>1, <2>1, RestStaysLegal DEF ApplyNext, BatchShape
  <2>2. CASE StartTick
    BY <1>1, <2>2 DEF StartTick, BatchShape, BatchStaysLegal
  <2>3. ASSUME NEW r \in todo, TakeRule(r) PROVE BatchShape' /\ BatchStaysLegal'
    <3>1. /\ r \in Rule /\ r # NoRule /\ current' = r /\ phase' = phase
          /\ phase \in {"firing", "releasing"}
          /\ batch' = IF phase = "firing" THEN r.cmds ELSE r.rel
      BY <2>3, InputAssumption DEF TakeRule, RuleInv, RuleTypes
    <3> QED BY <3>1 DEF BatchShape, BatchStaysLegal, Rule
  <2>4. CASE RuleCommand
    BY <1>1, <2>4 DEF RuleCommand, BatchShape, BatchStaysLegal
  <2>5. CASE RuleFired \/ StartReleases \/ RuleReleased \/ RulesDone
    BY <1>1, <2>5 DEF RuleFired, StartReleases, RuleReleased, RulesDone, BatchShape, BatchStaysLegal
  <2>6. CASE (\E s \in Streams : Exogenous(s)) \/ ExogenousDone \/ Clocks
    BY <1>1, <2>6 DEF Exogenous, ExogenousDone, Clocks, BatchShape, BatchStaysLegal
  <2>7. CASE Dynamics
    BY <1>1, <2>7, DynamicsFrame DEF ruleState, BatchShape, BatchStaysLegal
  <2>8. CASE NextMicroTick \/ ReturnView
    BY <1>1, <2>8, Empty DEF NextMicroTick, ReturnView, BatchShape, BatchStaysLegal
  <2> QED BY <1>1, <1>3, <2>1, <2>2, <2>3, <2>4, <2>5, <2>6, <2>7, <2>8 DEF Running
<1>4. CASE UNCHANGED vars
  BY <1>1, <1>4 DEF vars, outsideVars, homeVars, BatchShape, BatchStaysLegal, CommandOk
<1> QED BY <1>2, <1>3, <1>4 DEF Next, Over

\* A step that costs something applies a command, and the state allows it.
LEMMA CostIsLegal ==
  ASSUME BatchInv, [Next]_vars, cost' # cost
  PROVE  CommandOk(Head(batch))
<1>1. CASE ApplyNext
  <2>1. batch \in Seq(Command) /\ batch # <<>>
    BY <1>1 DEF ApplyNext, BatchInv, BatchShape
  <2>2. 1 \in 1..Len(batch) /\ Head(batch) = batch[1]
    BY <2>1
  <2> QED BY <1>1, <2>2 DEF ApplyNext, BatchInv, BatchStaysLegal
<1>2. CASE RuleCommand
  BY <1>2 DEF RuleCommand
<1>3. ~Dynamics
  BY DynamicsFrame
<1>4. ~AgentStep
  BY DEF AgentStep, Act, InstallRule, CancelRule, Wait, Accept
<1> QED BY <1>1, <1>2, <1>3, <1>4 DEF Next, Over, Running, StartTick, TakeRule, RuleFired, StartReleases,
        RuleReleased, RulesDone, Exogenous, ExogenousDone, Clocks, NextMicroTick, ReturnView, vars

\* Every command that takes effect, an agent's or a rule's, is allowed by the state
\* it finds, although only the commands of rules are validated one by one.
THEOREM CommandsAreLegal == Spec => AppliedLegal
<1>1. Spec => []BatchInv
  <2>1. Init => BatchInv
    BY BatchInit
  <2>2. ScenarioKnown /\ RuleInv /\ BatchInv /\ [Next]_vars => BatchInv'
    BY BatchNext
  <2> QED BY <2>1, <2>2, RuleInvariant, PTL DEF Spec
<1>2. BatchInv /\ [Next]_vars => [cost' # cost => CommandOk(Head(batch))]_vars
  BY CostIsLegal
<1> QED BY <1>1, <1>2, PTL DEF Spec, AppliedLegal

(***************************************************************************)
(* Sums.                                                                   *)
(***************************************************************************)

\* Induction, for a set: the library states it for an operator, which no prover here
\* instantiates.
LEMMA NatIsInductive ==
  ASSUME NEW S, 0 \in S, \A n \in Nat : n \in S => n+1 \in S
  PROVE Nat \subseteq S
<1> SUFFICES ASSUME Nat \ S # {} PROVE FALSE
  OBVIOUS
<1>1. PICK R : R = OpToRel(<,Nat)
  OBVIOUS
<1>2. IsWellFoundedOn(R, Nat)
  BY <1>1, NatLessThanWellFounded
<1>3. PICK T : T = Nat \ S
  OBVIOUS
<1>4. PICK x \in T : \A y \in T : ~(<<y,x>> \in R)
  BY <1>2, <1>3, WFMin
<1>5. \A a, b \in Nat : a < b => <<a,b>> \in R
  BY <1>1 DEF OpToRel
<1>6. x \in Nat /\ x \notin S /\ x # 0
  BY <1>3
<1>7. x - 1 \in Nat /\ x - 1 < x /\ (x - 1) + 1 = x
  BY <1>6
<1>8. x - 1 \in T
  BY <1>3, <1>6, <1>7
<1> QED BY <1>4, <1>5, <1>6, <1>7, <1>8

\* s holds the sums of the beginnings of f.
IsSum(s, f, n) == s = [k \in 0..n |-> IF k = 0 THEN 0 ELSE s[k-1] + f[k]]

\* Two ways to add up the same numbers agree.
LEMMA SumsAgree ==
  ASSUME NEW n \in Nat, NEW f, NEW g, \A k \in 1..n : f[k] = g[k],
         NEW s, NEW t, NEW m \in Nat, m >= n, IsSum(s, f, n), IsSum(t, g, m)
  PROVE  s[n] = t[n]
<1> DEFINE S == {k \in Nat : k <= n => s[k] = t[k]}
<1>1. 0 \in S
  BY DEF IsSum
<1>2. ASSUME NEW k \in Nat, k \in S PROVE k + 1 \in S
  <2> SUFFICES ASSUME k + 1 <= n PROVE s[k+1] = t[k+1]
    OBVIOUS
  <2>1. s[k] = t[k] /\ f[k+1] = g[k+1]
    BY <1>2
  <2>2. k + 1 \in 0..n /\ k + 1 \in 0..m /\ k + 1 # 0 /\ (k + 1) - 1 = k
    BY <1>2
  <2>3. s[k+1] = s[k] + f[k+1] /\ t[k+1] = t[k] + g[k+1]
    BY <2>2 DEF IsSum
  <2> QED BY <2>1, <2>3
<1>3. Nat \subseteq S
  <2> HIDE DEF S
  <2> QED BY <1>1, <1>2, NatIsInductive
<1>4. n \in S
  BY <1>3
<1> QED BY <1>4

\* The sums of the beginnings exist.
LEMMA SumExists ==
  ASSUME NEW f, NEW n \in Nat
  PROVE  \E s : IsSum(s, f, n)
<1> DEFINE S == {k \in Nat : \E s : IsSum(s, f, k)}
<1>1. 0 \in S
  <2>1. IsSum([k \in 0..0 |-> 0], f, 0)
    BY DEF IsSum
  <2> QED BY <2>1
<1>2. ASSUME NEW k \in Nat, k \in S PROVE k + 1 \in S
  <2>1. PICK s : IsSum(s, f, k)
    BY <1>2
  <2> DEFINE t == [j \in 0..k+1 |-> IF j <= k THEN s[j] ELSE s[k] + f[k+1]]
  <2>2. ASSUME NEW j \in 0..k+1 PROVE t[j] = IF j = 0 THEN 0 ELSE t[j-1] + f[j]
    <3>1. CASE j = 0
      BY <1>2, <2>1, <3>1 DEF IsSum
    <3>2. CASE j # 0 /\ j <= k
      <4>1. j - 1 \in 0..k+1 /\ j - 1 <= k /\ j \in 0..k
        BY <1>2, <3>2
      <4>2. s[j] = s[j-1] + f[j]
        BY <2>1, <3>2, <4>1 DEF IsSum
      <4> QED BY <3>2, <4>1, <4>2
    <3>3. CASE j = k + 1
      <4>1. j - 1 = k /\ k \in 0..k+1 /\ j # 0 /\ ~(j <= k)
        BY <1>2, <3>3
      <4> QED BY <3>3, <4>1
    <3> QED BY <1>2, <3>1, <3>2, <3>3
  <2>3. IsSum(t, f, k + 1)
    <3>1. t = [j \in 0..k+1 |-> t[j]]
      OBVIOUS
    <3> HIDE DEF t
    <3> QED BY <2>2, <3>1 DEF IsSum
  <2> QED BY <2>3
<1>3. Nat \subseteq S
  <2> HIDE DEF S
  <2> QED BY <1>1, <1>2, NatIsInductive
<1>4. n \in S
  BY <1>3
<1> QED BY <1>4

\* SumUpTo is the last of them.
LEMMA SumIs ==
  ASSUME NEW f, NEW n \in Nat
  PROVE  \E s : IsSum(s, f, n) /\ SumUpTo(f, n) = s[n]
<1> DEFINE s == CHOOSE t : IsSum(t, f, n)
<1>1. IsSum(s, f, n)
  BY SumExists
<1>2. SumUpTo(f, n) = s[n]
  BY DEF SumUpTo, IsSum
<1> QED BY <1>1, <1>2

\* What there is to know about sums.
LEMMA SumLaws ==
  ASSUME NEW f, NEW n \in Nat
  PROVE  /\ SumUpTo(f, 0) = 0
         /\ SumUpTo(f, n + 1) = SumUpTo(f, n) + f[n + 1]
         /\ \A g : (\A k \in 1..n : f[k] = g[k]) => SumUpTo(f, n) = SumUpTo(g, n)
<1>1. SumUpTo(f, 0) = 0
  <2>1. PICK s : IsSum(s, f, 0) /\ SumUpTo(f, 0) = s[0]
    BY SumIs
  <2> QED BY <2>1 DEF IsSum
<1>2. SumUpTo(f, n + 1) = SumUpTo(f, n) + f[n + 1]
  <2>1. PICK s : IsSum(s, f, n) /\ SumUpTo(f, n) = s[n]
    BY SumIs
  <2>2. PICK t : IsSum(t, f, n + 1) /\ SumUpTo(f, n + 1) = t[n + 1]
    BY SumIs
  <2>3. n + 1 \in Nat /\ n + 1 >= n /\ n + 1 \in 0..n+1 /\ n + 1 # 0 /\ (n + 1) - 1 = n
    OBVIOUS
  <2>4. s[n] = t[n]
    <3>1. \A k \in 1..n : f[k] = f[k]
      OBVIOUS
    <3>2. IsSum(s, f, n) /\ IsSum(t, f, n + 1)
      BY <2>1, <2>2
    <3>3. \A m \in Nat : m >= n /\ IsSum(t, f, m) => s[n] = t[n]
      BY <3>1, <3>2, SumsAgree
    <3> QED BY <2>3, <3>2, <3>3
  <2>5. t[n + 1] = t[n] + f[n + 1]
    BY <2>2, <2>3 DEF IsSum
  <2> QED BY <2>1, <2>2, <2>4, <2>5
<1>3. ASSUME NEW g, \A k \in 1..n : f[k] = g[k] PROVE SumUpTo(f, n) = SumUpTo(g, n)
  <2>1. PICK s : IsSum(s, f, n) /\ SumUpTo(f, n) = s[n]
    BY SumIs
  <2>2. PICK t : IsSum(t, g, n) /\ SumUpTo(g, n) = t[n]
    BY SumIs
  <2>3. n >= n
    OBVIOUS
  <2> QED BY <1>3, <2>1, <2>2, <2>3, SumsAgree
<1> QED BY <1>1, <1>2, <1>3

(***************************************************************************)
(* Sequences.                                                              *)
(***************************************************************************)

IsSeq(s) == \E S : s \in Seq(S)

Holds(s, e) == \E i \in 1..Len(s) : s[i] = e

\* Concatenation of sequences, of whatever elements, is a sequence and associative.
LEMMA SeqFacts ==
  ASSUME NEW s, NEW t, NEW u, IsSeq(s), IsSeq(t), IsSeq(u)
  PROVE  /\ IsSeq(s \o t) /\ (s \o t) \o u = s \o (t \o u)
         /\ s \o <<>> = s /\ <<>> \o s = s
<1>1. PICK A, B, C : s \in Seq(A) /\ t \in Seq(B) /\ u \in Seq(C)
  BY DEF IsSeq
<1>2. PICK S : S = A \cup B \cup C
  OBVIOUS
<1>3. s \in Seq(S) /\ t \in Seq(S) /\ u \in Seq(S)
  BY <1>1, <1>2
<1>4. s \o t \in Seq(S)
  BY <1>3
<1>5. IsSeq(s \o t)
  BY <1>4 DEF IsSeq
<1>6. (s \o t) \o u = s \o (t \o u)
  BY <1>3, ConcatAssociative
<1>7. s \o <<>> = s /\ <<>> \o s = s
  BY <1>3, ConcatEmptySeq
<1> QED BY <1>5, <1>6, <1>7

\* The empty list is a sequence.
LEMMA EmptyIsSeq == IsSeq(<<>>)
BY DEF IsSeq

\* A list of event types of some length makes a sequence of events.
LEMMA EventsIsSeq ==
  ASSUME NEW types, NEW subject, Len(types) \in Nat
  PROVE  IsSeq(Events(types, subject))
<1>1. PICK n : n = Len(types)
  OBVIOUS
<1>2. PICK E : E = {Events(types, subject)[i] : i \in 1..n}
  OBVIOUS
<1>3. Events(types, subject) \in Seq(E)
  BY <1>1, <1>2 DEF Events
<1> QED BY <1>3 DEF IsSeq

\* The lists of event types have a length.
LEMMA CommandEventsLength ==
  ASSUME NEW c
  PROVE  Len(CommandEvents(c)) \in Nat
<1>1. \/ CommandEvents(c) = <<>> \/ (\E a : CommandEvents(c) = <<a>>)
      \/ (\E a, b : CommandEvents(c) = <<a, b>>)
  BY Zenon DEF CommandEvents
<1> QED BY <1>1

\* The same for the event types of an outside event.
LEMMA StreamEventsLength ==
  ASSUME NEW s, NEW D
  PROVE  Len(StreamEvents(s, D)) \in Nat
<1>1. \/ StreamEvents(s, D) = <<>> \/ (\E a : StreamEvents(s, D) = <<a>>)
      \/ (\E a, b : StreamEvents(s, D) = <<a, b>>)
  BY Zenon DEF StreamEvents
<1> QED BY <1>1

EventInv ==
  /\ IsSeq(pending) /\ IsSeq(events) /\ IsSeq(observed)
  /\ phase \in Phases
  /\ EventsDelivered

Emits == \E es : IsSeq(es) /\ Emit(es)

\* A command emits a sequence of events.
LEMMA CommandEmits ==
  ASSUME NEW c, ApplyCommand(c)
  PROVE  Emits
<1>1. Emit(Events(CommandEvents(c), c.device))
  BY DEF ApplyCommand
<1> QED BY <1>1, CommandEventsLength, EventsIsSeq DEF Emits

\* So does a device that moves.
LEMMA BecomesEmits ==
  ASSUME NEW d, NEW r, NEW types, NEW outcome, Len(types) \in Nat,
         Becomes(d, r, types, outcome)
  PROVE  Emits
<1>1. Emit(Events(types, d))
  BY DEF Becomes
<1> QED BY <1>1, EventsIsSeq DEF Emits

\* So does every step of the dynamics, which does nothing else to the event lists.
LEMMA DynamicsEmits ==
  ASSUME Dynamics
  PROVE  Emits
<1>1. /\ Len(<<>>) \in Nat /\ \A a : Len(<<a>>) \in Nat
      /\ \A a, b : Len(<<a, b>>) \in Nat
  OBVIOUS
<1>2. CASE Washer \/ Dishwasher
  BY <1>1, <1>2, BecomesEmits DEF Washer, Dishwasher, Cycle
<1>3. CASE VacuumCleans \/ VacuumReturns \/ VacuumCharges
  BY <1>1, <1>3, BecomesEmits DEF VacuumCleans, VacuumReturns, VacuumCharges
<1>4. CASE Garage \/ Lock
  BY <1>1, <1>4, BecomesEmits DEF Garage, Lock
<1>5. CASE IntercomRings \/ IntercomAnswered
  BY <1>1, <1>5, BecomesEmits DEF IntercomRings, IntercomAnswered
<1>6. CASE Fridge \/ Stove \/ Bathroom
  BY <1>1, <1>6, BecomesEmits DEF Fridge, Stove, Bathroom
<1>7. CASE CoffeeBrews \/ CoffeeCools \/ Alarm
  BY <1>1, <1>7, BecomesEmits DEF CoffeeBrews, CoffeeCools, Alarm
<1>8. ASSUME NEW d, Supply(d) PROVE Emits
  <2>1. \E r, types : Len(types) \in Nat /\ Becomes(d, r, types, NoOutcome)
    <3>1. \A out : out \in {<<>>, <<"inventory_stockout">>} =>
            Len(out) \in Nat /\ Len(out \o <<"supply_delivered">>) \in Nat
      OBVIOUS
    <3> QED BY <1>8, <3>1 DEF Supply
  <2> QED BY <2>1, BecomesEmits
<1> QED BY <1>2, <1>3, <1>4, <1>5, <1>6, <1>7, <1>8 DEF Dynamics

\* Emitting keeps the account, before the first tick and within a tick.
LEMMA EmitKeeps ==
  ASSUME EventInv, Emits, phase # "execute", phase' \in Phases,
         phase = "accepted" <=> phase' = "accepted", phase' # "execute"
  PROVE  EventInv'
<1>1. PICK es : IsSeq(es) /\ Emit(es)
  BY DEF Emits
<1>2. CASE phase = "accepted"
  <2>1. /\ pending' = pending \o es /\ UNCHANGED <<events, observed>>
        /\ emitted' = emitted \o es /\ emitted = observed \o pending
    BY <1>1, <1>2 DEF Emit, EventInv, EventsDelivered
  <2>2. IsSeq(pending') /\ emitted' = observed \o pending'
    BY <1>1, <2>1, SeqFacts DEF EventInv
  <2> QED BY <1>2, <2>1, <2>2 DEF EventInv, EventsDelivered, InTick
<1>3. CASE phase # "accepted"
  <2>1. /\ events' = events \o es /\ UNCHANGED <<pending, observed>>
        /\ emitted' = emitted \o es /\ emitted = observed \o events /\ pending = <<>>
    BY <1>1, <1>3 DEF Emit, EventInv, EventsDelivered, InTick, Phases
  <2>2. IsSeq(events') /\ emitted' = observed \o events'
    BY <1>1, <2>1, SeqFacts DEF EventInv
  <2> QED BY <1>3, <2>1, <2>2 DEF EventInv, EventsDelivered, InTick
<1> QED BY <1>2, <1>3

\* So does every step that moves no event, from one part of a tick to another.
LEMMA QuietKeeps ==
  ASSUME EventInv, UNCHANGED busVars, phase' \in Phases,
         phase = "accepted" <=> phase' = "accepted", phase = "execute" <=> phase' = "execute"
  PROVE  EventInv'
BY DEF EventInv, EventsDelivered, InTick, Phases, busVars

\* Initially all event lists are empty.
LEMMA EventInit == Init => EventInv
<1> SUFFICES ASSUME Init PROVE EventInv
  OBVIOUS
<1>1. /\ pending = <<>> /\ events = <<>> /\ observed = <<>> /\ emitted = <<>>
      /\ phase = "execute"
  BY DEF Init
<1> QED BY <1>1, EmptyIsSeq DEF EventInv, EventsDelivered, Phases, InTick

\* Every step keeps the account of events.
LEMMA EventNext == EventInv /\ [Next]_vars => EventInv'
<1> SUFFICES ASSUME EventInv, [Next]_vars PROVE EventInv'
  OBVIOUS
<1>1. CASE AgentStep
  <2>1. phase = "execute" /\ phase' = "accepted" /\ UNCHANGED <<events, observed>>
    BY <1>1 DEF AgentStep, Act, InstallRule, CancelRule, Wait, Idle, Accept
  <2>2. pending = <<>> /\ observed = <<>>
    BY <2>1 DEF EventInv, EventsDelivered
  <2>3. IsSeq(pending') /\ emitted' = pending'
    <3>1. CASE UNCHANGED pending /\ emitted' = <<>>
      BY <2>2, <3>1, EmptyIsSeq
    <3>2. ASSUME NEW type, NEW subject, pending' = pending \o Events(<<type>>, subject),
                 emitted' = Events(<<type>>, subject)
          PROVE  IsSeq(pending') /\ emitted' = pending'
      <4>1. IsSeq(Events(<<type>>, subject))
        BY EventsIsSeq
      <4> QED BY <2>2, <3>2, <4>1, SeqFacts
    <3> QED BY <1>1, <3>1, <3>2 DEF AgentStep, Act, InstallRule, CancelRule, Wait
  <2>4. emitted' = observed' \o pending'
    BY <2>1, <2>2, <2>3, SeqFacts
  <2> QED BY <2>1, <2>3, <2>4 DEF EventInv, EventsDelivered, InTick, Phases
<1>2. CASE Running
  <2>1. CASE ApplyNext
    BY <2>1, CommandEmits, EmitKeeps DEF ApplyNext, Phases
  <2>2. CASE StartTick
    <3>1. /\ phase = "accepted" /\ phase' = "firing" /\ events' = pending /\ pending' = <<>>
          /\ UNCHANGED <<observed, emitted>>
      BY <2>2 DEF StartTick
    <3> QED BY <3>1, EmptyIsSeq DEF EventInv, EventsDelivered, InTick, Phases
  <2>3. CASE (\E r \in todo : TakeRule(r)) \/ StartReleases \/ RulesDone \/ ExogenousDone
             \/ Clocks
    BY <2>3, QuietKeeps DEF TakeRule, StartReleases, RulesDone, ExogenousDone, Clocks, Phases
  <2>4. CASE RuleCommand \/ RuleFired \/ RuleReleased
    <3>1. Emits
      <4>1. \A a, b, subject : IsSeq(Events(<<a>>, subject)) /\ IsSeq(Events(<<a, b>>, subject))
        BY EventsIsSeq
      <4> QED BY <2>4, <4>1, CommandEmits DEF RuleCommand, RuleFired, RuleReleased, Emits
    <3> QED BY <2>4, <3>1, EmitKeeps DEF RuleCommand, RuleFired, RuleReleased, Phases
  <2>5. ASSUME NEW s \in Streams, Exogenous(s) PROVE EventInv'
    <3>1. Emits
      BY <2>5, StreamEventsLength, EventsIsSeq DEF Exogenous, Emits
    <3> QED BY <2>5, <3>1, EmitKeeps DEF Exogenous, Phases
  <2>6. CASE Dynamics
    BY <2>6, DynamicsFrame, DynamicsEmits, EmitKeeps DEF Phases
  <2>7. CASE NextMicroTick
    <3>1. /\ phase = "dynamics" /\ phase' = "accepted" /\ observed' = observed \o events
          /\ UNCHANGED <<pending, events, emitted>>
      BY <2>7 DEF NextMicroTick
    <3>2. emitted = observed \o events /\ pending = <<>>
      BY <3>1 DEF EventInv, EventsDelivered, InTick
    <3>3. IsSeq(observed') /\ observed' = observed' \o pending'
      BY <3>1, <3>2, SeqFacts DEF EventInv
    <3> QED BY <3>1, <3>2, <3>3 DEF EventInv, EventsDelivered, InTick, Phases
  <2>8. CASE ReturnView
    <3>1. /\ phase = "dynamics" /\ phase' = "execute" /\ events' = observed \o events
          /\ observed' = <<>> /\ UNCHANGED <<pending, emitted>>
      BY <2>8 DEF ReturnView
    <3>2. emitted = observed \o events /\ pending = <<>>
      BY <3>1 DEF EventInv, EventsDelivered, InTick
    <3>3. IsSeq(events')
      BY <3>1, SeqFacts DEF EventInv
    <3> QED BY <3>1, <3>2, <3>3, EmptyIsSeq DEF EventInv, EventsDelivered, InTick, Phases
  <2> QED BY <1>2, <2>1, <2>2, <2>3, <2>4, <2>5, <2>6, <2>7, <2>8 DEF Running
<1>3. CASE UNCHANGED vars
  BY <1>3, QuietKeeps DEF vars, EventInv
<1> QED BY <1>1, <1>2, <1>3 DEF Next, Over

\* Whatever the agent sends and however long it waits, the view a call returns
\* holds every event emitted since the call began, once and in order.
THEOREM EventsAreDelivered == Spec => []EventsDelivered
<1>1. EventInv => EventsDelivered
  BY DEF EventInv
<1> QED BY <1>1, EventInit, EventNext, PTL DEF Spec
(***************************************************************************)
(* Calls: a wait does not run past its event, its ticks or the horizon.     *)
(***************************************************************************)

\* A call is under way from the accepted action to the view it returns.
CallInv ==
  /\ wait \in [left : Nat, filter : WaitFilters \cup {NoFilter}]
  /\ WaitWithinHorizon
  /\ WaitNeverOvershoots

\* Waiting takes at least one tick, even for less than a tick or close to the horizon.
LEMMA WaitTakesTicks ==
  ASSUME step \in Nat, NEW s \in WaitSeconds
  PROVE  WaitTicks(s) \in Nat /\ WaitTicks(s) >= 1
<1>1. Tick \in Nat /\ Tick > 0 /\ Horizon \in Nat /\ s \in Nat
  BY ConfigAssumption, InputAssumption
<1>2. step * Tick \in Nat
  BY <1>1
<1>3. PICK p : p = step * Tick
  OBVIOUS
<1>4. CeilDiv(s, Tick) \in Int /\ CeilDiv(Horizon - p, Tick) \in Int
  BY <1>1, <1>2, <1>3 DEF CeilDiv
<1>5. \A a, b \in Int : Smaller(Larger(1, a), Larger(1, b)) \in Nat
                        /\ Smaller(Larger(1, a), Larger(1, b)) >= 1
  BY DEF Smaller, Larger
<1> QED BY <1>3, <1>4, <1>5 DEF WaitTicks

\* Where the elements of a concatenation stand.
LEMMA ConcatIndices ==
  ASSUME NEW s, NEW t, IsSeq(s), IsSeq(t)
  PROVE  /\ Len(s) \in Nat /\ Len(t) \in Nat /\ Len(s \o t) = Len(s) + Len(t)
         /\ \A i \in 1..Len(s) + Len(t) :
              (s \o t)[i] = IF i <= Len(s) THEN s[i] ELSE t[i - Len(s)]
<1>1. PICK A, B : s \in Seq(A) /\ t \in Seq(B)
  BY DEF IsSeq
<1>2. s \in Seq(A \cup B) /\ t \in Seq(A \cup B)
  BY <1>1
<1> QED BY <1>2, ConcatProperties

\* What a concatenation holds is held by one of its parts.
LEMMA HeldByAPart ==
  ASSUME NEW s, NEW t, IsSeq(s), IsSeq(t), NEW e, Holds(s \o t, e)
  PROVE  Holds(s, e) \/ Holds(t, e)
<1>1. PICK i \in 1..Len(s \o t) : (s \o t)[i] = e
  BY DEF Holds
<1>2. CASE i <= Len(s)
  BY <1>1, <1>2, ConcatIndices DEF Holds
<1>3. CASE ~(i <= Len(s))
  <2>1. i - Len(s) \in 1..Len(t) /\ t[i - Len(s)] = e
    BY <1>1, <1>3, ConcatIndices
  <2> QED BY <2>1 DEF Holds
<1> QED BY <1>2, <1>3

\* What the second part holds is held by the concatenation.
LEMMA HeldByTheWhole ==
  ASSUME NEW s, NEW t, IsSeq(s), IsSeq(t), NEW e, Holds(t, e)
  PROVE  Holds(s \o t, e)
<1>1. PICK j \in 1..Len(t) : t[j] = e
  BY DEF Holds
<1>2. j + Len(s) \in 1..Len(s \o t) /\ (s \o t)[j + Len(s)] = e
  BY <1>1, ConcatIndices
<1> QED BY <1>2 DEF Holds

\* No call is under way when an episode starts.
LEMMA CallInit == Init => CallInv
<1> SUFFICES ASSUME Init PROVE CallInv
  OBVIOUS
<1>1. wait = [left |-> 0, filter |-> NoFilter] /\ phase = "execute"
  BY DEF Init
<1> QED BY <1>1 DEF CallInv, WaitWithinHorizon, WaitNeverOvershoots, InTick

\* Within a tick, and while a batch is applied, nothing happens to the call.
LEMMA CallFrame ==
  ASSUME CallInv, UNCHANGED <<wait, observed, step>>,
         \/ phase' = phase
         \/ InTick /\ InTick'
  PROVE  CallInv'
BY DEF CallInv, WaitWithinHorizon, WaitNeverOvershoots, InTick, Terminal

\* An accepted action begins a call.
LEMMA CallBegins ==
  ASSUME RuleInv, EventInv, AgentStep
  PROVE  CallInv'
<1>1. PICK n, filter : Accept(n, filter) /\ n \in Nat /\ n >= 1 /\ filter \in WaitFilters \cup {NoFilter}
  <2>1. step \in Nat
    BY DEF RuleInv, RuleTypes
  <2>2. \A s \in WaitSeconds : WaitTicks(s) \in Nat /\ WaitTicks(s) >= 1
    BY <2>1, WaitTakesTicks
  <2>3. 1 \in Nat /\ 1 >= 1
    OBVIOUS
  <2>4. CASE \E s \in WaitSeconds, f \in WaitFilters : Wait(s, f)
    BY <2>2, <2>4 DEF Wait
  <2>5. CASE Accept(1, NoFilter)
    BY <2>3, <2>5
  <2> QED BY <2>4, <2>5 DEF AgentStep, Act, InstallRule, CancelRule
<1>2. /\ phase = "execute" /\ ~Terminal /\ observed = <<>> /\ observed' = <<>>
  BY DEF AgentStep, Act, InstallRule, CancelRule, Wait, Idle, EventInv, EventsDelivered
<1>3. /\ phase' = "accepted" /\ step' = step /\ wait' = [left |-> n, filter |-> filter]
  BY <1>1 DEF Accept
<1>4. 1..Len(observed') = {}
  BY <1>2
<1> QED BY <1>1, <1>2, <1>3, <1>4 DEF CallInv, WaitWithinHorizon, WaitNeverOvershoots, InTick, Terminal

\* A tick that does not end the call is followed by another.
LEMMA CallGoesOn ==
  ASSUME EventInv, CallInv, NextMicroTick
  PROVE  CallInv'
<1>1. /\ phase = "dynamics" /\ phase' = "accepted" /\ ~CallEnds /\ observed' = observed \o events
      /\ wait' = [wait EXCEPT !.left = @ - 1] /\ step' = step
  BY DEF NextMicroTick
<1>2. wait.left \in Nat /\ wait.left >= 1 /\ wait.left # 1 /\ ~Terminal
  BY <1>1 DEF CallInv, WaitWithinHorizon, InTick, CallEnds
<1>3. wait' \in [left : Nat, filter : WaitFilters \cup {NoFilter}] /\ wait'.left >= 1
      /\ wait'.filter = wait.filter
  <2>1. PICK n : n = wait.left - 1
    OBVIOUS
  <2>2. wait' = [wait EXCEPT !.left = n] /\ n \in Nat /\ n >= 1
    BY <1>1, <1>2, <2>1
  <2>3. wait \in [left : Nat, filter : WaitFilters \cup {NoFilter}]
    BY DEF CallInv
  <2> QED BY <2>2, <2>3
<1>4. WaitWithinHorizon'
  BY <1>1, <1>2, <1>3 DEF WaitWithinHorizon, InTick, Terminal
<1>5. WaitNeverOvershoots'
  <2> SUFFICES ASSUME wait.filter # NoFilter, NEW i \in 1..Len(observed \o events)
               PROVE  (observed \o events)[i].type # wait.filter
    BY <1>1, <1>3 DEF WaitNeverOvershoots
  <2>1. \A j \in 1..Len(observed) : observed[j].type # wait.filter
    BY DEF CallInv, WaitNeverOvershoots
  <2>2. \A j \in 1..Len(events) : events[j].type # wait.filter
    BY <1>1 DEF CallEnds, Matches
  <2>3. PICK e : e = (observed \o events)[i]
    OBVIOUS
  <2>4. IsSeq(observed) /\ IsSeq(events)
    BY DEF EventInv
  <2>5. Holds(observed \o events, e)
    BY <2>3 DEF Holds
  <2>6. Holds(observed, e) \/ Holds(events, e)
    BY <2>4, <2>5, HeldByAPart
  <2>7. e.type # wait.filter
    BY <2>1, <2>2, <2>6 DEF Holds
  <2> QED BY <2>3, <2>7
<1> QED BY <1>3, <1>4, <1>5 DEF CallInv

\* Every step keeps to the call: it starts within the horizon and ends with its event.
LEMMA CallNext == RuleInv /\ EventInv /\ CallInv /\ [Next]_vars => CallInv'
<1> SUFFICES ASSUME RuleInv, EventInv, CallInv, [Next]_vars PROVE CallInv'
  OBVIOUS
<1>1. CASE AgentStep
  BY <1>1, CallBegins
<1>2. CASE Running
  <2>1. CASE ApplyNext
    BY <2>1, CallFrame DEF ApplyNext, ApplyCommand, Emit
  <2>2. CASE StartTick
    <3>1. /\ phase = "accepted" /\ phase' = "firing" /\ step' = step + 1
          /\ UNCHANGED <<wait, observed>> /\ step \in Nat
      BY <2>2 DEF StartTick, RuleInv, RuleTypes
    <3>2. step' - 1 = step
      BY <3>1
    <3> QED BY <3>1, <3>2, ConfigAssumption
            DEF CallInv, WaitWithinHorizon, WaitNeverOvershoots, InTick, Terminal
  <2>3. CASE (\E r \in todo : TakeRule(r)) \/ StartReleases \/ RulesDone \/ ExogenousDone \/ Clocks
    BY <2>3, CallFrame DEF TakeRule, StartReleases, RulesDone, ExogenousDone, Clocks, InTick, busVars
  <2>4. CASE RuleCommand \/ RuleFired \/ RuleReleased \/ \E s \in Streams : Exogenous(s)
    BY <2>4, CallFrame DEF RuleCommand, ApplyCommand, RuleFired, RuleReleased, Exogenous, Emit
  <2>5. CASE Dynamics
    <3>1. UNCHANGED observed
      BY <2>5, DynamicsEmits DEF Emits, Emit
    <3> QED BY <2>5, <3>1, DynamicsFrame, CallFrame DEF ruleState
  <2>6. CASE NextMicroTick
    BY <2>6, CallGoesOn
  <2>7. CASE ReturnView
    <3>1. /\ phase' = "execute" /\ wait' = [left |-> 0, filter |-> NoFilter]
      BY <2>7 DEF ReturnView
    <3> QED BY <3>1 DEF CallInv, WaitWithinHorizon, WaitNeverOvershoots, InTick
  <2> QED BY <1>2, <2>1, <2>2, <2>3, <2>4, <2>5, <2>6, <2>7 DEF Running
<1>3. CASE UNCHANGED vars
  BY <1>3, CallFrame DEF vars, busVars
<1> QED BY <1>1, <1>2, <1>3 DEF Next, Over

\* The invariant the theorems about calls rest on.
THEOREM CallInvariant == Spec => []CallInv
<1>1. Init => CallInv
  BY CallInit
<1>2. RuleInv /\ EventInv /\ CallInv /\ [Next]_vars => CallInv'
  BY CallNext
<1>3. Spec => []EventInv
  BY EventInit, EventNext, PTL DEF Spec
<1> QED BY <1>1, <1>2, <1>3, RuleInvariant, PTL DEF Spec

\* advance returns with the first tick whose events hold the one it waits for.
THEOREM WaitsStopInTime == Spec => []WaitNeverOvershoots
<1>1. CallInv => WaitNeverOvershoots
  BY DEF CallInv
<1> QED BY <1>1, CallInvariant, PTL

\* advance starts no tick at or past the horizon, nor one more than it was asked for,
\* for any duration, tick and horizon, multiples of one another or not.
THEOREM WaitsStayInHorizon == Spec => []WaitWithinHorizon
<1>1. CallInv => WaitWithinHorizon
  BY DEF CallInv
<1> QED BY <1>1, CallInvariant, PTL

(***************************************************************************)
(* Rules do not disappear unheard of.                                      *)
(***************************************************************************)

\* What is emitted within a tick is heard.
LEMMA EmittedIsHeard ==
  ASSUME EventInv, NEW types, NEW subject, Len(types) \in Nat,
         phase \notin {"execute", "accepted"}, Emit(Events(types, subject)),
         NEW n \in 1..Len(types)
  PROVE  Heard(types[n], subject)
<1>1. PICK es : es = Events(types, subject)
  OBVIOUS
<1>2. events' = events \o es
  BY <1>1 DEF Emit
<1>3. IsSeq(es) /\ IsSeq(events)
  BY <1>1, EventsIsSeq DEF EventInv
<1>4. n \in 1..Len(es)
  BY <1>1 DEF Events
<1>5. es[n] = [type |-> types[n], of |-> subject, at |-> step]
  BY <1>1 DEF Events
<1>6. PICK e : e = es[n]
  OBVIOUS
<1>7. Holds(es, e)
  BY <1>4, <1>6 DEF Holds
<1>8. Holds(events \o es, e)
  BY <1>3, <1>7, HeldByTheWhole
<1> QED BY <1>2, <1>5, <1>6, <1>8 DEF Heard, Holds

\* The three ways in which a rule disappears.
LEMMA RetirementIsHeard ==
  ASSUME RuleInv, EventInv, [Next]_vars, NEW r \in rules \ rules'
  PROVE  \/ /\ phase = "execute"
            /\ \E i \in 1..Len(pending') : pending'[i].type = "rule_cancelled" /\ pending'[i].of = r.id
         \/ r.fire = step /\ r.release = 0 /\ Heard("rule_fired", r.id) /\ Heard("rule_retired", r.id)
         \/ r.release = step /\ Heard("rule_released", r.id)
<1>1. CASE \E q \in rules : CancelRule(q)
  <2>1. CancelRule(r)
    BY <1>1 DEF CancelRule
  <2>2. PICK es : es = Events(<<"rule_cancelled">>, r.id)
    OBVIOUS
  <2>3. phase = "execute" /\ pending' = pending \o es
    BY <2>1, <2>2 DEF CancelRule, Idle
  <2>4. 1 \in 1..Len(es) /\ es[1].type = "rule_cancelled" /\ es[1].of = r.id
    BY <2>2 DEF Events
  <2>5. IsSeq(es) /\ IsSeq(pending)
    BY <2>2, EventsIsSeq DEF EventInv
  <2>6. PICK e : e = es[1]
    OBVIOUS
  <2>7. Holds(es, e)
    BY <2>4, <2>6 DEF Holds
  <2>8. Holds(pending \o es, e)
    BY <2>5, <2>7, HeldByTheWhole
  <2> QED BY <2>3, <2>4, <2>6, <2>8 DEF Holds
<1>2. CASE RuleFired
  <2>1. /\ phase = "firing" /\ r = current /\ r.release = 0
        /\ Emit(Events(<<"rule_fired", "rule_retired">>, r.id))
    BY <1>2 DEF RuleFired
  <2>2. r.fire = step
    BY <2>1 DEF RuleInv, RuleWindow, Handled
  <2>3. /\ Len(<<"rule_fired", "rule_retired">>) = 2
        /\ <<"rule_fired", "rule_retired">>[1] = "rule_fired"
        /\ <<"rule_fired", "rule_retired">>[2] = "rule_retired"
        /\ 1 \in 1..2 /\ 2 \in 1..2 /\ 2 \in Nat
    OBVIOUS
  <2>4. Heard("rule_fired", r.id)
    BY <2>1, <2>3, EmittedIsHeard
  <2>5. Heard("rule_retired", r.id)
    BY <2>1, <2>3, EmittedIsHeard
  <2> QED BY <2>1, <2>2, <2>4, <2>5
<1>3. CASE RuleReleased
  <2>1. phase = "releasing" /\ r = current /\ Emit(Events(<<"rule_released">>, r.id))
    BY <1>3 DEF RuleReleased
  <2>2. r.release = step
    BY <2>1 DEF RuleInv, RuleWindow, Handled
  <2>3. Len(<<"rule_released">>) = 1 /\ <<"rule_released">>[1] = "rule_released" /\ 1 \in 1..1 /\ 1 \in Nat
    OBVIOUS
  <2>4. Heard("rule_released", r.id)
    BY <2>1, <2>3, EmittedIsHeard
  <2> QED BY <2>2, <2>4
<1>4. ~Dynamics
  BY DynamicsFrame DEF ruleState
<1> QED
  BY <1>1, <1>2, <1>3, <1>4
  DEF Next, Over, vars, ruleVars, AgentStep, Act, InstallRule, Wait, Running, ApplyNext, StartTick,
      TakeRule, RuleCommand, StartReleases, RulesDone, Exogenous, ExogenousDone, Clocks,
      NextMicroTick, ReturnView

\* No step of the backend takes a rule away without an event that tells of it: in the
\* events of the tick, or, for a cancelled rule, in those of the next view.
THEOREM RetirementIsAnnounced == Spec => NoSilentRetirement
<1>1. RuleInv /\ EventInv /\ [Next]_vars =>
        [\A r \in rules \ rules' :
           \/ /\ phase = "execute"
              /\ \E i \in 1..Len(pending') : pending'[i].type = "rule_cancelled" /\ pending'[i].of = r.id
           \/ r.fire = step /\ r.release = 0 /\ Heard("rule_fired", r.id) /\ Heard("rule_retired", r.id)
           \/ r.release = step /\ Heard("rule_released", r.id)]_vars
  BY RetirementIsHeard
<1>2. Spec => []EventInv
  BY EventInit, EventNext, PTL DEF Spec
<1> QED BY <1>1, <1>2, RuleInvariant, PTL DEF Spec, NoSilentRetirement
=============================================================================
