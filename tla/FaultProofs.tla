---------------------------- MODULE FaultProofs ----------------------------
(***************************************************************************)
(* For every instance of DiscreteFault: no command takes effect on a device *)
(* that is down (AppliedAvailable), in a step that no window covers the     *)
(* faulty household is the household it wraps (Transparent), and the timers *)
(* of the machines tell what the windows cost (TimerUnderFaults).  Last,    *)
(* what faults leave standing: the rules and events, the tasks, metrics,    *)
(* supplies and orders are as in a healthy household.                       *)
(*                                                                         *)
(* The invariant of the first two is that of the batches with the health of *)
(* the devices beside their state: a list is checked in the step in which   *)
(* it is applied, and what was slowed is lengthened within that step.  The  *)
(* third needs one of its own, TimerInv, which follows a cycle from the     *)
(* command that starts it to the turn that ends it; for the rest a step of  *)
(* the wrapper's own is a refused call or a device with another time to go. *)
(***************************************************************************)
EXTENDS DiscreteFault, HouseholdProofs

\* A device waits to be lengthened only in the step whose window slowed it, delays
\* only between clocks and dynamics, and an accepted list has no device that is down.
FaultShape ==
  /\ faults \in FaultSchedules
  /\ \A d \in slowed : Slow(d, step) # {}
  /\ delaying => phase = "dynamics"
  /\ phase = "accepted" => \A i \in 1..Len(batch) : ~Down(batch[i].device, step)

FaultInv == ScenarioKnown /\ RuleInv /\ BatchInv /\ FaultShape

\* A rule's command that the health of its device forbids.
RuleCommandDown ==
  /\ phase \in {"firing", "releasing"} /\ batch # <<>> /\ slowed = {}
  /\ Down(Head(batch).device, step)
  /\ Emit(Events(<<"rule_command_skipped">>, current.id))
  /\ batch' = Tail(batch)
  /\ UNCHANGED <<outsideVars, step, dev, taskVars, homeVars, ruleVars, cost, phase,
                 todo, current, due, wait, faultVars>>

\* The wrapper's steps, but for four of them, are the household's.
LEMMA WrappedSteps ==
  ASSUME [FaultNext]_allVars
  PROVE  \/ [Next]_vars
         \/ \E cs \in Batches[scenario] : Refused(cs)
         \/ Lengthen \/ Delays \/ RuleCommandDown
<1>1. ASSUME NEW cs \in Batches[scenario], ActUp(cs) PROVE Next
  BY <1>1 DEF ActUp, Next, AgentStep
<1>2. CASE Otherwise
  BY <1>2 DEF Otherwise, Next, AgentStep
<1>3. CASE ApplySlowed \/ ClocksThenDelays
  BY <1>3 DEF ApplySlowed, ClocksThenDelays, Next, Running
<1>4. CASE RuleCommandUp
  BY <1>4 DEF RuleCommandUp, RuleCommandDown, Next, Running, faultVars
<1>5. CASE Inherited
  BY <1>5 DEF Inherited, Next, Running
<1>6. CASE Over \/ UNCHANGED allVars
  BY <1>6 DEF Next, allVars
<1> QED  BY <1>1, <1>2, <1>3, <1>4, <1>5, <1>6 DEF FaultNext

\* Initially nothing is accepted, slowed or delayed.
LEMMA FaultStarts == FaultInit => FaultInv
<1> SUFFICES ASSUME FaultInit PROVE FaultInv
  OBVIOUS
<1>1. ScenarioKnown /\ RuleInv /\ BatchInv
  BY ScenarioInit, RuleInit, BatchInit DEF FaultInit
<1>2. phase = "execute"
  BY DEF FaultInit, Init
<1>3. FaultShape
  BY <1>2 DEF FaultInit, FaultShape
<1> QED  BY <1>1, <1>3 DEF FaultInv

\* What the four steps of the wrapper's own leave alone.
LEMMA OwnSteps ==
  ASSUME FaultInv, (\E cs \in Batches[scenario] : Refused(cs)) \/ Lengthen \/ Delays \/ RuleCommandDown
  PROVE  ScenarioKnown' /\ RuleInv' /\ BatchInv' /\ FaultShape'
<1>1. /\ UNCHANGED ruleState /\ UNCHANGED <<scenario, faults>>
      /\ phase' = phase \/ (phase = "execute" /\ phase' = "accepted")
  BY DEF Refused, Idle, Accept, Lengthen, Delays, RuleCommandDown, ruleState, ruleVars, outsideVars, faultVars
<1>2. ScenarioKnown'
  BY <1>1 DEF FaultInv, ScenarioKnown
<1>3. RuleInv'
  BY <1>1, RuleFrame DEF FaultInv, Phases
<1>4. /\ batch \in Seq(Command) /\ DevShape
      /\ phase = "execute" \/ phase = "dynamics" => batch = <<>>
      /\ phase \in {"firing", "releasing"} /\ current = NoRule => batch = <<>>
  BY DEF FaultInv, BatchInv, BatchShape
<1>5. CASE \E cs \in Batches[scenario] : Refused(cs)
  <2>1. /\ phase = "execute" /\ phase' = "accepted" /\ batch' = <<>> /\ UNCHANGED <<dev, step, faultVars>>
    BY <1>4, <1>5 DEF Refused, Idle, Accept
  <2>2. BatchInv'
    BY <1>4, <2>1, Empty DEF BatchInv, DevShape, BatchShape, BatchStaysLegal
  <2>3. FaultShape'
    BY <2>1, Empty DEF FaultInv, FaultShape, faultVars, Slow, Active
  <2> QED  BY <1>2, <1>3, <2>2, <2>3
<1>6. CASE Lengthen
  <2>1. /\ phase = "accepted" => batch = <<>>
        /\ UNCHANGED <<phase, batch, current, step, faults, delaying>> /\ slowed' = {}
    BY <1>6 DEF Lengthen, outsideVars
  <2>2. DevShape'
    BY <1>6 DEF Lengthen, DevShape
  <2>3. BatchInv'
    BY <2>1, <2>2, Empty DEF FaultInv, BatchInv, BatchShape, BatchStaysLegal
  <2>4. FaultShape'
    BY <2>1, Empty DEF FaultInv, FaultShape
  <2> QED  BY <1>2, <1>3, <2>3, <2>4
<1>7. CASE Delays
  <2>1. /\ phase = "dynamics" /\ ~delaying'
        /\ UNCHANGED <<phase, batch, current, step, faults, slowed>>
    BY <1>7 DEF Delays, outsideVars, FaultInv, FaultShape
  <2>2. DevShape'
    BY <1>7 DEF Delays, DevShape
  <2>3. BatchInv'
    BY <2>1, <2>2 DEF FaultInv, BatchInv, BatchShape, BatchStaysLegal
  <2>4. FaultShape'
    BY <2>1 DEF FaultInv, FaultShape, Slow, Active
  <2> QED  BY <1>2, <1>3, <2>3, <2>4
<1>8. CASE RuleCommandDown
  <2>1. /\ phase \in {"firing", "releasing"} /\ batch # <<>> /\ batch' = Tail(batch)
        /\ UNCHANGED <<phase, dev, current, step, faultVars>>
    BY <1>8 DEF RuleCommandDown
  <2>2. BatchInv'
    BY <1>4, <2>1 DEF BatchInv, DevShape, BatchShape, BatchStaysLegal
  <2>3. FaultShape'
    BY <2>1 DEF FaultInv, FaultShape, faultVars, Slow, Active
  <2> QED  BY <1>2, <1>3, <2>2, <2>3
<1> QED  BY <1>5, <1>6, <1>7, <1>8

\* The household's steps keep what was slowed, delayed and accepted in order.
LEMMA WrappedKeepShape ==
  ASSUME FaultInv, [FaultNext]_allVars, [Next]_vars,
         ~\E cs \in Batches[scenario] : Refused(cs), ~Lengthen, ~Delays, ~RuleCommandDown
  PROVE  FaultShape'
<1>1. ASSUME NEW cs \in Batches[scenario], ActUp(cs) PROVE FaultShape'
  <2>1. /\ phase = "execute" /\ phase' = "accepted" /\ batch' = cs /\ UNCHANGED <<step, faultVars>>
        /\ \A i \in 1..Len(cs) : ~Down(cs[i].device, step)
    BY <1>1 DEF ActUp, Act, Idle, Accept
  <2> QED  BY <2>1 DEF FaultInv, FaultShape, faultVars, Slow, Down, Active
<1>2. CASE Otherwise
  <2>1. phase = "execute" /\ phase' = "accepted" /\ UNCHANGED <<batch, step, faultVars>>
    BY <1>2 DEF Otherwise, InstallRule, CancelRule, Wait, Idle, Accept
  <2>2. batch' = <<>>
    BY <2>1 DEF FaultInv, BatchInv, BatchShape
  <2> QED  BY <2>1, <2>2, Empty DEF FaultInv, FaultShape, faultVars, Slow, Active
<1>3. CASE ApplySlowed
  <2>1. /\ phase = "accepted" /\ batch # <<>> /\ batch' = Tail(batch)
        /\ UNCHANGED <<phase, step, faults, delaying>>
        /\ slowed' = slowed \cup Slowing(Head(batch))
    BY <1>3 DEF ApplySlowed, ApplyNext
  <2>2. batch \in Seq(Command)
    BY DEF FaultInv, BatchInv, BatchShape
  <2>3. \A i \in 1..Len(batch') : i + 1 \in 1..Len(batch) /\ batch'[i] = batch[i + 1]
    BY <2>1, <2>2
  <2>4. \A d \in slowed' : Slow(d, step) # {}
    BY <2>1 DEF Slowing, FaultInv, FaultShape
  <2>5. \A i \in 1..Len(batch') : ~Down(batch'[i].device, step)
    BY <2>1, <2>3 DEF FaultInv, FaultShape
  <2> QED  BY <2>1, <2>4, <2>5 DEF FaultInv, FaultShape, Slow, Down, Active
<1>4. CASE RuleCommandUp
  <2>1. /\ phase \in {"firing", "releasing"} /\ UNCHANGED <<phase, step, faults, delaying>>
        /\ slowed' \subseteq Slowing(Head(batch))
    BY <1>4 DEF RuleCommandUp, RuleCommandDown, RuleCommand, faultVars
  <2>2. \A d \in slowed' : Slow(d, step) # {}
    BY <2>1 DEF Slowing
  <2> QED  BY <2>1, <2>2 DEF FaultInv, FaultShape, Slow, Active
<1>5. CASE ClocksThenDelays
  <2>1. phase' = "dynamics" /\ UNCHANGED <<step, faults, slowed>>
    BY <1>5 DEF ClocksThenDelays, Clocks
  <2> QED  BY <2>1 DEF FaultInv, FaultShape, Slow, Active
<1>6. CASE Inherited
  <2>1. slowed' = {} /\ ~delaying' /\ faults' = faults
    BY <1>6 DEF Inherited, faultVars
  <2>2. phase' = "accepted" => batch' = <<>>
    <3>1. CASE NextMicroTick
      BY <3>1 DEF NextMicroTick, FaultInv, BatchInv, BatchShape
    <3>2. CASE Dynamics
      BY <3>2, DynamicsFrame
    <3> QED
      BY <1>6, <3>1, <3>2 DEF Inherited, StartTick, TakeRule, RuleFired, StartReleases, RuleReleased,
         RulesDone, Exogenous, ExogenousDone, ReturnView
  <2> QED  BY <2>1, <2>2, Empty DEF FaultInv, FaultShape
<1>7. CASE (Over /\ UNCHANGED faultVars) \/ UNCHANGED allVars
  BY <1>7 DEF Over, allVars, vars, faultVars, FaultInv, FaultShape, Slow, Down, Active
<1> QED  BY <1>1, <1>2, <1>3, <1>4, <1>5, <1>6, <1>7 DEF FaultNext

\* Every step of a faulty household keeps the invariant.
LEMMA FaultKeeps == FaultInv /\ [FaultNext]_allVars => FaultInv'
<1> SUFFICES ASSUME FaultInv, [FaultNext]_allVars PROVE FaultInv'
  OBVIOUS
<1>1. CASE (\E cs \in Batches[scenario] : Refused(cs)) \/ Lengthen \/ Delays \/ RuleCommandDown
  BY <1>1, OwnSteps DEF FaultInv
<1>2. CASE ~((\E cs \in Batches[scenario] : Refused(cs)) \/ Lengthen \/ Delays \/ RuleCommandDown)
  <2>1. [Next]_vars
    BY <1>2, WrappedSteps
  <2>2. ScenarioKnown' /\ RuleInv' /\ BatchInv'
    BY <2>1, ScenarioNext, RuleNext, BatchNext DEF FaultInv, ScenarioKnown
  <2> QED  BY <1>2, <2>1, <2>2, WrappedKeepShape DEF FaultInv
<1> QED  BY <1>1, <1>2

\* A step that costs something applies a command that the state and the health of
\* its device allow.
LEMMA CostIsAvailable ==
  ASSUME FaultInv, [FaultNext]_allVars, cost' # cost
  PROVE  CommandOk(Head(batch)) /\ ~Down(Head(batch).device, step)
<1>1. [Next]_vars
  BY WrappedSteps DEF Refused, Accept, Lengthen, Delays, RuleCommandDown
<1>2. CommandOk(Head(batch))
  BY <1>1, CostIsLegal DEF FaultInv
<1>3. CASE ApplySlowed
  <2>1. batch \in Seq(Command) /\ batch # <<>> /\ phase = "accepted"
    BY <1>3 DEF ApplySlowed, ApplyNext, FaultInv, BatchInv, BatchShape
  <2>2. 1 \in 1..Len(batch) /\ Head(batch) = batch[1]
    BY <2>1
  <2> QED  BY <1>2, <2>1, <2>2 DEF FaultInv, FaultShape
<1>4. CASE RuleCommandUp
  BY <1>2, <1>4 DEF RuleCommandUp
<1>5. ~Dynamics
  BY DynamicsFrame
<1> QED
  BY <1>3, <1>4, <1>5
  DEF FaultNext, ActUp, Act, Refused, Otherwise, InstallRule, CancelRule, Wait, Accept, Lengthen,
      ClocksThenDelays, Clocks, Delays, Inherited, StartTick, TakeRule, RuleFired, StartReleases,
      RuleReleased, RulesDone, Exogenous, ExogenousDone, NextMicroTick, ReturnView, Over, vars, allVars

\* Outside the windows every step is one of the household's.
LEMMA NoWindowNoFault ==
  ASSUME FaultInv, [FaultNext]_allVars, \A w \in faults : step < w.from \/ w.until <= step
  PROVE  [Next]_vars
<1>1. \A d : Active(d, step) = {}
  <2>1. faults \subseteq Window /\ step \in Nat
    BY ScheduleAssumption DEF FaultInv, FaultShape, RuleInv, RuleTypes
  <2>2. \A w \in faults : w.from \in Nat /\ w.until \in Nat
    BY <2>1 DEF Window
  <2> QED  BY <2>1, <2>2 DEF Active
<1>2. \A d : Slow(d, step) = {} /\ ~Down(d, step)
  BY <1>1 DEF Slow, Down
<1>3. slowed = {}
  BY <1>2 DEF FaultInv, FaultShape
<1>4. ~Lengthen /\ ~RuleCommandDown
  BY <1>2, <1>3 DEF Lengthen, RuleCommandDown
<1>5. ASSUME NEW cs \in Batches[scenario], Refused(cs) PROVE Next
  <2>1. batch = <<>>
    BY <1>5 DEF Refused, Idle, FaultInv, BatchInv, BatchShape
  <2>2. CommandsOk(<<>>)
    BY Empty DEF CommandsOk, MaxActions
  <2>3. Act(<<>>)
    BY <1>5, <2>1, <2>2 DEF Refused, Act
  <2>4. <<>> \in Batches[scenario]
    BY AskAssumption DEF FaultInv, ScenarioKnown
  <2> QED  BY <2>3, <2>4 DEF Next, AgentStep
<1>6. CASE Delays
  <2>1. Delayed = {}
    BY <1>1 DEF Delayed
  <2>2. dev' = [d \in Devices |-> dev[d]]
    BY <1>6, <2>1 DEF Delays
  <2>3. dev' = dev
    BY <2>2 DEF FaultInv, BatchInv, DevShape
  <2> QED  BY <1>6, <2>3 DEF Delays, vars
<1> QED  BY <1>4, <1>5, <1>6, WrappedSteps

\* The invariant of the faulty household.
LEMMA FaultInvariant == FaultSpec => []FaultInv
BY FaultStarts, FaultKeeps, PTL DEF FaultSpec

\* No command takes effect on a device that is down, or in a state that does not
\* allow it, whenever its rule was installed or its list accepted.
THEOREM CommandsFindHealth == FaultSpec => AppliedAvailable
<1>1. FaultInv /\ [FaultNext]_allVars =>
        [cost' # cost => CommandOk(Head(batch)) /\ ~Down(Head(batch).device, step)]_allVars
  BY CostIsAvailable
<1> QED  BY <1>1, FaultInvariant, PTL DEF FaultSpec, AppliedAvailable

\* In a step no window covers, every transition is one of the household's, whatever
\* earlier windows have lengthened or delayed.
THEOREM FaultsAreTransparent == FaultSpec => Transparent
<1>1. FaultInv /\ [FaultNext]_allVars =>
        [(\A w \in faults : step < w.from \/ w.until <= step) => Next]_vars
  BY NoWindowNoFault
<1> QED  BY <1>1, FaultInvariant, PTL DEF FaultSpec, Transparent

\* Given a schedule without windows, the wrapper is the household it wraps, in all that
\* Spec says of one.
THEOREM WithoutWindowsHousehold == FaultSpec /\ faults = {} => Spec
<1>1. FaultInit => Init
  BY DEF FaultInit
<1>2. faults = {} /\ [FaultNext]_allVars => (faults = {})'
  BY DEF FaultNext, allVars, faultVars, ActUp, Refused, Otherwise, ApplySlowed, Lengthen, RuleCommandUp,
         ClocksThenDelays, Delays, Inherited
<1>3. FaultInv /\ faults = {} /\ [FaultNext]_allVars => [Next]_vars
  BY NoWindowNoFault
<1> QED  BY <1>1, <1>2, <1>3, FaultInvariant, PTL DEF FaultSpec, Spec

(***************************************************************************)
(* Rules, events and calls do not notice the faults.                       *)
(***************************************************************************)

BusInv == EventInv /\ CallInv

\* A refused command begins a call of one tick, without an event.
LEMMA RefusedBus ==
  ASSUME FaultInv, BusInv, NEW cs, Refused(cs)
  PROVE  BusInv'
<1>1. /\ phase = "execute" /\ ~Terminal /\ phase' = "accepted" /\ step' = step /\ emitted' = <<>>
      /\ wait' = [left |-> 1, filter |-> NoFilter] /\ UNCHANGED <<pending, events, observed>>
  BY DEF Refused, Idle, Accept
<1>2. pending = <<>> /\ observed = <<>>
  BY <1>1 DEF BusInv, EventInv, EventsDelivered
<1>3. <<>> \o <<>> = <<>>
  OBVIOUS
<1>4. EventInv'
  BY <1>1, <1>2, <1>3 DEF BusInv, EventInv, EventsDelivered, Phases, InTick
<1>5. CallInv'
  BY <1>1 DEF CallInv, WaitWithinHorizon, WaitNeverOvershoots, InTick, Terminal
<1> QED  BY <1>4, <1>5 DEF BusInv

\* A skipped command of a rule tells of itself.
LEMMA SkippedBus ==
  ASSUME FaultInv, BusInv, RuleCommandDown
  PROVE  BusInv'
<1>1. /\ phase \in {"firing", "releasing"} /\ UNCHANGED <<phase, wait, step>>
      /\ Emit(Events(<<"rule_command_skipped">>, current.id))
  BY DEF RuleCommandDown
<1>2. Len(<<"rule_command_skipped">>) \in Nat
  OBVIOUS
<1>3. Emits
  BY <1>1, <1>2, EventsIsSeq DEF Emits
<1>4. EventInv'
  BY <1>1, <1>3, EmitKeeps DEF BusInv, Phases
<1>5. CallInv'
  BY <1>1, CallFrame DEF BusInv, Emit
<1> QED  BY <1>4, <1>5 DEF BusInv

\* Every step of a faulty household keeps the accounts of events and calls.
LEMMA BusKeeps == FaultInv /\ BusInv /\ [FaultNext]_allVars => BusInv'
<1> SUFFICES ASSUME FaultInv, BusInv, [FaultNext]_allVars PROVE BusInv'
  OBVIOUS
<1>1. CASE [Next]_vars
  BY <1>1, EventNext, CallNext DEF FaultInv, BusInv
<1>2. CASE Lengthen \/ Delays
  <2>1. UNCHANGED <<busVars, phase, wait, step>>
    BY <1>2 DEF Lengthen, Delays
  <2> QED  BY <2>1, QuietKeeps, CallFrame DEF BusInv, EventInv, busVars
<1> QED  BY <1>1, <1>2, RefusedBus, SkippedBus, WrappedSteps

LEMMA BusInvariant == FaultSpec => []BusInv
<1>1. FaultInit => BusInv
  BY EventInit, CallInit DEF FaultInit, BusInv
<1> QED  BY <1>1, BusKeeps, FaultInvariant, PTL DEF FaultSpec

\* Whatever fails, the table of rules, the events the agent is shown and the time its
\* waits take are those of a healthy household.
THEOREM FaultsKeepPromises ==
  FaultSpec => [](/\ RuleWindow /\ RulesDistinct /\ EventsDelivered
                  /\ WaitNeverOvershoots /\ WaitWithinHorizon)
<1>1. FaultInv /\ BusInv => /\ RuleWindow /\ RulesDistinct /\ EventsDelivered
                            /\ WaitNeverOvershoots /\ WaitWithinHorizon
  BY DEF FaultInv, RuleInv, BusInv, EventInv, CallInv
<1> QED  BY <1>1, FaultInvariant, BusInvariant, PTL

\* The faulty household implements the book of timers: a rule whose device is down has
\* fired at its step all the same, and is not tried again.
THEOREM FaultsKeepTheBook == FaultSpec => RulesKeepTime
<1>1. FaultInit => Book!Init
  <2> SUFFICES ASSUME FaultInit PROVE Book!Init
    OBVIOUS
  <2>1. step = 0 /\ rules = {}
    BY DEF FaultInit, Init
  <2> QED  BY <2>1 DEF Book!Init
<1>2. FaultInv /\ [FaultNext]_allVars => [Book!Next]_<<step, {Entry(r) : r \in rules}>>
  <2> SUFFICES ASSUME FaultInv, [FaultNext]_allVars
               PROVE  [Book!Next]_<<step, {Entry(r) : r \in rules}>>
    OBVIOUS
  <2>1. CASE [Next]_vars
    BY <2>1, BookSimulated DEF bookVars, FaultInv
  <2>2. CASE (\E cs \in Batches[scenario] : Refused(cs)) \/ Lengthen \/ Delays \/ RuleCommandDown
    <3>1. /\ UNCHANGED ruleState
          /\ phase' = phase \/ (phase = "execute" /\ phase' = "accepted")
      BY <2>2 DEF Refused, Idle, Accept, Lengthen, Delays, RuleCommandDown, ruleState, ruleVars
    <3> QED  BY <3>1, BookFrame DEF bookVars, FaultInv, Phases
  <2> QED  BY <2>1, <2>2, WrappedSteps
<1> QED  BY <1>1, <1>2, FaultInvariant, PTL DEF FaultSpec, RulesKeepTime, Book!Spec

\* No fault takes a rule away without an event that tells of it.
THEOREM FaultsAnnounceRetirement == FaultSpec => NoSilentRetirement
<1>1. FaultInv /\ BusInv /\ [FaultNext]_allVars =>
        [\A r \in rules \ rules' :
           \/ /\ phase = "execute"
              /\ \E i \in 1..Len(pending') : pending'[i].type = "rule_cancelled" /\ pending'[i].of = r.id
           \/ r.fire = step /\ r.release = 0 /\ Heard("rule_fired", r.id) /\ Heard("rule_retired", r.id)
           \/ r.release = step /\ Heard("rule_released", r.id)]_vars
  BY WrappedSteps, RetirementIsHeard
     DEF FaultInv, BusInv, Refused, Lengthen, Delays, RuleCommandDown, ruleVars
<1> QED  BY <1>1, FaultInvariant, BusInvariant, PTL DEF FaultSpec, NoSilentRetirement

(***************************************************************************)
(* The timers of the machines.                                             *)
(***************************************************************************)

Busy(d) == IF d = "washer" THEN "washing" ELSE "running"

\* A tick has begun and the clocks have not counted it yet.
Begun == phase \in {"firing", "releasing", "exogenous", "clocks"}

\* The step up to which the clocks have counted.
Ticked == IF Begun THEN step - 1 ELSE step

\* What the first m of the n ticks that end with step k cost d
LostIn(d, k, n, m) == SumUpTo([i \in 1..n |-> Loss(d, k - n + i)], m)

\* A cycle of n ticks was given the length p: started by the agent, by a rule, by reset.
Origin(d, n, p) ==
  \/ p = Planned(Length(d), d, Ticked - n)
  \/ (n > 0 \/ Begun) /\ p = Planned(Length(d), d, Ticked - n + 1)
  \/ n = Ticked /\ p = Length(d)

\* The cycle of d has counted n ticks of a length of p seconds, and lost some by windows.
\* This step's tick is charged by Delays and counted in the device's turn.
TimerIs(d, n, p, lost) ==
  /\ n \in Nat /\ p \in Int /\ lost \in Int
  /\ tasks[d] = n * Tick
  /\ d \in due \/ delaying => n > 0
  /\ Origin(d, n, p)
  /\ lost = LostIn(d, Ticked, n, IF delaying THEN n - 1 ELSE n)
  /\ dev[d].remaining = p - Counted(d) + lost

\* d has been started and will be lengthened before the tick goes on.
AwaitsLength(d) ==
  /\ d \in DOMAIN tasks /\ tasks[d] = 0 /\ dev[d].remaining = Length(d)
  /\ phase \in {"accepted", "firing", "releasing"}

MachineIn(d) ==
  /\ dev[d] \in [state : {"idle", "loaded", Busy(d), "done"}, remaining : Nat]
  /\ dev[d].state = Busy(d) => dev[d].remaining > 0
  /\ d \in DOMAIN tasks <=> dev[d].state = Busy(d)
  /\ d \in due => d \in DOMAIN tasks
  /\ d \in slowed => AwaitsLength(d)
  /\ d \in DOMAIN tasks /\ d \notin slowed => \E n, p, lost : TimerIs(d, n, p, lost)

TimerInv ==
  /\ phase # "dynamics" => due = {}
  /\ DOMAIN tasks \subseteq Devices \ {"lock", "garage"}
  /\ \A d \in Machines : MachineIn(d)

\* What is chosen from a set is in it.
LEMMA OneIsInIt == \A W : W # {} => TheOne(W) \in W
BY DEF TheOne

\* A machine is slowed or down by one window at a time, which costs it as much as the
\* delay adds; a window never gives time back.
LEMMA WindowsCost ==
  ASSUME FaultInv, NEW d, NEW k \in Int
  PROVE  /\ Loss(d, k) \in Nat
         /\ \A r : r.remaining > 0 /\ Active(d, k) # {} =>
              Loss(d, k) = Delay(r, TheOne(Active(d, k)))
         /\ Active(d, k) = {} => Loss(d, k) = 0
         /\ Slow(d, k) # {} => TheOne(Slow(d, k)) \in Slow(d, k)
         /\ \A w \in Slow(d, k) : w.halves \in Nat /\ w.halves > 2
<1>1. /\ faults \subseteq Window
      /\ \A w \in faults : w.mode = "slowdown" => w.halves > 2
      /\ \A w, x \in faults : w # x /\ w.device = x.device => w.until <= x.from \/ x.until <= w.from
  BY ScheduleAssumption DEF FaultInv, FaultShape
<1>2. Tick \in Nat /\ Tick > 0
  BY Durations
<1>3. \A w \in Slow(d, k) : w.halves \in Nat /\ w.halves > 2
  BY <1>1 DEF Slow, Active, Window
<1>4. \A h \in Nat : h > 2 => (Tick * (h - 2) + 1) \div 2 \in Nat
  <2> SUFFICES ASSUME NEW h \in Nat, h > 2 PROVE (Tick * (h - 2) + 1) \div 2 \in Nat
    OBVIOUS
  <2>1. PICK g \in Nat : g = h - 2
    OBVIOUS
  <2>2. PICK m : m = Tick * g
    OBVIOUS
  <2>3. m \in Nat
    BY <1>2, <2>2
  <2> QED  BY <2>1, <2>2, <2>3
<1>5. Slow(d, k) # {} => TheOne(Slow(d, k)) \in Slow(d, k)
  BY OneIsInIt
<1>6. Loss(d, k) \in Nat
  BY <1>2, <1>3, <1>4, <1>5 DEF Loss
<1>7. ASSUME NEW w \in Active(d, k) PROVE Active(d, k) = {w}
  <2> SUFFICES ASSUME NEW x \in Active(d, k), x # w PROVE FALSE
    OBVIOUS
  <2>1. w.until <= x.from \/ x.until <= w.from
    BY <1>1 DEF Active
  <2>2. /\ w.from \in Nat /\ w.until \in Nat /\ x.from \in Nat /\ x.until \in Nat
        /\ w.from <= k /\ k < w.until /\ x.from <= k /\ k < x.until
    BY <1>1 DEF Active, Window
  <2> QED  BY <2>1, <2>2
<1>8. ASSUME NEW r, r.remaining > 0, Active(d, k) # {}
      PROVE  Loss(d, k) = Delay(r, TheOne(Active(d, k)))
  <2>1. PICK w : w \in Active(d, k) /\ w = TheOne(Active(d, k))
    BY <1>8, OneIsInIt
  <2>2. Active(d, k) = {w}
    BY <1>7, <2>1
  <2>3. CASE w.mode \in DownModes
    BY <1>8, <2>1, <2>2, <2>3 DEF Loss, Delay, Down
  <2>4. CASE w.mode \notin DownModes
    <3>1. w.mode = "slowdown"
      BY <1>1, <2>1, <2>4 DEF Active, Window
    <3>2. Slow(d, k) = {w} /\ ~Down(d, k)
      BY <2>2, <2>4, <3>1 DEF Slow, Down
    <3>3. Loss(d, k) = (Tick * (w.halves - 2) + 1) \div 2
      <4>1. TheOne(Slow(d, k)) = w
        BY <3>2, OneIsInIt
      <4> QED  BY <3>2, <4>1 DEF Loss
    <3>4. Delay(r, w) = CeilDiv(Tick * (w.halves - 2), 2)
      BY <2>4 DEF Delay
    <3>5. PICK m : m = Tick * (w.halves - 2)
      OBVIOUS
    <3>6. m \in Int
      BY <1>2, <1>3, <3>2, <3>5
    <3>7. CeilDiv(m, 2) = (m + 1) \div 2
      BY <3>6 DEF CeilDiv
    <3> QED  BY <2>1, <3>3, <3>4, <3>5, <3>7
  <2> QED  BY <2>3, <2>4
<1>9. Active(d, k) = {} => Loss(d, k) = 0
  BY DEF Loss, Down, Slow
<1> QED  BY <1>3, <1>5, <1>6, <1>8, <1>9

\* As long as the schedule stands, so does what it costs.
LEMMA ScheduleStands ==
  ASSUME faults' = faults
  PROVE  /\ \A d, k : Loss(d, k)' = Loss(d, k) /\ Slow(d, k)' = Slow(d, k)
         /\ \A d, k, n, m : LostIn(d, k, n, m)' = LostIn(d, k, n, m)
         /\ \A total, d, k : Planned(total, d, k)' = Planned(total, d, k)
<1>1. \A d, k : Active(d, k)' = Active(d, k)
  BY DEF Active
<1>2. \A d, k : Slow(d, k)' = Slow(d, k) /\ Down(d, k)' = Down(d, k)
  BY <1>1 DEF Slow, Down
<1>3. \A d, k : Loss(d, k)' = Loss(d, k)
  BY <1>2 DEF Loss
<1>4. \A d, k, n, m : LostIn(d, k, n, m)' = LostIn(d, k, n, m)
  BY <1>3 DEF LostIn
<1>5. \A total, d, k : Planned(total, d, k)' = Planned(total, d, k)
  BY <1>2 DEF Planned
<1> QED  BY <1>2, <1>3, <1>4, <1>5

\* The loss of the last tick is added to that of the others, which do not change when
\* a tick is added.
LEMMA LossesAddUp ==
  ASSUME FaultInv, NEW d, NEW k \in Int, NEW n \in Nat
  PROVE  /\ LostIn(d, k, 0, 0) = 0
         /\ LostIn(d, k + 1, n + 1, n) = LostIn(d, k, n, n)
         /\ n > 0 => LostIn(d, k, n, n) = LostIn(d, k, n, n - 1) + Loss(d, k)
<1>1. LostIn(d, k, 0, 0) = 0
  BY SumLaws DEF LostIn
<1>2. LostIn(d, k + 1, n + 1, n) = LostIn(d, k, n, n)
  <2>1. PICK f, g : /\ f = [i \in 1..n+1 |-> Loss(d, (k + 1) - (n + 1) + i)]
                    /\ g = [i \in 1..n |-> Loss(d, k - n + i)]
    OBVIOUS
  <2>2. \A i \in 1..n : f[i] = g[i]
    <3> SUFFICES ASSUME NEW i \in 1..n PROVE f[i] = g[i]
      OBVIOUS
    <3>1. (k + 1) - (n + 1) + i = k - n + i
      OBVIOUS
    <3>2. i \in 1..n+1
      OBVIOUS
    <3>3. f[i] = Loss(d, (k + 1) - (n + 1) + i) /\ g[i] = Loss(d, k - n + i)
      BY <2>1, <3>2
    <3> QED  BY <3>1, <3>3
  <2>3. SumUpTo(f, n) = SumUpTo(g, n)
    BY <2>2, SumLaws
  <2> QED  BY <2>1, <2>3 DEF LostIn
<1>3. ASSUME n > 0
      PROVE  LostIn(d, k, n, n) = LostIn(d, k, n, n - 1) + Loss(d, k)
  <2>1. PICK f : f = [i \in 1..n |-> Loss(d, k - n + i)]
    OBVIOUS
  <2>2. PICK m \in Nat : m = n - 1 /\ n = m + 1
    BY <1>3
  <2>3. SumUpTo(f, m + 1) = SumUpTo(f, m) + f[m + 1]
    BY SumLaws
  <2>4. n \in 1..n /\ k - n + n = k
    BY <1>3
  <2>5. f[n] = Loss(d, k)
    BY <2>1, <2>4
  <2> QED  BY <2>1, <2>2, <2>3, <2>5 DEF LostIn
<1> QED  BY <1>1, <1>2, <1>3

\* Where a step leaves a machine and the count of the ticks alone, nothing changes for it.
LEMMA MachineRests ==
  ASSUME NEW d \in Machines, MachineIn(d), UNCHANGED <<faults, delaying>>,
         dev'[d] = dev[d], d \in DOMAIN tasks' <=> d \in DOMAIN tasks,
         d \in DOMAIN tasks => tasks'[d] = tasks[d],
         d \in due' <=> d \in due, d \in slowed' <=> d \in slowed,
         d \in slowed => phase' \in {"accepted", "firing", "releasing"},
         Ticked' = Ticked, Begun => Begun'
  PROVE  MachineIn(d)'
<1>1. Counted(d)' = Counted(d)
  BY DEF Counted
<1>2. ASSUME NEW n, NEW p, NEW lost, TimerIs(d, n, p, lost), d \in DOMAIN tasks
      PROVE  TimerIs(d, n, p, lost)'
  <2>1. Origin(d, n, p)'
    BY <1>2, ScheduleStands DEF TimerIs, Origin, Length
  <2>2. lost = LostIn(d, Ticked, n, IF delaying THEN n - 1 ELSE n)'
    BY <1>2, ScheduleStands DEF TimerIs
  <2> QED  BY <1>1, <1>2, <2>1, <2>2 DEF TimerIs
<1>3. d \in DOMAIN tasks' /\ d \notin slowed' => \E n, p, lost : TimerIs(d, n, p, lost)'
  BY <1>2 DEF MachineIn
<1>4. d \in slowed' => AwaitsLength(d)'
  BY DEF MachineIn, AwaitsLength, Length
<1> QED  BY <1>3, <1>4 DEF MachineIn, Busy

\* Steps that leave all devices and tasks alone.
LEMMA TimersRest ==
  ASSUME TimerInv, UNCHANGED <<faults, delaying, slowed, dev, tasks, due>>,
         phase' # "dynamics" => due = {}, Ticked' = Ticked, Begun => Begun',
         slowed # {} /\ phase \in {"accepted", "firing", "releasing"}
           => phase' \in {"accepted", "firing", "releasing"}
  PROVE  TimerInv'
<1>1. ASSUME NEW d \in Machines PROVE MachineIn(d)'
  <2>1. d \in slowed => phase' \in {"accepted", "firing", "releasing"}
    BY DEF TimerInv, MachineIn, AwaitsLength
  <2> QED  BY <2>1, MachineRests DEF TimerInv
<1> QED  BY <1>1 DEF TimerInv

\* What loading and unloading do to a machine.
LEMMA LoadAndUnload ==
  ASSUME NEW c, NEW r, StaticOk(c), c.device = "washer" \/ c.device = "dishwasher"
  PROVE  /\ c.op = "load" => Applied(c, r) = [r EXCEPT !.state = "loaded"]
         /\ c.op = "unload" => Applied(c, r) = [r EXCEPT !.state = "idle"]
<1>1. CASE c.op = "load"
  <2>1. Applied(c, r) = [r EXCEPT !.state = "loaded"]
    BY <1>1 DEF Applied
  <2> QED  BY <1>1, <2>1
<1>2. CASE c.op = "unload"
  <2>1. Applied(c, r) = [r EXCEPT !.state = "idle"]
    BY <1>2 DEF Applied
  <2> QED  BY <1>2, <2>1
<1> QED  BY <1>1, <1>2

\* A command finds a machine at rest.  If it starts it, the cycle is planned by the health
\* of this step, at once or when the list is through.
LEMMA CommandedTimer ==
  ASSUME FaultInv, TimerInv, NEW c \in Command, StaticOk(c), c.device \in Machines,
         dev[c.device].state \in Required[c.device][c.op], ApplyCommand(c),
         phase \in {"accepted", "firing", "releasing"}, slowed' = slowed \cup Slowing(c),
         UNCHANGED <<faults, delaying, due, phase, step>>
  PROVE  MachineIn(c.device)'
<1>1. PICK d \in Machines : d = c.device
  OBVIOUS
<1>2. PICK r : r = dev[d]
  OBVIOUS
<1>3. /\ d \in {"washer", "dishwasher"} /\ d \in Devices /\ MachineIn(d)
      /\ dev' = [dev EXCEPT ![d] = Applied(c, dev[d])] /\ DevShape
  BY <1>1 DEF Machines, TimerInv, FaultInv, BatchInv, ApplyCommand
<1>4. dev'[d] = Applied(c, r)
  BY <1>2, <1>3 DEF DevShape
<1>5. c.op \in {"load", "start", "unload"}
  BY <1>1, <1>3, Operations
<1>6. r.state # Busy(d)
  BY <1>1, <1>2, <1>3, <1>5 DEF Required, Busy
<1>7. d \notin DOMAIN tasks /\ d \notin slowed /\ d \notin due
  BY <1>2, <1>3, <1>6 DEF MachineIn, AwaitsLength
<1>8. r \in [state : {"idle", "loaded", Busy(d), "done"}, remaining : Nat]
  BY <1>2, <1>3 DEF MachineIn
<1>9. CASE c.op \in {"load", "unload"}
  <2>1. tasks' = tasks
    BY <1>9 DEF ApplyCommand, StartsTask, EndsTask, taskVars
  <2>2. PICK s : s = IF c.op = "load" THEN "loaded" ELSE "idle"
    OBVIOUS
  <2>3. d \notin slowed'
    BY <1>7, <1>9 DEF Slowing
  <2>4. dev'[d] = [r EXCEPT !.state = s]
    <3>1. c.device = "washer" \/ c.device = "dishwasher"
      BY <1>1, <1>3
    <3>2. CASE c.op = "load"
      <4>1. Applied(c, r) = [r EXCEPT !.state = "loaded"]
        BY <3>1, <3>2, LoadAndUnload
      <4> QED  BY <1>4, <2>2, <3>2, <4>1
    <3>3. CASE c.op = "unload"
      <4>1. Applied(c, r) = [r EXCEPT !.state = "idle"]
        BY <3>1, <3>3, LoadAndUnload
      <4>2. s = "idle"
        BY <2>2, <3>3
      <4> QED  BY <1>4, <4>1, <4>2
    <3> QED  BY <1>9, <3>2, <3>3
  <2>5. s \in {"idle", "loaded"} /\ s # Busy(d)
    BY <2>2 DEF Busy
  <2>6. MachineIn(d)'
    BY <1>7, <1>8, <2>1, <2>3, <2>4, <2>5 DEF MachineIn, Busy
  <2> QED  BY <1>1, <2>6
<1>10. CASE c.op = "start"
  <2>1. StartTask(d)
    BY <1>1, <1>10 DEF ApplyCommand, StartsTask
  <2>2. d \in DOMAIN tasks' /\ tasks'[d] = 0
    BY <2>1 DEF StartTask
  <2>3. PICK total : total = Length(d)
    OBVIOUS
  <2>4. total \in Nat /\ total > 0
    BY <2>3, TimersPositive DEF Length
  <2>5. Applied(c, r) = [r EXCEPT !.state = Busy(d), !.remaining = total]
    BY <1>1, <1>3, <1>10, <2>3 DEF Applied, Busy, Length
  <2>6. /\ dev'[d] \in [state : {"idle", "loaded", Busy(d), "done"}, remaining : Nat]
        /\ dev'[d].state = Busy(d) /\ dev'[d].remaining = total
    <3>1. PICK q : q = [r EXCEPT !.state = Busy(d), !.remaining = total]
      OBVIOUS
    <3>2. q = [state |-> Busy(d), remaining |-> total]
      BY <1>8, <3>1
    <3>3. dev'[d] = q
      BY <1>4, <2>5, <3>1
    <3> QED  BY <2>4, <3>2, <3>3
  <2>7. d \in slowed' => AwaitsLength(d)'
    BY <2>2, <2>3, <2>6 DEF AwaitsLength, Length
  <2>8. ASSUME d \notin slowed' PROVE TimerIs(d, 0, total, 0)'
    <3>1. Slow(d, step) = {}
      BY <1>1, <1>10, <2>8 DEF Slowing
    <3>2. Planned(total, d, step)' = total
      BY <3>1, ScheduleStands DEF Planned
    <3>3. step \in Nat /\ ~delaying
      BY DEF FaultInv, FaultShape, RuleInv, RuleTypes
    <3>4. Origin(d, 0, total)'
      <4>1. CASE phase = "accepted"
        <5>1. (Ticked - 0)' = step
          BY <3>3, <4>1 DEF Ticked, Begun
        <5> QED  BY <2>3, <3>2, <5>1 DEF Origin, Length
      <4>2. CASE phase \in {"firing", "releasing"}
        <5>1. (Ticked - 0 + 1)' = step /\ Begun'
          BY <3>3, <4>2 DEF Ticked, Begun
        <5> QED  BY <2>3, <3>2, <5>1 DEF Origin, Length
      <4> QED  BY <4>1, <4>2
    <3>5. LostIn(d, Ticked, 0, 0)' = 0
      <4>1. Ticked' \in Int
        BY <3>3 DEF Ticked
      <4>2. \A k \in Int : LostIn(d, k, 0, 0) = 0
        BY LossesAddUp
      <4> QED  BY <4>1, <4>2, ScheduleStands
    <3>6. Counted(d)' = 0
      BY <1>7, <2>2 DEF Counted
    <3>7. 0 * Tick = 0
      BY Durations
    <3> QED  BY <1>7, <2>2, <2>4, <2>6, <3>3, <3>4, <3>5, <3>6, <3>7 DEF TimerIs
  <2>9. MachineIn(d)'
    BY <1>7, <2>2, <2>4, <2>6, <2>7, <2>8 DEF MachineIn, Busy
  <2> QED  BY <1>1, <2>9
<1> QED  BY <1>5, <1>9, <1>10

\* A command of the agent or of a rule.
LEMMA TimersCommanded ==
  ASSUME FaultInv, TimerInv, NEW c \in Command, StaticOk(c),
         dev[c.device].state \in Required[c.device][c.op], ApplyCommand(c),
         phase \in {"accepted", "firing", "releasing"}, slowed' = slowed \cup Slowing(c),
         UNCHANGED <<faults, delaying, due, phase, step>>
  PROVE  TimerInv'
<1>1. /\ dev' = [dev EXCEPT ![c.device] = Applied(c, dev[c.device])] /\ DevShape
      /\ \/ StartTask(c.device) /\ StartsTask(c)
         \/ \E outcome : CompleteTask(c.device, outcome)
         \/ UNCHANGED taskVars
  BY DEF ApplyCommand, FaultInv, BatchInv
<1>2. /\ \A d : d # c.device => /\ d \in DOMAIN tasks' <=> d \in DOMAIN tasks
                                /\ d \in DOMAIN tasks => tasks'[d] = tasks[d]
      /\ DOMAIN tasks' \subseteq DOMAIN tasks \cup {c.device}
  BY <1>1, OneTaskMoves
<1>3. DOMAIN tasks' \subseteq Devices \ {"lock", "garage"}
  <2>1. c.device \in Devices
    BY DEF Command
  <2>2. StartsTask(c) => c.device \notin {"lock", "garage"}
    BY Operations DEF StartsTask
  <2>3. (\E outcome : CompleteTask(c.device, outcome)) \/ UNCHANGED taskVars
          => DOMAIN tasks' \subseteq DOMAIN tasks
    BY DEF CompleteTask, taskVars
  <2> QED  BY <1>1, <1>2, <2>1, <2>2, <2>3 DEF TimerInv
<1>4. Ticked' = Ticked /\ Begun' = Begun
  BY DEF Ticked, Begun
<1>5. ASSUME NEW d \in Machines PROVE MachineIn(d)'
  <2>1. CASE d = c.device
    BY <2>1, CommandedTimer
  <2>2. CASE d # c.device
    <3>1. dev'[d] = dev[d] /\ (d \in slowed' <=> d \in slowed)
      BY <1>1, <2>2 DEF DevShape, Slowing, Machines
    <3> QED  BY <1>2, <1>4, <2>2, <3>1, MachineRests DEF TimerInv
  <2> QED  BY <2>1, <2>2
<1> QED  BY <1>3, <1>5 DEF TimerInv


\* Lengthening gives what was started on a slowed machine the time that the health of
\* this step plans.
LEMMA LengthenedTimer ==
  ASSUME FaultInv, TimerInv, Lengthen, NEW d \in Machines, d \in slowed
  PROVE  MachineIn(d)'
<1>1. /\ MachineIn(d) /\ AwaitsLength(d) /\ d \in {"washer", "dishwasher"} /\ d \in Devices
      /\ due = {} /\ step \in Nat /\ ~delaying
  BY DEF TimerInv, MachineIn, AwaitsLength, Machines, FaultInv, FaultShape, RuleInv, RuleTypes
<1>2. /\ UNCHANGED <<phase, step, tasks, due, faults, delaying>> /\ slowed' = {}
  BY DEF Lengthen, taskVars
<1>3. PICK w : w = TheOne(Slow(d, step))
  OBVIOUS
<1>4. w.halves \in Nat /\ w.halves > 2 /\ Slow(d, step) # {}
  <2>1. Slow(d, step) # {} /\ step \in Int
    BY <1>1 DEF FaultInv, FaultShape
  <2> QED  BY <1>3, <2>1, WindowsCost
<1>5. PICK total : total = Length(d)
  OBVIOUS
<1>6. total \in Nat /\ total > 0
  BY <1>5, TimersPositive DEF Length
<1>7. PICK m : m = total * w.halves
  OBVIOUS
<1>8. m \in Nat /\ m > 0
  BY <1>4, <1>6, <1>7
<1>9. PICK p : p = (m + 1) \div 2
  OBVIOUS
<1>10. p \in Nat /\ p > 0
  BY <1>8, <1>9
<1>11. Lengthened(total, w) = p
  <2>1. CeilDiv(m, 2) = (m + 1) \div 2
    BY <1>8 DEF CeilDiv
  <2> QED  BY <1>7, <1>9, <2>1 DEF Lengthened
<1>12. Planned(total, d, step)' = p
  <2>1. Planned(total, d, step) = p
    BY <1>3, <1>4, <1>7, <1>9 DEF Planned
  <2> QED  BY <1>2, <2>1, ScheduleStands
<1>13. PICK r : r = dev[d]
  OBVIOUS
<1>14. /\ r \in [state : {"idle", "loaded", Busy(d), "done"}, remaining : Nat]
       /\ r.state = Busy(d) /\ r.remaining = total
  BY <1>1, <1>5, <1>13 DEF MachineIn, AwaitsLength
<1>15. dev'[d] = [r EXCEPT !.remaining = Lengthened(r.remaining, w)]
  BY <1>1, <1>3, <1>13 DEF Lengthen
<1>16. /\ dev'[d] \in [state : {"idle", "loaded", Busy(d), "done"}, remaining : Nat]
       /\ dev'[d].state = Busy(d) /\ dev'[d].remaining = p
  BY <1>10, <1>11, <1>14, <1>15
<1>17. Origin(d, 0, p)'
  <2>1. CASE phase = "accepted"
    <3>1. (Ticked - 0)' = step
      BY <1>1, <1>2, <2>1 DEF Ticked, Begun
    <3> QED  BY <1>2, <1>5, <1>12, <3>1 DEF Origin, Length
  <2>2. CASE phase \in {"firing", "releasing"}
    <3>1. (Ticked - 0 + 1)' = step /\ Begun'
      BY <1>1, <1>2, <2>2 DEF Ticked, Begun
    <3> QED  BY <1>2, <1>5, <1>12, <3>1 DEF Origin, Length
  <2> QED  BY <1>1, <2>1, <2>2 DEF AwaitsLength
<1>18. LostIn(d, Ticked, 0, 0)' = 0
  <2>1. Ticked' \in Int
    BY <1>1, <1>2 DEF Ticked
  <2>2. \A k \in Int : LostIn(d, k, 0, 0) = 0
    BY LossesAddUp
  <2> QED  BY <1>2, <2>1, <2>2, ScheduleStands
<1>19. d \in DOMAIN tasks' /\ tasks'[d] = 0 /\ Counted(d)' = 0
  BY <1>1, <1>2 DEF AwaitsLength, Counted
<1>20. 0 * Tick = 0
  BY Durations
<1>21. TimerIs(d, 0, p, 0)'
  BY <1>1, <1>2, <1>10, <1>16, <1>17, <1>18, <1>19, <1>20 DEF TimerIs
<1> QED  BY <1>1, <1>2, <1>10, <1>16, <1>19, <1>21 DEF MachineIn, Busy

LEMMA TimersLengthened ==
  ASSUME FaultInv, TimerInv, Lengthen
  PROVE  TimerInv'
<1>1. /\ UNCHANGED <<phase, step, tasks, due, faults, delaying>> /\ slowed' = {}
      /\ dev' = [d \in Devices |->
                   IF d \in slowed
                   THEN [dev[d] EXCEPT !.remaining = Lengthened(@, TheOne(Slow(d, step)))]
                   ELSE dev[d]]
  BY DEF Lengthen, taskVars
<1>2. Ticked' = Ticked /\ Begun' = Begun
  BY <1>1 DEF Ticked, Begun
<1>3. ASSUME NEW d \in Machines, d \notin slowed PROVE MachineIn(d)'
  <2>1. dev'[d] = dev[d]
    BY <1>1, <1>3 DEF Machines
  <2> QED  BY <1>1, <1>2, <1>3, <2>1, MachineRests DEF TimerInv
<1>4. \A d \in Machines : MachineIn(d)'
  BY <1>3, LengthenedTimer
<1> QED  BY <1>1, <1>4 DEF TimerInv

\* The clocks count a tick for every running cycle, of which its turn will make one tick
\* less to run and the delays of this tick have still to be added.
LEMMA TimersClocked ==
  ASSUME FaultInv, TimerInv, ClocksThenDelays
  PROVE  TimerInv'
<1>1. /\ phase = "clocks" /\ phase' = "dynamics" /\ delaying' = TRUE
      /\ UNCHANGED <<step, dev, faults, slowed, scenario>>
      /\ tasks' = [d \in DOMAIN tasks |-> tasks[d] + Tick]
      /\ due' = {d \in Devices : Moves(d, dev[d].state, scenario)}
  BY DEF ClocksThenDelays, Clocks, outsideVars
<1>2. ~delaying /\ step \in Nat /\ due = {}
  BY <1>1 DEF FaultInv, FaultShape, RuleInv, RuleTypes, TimerInv
<1>3. Ticked = step - 1 /\ Ticked' = step
  BY <1>1 DEF Ticked, Begun
<1>4. ASSUME NEW d \in Machines PROVE MachineIn(d)'
  <2>1. MachineIn(d) /\ d \in {"washer", "dishwasher"} /\ d \in Devices
    BY DEF TimerInv, Machines
  <2>2. d \notin slowed
    BY <1>1, <2>1 DEF MachineIn, AwaitsLength
  <2>3. d \in due' <=> d \in DOMAIN tasks
    <3>1. PICK s : s = dev[d].state
      OBVIOUS
    <3>2. Moves(d, s, scenario) <=> s = Busy(d)
      <4>1. CASE d = "washer"
        BY <4>1 DEF Moves, Busy, Supplies
      <4>2. CASE d = "dishwasher"
        BY <4>2 DEF Moves, Busy, Supplies
      <4> QED  BY <2>1, <4>1, <4>2
    <3> QED  BY <1>1, <2>1, <3>1, <3>2 DEF MachineIn
  <2>4. ASSUME NEW n, NEW p, NEW lost, d \in DOMAIN tasks, TimerIs(d, n, p, lost)
        PROVE  TimerIs(d, n + 1, p, lost)'
    <3>1. n \in Nat /\ tasks[d] = n * Tick /\ lost = LostIn(d, Ticked, n, n)
      BY <1>2, <2>4 DEF TimerIs
    <3>2. tasks'[d] = (n + 1) * Tick
      BY <1>1, <2>4, <3>1, Durations
    <3>3. Counted(d)' = Counted(d)
      <4>1. Counted(d) = tasks[d] /\ tasks'[d] = tasks[d] + Tick /\ Counted(d)' = tasks'[d] - Tick
        BY <1>1, <1>2, <2>3, <2>4 DEF Counted
      <4>2. tasks[d] \in Int
        BY <3>1, Durations
      <4> QED  BY <4>1, <4>2, Durations
    <3>4. lost = LostIn(d, step, n + 1, n)
      <4>1. Ticked \in Int /\ Ticked + 1 = step
        BY <1>2, <1>3
      <4>2. LostIn(d, Ticked + 1, n + 1, n) = LostIn(d, Ticked, n, n)
        BY <3>1, <4>1, LossesAddUp
      <4> QED  BY <3>1, <4>1, <4>2
    <3>5. lost = LostIn(d, Ticked, n + 1, n)'
      BY <1>1, <1>3, <3>4, ScheduleStands
    <3>6. Origin(d, n + 1, p)'
      <4>1. /\ (step - 1) - n = step - (n + 1)
            /\ (step - 1) - n + 1 = step - (n + 1) + 1
            /\ n = step - 1 => n + 1 = step
            /\ n + 1 > 0
        BY <1>2, <3>1
      <4>2. Origin(d, n, p)
        BY <2>4 DEF TimerIs
      <4> QED  BY <1>1, <1>3, <4>1, <4>2, ScheduleStands DEF Origin, Length
    <3>7. n + 1 \in Nat /\ n + 1 > 0 /\ (n + 1) - 1 = n
      BY <3>1
    <3> QED  BY <1>1, <2>4, <3>2, <3>3, <3>5, <3>6, <3>7 DEF TimerIs
  <2>5. d \in DOMAIN tasks' /\ d \notin slowed' => \E n, p, lost : TimerIs(d, n, p, lost)'
    BY <1>1, <2>1, <2>2, <2>4 DEF MachineIn
  <2> QED  BY <1>1, <2>1, <2>2, <2>3, <2>5 DEF MachineIn, Busy
<1> QED  BY <1>1, <1>4 DEF TimerInv

\* The delays add to a running cycle what this step's window costs it.
LEMMA TimersDelayed ==
  ASSUME FaultInv, TimerInv, Delays
  PROVE  TimerInv'
<1>1. /\ delaying /\ ~delaying' /\ UNCHANGED <<phase, step, tasks, due, faults, slowed>>
      /\ dev' = [d \in Devices |->
               IF d \in Delayed
               THEN [dev[d] EXCEPT !.remaining = @ + Delay(dev[d], TheOne(Active(d, step)))]
               ELSE dev[d]]
  BY DEF Delays, taskVars
<1>2. phase = "dynamics" /\ step \in Nat /\ step \in Int
  BY <1>1 DEF FaultInv, FaultShape, RuleInv, RuleTypes
<1>3. Ticked = step /\ Ticked' = step /\ ~Begun /\ ~Begun'
  BY <1>1, <1>2 DEF Ticked, Begun
<1>4. ASSUME NEW d \in Machines PROVE MachineIn(d)'
  <2>1. /\ MachineIn(d) /\ d \in {"washer", "dishwasher"} /\ d \in Devices /\ d \in AllDevices
        /\ d \in Faultable
    BY ConfigAssumption DEF TimerInv, Machines, Faultable
  <2>2. d \notin slowed
    BY <1>2, <2>1 DEF MachineIn, AwaitsLength
  <2>3. PICK r : r = dev[d]
    OBVIOUS
  <2>4. r \in [state : {"idle", "loaded", Busy(d), "done"}, remaining : Nat]
    BY <2>1, <2>3 DEF MachineIn
  <2>5. d \in Delayed <=> r.state = Busy(d) /\ Active(d, step) # {}
    <3>1. ActiveStates[d] = {Busy(d)}
      BY <2>1 DEF ActiveStates, Busy
    <3> QED  BY <2>1, <2>3, <3>1 DEF Delayed
  <2>6. CASE d \notin DOMAIN tasks
    <3>1. dev'[d] = r
      BY <1>1, <2>1, <2>3, <2>5, <2>6 DEF MachineIn
    <3> QED  BY <1>1, <2>1, <2>2, <2>3, <2>6, <3>1 DEF MachineIn, Busy
  <2>7. CASE d \in DOMAIN tasks
    <3>1. r.state = Busy(d) /\ r.remaining > 0
      BY <2>1, <2>3, <2>7 DEF MachineIn
    <3>2. PICK loss \in Nat : loss = Loss(d, step)
      BY <1>2, WindowsCost
    <3>3. dev'[d] = [r EXCEPT !.remaining = r.remaining + loss]
      <4>1. CASE Active(d, step) = {}
        <5>1. loss = 0
          BY <1>2, <3>2, <4>1, WindowsCost
        <5>2. dev'[d] = r
          BY <1>1, <2>1, <2>3, <2>5, <4>1
        <5>3. r.remaining + loss = r.remaining
          BY <2>4, <5>1
        <5> QED  BY <2>4, <5>2, <5>3
      <4>2. CASE Active(d, step) # {}
        <5>1. Delay(r, TheOne(Active(d, step))) = loss
          BY <1>2, <3>1, <3>2, <4>2, WindowsCost
        <5>2. dev'[d] = [r EXCEPT !.remaining = r.remaining + Delay(r, TheOne(Active(d, step)))]
          BY <1>1, <2>1, <2>3, <2>5, <3>1, <4>2
        <5> QED  BY <5>1, <5>2
      <4> QED  BY <4>1, <4>2
    <3>4. /\ dev'[d] \in [state : {"idle", "loaded", Busy(d), "done"}, remaining : Nat]
          /\ dev'[d].state = Busy(d) /\ dev'[d].remaining = r.remaining + loss
          /\ dev'[d].remaining > 0
      BY <2>4, <3>1, <3>3
    <3>5. PICK n, p, lost : TimerIs(d, n, p, lost)
      BY <2>1, <2>2, <2>7 DEF MachineIn
    <3>6. /\ n \in Nat /\ n > 0 /\ p \in Int /\ lost \in Int /\ tasks[d] = n * Tick
          /\ Origin(d, n, p) /\ lost = LostIn(d, step, n, n - 1)
          /\ r.remaining = p - Counted(d) + lost
      BY <1>1, <1>3, <2>3, <3>5 DEF TimerIs
    <3>7. LostIn(d, step, n, n) = lost + loss
      BY <1>2, <3>2, <3>6, LossesAddUp
    <3>8. Origin(d, n, p)'
      BY <1>1, <1>3, <3>6, ScheduleStands DEF Origin, Length
    <3>9. Counted(d)' = Counted(d) /\ Counted(d) \in Int
      <4>1. tasks[d] \in Int
        BY <3>6, Durations
      <4> QED  BY <1>1, <4>1, Durations DEF Counted
    <3>10. lost + loss = LostIn(d, Ticked, n, n)'
      BY <1>1, <1>3, <3>7, ScheduleStands
    <3>11. dev'[d].remaining = p - Counted(d)' + (lost + loss)
      BY <3>2, <3>4, <3>6, <3>9
    <3>12. TimerIs(d, n, p, lost + loss)'
      BY <1>1, <3>2, <3>6, <3>8, <3>10, <3>11 DEF TimerIs
    <3> QED  BY <1>1, <2>1, <2>2, <2>7, <3>4, <3>12 DEF MachineIn, Busy
  <2> QED  BY <2>6, <2>7
<1> QED  BY <1>1, <1>4 DEF TimerInv

\* The turn of a machine counts its cycle down by the tick that the clocks have counted, or
\* ends it together with its task.
LEMMA CycleTimer ==
  ASSUME FaultInv, TimerInv, NEW d \in Machines, NEW finished, Cycle(d, finished),
         slowed = {}, ~delaying, UNCHANGED faultVars
  PROVE  MachineIn(d)'
<1>1. PICK r, left : r = dev[d] /\ left = Countdown(r.remaining)
  OBVIOUS
<1>2. /\ MachineIn(d) /\ d \in {"washer", "dishwasher"} /\ d \in Devices /\ DevShape
      /\ d \in due /\ phase = "dynamics" /\ step \in Nat
  BY DEF Machines, TimerInv, Cycle, Turn, FaultInv, BatchInv, RuleInv, RuleTypes
<1>3. /\ d \in DOMAIN tasks /\ r.state = Busy(d) /\ r.remaining > 0
      /\ r \in [state : {"idle", "loaded", Busy(d), "done"}, remaining : Nat]
  BY <1>1, <1>2 DEF MachineIn
<1>4. CASE left > 0 /\ Becomes(d, [r EXCEPT !.remaining = left], <<>>, NoOutcome)
  <2>1. /\ dev' = [dev EXCEPT ![d] = [r EXCEPT !.remaining = left]]
        /\ UNCHANGED <<tasks, phase, step, faults, delaying, slowed>> /\ due' = due \ {d}
    BY <1>4 DEF Becomes, taskVars, faultVars
  <2>2. left = r.remaining - Tick /\ left \in Nat
    BY <1>1, <1>3, <1>4, Durations DEF Countdown, Larger
  <2>3. dev'[d] = [r EXCEPT !.remaining = left]
    BY <1>2, <2>1 DEF DevShape
  <2>4. /\ dev'[d] \in [state : {"idle", "loaded", Busy(d), "done"}, remaining : Nat]
        /\ dev'[d].state = Busy(d) /\ dev'[d].remaining = left
    BY <1>3, <2>2, <2>3
  <2>5. PICK n, p, lost : TimerIs(d, n, p, lost)
    BY <1>2, <1>3 DEF MachineIn
  <2>6. Counted(d)' = Counted(d) + Tick /\ Counted(d) \in Int
    <3>1. tasks[d] \in Int
      BY <2>5, Durations DEF TimerIs
    <3>2. Counted(d) = tasks[d] - Tick /\ Counted(d)' = tasks[d]
      BY <1>2, <1>3, <2>1 DEF Counted
    <3> QED  BY <3>1, <3>2, Durations
  <2>7. Ticked' = Ticked /\ Begun' = Begun
    BY <2>1 DEF Ticked, Begun
  <2>8. Origin(d, n, p)' /\ lost = LostIn(d, Ticked, n, IF delaying THEN n - 1 ELSE n)'
    BY <2>1, <2>5, <2>7, ScheduleStands DEF TimerIs, Origin, Length
  <2>9. dev'[d].remaining = p - Counted(d)' + lost
    <3>1. r.remaining = p - Counted(d) + lost /\ p \in Int /\ lost \in Int
      BY <1>1, <2>5 DEF TimerIs
    <3> QED  BY <1>3, <2>2, <2>4, <2>6, <3>1, Durations
  <2>10. TimerIs(d, n, p, lost)'
    BY <1>2, <2>1, <2>5, <2>8, <2>9 DEF TimerIs
  <2> QED  BY <1>3, <1>4, <2>1, <2>4, <2>10 DEF MachineIn, Busy
<1>5. CASE Becomes(d, [r EXCEPT !.state = "done", !.remaining = 0], <<finished>>,
                   "cycle_finished")
  <2>1. /\ dev' = [dev EXCEPT ![d] = [r EXCEPT !.state = "done", !.remaining = 0]]
        /\ slowed' = slowed /\ due' = due \ {d} /\ CompleteTask(d, "cycle_finished")
    BY <1>5 DEF Becomes, faultVars, NoOutcome
  <2>2. d \notin DOMAIN tasks'
    BY <1>3, <2>1 DEF CompleteTask
  <2>3. dev'[d] = [r EXCEPT !.state = "done", !.remaining = 0]
    BY <1>2, <2>1 DEF DevShape
  <2>4. /\ dev'[d] \in [state : {"idle", "loaded", Busy(d), "done"}, remaining : Nat]
        /\ dev'[d].state # Busy(d)
    <3>1. PICK q : q = [r EXCEPT !.state = "done", !.remaining = 0]
      OBVIOUS
    <3>2. q \in [state : {"idle", "loaded", Busy(d), "done"}, remaining : Nat]
          /\ q.state = "done"
      <4>1. q = [state |-> "done", remaining |-> 0]
        BY <1>3, <3>1
      <4> QED  BY <4>1
    <3>3. dev'[d] = q /\ "done" # Busy(d)
      BY <2>3, <3>1 DEF Busy
    <3> QED  BY <3>2, <3>3
  <2> QED  BY <2>1, <2>2, <2>4 DEF MachineIn, Busy
<1> QED  BY <1>1, <1>4, <1>5 DEF Cycle

LEMMA TimersTurn ==
  ASSUME FaultInv, TimerInv, Dynamics, slowed = {}, ~delaying, UNCHANGED faultVars
  PROVE  TimerInv'
<1>1. ASSUME NEW e, NEW r, NEW types, NEW outcome, Becomes(e, r, types, outcome),
             e \in Machines => MachineIn(e)'
      PROVE  TimerInv'
  <2>1. /\ dev' = [dev EXCEPT ![e] = r] /\ due' = due \ {e} /\ UNCHANGED <<phase, step>>
        /\ CompleteTask(e, outcome) \/ UNCHANGED taskVars
        /\ UNCHANGED <<faults, delaying, slowed>> /\ DevShape
    BY <1>1 DEF Becomes, faultVars, FaultInv, BatchInv
  <2>2. /\ DOMAIN tasks' \subseteq DOMAIN tasks
        /\ \A d : d # e => /\ d \in DOMAIN tasks' <=> d \in DOMAIN tasks
                           /\ d \in DOMAIN tasks => tasks'[d] = tasks[d]
    BY <2>1, OneTaskMoves DEF CompleteTask, taskVars
  <2>3. Ticked' = Ticked /\ Begun' = Begun
    BY <2>1 DEF Ticked, Begun
  <2>4. ASSUME NEW d \in Machines, d # e PROVE MachineIn(d)'
    <3>1. dev'[d] = dev[d] /\ (d \in due' <=> d \in due)
      BY <2>1, <2>4 DEF DevShape, Machines
    <3> QED  BY <2>1, <2>2, <2>3, <2>4, <3>1, MachineRests DEF TimerInv
  <2>5. phase' # "dynamics" => due' = {}
    BY <2>1 DEF TimerInv
  <2> QED  BY <1>1, <2>2, <2>4, <2>5 DEF TimerInv
<1>2. ASSUME NEW d \in Machines, NEW finished, Cycle(d, finished) PROVE TimerInv'
  <2>1. MachineIn(d)'
    BY <1>2, CycleTimer
  <2>2. \E r, types, outcome : Becomes(d, r, types, outcome)
    BY <1>2 DEF Cycle
  <2> QED  BY <1>1, <2>1, <2>2
<1>3. ASSUME NEW e, NEW r, NEW types, NEW outcome, e \notin {"washer", "dishwasher"},
             Becomes(e, r, types, outcome)
      PROVE  TimerInv'
  BY <1>1, <1>3 DEF Machines
<1> QED  BY <1>2, <1>3, TurnOf

\* An outside event may load the washer when it is idle.
LEMMA TimersStream ==
  ASSUME FaultInv, TimerInv, NEW s \in Streams, Exogenous(s), slowed = {}, UNCHANGED faultVars
  PROVE  TimerInv'
<1>1. /\ dev' = StreamDevices(s, dev) /\ UNCHANGED <<phase, step, due>>
      /\ UNCHANGED <<faults, delaying, slowed>> /\ slowed' = {}
      /\ (StartTask("intercom") /\ "intercom" \in Devices) \/ UNCHANGED taskVars
      /\ phase # "dynamics" /\ due = {}
  BY DEF Exogenous, faultVars, StreamStartsTask, At, TimerInv
<1>2. Ticked' = Ticked /\ Begun' = Begun
  BY <1>1 DEF Ticked, Begun
<1>3. /\ DOMAIN tasks' \subseteq Devices \ {"lock", "garage"}
      /\ \A d : d # "intercom" => /\ d \in DOMAIN tasks' <=> d \in DOMAIN tasks
                                  /\ d \in DOMAIN tasks => tasks'[d] = tasks[d]
  <2>1. /\ DOMAIN tasks' \subseteq DOMAIN tasks \cup {"intercom"}
        /\ UNCHANGED taskVars => DOMAIN tasks' \subseteq DOMAIN tasks
        /\ \A d : d # "intercom" => /\ d \in DOMAIN tasks' <=> d \in DOMAIN tasks
                                    /\ d \in DOMAIN tasks => tasks'[d] = tasks[d]
    BY <1>1, OneTaskMoves DEF taskVars
  <2> QED  BY <1>1, <2>1 DEF TimerInv
<1>4. ASSUME NEW d \in Machines PROVE MachineIn(d)'
  <2>1. MachineIn(d) /\ d \in {"washer", "dishwasher"} /\ d \in Devices /\ d # "intercom"
    BY DEF TimerInv, Machines
  <2>2. PICK r : r = dev[d]
    OBVIOUS
  <2>3. dev'[d] = StreamDevice(s, d, r)
    BY <1>1, <2>1, <2>2 DEF StreamDevices
  <2>4. \/ StreamDevice(s, d, r) = r
        \/ d = "washer" /\ r.state = "idle" /\ StreamDevice(s, d, r) = [r EXCEPT !.state = "loaded"]
    BY <2>1 DEF StreamDevice
  <2>5. CASE StreamDevice(s, d, r) = r
    BY <1>1, <1>2, <1>3, <2>1, <2>2, <2>3, <2>5, MachineRests
  <2>6. CASE /\ d = "washer" /\ r.state = "idle"
             /\ StreamDevice(s, d, r) = [r EXCEPT !.state = "loaded"]
    <3>1. r \in [state : {"idle", "loaded", Busy(d), "done"}, remaining : Nat]
          /\ d \notin DOMAIN tasks
      BY <2>1, <2>2, <2>6 DEF MachineIn, Busy
    <3>2. /\ dev'[d] \in [state : {"idle", "loaded", Busy(d), "done"}, remaining : Nat]
          /\ dev'[d].state # Busy(d)
      <4>1. PICK q : q = [r EXCEPT !.state = "loaded"]
        OBVIOUS
      <4>2. q \in [state : {"idle", "loaded", Busy(d), "done"}, remaining : Nat]
            /\ q.state = "loaded"
        BY <3>1, <4>1
      <4>3. dev'[d] = q /\ "loaded" # Busy(d)
        BY <2>3, <2>6, <4>1 DEF Busy
      <4> QED  BY <4>2, <4>3
    <3> QED  BY <1>1, <1>3, <2>1, <3>1, <3>2 DEF MachineIn, Busy
  <2> QED  BY <2>4, <2>5, <2>6
<1> QED  BY <1>1, <1>3, <1>4 DEF TimerInv

\* Every step keeps the timers.
LEMMA TimersNext ==
  ASSUME FaultInv, TimerInv, [FaultNext]_allVars
  PROVE  TimerInv'
<1>1. /\ step \in Nat /\ batch \in Seq(Command) /\ (phase # "dynamics" => due = {})
      /\ delaying => phase = "dynamics"
      /\ phase = "execute" => batch = <<>>
  BY DEF FaultInv, FaultShape, BatchInv, BatchShape, RuleInv, RuleTypes, TimerInv
<1>2. ASSUME phase = "execute", phase' = "accepted",
             UNCHANGED <<step, dev, taskVars, due, faultVars>>
      PROVE  TimerInv'
  <2>1. Ticked' = Ticked /\ ~Begun
    BY <1>2 DEF Ticked, Begun
  <2> QED  BY <1>1, <1>2, <2>1, TimersRest DEF taskVars, faultVars
<1>3. ASSUME NEW cs \in Batches[scenario], ActUp(cs) \/ Refused(cs) PROVE TimerInv'
  BY <1>2, <1>3 DEF ActUp, Act, Refused, Idle, Accept, faultVars
<1>4. CASE Otherwise
  BY <1>2, <1>4 DEF Otherwise, InstallRule, CancelRule, Wait, Idle, Accept
<1>5. ASSUME batch # <<>>, phase \in {"accepted", "firing", "releasing"},
             CommandOk(Head(batch)), ApplyCommand(Head(batch)),
             slowed' = slowed \cup Slowing(Head(batch)),
             UNCHANGED <<faults, delaying, due, phase, step>>
      PROVE  TimerInv'
  <2>1. PICK c \in Command : c = Head(batch)
    BY <1>1, <1>5
  <2>2. StaticOk(c) /\ dev[c.device].state \in Required[c.device][c.op] /\ ApplyCommand(c)
    BY <1>5, <2>1 DEF CommandOk, Legal
  <2> QED  BY <1>5, <2>1, <2>2, TimersCommanded
<1>6. CASE ApplySlowed
  <2>1. phase = "accepted" /\ batch # <<>>
    BY <1>6 DEF ApplySlowed, ApplyNext
  <2>2. CommandOk(Head(batch))
    BY <2>1, HeadIsLegal DEF FaultInv
  <2> QED  BY <1>5, <1>6, <2>1, <2>2 DEF ApplySlowed, ApplyNext
<1>7. ASSUME phase \in {"firing", "releasing"}, slowed' = slowed,
             UNCHANGED <<step, dev, taskVars, phase, due, faults, delaying>>
      PROVE  TimerInv'
  <2>1. Ticked' = Ticked /\ Begun'
    BY <1>7 DEF Ticked, Begun
  <2> QED  BY <1>1, <1>7, <2>1, TimersRest DEF taskVars
<1>8. CASE RuleCommandUp
  <2>1. phase \in {"firing", "releasing"} /\ batch # <<>> /\ slowed = {}
        /\ UNCHANGED <<faults, delaying>>
    BY <1>8 DEF RuleCommandUp
  <2>2. CASE RuleCommand /\ CommandOk(Head(batch)) /\ slowed' = Slowing(Head(batch))
    BY <1>5, <2>1, <2>2 DEF RuleCommand
  <2>3. CASE RuleCommand /\ ~CommandOk(Head(batch)) /\ slowed' = {}
    BY <1>7, <2>1, <2>3 DEF RuleCommand
  <2>4. CASE UNCHANGED <<step, dev, taskVars, phase, due, slowed>>
    BY <1>7, <2>1, <2>4
  <2> QED  BY <1>8, <2>2, <2>3, <2>4 DEF RuleCommandUp
<1>9. CASE Inherited
  <2>1. slowed = {} /\ ~delaying /\ UNCHANGED faultVars
    BY <1>9 DEF Inherited
  <2>2. ASSUME UNCHANGED <<dev, taskVars, due>>, Ticked' = Ticked, Begun => Begun',
               phase' # "dynamics" => due = {}
        PROVE  TimerInv'
    BY <2>1, <2>2, TimersRest DEF taskVars, faultVars
  <2>3. CASE StartTick
    <3>1. /\ phase = "accepted" /\ phase' = "firing" /\ step' = step + 1
          /\ UNCHANGED <<dev, taskVars, due>>
      BY <2>3 DEF StartTick
    <3>2. Ticked' = Ticked /\ ~Begun
      BY <1>1, <3>1 DEF Ticked, Begun
    <3> QED  BY <1>1, <2>2, <3>1, <3>2
  <2>4. CASE (\E r \in todo : TakeRule(r)) \/ RuleFired \/ RuleReleased
    <3>1. phase \in {"firing", "releasing"} /\ UNCHANGED <<step, dev, taskVars, phase, due>>
      BY <2>4 DEF TakeRule, RuleFired, RuleReleased
    <3> QED  BY <1>7, <2>1, <3>1 DEF faultVars
  <2>5. CASE StartReleases \/ RulesDone \/ ExogenousDone
    <3>1. /\ phase \in {"firing", "releasing", "exogenous"}
          /\ phase' \in {"releasing", "exogenous", "clocks"}
          /\ UNCHANGED <<step, dev, taskVars, due>>
      BY <2>5 DEF StartReleases, RulesDone, ExogenousDone
    <3>2. Ticked' = Ticked /\ Begun'
      BY <3>1 DEF Ticked, Begun
    <3> QED  BY <1>1, <2>2, <3>1, <3>2
  <2>6. ASSUME NEW s \in Streams, Exogenous(s) PROVE TimerInv'
    BY <2>1, <2>6, TimersStream
  <2>7. CASE Dynamics
    BY <2>1, <2>7, TimersTurn
  <2>8. CASE NextMicroTick \/ ReturnView
    <3>1. /\ phase = "dynamics" /\ due = {} /\ phase' \in {"accepted", "execute"}
          /\ UNCHANGED <<step, dev, taskVars, due>>
      BY <2>8 DEF NextMicroTick, ReturnView
    <3>2. Ticked' = Ticked /\ ~Begun
      BY <3>1 DEF Ticked, Begun
    <3> QED  BY <2>2, <3>1, <3>2
  <2> QED  BY <1>9, <2>3, <2>4, <2>5, <2>6, <2>7, <2>8 DEF Inherited
<1>10. CASE (Over /\ UNCHANGED faultVars) \/ UNCHANGED allVars
  <2>1. UNCHANGED <<phase, step, dev, taskVars, due, faultVars>>
    BY <1>10 DEF Over, allVars, vars
  <2>2. Ticked' = Ticked /\ Begun' = Begun
    BY <2>1 DEF Ticked, Begun
  <2> QED  BY <1>1, <2>1, <2>2, TimersRest DEF taskVars, faultVars
<1> QED
  BY <1>3, <1>4, <1>6, <1>8, <1>9, <1>10, TimersLengthened, TimersClocked, TimersDelayed
  DEF FaultNext

\* Initially at most the washer runs, started by reset.
LEMMA TimersStart == FaultInit => TimerInv
<1> SUFFICES ASSUME FaultInit PROVE TimerInv
  OBVIOUS
<1>1. /\ dev = [d \in Devices |-> ScenarioDevice(scenario, d)] /\ step = 0
      /\ phase = "execute" /\ due = {} /\ slowed = {} /\ delaying = FALSE
      /\ DOMAIN tasks = {x \in Devices : x = "washer" /\ dev[x].state = "washing"}
      /\ \A d \in DOMAIN tasks : tasks[d] = 0
  BY DEF FaultInit, Init
<1>2. Ticked = 0 /\ FaultInv
  BY <1>1, FaultStarts DEF Ticked, Begun
<1>3. ASSUME NEW d \in Machines PROVE MachineIn(d)
  <2>1. d \in {"washer", "dishwasher"} /\ d \in Devices /\ d \in AllDevices /\ d \notin Supplies
    BY ConfigAssumption DEF Machines, Supplies
  <2>2. PICK r : r = dev[d]
    OBVIOUS
  <2>3. InitialDevice[d] = [state |-> "idle", remaining |-> 0]
    BY <2>1, InitialIs
  <2>4. r = ScenarioDevice(scenario, d)
    BY <1>1, <2>1, <2>2
  <2>5. \/ r = InitialDevice[d]
        \/ d = "washer" /\ r = [InitialDevice[d] EXCEPT !.state = "washing",
                                                        !.remaining = Cfg.washer_cycle]
    BY <2>1, <2>4, ScenarioDeviceIs
  <2>6. CASE r = InitialDevice[d]
    BY <1>1, <2>1, <2>2, <2>3, <2>6 DEF MachineIn, Busy
  <2>7. CASE d = "washer" /\ r = [InitialDevice[d] EXCEPT !.state = "washing",
                                                          !.remaining = Cfg.washer_cycle]
    <3>1. r.state = Busy(d) /\ r.remaining = Length(d)
          /\ r \in [state : {"idle", "loaded", Busy(d), "done"}, remaining : Nat]
      BY <2>3, <2>7, TimersPositive DEF Busy, Length
    <3>2. d \in DOMAIN tasks /\ tasks[d] = 0 /\ Counted(d) = 0
      BY <1>1, <2>1, <2>2, <2>7, <3>1 DEF Busy, Counted
    <3>3. LostIn(d, Ticked, 0, 0) = 0
      BY <1>2, LossesAddUp
    <3>4. 0 * Tick = 0 /\ Length(d) \in Nat /\ Length(d) > 0
      BY Durations, TimersPositive DEF Length
    <3>5. TimerIs(d, 0, Length(d), 0)
      BY <1>1, <1>2, <2>2, <3>1, <3>2, <3>3, <3>4 DEF TimerIs, Origin
    <3> QED  BY <1>1, <2>2, <3>1, <3>2, <3>4, <3>5 DEF MachineIn
  <2> QED  BY <2>5, <2>6, <2>7
<1>4. DOMAIN tasks \subseteq Devices \ {"lock", "garage"}
  BY <1>1
<1> QED  BY <1>1, <1>3, <1>4 DEF TimerInv

\* The ticks of a time that is a number of ticks
LEMMA TicksOf == \A n \in Nat : (n * Tick) \div Tick = n
<1> SUFFICES ASSUME NEW n \in Nat PROVE (n * Tick) \div Tick = n
  OBVIOUS
<1>1. Tick \in Nat /\ Tick > 0
  BY Durations
<1> QED  BY <1>1

\* Between calls and in a machine's turn the timers tell what they should.
LEMMA TimersTell ==
  ASSUME FaultInv, TimerInv
  PROVE  TimerUnderFaults
<1>1. /\ step \in Nat /\ (phase # "dynamics" => due = {})
      /\ delaying => phase = "dynamics"
  BY DEF FaultInv, FaultShape, RuleInv, RuleTypes, TimerInv
<1>2. ASSUME NEW d \in Faultable \cap DOMAIN tasks, phase = "execute" \/ (d \in due /\ ~delaying)
      PROVE  \E n, ran, p :
               /\ n = tasks[d] \div Tick /\ ran = (IF d \in due THEN n - 1 ELSE n)
               /\ \/ p = Planned(Length(d), d, step - n)
                  \/ n > 0 /\ p = Planned(Length(d), d, step - n + 1)
                  \/ n = step /\ p = Length(d)
               /\ dev[d].remaining = p - ran * Tick + TimeLost(d, n)
  <2>1. d \in Machines /\ MachineIn(d) /\ d \in DOMAIN tasks
    BY <1>2 DEF Faultable, TimerInv, Machines
  <2>2. phase \in {"execute", "dynamics"} /\ ~delaying /\ Ticked = step /\ ~Begun
    BY <1>1, <1>2 DEF Ticked, Begun
  <2>3. d \notin slowed
    BY <2>1, <2>2 DEF MachineIn, AwaitsLength
  <2>4. PICK n, p, lost : TimerIs(d, n, p, lost)
    BY <2>1, <2>3 DEF MachineIn
  <2>5. /\ n \in Nat /\ p \in Int /\ lost \in Int /\ tasks[d] = n * Tick
        /\ lost = LostIn(d, step, n, n) /\ dev[d].remaining = p - Counted(d) + lost
        /\ \/ p = Planned(Length(d), d, step - n)
           \/ n > 0 /\ p = Planned(Length(d), d, step - n + 1)
           \/ n = step /\ p = Length(d)
    BY <2>2, <2>4 DEF TimerIs, Origin
  <2>6. n = tasks[d] \div Tick
    BY <2>5, TicksOf
  <2>7. lost = TimeLost(d, n)
    BY <2>5 DEF LostIn, TimeLost
  <2>8. PICK ran : ran = IF d \in due THEN n - 1 ELSE n
    OBVIOUS
  <2>9. Counted(d) = ran * Tick
    <3>1. (n - 1) * Tick = n * Tick - Tick
      BY <2>5, Durations
    <3> QED  BY <2>1, <2>5, <2>8, <3>1 DEF Counted
  <2> QED  BY <2>5, <2>6, <2>7, <2>8, <2>9
<1> QED  BY <1>2 DEF TimerUnderFaults, Length

\* A machine never gets back the time its windows cost it, nor pays for it twice: its timer
\* is its planned length, less the ticks it ran, plus what each tick inside a window cost.
THEOREM TimersCountFaults == FaultSpec => []TimerUnderFaults
<1>1. FaultInit => TimerInv
  BY TimersStart
<1>2. FaultInv /\ TimerInv /\ [FaultNext]_allVars => TimerInv'
  BY TimersNext
<1>3. FaultInv /\ TimerInv => TimerUnderFaults
  BY TimersTell
<1> QED  BY <1>1, <1>2, <1>3, FaultInvariant, PTL DEF FaultSpec

(***************************************************************************)
(* The household keeps its order.                                          *)
(***************************************************************************)

\* Devices with a timer that the wrapper may lengthen.
Stretchable == {"washer", "dishwasher", "garage"}

\* d has a new time to go, and some if it had some.
Retimed(d) ==
  \E n \in Nat :
     /\ dev'[d] = [dev[d] EXCEPT !.remaining = n]
     /\ dev[d].remaining > 0 => n > 0

\* All that a step of the wrapper's own may do to the household.
Stretched ==
  /\ UNCHANGED <<scenario, tasks, completed, due, workflow, cost, runtime>>
  /\ phase' # "dynamics" => due = {}
  /\ \A d \in Devices : dev'[d] = dev[d] \/ (d \in Stretchable /\ Retimed(d))

\* The record of a device with such a timer.
LEMMA StretchableIs ==
  ASSUME HomeInv, NEW d \in Stretchable \cap Devices
  PROVE  /\ \E S : dev[d] \in [state : S, remaining : Nat]
         /\ dev[d].state \in ActiveStates[d] => dev[d].remaining > 0
<1>1. PICK running \in BOOLEAN : running = (d \in DOMAIN tasks)
  <2>1. (d \in DOMAIN tasks) \in BOOLEAN
    OBVIOUS
  <2> QED  BY <2>1
<1>2. Sound(d, scenario, dev[d], running, Counted(d)) /\ d \in AllDevices
  BY <1>1, ConfigAssumption DEF HomeInv
<1>3. CASE d = "washer"
  <2>1. Machine(dev[d], "washing", running) /\ ActiveStates[d] = {"washing"}
    BY <1>2, <1>3 DEF Sound, ActiveStates
  <2> QED  BY <2>1 DEF Machine
<1>4. CASE d = "dishwasher"
  <2>1. Machine(dev[d], "running", running) /\ ActiveStates[d] = {"running"}
    BY <1>2, <1>4 DEF Sound, ActiveStates
  <2> QED  BY <2>1 DEF Machine
<1>5. CASE d = "garage"
  <2>1. GarageSound(dev[d]) /\ ActiveStates[d] = {"opening", "closing"}
    BY <1>2, <1>5 DEF Sound, ActiveStates
  <2> QED  BY <2>1 DEF GarageSound
<1> QED  BY <1>3, <1>4, <1>5 DEF Stretchable

\* The lock has no time to go that could be changed.
LEMMA LockHasNone ==
  ASSUME HomeInv, "lock" \in Devices, NEW n
  PROVE  [dev["lock"] EXCEPT !.remaining = n] = dev["lock"]
<1>1. LockSound(dev["lock"], scenario)
  BY DEF HomeInv, Sound
<1>2. PICK r : r = dev["lock"]
  OBVIOUS
<1>3. r \in [state : {"locked", "unlocked"}, unlocked : Nat]
  BY <1>1, <1>2 DEF LockSound
<1>4. [r EXCEPT !.remaining = n] = r
  BY <1>3
<1> QED  BY <1>2, <1>4

\* Lengthening a time that is to go leaves some to go.
LEMMA LongerTime ==
  ASSUME FaultInv, NEW d, Slow(d, step) # {}, NEW n \in Nat
  PROVE  /\ Lengthened(n, TheOne(Slow(d, step))) \in Nat
         /\ n > 0 => Lengthened(n, TheOne(Slow(d, step))) > 0
<1>1. step \in Int
  BY DEF FaultInv, RuleInv, RuleTypes
<1>2. PICK h \in Nat : h = TheOne(Slow(d, step)).halves /\ h > 2
  BY <1>1, WindowsCost
<1>3. PICK m : m = n * h
  OBVIOUS
<1>4. m \in Nat /\ (n > 0 => m > 0)
  BY <1>2, <1>3
<1>5. Lengthened(n, TheOne(Slow(d, step))) = (m + 1) \div 2
  <2>1. CeilDiv(m, 2) = (m + 1) \div 2
    BY <1>4 DEF CeilDiv
  <2> QED  BY <1>2, <1>3, <2>1 DEF Lengthened
<1> QED  BY <1>4, <1>5

\* A window is one of a device that can fail.
LEMMA WindowedDevices ==
  ASSUME FaultInv, NEW d, NEW k, Active(d, k) # {}
  PROVE  d \in Faultable
<1>1. faults \subseteq Window
  BY ScheduleAssumption DEF FaultInv, FaultShape
<1> QED  BY <1>1 DEF Active, Window

\* The wrapper's own steps retime devices, or leave the household alone.
LEMMA OwnStepsStretch ==
  ASSUME FaultInv, HomeInv,
         (\E cs \in Batches[scenario] : Refused(cs)) \/ Lengthen \/ Delays \/ RuleCommandDown
  PROVE  Stretched
<1>1. /\ UNCHANGED <<scenario, tasks, completed, due, workflow, cost, runtime>>
      /\ phase' = phase \/ (phase = "execute" /\ phase' = "accepted")
  BY DEF Refused, Idle, Accept, Lengthen, Delays, RuleCommandDown, outsideVars, taskVars, homeVars
<1>2. phase' # "dynamics" => due = {}
  BY <1>1 DEF HomeInv
<1>3. CASE (\E cs \in Batches[scenario] : Refused(cs)) \/ RuleCommandDown
  <2>1. dev' = dev
    BY <1>3 DEF Refused, Accept, RuleCommandDown
  <2> QED  BY <1>1, <1>2, <2>1 DEF Stretched
<1>4. ASSUME NEW d \in Devices, d \in Faultable, NEW n \in Nat,
             dev'[d] = [dev[d] EXCEPT !.remaining = n],
             d \in Stretchable /\ dev[d].remaining > 0 => n > 0
      PROVE  dev'[d] = dev[d] \/ (d \in Stretchable /\ Retimed(d))
  <2>1. CASE d = "lock"
    BY <1>4, <2>1, LockHasNone
  <2>2. CASE d \in Stretchable
    BY <1>4, <2>2 DEF Retimed
  <2> QED  BY <1>4, <2>1, <2>2 DEF Faultable, Stretchable
<1>5. CASE Lengthen
  <2>1. ASSUME NEW d \in Devices
        PROVE  dev'[d] = dev[d] \/ (d \in Stretchable /\ Retimed(d))
    <3>1. CASE d \in slowed
      <4>1. Slow(d, step) # {}
        BY <3>1 DEF FaultInv, FaultShape
      <4>2. d \in Faultable
        BY <4>1, WindowedDevices DEF Slow
      <4>3. PICK r, m : r = dev[d] /\ m = Lengthened(r.remaining, TheOne(Slow(d, step)))
        OBVIOUS
      <4>4. dev'[d] = [r EXCEPT !.remaining = m]
        BY <1>5, <3>1, <4>3 DEF Lengthen
      <4>5. CASE d = "lock"
        BY <4>3, <4>4, <4>5, LockHasNone
      <4>6. CASE d \in Stretchable
        <5>1. r.remaining \in Nat
          BY <4>3, <4>6, StretchableIs
        <5>2. m \in Nat /\ (r.remaining > 0 => m > 0)
          BY <4>1, <4>3, <5>1, LongerTime
        <5> QED  BY <1>4, <4>2, <4>3, <4>4, <5>2
      <4> QED  BY <4>2, <4>5, <4>6 DEF Faultable, Stretchable
    <3>2. CASE d \notin slowed
      BY <1>5, <3>2 DEF Lengthen
    <3> QED  BY <3>1, <3>2
  <2> QED  BY <1>1, <1>2, <2>1 DEF Stretched
<1>6. CASE Delays
  <2>1. ASSUME NEW d \in Devices
        PROVE  dev'[d] = dev[d] \/ (d \in Stretchable /\ Retimed(d))
    <3>1. CASE d \in Delayed
      <4>1. d \in Faultable /\ dev[d].state \in ActiveStates[d] /\ Active(d, step) # {}
        BY <3>1 DEF Delayed
      <4>2. d # "lock"
        <5>1. "lock" \in AllDevices
          BY DEF AllDevices
        <5>2. ActiveStates["lock"] = {}
          BY <5>1 DEF ActiveStates
        <5> QED  BY <4>1, <5>2
      <4>3. d \in Stretchable
        BY <4>1, <4>2 DEF Faultable, Stretchable
      <4>4. PICK r, m : r = dev[d] /\ m = r.remaining + Delay(r, TheOne(Active(d, step)))
        OBVIOUS
      <4>5. dev'[d] = [r EXCEPT !.remaining = m]
        BY <1>6, <3>1, <4>4 DEF Delays
      <4>6. r.remaining \in Nat /\ r.remaining > 0
        BY <4>1, <4>3, <4>4, StretchableIs
      <4>7. Delay(r, TheOne(Active(d, step))) \in Nat
        <5>1. step \in Int
          BY DEF FaultInv, RuleInv, RuleTypes
        <5> QED  BY <4>1, <4>6, <5>1, WindowsCost
      <4>8. m \in Nat /\ m > 0
        BY <4>4, <4>6, <4>7
      <4> QED  BY <1>4, <4>1, <4>4, <4>5, <4>8
    <3>2. CASE d \notin Delayed
      BY <1>6, <3>2 DEF Delays
    <3> QED  BY <3>1, <3>2
  <2> QED  BY <1>1, <1>2, <2>1 DEF Stretched, Delays
<1> QED  BY <1>3, <1>5, <1>6

\* A machine, or a garage, with another time to go is as it should be.
LEMMA RetimedIs ==
  ASSUME NEW r, NEW n \in Nat, NEW running \in BOOLEAN, NEW busy, r.remaining > 0 => n > 0
  PROVE  /\ Machine(r, busy, running)
              => Machine([r EXCEPT !.remaining = n], busy, running)
                 /\ [r EXCEPT !.remaining = n].state = r.state
         /\ GarageSound(r)
              => GarageSound([r EXCEPT !.remaining = n])
                 /\ [r EXCEPT !.remaining = n].state = r.state
<1>1. ASSUME Machine(r, busy, running)
      PROVE  Machine([r EXCEPT !.remaining = n], busy, running)
             /\ [r EXCEPT !.remaining = n].state = r.state
  BY <1>1 DEF Machine
<1>2. ASSUME GarageSound(r)
      PROVE  GarageSound([r EXCEPT !.remaining = n])
             /\ [r EXCEPT !.remaining = n].state = r.state
  BY <1>2 DEF GarageSound
<1> QED  BY <1>1, <1>2

\* So is the device the household has with that record.
LEMMA RetimedSound ==
  ASSUME NEW sc, NEW r, NEW n \in Nat, NEW running \in BOOLEAN, NEW t, NEW d \in Stretchable,
         r.remaining > 0 => n > 0, Sound(d, sc, r, running, t)
  PROVE  /\ Sound(d, sc, [r EXCEPT !.remaining = n], running, t)
         /\ [r EXCEPT !.remaining = n].state = r.state
<1>1. CASE d = "washer"
  <2>1. Sound("washer", sc, r, running, t)
    BY <1>1
  <2>2. Machine(r, "washing", running)
    BY <2>1, SoundIs
  <2>3. Machine([r EXCEPT !.remaining = n], "washing", running)
        /\ [r EXCEPT !.remaining = n].state = r.state
    BY <2>2, RetimedIs
  <2>4. Sound("washer", sc, [r EXCEPT !.remaining = n], running, t)
    BY <2>3, SoundIs
  <2> QED  BY <1>1, <2>3, <2>4
<1>2. CASE d = "dishwasher"
  <2>1. Sound("dishwasher", sc, r, running, t)
    BY <1>2
  <2>2. Machine(r, "running", running)
    BY <2>1, SoundIs
  <2>3. Machine([r EXCEPT !.remaining = n], "running", running)
        /\ [r EXCEPT !.remaining = n].state = r.state
    BY <2>2, RetimedIs
  <2>4. Sound("dishwasher", sc, [r EXCEPT !.remaining = n], running, t)
    BY <2>3, SoundIs
  <2> QED  BY <1>2, <2>3, <2>4
<1>3. CASE d = "garage"
  <2>1. Sound("garage", sc, r, running, t)
    BY <1>3
  <2>2. GarageSound(r) /\ ~running
    BY <2>1, SoundIs
  <2>3. GarageSound([r EXCEPT !.remaining = n]) /\ [r EXCEPT !.remaining = n].state = r.state
    BY <2>2, RetimedIs
  <2>4. Sound("garage", sc, [r EXCEPT !.remaining = n], running, t)
    BY <2>2, <2>3, SoundIs
  <2> QED  BY <1>3, <2>3, <2>4
<1> QED  BY <1>1, <1>2, <1>3 DEF Stretchable

\* A device with more time to go is as it should be.
LEMMA StretchedDevice ==
  ASSUME HomeInv, Stretched, NEW d \in Devices
  PROVE  /\ dev'[d].state = dev[d].state
         /\ Sound(d, scenario, dev'[d], d \in DOMAIN tasks, Counted(d))
<1>1. PICK running \in BOOLEAN : running = (d \in DOMAIN tasks)
  <2>1. (d \in DOMAIN tasks) \in BOOLEAN
    OBVIOUS
  <2> QED  BY <2>1
<1>2. PICK r, t : r = dev[d] /\ t = Counted(d)
  OBVIOUS
<1>3. Sound(d, scenario, r, running, t)
  BY <1>1, <1>2 DEF HomeInv
<1>4. CASE dev'[d] = dev[d]
  BY <1>1, <1>2, <1>3, <1>4
<1>5. CASE d \in Stretchable /\ Retimed(d)
  <2>1. PICK n \in Nat : /\ dev'[d] = [dev[d] EXCEPT !.remaining = n]
                         /\ dev[d].remaining > 0 => n > 0
    BY <1>5 DEF Retimed
  <2>2. r.remaining > 0 => n > 0
    BY <1>2, <2>1
  <2>3. Sound(d, scenario, [r EXCEPT !.remaining = n], running, t)
        /\ [r EXCEPT !.remaining = n].state = r.state
    BY <1>3, <1>5, <2>2, RetimedSound
  <2> QED  BY <1>1, <1>2, <2>1, <2>3
<1> QED  BY <1>4, <1>5 DEF Stretched

\* The household's invariants but for OnTime, which a window is there to break.
StandingInv == WorkTyped /\ HomeInv /\ CountInv /\ LogInv /\ RuntimeIsTaskTime /\ GarageSession

\* They do not depend on the time a device has to go.
LEMMA StretchedStands == StandingInv /\ Stretched => StandingInv'
<1> SUFFICES ASSUME StandingInv, Stretched PROVE StandingInv'
  OBVIOUS
<1>1. /\ UNCHANGED <<scenario, tasks, completed, due, workflow, cost, runtime>>
      /\ phase' # "dynamics" => due = {}
  BY DEF Stretched
<1>2. ASSUME NEW d \in Devices
      PROVE  /\ dev'[d].state = dev[d].state
             /\ Sound(d, scenario', dev'[d], d \in DOMAIN tasks', Counted(d)')
  <2>1. Counted(d)' = Counted(d)
    BY <1>1 DEF Counted
  <2> QED  BY <1>1, <2>1, StretchedDevice DEF StandingInv
<1>3. HomeInv'
  BY <1>1, <1>2 DEF StandingInv, HomeInv
<1>4. WorkTyped' /\ CountInv'
  BY <1>1 DEF StandingInv, WorkTyped, CountInv
<1>5. LogInv' /\ RuntimeIsTaskTime'
  BY <1>1 DEF StandingInv, LogInv, RuntimeIsTaskTime, Spent, TookFor, RunFor, Untasked
<1>6. GarageSession'
  BY <1>1, <1>2 DEF StandingInv, GarageSession
<1> QED  BY <1>3, <1>4, <1>5, <1>6 DEF StandingInv

\* Every step of a faulty household keeps them.
LEMMA StandingKeeps == FaultInv /\ StandingInv /\ [FaultNext]_allVars => StandingInv'
<1> SUFFICES ASSUME FaultInv, StandingInv, [FaultNext]_allVars PROVE StandingInv'
  OBVIOUS
<1>1. HouseInv
  BY DEF FaultInv, StandingInv, HouseInv
<1>2. CASE [Next]_vars
  BY <1>1, <1>2, WorkNext, HomeNext, CountNext, RuntimeNext, GarageNext
     DEF HouseInv, StandingInv
<1>3. CASE ~[Next]_vars
  <2>1. Stretched
    BY <1>3, WrappedSteps, OwnStepsStretch DEF StandingInv
  <2> QED  BY <2>1, StretchedStands
<1> QED  BY <1>2, <1>3

LEMMA StandingInvariant == FaultSpec => []StandingInv
<1>1. FaultInit => StandingInv
  BY WorkInit, HomeInit, RuntimeInit, GarageInit DEF FaultInit, StandingInv
<1> QED  BY <1>1, StandingKeeps, FaultInvariant, PTL DEF FaultSpec

\* Whatever the windows do to its time, the household's records agree: a task runs exactly
\* while its device does, no device is left to move when its time is up, the two metrics of
\* a run agree, and the session tells where the garage door is.
THEOREM FaultsKeepHousehold ==
  FaultSpec => [](TypeOK /\ TaskIffDevice /\ NoOverdueDevice /\ RuntimeIsTaskTime /\ GarageSession)
<1>1. FaultInv /\ BusInv /\ StandingInv =>
        TypeOK /\ TaskIffDevice /\ NoOverdueDevice /\ RuntimeIsTaskTime /\ GarageSession
  <2> SUFFICES ASSUME FaultInv, BusInv, StandingInv
               PROVE  /\ TypeOK /\ TaskIffDevice /\ NoOverdueDevice
                      /\ RuntimeIsTaskTime /\ GarageSession
    OBVIOUS
  <2>1. HouseInv
    BY DEF FaultInv, StandingInv, HouseInv
  <2>2. TypeOK
    BY <2>1, HouseTypes DEF BusInv, StandingInv
  <2> QED  BY <2>2, TasksAgree, DeadlinesAhead DEF StandingInv
<1> QED  BY <1>1, FaultInvariant, BusInvariant, StandingInvariant, PTL

\* Supplies and orders do not notice the faults.
THEOREM FaultsMatchOrders ==
  ASSUME Cfg.initial_supply <= 100
  PROVE  FaultSpec => []SupplyMatchesOrder
<1>1. FaultInit => OrdersInv
  BY OrdersInit DEF FaultInit
<1>2. FaultInv /\ StandingInv /\ OrdersInv /\ [FaultNext]_allVars => OrdersInv'
  <2> SUFFICES ASSUME FaultInv, StandingInv, OrdersInv, [FaultNext]_allVars PROVE OrdersInv'
    OBVIOUS
  <2>1. CASE [Next]_vars
    BY <2>1, OrdersNext DEF FaultInv, StandingInv, HouseInv
  <2>2. CASE ~[Next]_vars
    <3>1. Stretched
      BY <2>2, WrappedSteps, OwnStepsStretch DEF StandingInv
    <3>2. \A d \in Supplies \cap Devices : dev'[d] = dev[d] /\ workflow' = workflow
      BY <3>1 DEF Stretched, Stretchable, Supplies
    <3> QED  BY <3>2 DEF OrdersInv
  <2> QED  BY <2>1, <2>2
<1>3. OrdersInv => SupplyMatchesOrder
  BY DEF OrdersInv, OrderSound, SupplyMatchesOrder
<1> QED  BY <1>1, <1>2, <1>3, FaultInvariant, StandingInvariant, PTL DEF FaultSpec
=============================================================================
