--------------------------- MODULE DiscreteFault ---------------------------
(***************************************************************************)
(* unified_compiler/adapters/d1_discrete_device_fault.py:                   *)
(* DiscreteDeviceFaultBackend, a WorkflowBackend whose lock, garage door,   *)
(* washer and dishwasher fail on a schedule fixed at reset.  A window takes *)
(* its device down (offline, stuck, jammed) or slows it.  The wrapper       *)
(* overrides three methods of the backend and adds a step to each:          *)
(*                                                                         *)
(*   _validate_command   refuses a command for a device that is down        *)
(*   _apply_commands     then lengthens what was started on a slowed device *)
(*   _process_dynamics   first delays the active devices inside a window    *)
(*                                                                         *)
(* The agent drives it through HarnessD1AgentBackend, which lets a tick     *)
(* pass after a command that the state or the health of a device refused.   *)
(* Factors are multiples of one half, for which the code's floating point   *)
(* is exact.                                                               *)
(***************************************************************************)
EXTENDS WorkflowProperties

CONSTANT FaultSchedules  \* the schedules an episode may be given

VARIABLES
  faults,   \* schedule: the windows
  slowed,   \* devices started on while slow, whose time is yet to be lengthened
  delaying  \* the delays of this tick are yet to be added

faultVars == <<faults, slowed, delaying>>
allVars   == <<vars, faultVars>>

Faultable == {"lock", "garage", "washer", "dishwasher"}
DownModes == {"offline", "stuck", "jammed"}

\* [from, until) in steps; halves = 2 * slowdown_factor.
Window == [device : Faultable, from : Nat, until : Nat,
           mode : DownModes \cup {"slowdown"}, halves : Nat]

\* DiscreteFaultWindow and DiscreteFaultSchedule refuse any other schedule.
ASSUME ScheduleAssumption ==
  \A S \in FaultSchedules :
    /\ S \subseteq Window
    /\ \A w \in S : w.from < w.until /\ (w.mode = "slowdown" <=> w.halves > 2)
    /\ \A w, x \in S : w # x /\ w.device = x.device => w.until <= x.from \/ x.until <= w.from

\* ask, and a list without commands, are never refused.
ASSUME AskAssumption == \A sc \in Scenarios : <<>> \in Batches[sc]

\* Mutant of Active: the interval is closed.
ActiveClosed(d, k) == {w \in faults : w.device = d /\ w.from <= k /\ k <= w.until}

\* schedule.active: one window or none
Active(d, k) == {w \in faults : w.device = d /\ w.from <= k /\ k < w.until}

\* The window of a set of one
TheOne(W) == CHOOSE w \in W : TRUE

Down(d, k) == \E w \in Active(d, k) : w.mode \in DownModes
Slow(d, k) == {w \in Active(d, k) : w.mode = "slowdown"}

\* The devices a command is slowed on.
Slowing(c) ==
  {d \in {c.device} : Slow(d, step) # {} /\ c.op \in {"start", "start_cleaning", "open", "close"}}

Lengthened(seconds, w) == CeilDiv(seconds * w.halves, 2)

\* Mutant of Delay: a device that will be through in this tick is not held back.
DelayOfLong(r, w) ==
  IF w.mode \in DownModes THEN IF r.remaining > Tick THEN Tick ELSE 0
  ELSE CeilDiv(Tick * (w.halves - 2), 2)

\* What a window adds in one tick to the time an active device needs.
Delay(r, w) ==
  IF w.mode \in DownModes THEN IF r.remaining > 0 THEN Tick ELSE 0
  ELSE CeilDiv(Tick * (w.halves - 2), 2)

(***************************************************************************)
(* The steps.                                                              *)
(***************************************************************************)

FaultInit ==
  /\ Init /\ faults \in FaultSchedules
  /\ slowed = {} /\ delaying = FALSE

ActUp(cs) ==
  /\ Act(cs) /\ \A i \in 1..Len(cs) : ~Down(cs[i].device, step)
  /\ UNCHANGED faultVars

\* _validate_command of the wrapper
Possible(c) == CommandOk(c) /\ ~Down(c.device, step)

\* A well-formed list whose first error is one of the state or the health of a device:
\* _validate_commands reports the first, and an identity is checked before the state.
Refused(cs) ==
  /\ Idle /\ Len(cs) <= MaxActions /\ DistinctDevices(cs)
  /\ \A i \in 1..Len(cs) : StaticOk(cs[i])
  /\ \E i \in 1..Len(cs) :
       /\ ~Possible(cs[i]) /\ IdentityOk(cs[i], scenario, household)
       /\ \A j \in 1..i-1 : Possible(cs[j])
  /\ emitted' = <<>>
  /\ Accept(1, NoFilter)
  /\ UNCHANGED <<ruleVars, batch, pending, events, observed, faultVars>>

\* A rule is installed whatever the health of its devices, now or at its step.
Otherwise ==
  /\ \/ \E t \in RuleTemplates[scenario] : InstallRule(t)
     \/ \E r \in rules : CancelRule(r)
     \/ \E s \in WaitSeconds, f \in WaitFilters : Wait(s, f)
  /\ UNCHANGED faultVars

ApplySlowed ==
  /\ ApplyNext
  /\ slowed' = slowed \cup Slowing(Head(batch))
  /\ UNCHANGED <<faults, delaying>>

\* Through with the list: _apply_commands goes over what it applied.
Lengthen ==
  /\ slowed # {}
  /\ phase = "accepted" => batch = <<>>
  /\ dev' = [d \in Devices |->
               IF d \in slowed
               THEN [dev[d] EXCEPT !.remaining =
                       Lengthened(@, TheOne(Slow(d, step)))]
               ELSE dev[d]]
  /\ slowed' = {}
  /\ UNCHANGED <<outsideVars, step, taskVars, homeVars, ruleVars, cost, busVars, phase,
                 batch, todo, current, due, wait, faults, delaying>>

\* Mutant of RuleCommandUp: the health at installation is trusted.
RuleCommandUnchecked ==
  /\ RuleCommand /\ slowed = {}
  /\ slowed' = IF CommandOk(Head(batch)) THEN Slowing(Head(batch)) ELSE {}
  /\ UNCHANGED <<faults, delaying>>

\* A rule's command is checked when its turn comes, and lengthened at once.
RuleCommandUp ==
  /\ phase \in {"firing", "releasing"} /\ batch # <<>> /\ slowed = {}
  /\ \/ /\ ~Down(Head(batch).device, step)
        /\ RuleCommand
        /\ slowed' = IF CommandOk(Head(batch)) THEN Slowing(Head(batch)) ELSE {}
     \/ /\ Down(Head(batch).device, step)
        /\ Emit(Events(<<"rule_command_skipped">>, current.id))
        /\ batch' = Tail(batch)
        /\ UNCHANGED <<outsideVars, step, dev, taskVars, homeVars, ruleVars, cost, phase,
                       todo, current, due, wait, slowed>>
  /\ UNCHANGED <<faults, delaying>>

ClocksThenDelays == Clocks /\ delaying' = TRUE /\ UNCHANGED <<faults, slowed>>

\* The devices whose time the dynamics of this step delay.
Delayed == {d \in Faultable \cap Devices :
              dev[d].state \in ActiveStates[d] /\ Active(d, step) # {}}

Delays ==
  /\ delaying /\ delaying' = FALSE
  /\ dev' = [d \in Devices |->
               IF d \in Delayed
               THEN [dev[d] EXCEPT !.remaining =
                       @ + Delay(dev[d], TheOne(Active(d, step)))]
               ELSE dev[d]]
  /\ UNCHANGED <<outsideVars, step, taskVars, homeVars, ruleVars, cost, busVars, phase,
                 batch, todo, current, due, wait, faults, slowed>>

\* What the wrapper leaves alone.
Inherited ==
  /\ slowed = {} /\ ~delaying
  /\ \/ StartTick \/ \E r \in todo : TakeRule(r)
     \/ RuleFired \/ StartReleases \/ RuleReleased \/ RulesDone
     \/ \E s \in Streams : Exogenous(s)
     \/ ExogenousDone \/ Dynamics \/ NextMicroTick \/ ReturnView
  /\ UNCHANGED faultVars

FaultNext ==
  \/ \E cs \in Batches[scenario] : ActUp(cs) \/ Refused(cs)
  \/ Otherwise
  \/ ApplySlowed \/ Lengthen \/ RuleCommandUp \/ ClocksThenDelays \/ Delays
  \/ Inherited
  \/ Over /\ UNCHANGED faultVars

FaultSpec == FaultInit /\ [][FaultNext]_allVars

(***************************************************************************)
(* What a faulty household still promises.                                 *)
(***************************************************************************)

\* No command takes effect on a device that is down or in a state that does not
\* allow it, however healthy the device was when the rule was installed or the
\* list was accepted.
AppliedAvailable ==
  [][cost' # cost => CommandOk(Head(batch)) /\ ~Down(Head(batch).device, step)]_allVars

\* Outside the windows the wrapper is the household it wraps: in a step that no
\* window covers, whatever was lengthened or delayed before, each transition is one
\* of WorkflowBackend's, a refused command counting as an empty list.
Transparent ==
  [][(\A w \in faults : step < w.from \/ w.until <= step) => Next]_vars

\* What the window of step k costs device d in one tick.
Loss(d, k) ==
  IF Down(d, k) THEN Tick
  ELSE IF Slow(d, k) # {} THEN (Tick * (TheOne(Slow(d, k)).halves - 2) + 1) \div 2
  ELSE 0

\* The time the windows cost device d in n ticks that end with this step.
TimeLost(d, n) == SumUpTo([i \in 1..n |-> Loss(d, step - n + i)], n)

\* The length a cycle is given when it is started at step k.
Planned(total, d, k) ==
  IF Slow(d, k) = {} THEN total
  ELSE (total * TheOne(Slow(d, k)).halves + 1) \div 2

\* A machine is never handed back its lost time, nor charged twice for it: between
\* calls, and when its turn comes to count down and perhaps end, what remains of a
\* cycle is its planned length, less the ticks it ran, plus what each tick inside a
\* window cost: all of a tick when down, factor - 1 of it when slow.  The cycle was
\* started by the agent, before its first tick, or by a rule, within it, and planned
\* by the health of that step; one that reset started is not lengthened.
TimerUnderFaults ==
  \A d \in Faultable \cap DOMAIN tasks :
    phase = "execute" \/ (d \in due /\ ~delaying) =>
      LET n     == tasks[d] \div Tick
          ran   == IF d \in due THEN n - 1 ELSE n
          total == IF d = "washer" THEN Cfg.washer_cycle ELSE Cfg.dishwasher_cycle
          left(planned) == planned - ran * Tick + TimeLost(d, n)
      IN  \/ dev[d].remaining = left(Planned(total, d, step - n))
          \/ n > 0 /\ dev[d].remaining = left(Planned(total, d, step - n + 1))
          \/ n = step /\ dev[d].remaining = left(total)

\* "normal decrement T becomes T/f in effective wall-clock time": in a tick a
\* slowed device advances by Tick / factor, up to the rounding of a second.
SlowdownDividesTime ==
  [][delaying /\ ~delaying' =>
       \A d \in Delayed : \A w \in Slow(d, step) :
         (Tick - (dev'[d].remaining - dev[d].remaining) + 1) * w.halves >= 2 * Tick]_allVars
=============================================================================
