------------------------ MODULE WorkflowProperties ------------------------
(***************************************************************************)
(* What WorkflowBackend promises.                                          *)
(***************************************************************************)
EXTENDS Workflow

InTick == phase \in {"firing", "releasing", "exogenous", "clocks", "dynamics"}

\* The parts of a step before the task and device clocks move.
BeforeClocks == phase \notin {"clocks", "dynamics"}

(***************************************************************************)
(* Types.                                                                  *)
(***************************************************************************)

\* The types of the backend's state; every clock, level and counter of a device is a
\* natural number.
TypeOK ==
  /\ step \in Nat /\ cost \in Nat /\ ruleSeq \in Nat
  /\ DOMAIN dev = Devices /\ DOMAIN tasks \subseteq Devices
  /\ \A d \in DOMAIN tasks : tasks[d] \in Nat
  /\ runtime \in [Devices -> Nat]
  /\ rules \subseteq Rule
  /\ batch \in Seq(Command)
  /\ todo \subseteq Rule /\ current \in Rule \cup {NoRule}
  /\ due \subseteq Devices
  /\ phase \in {"execute", "accepted", "firing", "releasing", "exogenous", "clocks",
                "dynamics"}
  /\ wait \in [left : Nat, filter : WaitFilters \cup {NoFilter}]
  /\ \A d \in Devices : \A f \in DOMAIN dev[d] \ {"state", "alarm_sent", "ordered"} :
       dev[d][f] \in Nat

(***************************************************************************)
(* Rules.                                                                  *)
(***************************************************************************)

Waiting(r)  == step < r.fire
Released(r) == r.release # 0 /\ r.fire <= step /\ step < r.release
Handled(r)  == r \in todo \/ r = current

\* A rule stays installed exactly as long as it still has something to do: its
\* firing lies ahead, or it has fired and its release lies ahead.  While a tick
\* processes rules, the ones that are due now are those in todo or current.
\* (A rule that is fired twice, released before it fired, or kept after its last
\* duty breaks this.)
RuleWindow ==
  \A r \in rules :
    IF Handled(r)
    THEN \/ phase = "firing" /\ r.fire = step
         \/ phase = "releasing" /\ r.release = step
    ELSE \/ Waiting(r) \/ Released(r)
         \/ phase = "firing" /\ r.release = step

\* No two installed rules share an id, and their sequence numbers order them by
\* installation: the order in which rules due at one step are processed is total.
RulesDistinct ==
  \A r, q \in rules : r # q => r.id # q.id /\ r.seq # q.seq

Heard(type, subject) ==
  \E i \in 1..Len(events') : events'[i] = [type |-> type, of |-> subject, at |-> step]

\* A rule disappears only by the agent's cancellation, which is queued as an event
\* for the next view, or within the tick of its last duty, which is announced by
\* rule_retired or rule_released in that tick's events.
NoSilentRetirement ==
  [][\A r \in rules \ rules' :
       \/ /\ phase = "execute"
          /\ \E i \in 1..Len(pending') : pending'[i].type = "rule_cancelled" /\ pending'[i].of = r.id
       \/ r.fire = step /\ r.release = 0 /\ Heard("rule_fired", r.id) /\ Heard("rule_retired", r.id)
       \/ r.release = step /\ Heard("rule_released", r.id)]_vars

(***************************************************************************)
(* Commands.                                                               *)
(***************************************************************************)

\* Every command that takes effect is allowed by the state it finds, for an agent's
\* batch as for a rule.  A batch is validated as a whole before its first command is
\* applied and not again; this is enough because no command of it can invalidate
\* another.  A rule's commands were validated without the state when it was
\* installed, and are validated again when their turn comes.
AppliedLegal ==
  [][cost' # cost => CommandOk(Head(batch))]_vars

\* What is left of an accepted batch is legal as it stands.
BatchStaysLegal ==
  phase = "accepted" => DistinctDevices(batch) /\ \A i \in 1..Len(batch) : CommandOk(batch[i])

(***************************************************************************)
(* Events: "Preserve every causal receipt".                                *)
(***************************************************************************)

\* No event is lost, delivered twice or reordered: between calls the last view
\* held everything emitted during the call, whether by the agent's own commands
\* before the first tick or by any tick of a long wait; during a call what was
\* emitted is what was observed so far, then what the current tick holds.
EventsDelivered ==
  /\ phase = "execute"  => events = emitted /\ pending = <<>> /\ observed = <<>>
  /\ phase = "accepted" => emitted = observed \o pending
  /\ InTick             => emitted = observed \o events /\ pending = <<>>

\* A wait for an event returns with the first tick in which it happens: no event
\* of an earlier tick of the same call matched.
WaitNeverOvershoots ==
  wait.filter # NoFilter => \A i \in 1..Len(observed) : observed[i].type # wait.filter

\* A call never ticks past the horizon, and keeps to the ticks asked for.
WaitWithinHorizon ==
  /\ phase = "accepted" => wait.left >= 1 /\ ~Terminal
  /\ InTick => wait.left >= 1 /\ (step - 1) * Tick < Horizon

(***************************************************************************)
(* Tasks, devices and their clocks.                                        *)
(***************************************************************************)

\* The states of a device in which its task runs.
TaskStates(d) ==
  CASE d = "washer"     -> {"washing"}
    [] d = "dishwasher" -> {"running"}
    [] d = "vacuum"     -> {"cleaning", "returning"}
    [] d = "intercom"   -> {"ringing"}
    [] d = "stove"      -> {"on"}
    [] d = "coffee"     -> {"brewing"}

\* The guard scenario starts with a lit stove but without a cooking task.
Untasked(d) == d = "stove" /\ scenario = "unattended_stove_guard"

\* A task runs exactly while its device is in the state the task is about,
\* whoever moved the device: agent, rule, outside event or the clock.
TaskIffDevice ==
  \A d \in Devices \cap TaskDevices :
    ~Untasked(d) => (d \in DOMAIN tasks <=> dev[d].state \in TaskStates(d))

CountsDown(d, total) == dev[d].remaining = Larger(0, total - tasks[d])

\* A running task's elapsed_seconds and the device's own timer tell the same
\* time: remaining is what the elapsed time leaves of the cycle, and the ring and
\* hazard clocks equal the elapsed time of their tasks.
TaskClock ==
  BeforeClocks =>
    \A d \in DOMAIN tasks :
      CASE d = "washer"     -> CountsDown(d, Cfg.washer_cycle)
        [] d = "dishwasher" -> CountsDown(d, Cfg.dishwasher_cycle)
        [] d = "vacuum"     -> dev[d].state = "cleaning" => CountsDown(d, Cfg.vacuum_clean)
        [] d = "coffee"     -> CountsDown(d, Cfg.coffee_brew)
        [] d = "intercom"   -> dev[d].ring = tasks[d]
        [] d = "stove"      -> Untasked(d) \/ dev[d].on = tasks[d]

\* The sum of f[1] to f[n], by way of the sums of its beginnings.
SumUpTo(f, n) == LET sum[k \in 0..n] == IF k = 0 THEN 0 ELSE sum[k-1] + f[k] IN sum[n]

\* elapsed_seconds of the task the device is running, and of the i-th one completed
RunFor(d) == IF d \in DOMAIN tasks THEN tasks[d] ELSE 0
TookFor(d) == [i \in 1..Len(completed) |->
                 IF completed[i].task = d THEN completed[i].elapsed ELSE 0]

\* The two metrics of a run agree, within a tick, too: a device's runtime is the time
\* its tasks took, so no tick of a task is counted twice or dropped when it completes.
RuntimeIsTaskTime ==
  \A d \in Devices \cap (TaskDevices \ {"intercom"}) :
    ~Untasked(d) => runtime[d] = RunFor(d) + SumUpTo(TookFor(d), Len(completed))

\* Between calls no device has outlived its deadline: a running cycle has time
\* left, and every timeout that was reached has been acted on.
NoOverdueDevice ==
  phase = "execute" =>
    \A d \in Devices :
      /\ dev[d].state \in {"washing", "running", "cleaning", "returning", "opening",
                           "closing", "brewing", "ordered"} => dev[d].remaining > 0
      /\ dev[d].state = "ready" /\ d = "coffee" => dev[d].freshness > 0
      /\ dev[d].state = "ringing" /\ d = "intercom" => dev[d].ring < Cfg.ring_timeout
      /\ dev[d].state = "answered" => dev[d].answered < Cfg.answered_clear
      /\ dev[d].state = "ringing" /\ d = "alarm" => dev[d].ringing < Cfg.alarm_timeout
      /\ dev[d].state = "on" => dev[d].on < Cfg.stove_hazard
      /\ d = "lock" /\ Moves(d, dev[d].state, scenario) => dev[d].unlocked < RelockSeconds

(***************************************************************************)
(* Supplies, doors, occurrences.                                           *)
(***************************************************************************)

\* A supply and its order agree: the supply is "ordered" exactly while an
\* accepted order is outstanding, with the same time to delivery; it never claims
\* stock it has not got, and a delivery is never lost or booked twice.
SupplyMatchesOrder ==
  \A d \in Supplies \cap Devices :
    LET r == dev[d]  order == workflow.orders[d] IN
    /\ r.state = "ordered" <=> order.status = "accepted"
    /\ r.ordered <=> r.state = "ordered"
    /\ r.state = "ordered" => order.remaining = r.remaining
    /\ r.state \in {"stocked", "low"} => r.level > 0
    /\ r.level = 0 => r.state \in {"empty", "ordered"}
    /\ r.level <= 100

\* An opening of the fridge that reaches fridge_alarm_seconds raises the alarm in the
\* tick that takes it there, whoever opened the door, in every opening anew (open counts
\* the seconds of one opening).
AlarmInEachOpening ==
  [][LET overdue == "fridge" \in Devices /\ dev["fridge"].open < Cfg.fridge_alarm
                                         /\ dev'["fridge"].open >= Cfg.fridge_alarm
     IN  overdue => Heard("fridge_door_alarm", "fridge")]_vars

\* The access session the agent is shown tells where the garage door is, whoever
\* moved it last.  One disagreement is the code's own: a door that an obstruction
\* stopped while it closed is open, and its session still says reclosing.
GarageSession ==
  "garage" \in Devices =>
    LET door == dev["garage"].state
        shown == workflow.sessions.garage_access
    IN  /\ shown \in {"opening", "open", "closed"} => door = shown
        /\ shown = "reclosing" => door \in {"closing", "open"}
        /\ shown = "none" => door = ScenarioDevice(scenario, "garage").state

(***************************************************************************)
(* The installed rules implement the abstract book of timers.              *)
(***************************************************************************)

\* A rule has fired when its step has come, unless it is waiting for its turn in the
\* first pass; one that is taken up a second time has not fired after all.
Fired(r) == r.fire <= step /\ (phase = "firing" => ~Handled(r))

Entry(r) == [id |-> r.id, fire |-> r.fire, release |-> r.release, seq |-> r.seq,
             fired |-> Fired(r)]

Book == INSTANCE RuleBook WITH now <- step, book <- {Entry(r) : r \in rules}

\* Rules fire once, at their step, in installation order and before any release;
\* none is skipped when a wait covers several ticks.
RulesKeepTime == Book!Spec
=============================================================================
