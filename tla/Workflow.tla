------------------------------ MODULE Workflow ------------------------------
(***************************************************************************)
(* harness_v2/workflow_backend.py: WorkflowBackend, the deterministic       *)
(* household an episode runs on.                                           *)
(*                                                                         *)
(* The caller (module Harness) hands in one action at a time: the backend  *)
(* executes it atomically (execute_atomic) and, if it accepted it, is then  *)
(* advanced by one or more ticks (advance).  The code does all this in one  *)
(* thread; the model lets the program counter "phase" walk through it in    *)
(* the code's order, so that each command, each rule and each device is a   *)
(* step of its own:                                                        *)
(*                                                                         *)
(*   execute    between calls: the caller may act                          *)
(*   accepted   the action was accepted; its commands are being applied,    *)
(*              then the next tick starts                                  *)
(*   firing     rules whose fire_at_step is this step                      *)
(*   releasing  rules whose release_at_step is this step                   *)
(*   exogenous  the outside events of this step                           *)
(*   clocks     device runtimes and task clocks                            *)
(*   dynamics   the devices, in the order of _process_dynamics             *)
(***************************************************************************)
EXTENDS ExogenousStreams

CONSTANTS
  Batches,        \* the command lists an agent may send with act, by scenario
  RuleTemplates,  \* the rules an agent may install, by scenario
  WaitSeconds,    \* the durations an agent may wait
  WaitFilters,    \* the event types an agent may wait for
  MaxInstalls,    \* bound: rules installed in one episode
  NoRule          \* no rule is being processed

NoFilter   == "none"  \* a wait for no event
MaxTicks   == 10080   \* MAX_TICKS
MaxActions == 8       \* MAX_ACTIONS_PER_TICK

VARIABLES
  scenario,   \* _scenario_type, fixed at reset
  exog,       \* the schedule of outside events, fixed at reset
  arriving,   \* outside events of this step still to be processed
  step,       \* _step
  dev,        \* _devices
  tasks,      \* _tasks: elapsed_seconds of each running task, by device
  completed,  \* _completed_tasks
  household,  \* _household
  workflow,   \* _workflow: sessions, orders, occurrence, visitor_event_log
  runtime,    \* _device_runtime
  rules,      \* _rules: the installed rules
  ruleSeq,    \* _rule_sequence
  cost,       \* _action_cost
  pending,    \* _pending_events
  events,     \* _events; between calls, the events the last view delivered
  observed,   \* observed_events of advance: the earlier ticks of this call
  phase,
  batch,      \* commands still to be applied
  todo,       \* rules still to be processed in this phase
  current,    \* the rule whose commands are being applied
  due,        \* devices whose dynamics are still to run this tick
  wait,       \* ticks left of this call, and its event filter
  emitted     \* history: everything emitted since this call began

homeVars  == <<household, workflow, runtime>>
taskVars  == <<tasks, completed>>
ruleVars  == <<rules, ruleSeq>>
busVars   == <<pending, events, observed, emitted>>
outsideVars == <<scenario, exog, arriving>>
vars == <<outsideVars, step, dev, taskVars, homeVars, ruleVars, cost, busVars,
          phase, batch, todo, current, due, wait>>

(***************************************************************************)
(* Rules and the validation of what the agent sends.                       *)
(***************************************************************************)

\* release = 0 stands for no release_at_step.
Template == [id : STRING, fire : Nat, release : Nat, cmds : Seq(Command), rel : Seq(Command)]
Rule == [id : STRING, fire : Nat, release : Nat, cmds : Seq(Command),
         rel : Seq(Command), seq : Nat]

\* The agent sends lists of commands on known devices, and rules of that form;
\* what the schema of an action refuses earlier is module Harness's Malformed.
ASSUME InputAssumption ==
  /\ Batches \in [Scenarios -> SUBSET Seq(Command)]
  /\ RuleTemplates \in [Scenarios -> SUBSET Template]
  /\ WaitSeconds \subseteq Nat \ {0}
  /\ WaitFilters \subseteq STRING
  /\ MaxInstalls \in Nat
  /\ NoRule \notin Rule

Terminal == step * Tick >= Horizon

CommandOk(c) == Legal(c, dev, scenario, household)

DistinctDevices(cs) ==
  \A i, j \in 1..Len(cs) : cs[i].device = cs[j].device => i = j

\* Mutant of CommandsOk: two commands of a batch may name one device.
CommandsOkMutant(cs) == Len(cs) <= MaxActions /\ \A i \in 1..Len(cs) : CommandOk(cs[i])

\* _validate_commands
CommandsOk(cs) ==
  /\ Len(cs) <= MaxActions
  /\ DistinctDevices(cs)
  /\ \A i \in 1..Len(cs) : CommandOk(cs[i])

\* Mutant of RuleOk: the id may be taken.
RuleOkMutant(t) ==
  /\ step < t.fire /\ t.fire <= MaxTicks
  /\ t.release # 0 => t.fire < t.release /\ t.release <= MaxTicks
  /\ t.release # 0 <=> t.rel # <<>>
  /\ \A i \in 1..Len(t.cmds) : StaticOk(t.cmds[i])
  /\ \A i \in 1..Len(t.rel) : StaticOk(t.rel[i])

\* _validate_rule: the state of the devices is not looked at.
RuleOk(t) ==
  /\ \A r \in rules : r.id # t.id
  /\ step < t.fire /\ t.fire <= MaxTicks
  /\ t.release # 0 => t.fire < t.release /\ t.release <= MaxTicks
  /\ t.cmds # <<>>
  /\ t.release # 0 <=> t.rel # <<>>
  /\ Len(t.cmds) + Len(t.rel) <= MaxActions
  /\ \A i \in 1..Len(t.cmds) : StaticOk(t.cmds[i])
  /\ \A i \in 1..Len(t.rel) : StaticOk(t.rel[i])

(***************************************************************************)
(* Events.  A command of the agent is applied outside a tick, and its       *)
(* events wait in pending until the next tick starts.                      *)
(***************************************************************************)

Events(types, subject) ==
  [i \in 1..Len(types) |-> [type |-> types[i], of |-> subject, at |-> step]]

\* _emit, and self._events.append within a tick
Emit(es) ==
  /\ IF phase \in {"execute", "accepted"}
       THEN pending' = pending \o es /\ UNCHANGED events
       ELSE events' = events \o es /\ UNCHANGED pending
  /\ emitted' = emitted \o es
  /\ UNCHANGED observed

(***************************************************************************)
(* Tasks.                                                                  *)
(***************************************************************************)

\* _start_task: a running task of that name is overwritten.
StartTask(d) ==
  /\ tasks' = [x \in DOMAIN tasks \cup {d} |-> IF x = d THEN 0 ELSE tasks[x]]
  /\ UNCHANGED completed

\* _complete_task: nothing happens when no task of that name runs.
CompleteTask(d, outcome) ==
  IF d \in DOMAIN tasks
  THEN /\ tasks' = [x \in DOMAIN tasks \ {d} |-> tasks[x]]
       /\ completed' = Append(completed, [task |-> d, elapsed |-> tasks[d], outcome |-> outcome])
  ELSE UNCHANGED taskVars

(***************************************************************************)
(* Applying one command: an agent's (execute_atomic has validated them all)*)
(* or a rule's.  The code adds the cost of a list when it is through with   *)
(* it; nothing reads the cost before, and here each command adds its own.  *)
(***************************************************************************)

ApplyCommand(c) ==
  /\ dev' = [dev EXCEPT ![c.device] = Applied(c, @)]
  /\ IF StartsTask(c) THEN StartTask(c.device)
     ELSE IF EndsTask(c) # NoOutcome THEN CompleteTask(c.device, EndsTask(c))
     ELSE UNCHANGED taskVars
  /\ workflow' = CommandWorkflow(c, workflow)
  /\ cost' = cost + 1
  /\ Emit(Events(CommandEvents(c), c.device))
  /\ UNCHANGED <<household, runtime>>

(***************************************************************************)
(* The initial state: reset().                                             *)
(***************************************************************************)

NoSessions == [garage_access |-> "none", resident_entry |-> "none",
               vehicle_entry |-> "none", television_curfew |-> "none",
               departure |-> "none", shower |-> "none"]

NoOrder == [status |-> "none", quantity |-> 0, remaining |-> 0]

Init ==
  /\ scenario \in Scenarios
  /\ exog \in Schedules(scenario) /\ arriving = <<>>
  /\ step = 0
  /\ dev = [d \in Devices |-> ScenarioDevice(scenario, d)]
  /\ tasks = [d \in {x \in Devices : x = "washer" /\ dev[x].state = "washing"} |-> 0]
  /\ completed = <<>>
  /\ household = [occupancy |-> "home", keys |-> TRUE, attended |-> TRUE,
                  visitor |-> "none", delivery |-> "none", credential |-> "none",
                  vehicle |-> "none", emergency |-> "none"]
  /\ workflow = [sessions |-> NoSessions, orders |-> [d \in Supplies |-> NoOrder],
                 occurrence |-> "none", visitors |-> <<>>]
  /\ runtime = [d \in Devices |-> 0]
  /\ rules = {} /\ ruleSeq = 0 /\ cost = 0
  /\ pending = <<>> /\ events = <<>> /\ observed = <<>> /\ emitted = <<>>
  /\ phase = "execute"
  /\ batch = <<>> /\ todo = {} /\ current = NoRule /\ due = {}
  /\ wait = [left |-> 0, filter |-> NoFilter]

(***************************************************************************)
(* execute_atomic.  A rejected action changes nothing and is not followed   *)
(* by advance; it is a step of module Harness.  ask changes nothing either  *)
(* but is accepted: it is Act(<<>>).                                       *)
(***************************************************************************)

Idle == phase = "execute" /\ ~Terminal

\* What every accepted action does: the next advance takes n ticks at most.
Accept(n, filter) ==
  /\ phase' = "accepted"
  /\ wait' = [left |-> n, filter |-> filter]
  /\ UNCHANGED <<outsideVars, step, dev, taskVars, homeVars, cost, todo, current, due>>

Act(cs) ==
  /\ Idle /\ CommandsOk(cs)
  /\ batch' = cs
  /\ emitted' = <<>>
  /\ Accept(1, NoFilter)
  /\ UNCHANGED <<ruleVars, pending, events, observed>>

\* _apply_commands: no command is validated again.
ApplyNext ==
  /\ phase = "accepted" /\ batch # <<>>
  /\ ApplyCommand(Head(batch))
  /\ batch' = Tail(batch)
  /\ UNCHANGED <<outsideVars, step, ruleVars, phase, todo, current, due, wait>>

InstallRule(t) ==
  /\ Idle /\ RuleOk(t) /\ ruleSeq < MaxInstalls
  /\ rules' = rules \cup {[id |-> t.id, fire |-> t.fire, release |-> t.release,
                           cmds |-> t.cmds, rel |-> t.rel, seq |-> ruleSeq]}
  /\ ruleSeq' = ruleSeq + 1
  /\ pending' = pending \o Events(<<"rule_installed">>, t.id)
  /\ emitted' = Events(<<"rule_installed">>, t.id)
  /\ Accept(1, NoFilter)
  /\ UNCHANGED <<batch, events, observed>>

\* The release commands of the rule are not run.
CancelRule(r) ==
  /\ Idle /\ r \in rules
  /\ rules' = rules \ {r}
  /\ pending' = pending \o Events(<<"rule_cancelled">>, r.id)
  /\ emitted' = Events(<<"rule_cancelled">>, r.id)
  /\ Accept(1, NoFilter)
  /\ UNCHANGED <<ruleSeq, batch, events, observed>>

CeilDiv(a, b) == (a + b - 1) \div b

\* The ticks of a wait for s seconds, cut at the horizon.
WaitTicks(s) == Smaller(Larger(1, CeilDiv(s, Tick)),
                        Larger(1, CeilDiv(Horizon - step * Tick, Tick)))

Wait(s, filter) ==
  /\ Idle
  /\ emitted' = <<>>
  /\ Accept(WaitTicks(s), filter)
  /\ UNCHANGED <<ruleVars, batch, pending, events, observed>>

(***************************************************************************)
(* advance, one tick: _advance_once.                                       *)
(***************************************************************************)

\* Mutant of StartTick: a rule that has fired is due again.
StartTickMutant ==
  /\ phase = "accepted" /\ batch = <<>>
  /\ step' = step + 1
  /\ events' = pending /\ pending' = <<>>
  /\ todo' = {r \in rules : r.fire <= step'}
  /\ phase' = "firing"
  /\ UNCHANGED <<outsideVars, dev, taskVars, homeVars, ruleVars, cost, observed,
                 emitted, batch, current, due, wait>>

StartTick ==
  /\ phase = "accepted" /\ batch = <<>>
  /\ step' = step + 1
  /\ events' = pending /\ pending' = <<>>
  /\ todo' = {r \in rules : r.fire = step'}
  /\ phase' = "firing"
  /\ UNCHANGED <<outsideVars, dev, taskVars, homeVars, ruleVars, cost, observed,
                 emitted, batch, current, due, wait>>

\* Rules are processed in the order of their installation.
TakeRule(r) ==
  /\ phase \in {"firing", "releasing"} /\ current = NoRule
  /\ r \in todo /\ \A q \in todo : r.seq <= q.seq
  /\ current' = r
  /\ batch' = IF phase = "firing" THEN r.cmds ELSE r.rel
  /\ todo' = todo \ {r}
  /\ UNCHANGED <<outsideVars, step, dev, taskVars, homeVars, ruleVars, cost,
                 busVars, phase, due, wait>>

\* _apply_rule_commands: each command is validated when its turn comes, and
\* skipped when the state does not allow it.
RuleCommand ==
  /\ phase \in {"firing", "releasing"} /\ batch # <<>>
  /\ IF CommandOk(Head(batch))
     THEN ApplyCommand(Head(batch))
     ELSE /\ Emit(Events(<<"rule_command_skipped">>, current.id))
          /\ UNCHANGED <<dev, taskVars, homeVars, cost>>
  /\ batch' = Tail(batch)
  /\ UNCHANGED <<outsideVars, step, ruleVars, phase, todo, current, due, wait>>

RuleFired ==
  /\ phase = "firing" /\ current # NoRule /\ batch = <<>>
  /\ IF current.release = 0
     THEN /\ rules' = rules \ {current}
          /\ Emit(Events(<<"rule_fired", "rule_retired">>, current.id))
     ELSE Emit(Events(<<"rule_fired">>, current.id)) /\ UNCHANGED rules
  /\ current' = NoRule
  /\ UNCHANGED <<outsideVars, step, dev, taskVars, homeVars, ruleSeq, cost, phase,
                 batch, todo, due, wait>>

StartReleases ==
  /\ phase = "firing" /\ todo = {} /\ current = NoRule
  /\ todo' = {r \in rules : r.release = step}
  /\ phase' = "releasing"
  /\ UNCHANGED <<outsideVars, step, dev, taskVars, homeVars, ruleVars, cost,
                 busVars, batch, current, due, wait>>

\* Mutants of RuleReleased: the rule stays installed; it goes without an event.
RuleReleasedKept ==
  /\ phase = "releasing" /\ current # NoRule /\ batch = <<>>
  /\ Emit(Events(<<"rule_released">>, current.id))
  /\ current' = NoRule
  /\ UNCHANGED <<outsideVars, step, dev, taskVars, homeVars, ruleVars, cost, phase,
                 batch, todo, due, wait>>

RuleReleasedSilently ==
  /\ phase = "releasing" /\ current # NoRule /\ batch = <<>>
  /\ rules' = rules \ {current}
  /\ current' = NoRule
  /\ UNCHANGED <<outsideVars, step, dev, taskVars, homeVars, ruleSeq, cost, busVars, phase,
                 batch, todo, due, wait>>

RuleReleased ==
  /\ phase = "releasing" /\ current # NoRule /\ batch = <<>>
  /\ rules' = rules \ {current}
  /\ Emit(Events(<<"rule_released">>, current.id))
  /\ current' = NoRule
  /\ UNCHANGED <<outsideVars, step, dev, taskVars, homeVars, ruleSeq, cost, phase,
                 batch, todo, due, wait>>

RulesDone ==
  /\ phase = "releasing" /\ todo = {} /\ current = NoRule
  /\ phase' = "exogenous"
  /\ arriving' = Arrivals(exog, step)
  /\ UNCHANGED <<scenario, exog, step, dev, taskVars, homeVars, ruleVars, cost,
                 busVars, batch, todo, current, due, wait>>

\* _process_exogenous: the streams scheduled for this step arrive one by one.
Exogenous(s) ==
  /\ phase = "exogenous" /\ arriving # <<>> /\ s = Head(arriving)
  /\ arriving' = Tail(arriving)
  /\ dev' = StreamDevices(s, dev)
  /\ household' = StreamHousehold(s, household)
  /\ workflow' = StreamWorkflow(s, dev, workflow)
  /\ IF StreamStartsTask(s, dev) THEN StartTask("intercom") ELSE UNCHANGED taskVars
  /\ Emit(Events(StreamEvents(s, dev), "outside"))
  /\ UNCHANGED <<scenario, exog, step, runtime, ruleVars, cost, phase, batch, todo,
                 current, due, wait>>

ExogenousDone ==
  /\ phase = "exogenous" /\ arriving = <<>>
  /\ phase' = "clocks"
  /\ UNCHANGED <<outsideVars, step, dev, taskVars, homeVars, ruleVars, cost,
                 busVars, batch, todo, current, due, wait>>

\* Does _process_dynamics have a branch for device d in state s?  The branches
\* look at one device each, so the devices they would pass over are dropped
\* when the tick's dynamics start.
Moves(d, s, sc) ==
  CASE d = "washer"     -> s = "washing"
    [] d = "dishwasher" -> s = "running"
    [] d = "vacuum"     -> TRUE
    [] d = "garage"     -> s \in {"opening", "closing"}
    [] d = "lock"       -> s = "unlocked" /\ sc \notin {"departure_lockdown",
                                                       "unoccupied_home_security"}
    [] d = "intercom"   -> s \in {"ringing", "answered"}
    [] d = "fridge"     -> TRUE
    [] d = "stove"      -> s = "on"
    [] d = "bathroom"   -> s = "occupied"
    [] d = "coffee"     -> s \in {"brewing", "ready"}
    [] d = "alarm"      -> s = "ringing"
    [] d \in Supplies   -> TRUE
    [] OTHER            -> FALSE

\* Mutant of Clocks: a device with dynamics counts as running.
ClocksMutant ==
  /\ phase = "clocks"
  /\ runtime' = [d \in Devices |->
                   IF Moves(d, dev[d].state, scenario) THEN runtime[d] + Tick ELSE runtime[d]]
  /\ tasks' = [d \in DOMAIN tasks |-> tasks[d] + Tick]
  /\ due' = {d \in Devices : Moves(d, dev[d].state, scenario)}
  /\ phase' = "dynamics"
  /\ UNCHANGED <<outsideVars, step, dev, completed, household, workflow, ruleVars,
                 cost, busVars, batch, todo, current, wait>>

Clocks ==
  /\ phase = "clocks"
  /\ runtime' = [d \in Devices |->
                   IF dev[d].state \in ActiveStates[d] THEN runtime[d] + Tick ELSE runtime[d]]
  /\ tasks' = [d \in DOMAIN tasks |-> tasks[d] + Tick]
  /\ due' = {d \in Devices : Moves(d, dev[d].state, scenario)}
  /\ phase' = "dynamics"
  /\ UNCHANGED <<outsideVars, step, dev, completed, household, workflow, ruleVars,
                 cost, busVars, batch, todo, current, wait>>

(***************************************************************************)
(* _process_dynamics: what one tick does to each device.                   *)
(***************************************************************************)

DynamicsOrder == [washer |-> 1, dishwasher |-> 2, vacuum |-> 3, garage |-> 4, lock |-> 5,
                  intercom |-> 6, fridge |-> 7, stove |-> 8, bathroom |-> 9, coffee |-> 10,
                  alarm |-> 11, pellets |-> 12, beer |-> 13]

Turn(d) ==
  /\ phase = "dynamics" /\ d \in due
  /\ \A e \in due : DynamicsOrder[d] <= DynamicsOrder[e]

\* Mutant of Countdown: a unit, not a tick, at a time.
CountdownByOne(seconds) == Larger(0, seconds - 1)

Countdown(seconds) == Larger(0, seconds - Tick)

\* Device d's record becomes r; it emits events of these types and, unless
\* outcome is NoOutcome, completes its task.
Becomes(d, r, types, outcome) ==
  /\ dev' = [dev EXCEPT ![d] = r]
  /\ IF outcome = NoOutcome THEN UNCHANGED taskVars ELSE CompleteTask(d, outcome)
  /\ Emit(Events(types, d))
  /\ due' = due \ {d}
  /\ UNCHANGED <<outsideVars, step, household, runtime, ruleVars, cost, phase, batch,
                 todo, current, wait>>

\* A machine that runs down its cycle and is then done.
Cycle(d, finished) ==
  /\ Turn(d)
  /\ LET r == dev[d]
         left == Countdown(r.remaining)
     IN  \/ left > 0 /\ Becomes(d, [r EXCEPT !.remaining = left], <<>>, NoOutcome)
         \/ /\ left = 0
            /\ Becomes(d, [r EXCEPT !.state = "done", !.remaining = 0], <<finished>>,
                       "cycle_finished")
  /\ UNCHANGED workflow

Washer     == "washer" \in Devices /\ Cycle("washer", "laundry_cycle_finished")
Dishwasher == "dishwasher" \in Devices /\ Cycle("dishwasher", "dishwasher_cycle_finished")

VacuumCleans ==
  /\ Turn("vacuum") /\ dev["vacuum"].state = "cleaning"
  /\ LET left == Countdown(dev["vacuum"].remaining)
         charge == Larger(0, dev["vacuum"].battery - Cfg.vacuum_drain)
         low == charge <= Cfg.vacuum_low_battery
         r == [dev["vacuum"] EXCEPT !.battery = charge, !.remaining = left]
         home == [r EXCEPT !.state = "returning", !.remaining = Cfg.vacuum_return]
     IN  \/ low /\ Becomes("vacuum", home, <<"vacuum_low_battery">>, NoOutcome)
         \/ ~low /\ left = 0 /\ Becomes("vacuum", home, <<"vacuum_cycle_finished">>, NoOutcome)
         \/ ~low /\ left > 0 /\ Becomes("vacuum", r, <<>>, NoOutcome)
  /\ UNCHANGED workflow

\* Docking completes the task and, however the cleaning ended, the occurrence
\* that is due.
VacuumReturns ==
  /\ Turn("vacuum") /\ dev["vacuum"].state = "returning"
  /\ LET r == dev["vacuum"]
         left == Countdown(r.remaining)
     IN  \/ left > 0 /\ Becomes("vacuum", [r EXCEPT !.remaining = left], <<>>, NoOutcome)
            /\ UNCHANGED workflow
         \/ /\ left = 0
            /\ Becomes("vacuum", [r EXCEPT !.state = "docked", !.remaining = 0],
                       <<"vacuum_docked">>, "docked")
            /\ workflow' = [workflow EXCEPT !.occurrence =
                               IF @ = "due" THEN "completed" ELSE @]

VacuumCharges ==
  /\ Turn("vacuum") /\ dev["vacuum"].state = "docked"
  /\ Becomes("vacuum", [dev["vacuum"] EXCEPT !.battery = Smaller(100, @ + Cfg.vacuum_charge)],
             <<>>, NoOutcome)
  /\ UNCHANGED workflow

\* Mutant of Garage: the session is not told that the door has arrived.
GarageMutant ==
  /\ "garage" \in Devices /\ Turn("garage")
  /\ LET r == dev["garage"]
         left == Countdown(r.remaining)
     IN  \/ left > 0 /\ Becomes("garage", [r EXCEPT !.remaining = left], <<>>, NoOutcome)
         \/ /\ left = 0
            /\ Becomes("garage", [r EXCEPT !.state = IF @ = "opening" THEN "open" ELSE "closed",
                                           !.remaining = 0], <<>>, NoOutcome)
  /\ UNCHANGED workflow

Garage ==
  /\ "garage" \in Devices /\ Turn("garage")
  /\ LET r == dev["garage"]
         left == Countdown(r.remaining)
         moved == IF r.state = "opening" THEN "open" ELSE "closed"
         event == IF r.state = "opening" THEN "garage_door_opened" ELSE "garage_door_closed"
     IN  \/ /\ left > 0
            /\ Becomes("garage", [r EXCEPT !.remaining = left], <<>>, NoOutcome)
            /\ UNCHANGED workflow
         \/ /\ left = 0
            /\ Becomes("garage", [r EXCEPT !.state = moved, !.remaining = 0], <<event>>, NoOutcome)
            /\ workflow' = [workflow EXCEPT !.sessions.garage_access = moved]

RelockSeconds == IF scenario = "keyless_resident_entry" THEN Cfg.entry_relock
                                                        ELSE Cfg.lock_autolock

Lock ==
  /\ "lock" \in Devices /\ Turn("lock")
  /\ LET r == dev["lock"]
         open == r.unlocked + Tick
     IN  \/ /\ open < RelockSeconds
            /\ Becomes("lock", [r EXCEPT !.unlocked = open], <<>>, NoOutcome)
            /\ UNCHANGED workflow
         \/ /\ open >= RelockSeconds
            /\ Becomes("lock", [r EXCEPT !.state = "locked", !.unlocked = 0],
                       <<"front_door_auto_lock_engaged", "front_door_locked">>, NoOutcome)
            /\ workflow' = [workflow EXCEPT !.sessions.resident_entry = "inactive"]

IntercomRings ==
  /\ Turn("intercom") /\ dev["intercom"].state = "ringing"
  /\ LET r == dev["intercom"]
         rung == r.ring + Tick
     IN  \/ rung < Cfg.ring_timeout /\ Becomes("intercom", [r EXCEPT !.ring = rung], <<>>, NoOutcome)
         \/ /\ rung >= Cfg.ring_timeout
            /\ Becomes("intercom", [r EXCEPT !.state = "idle", !.ring = 0],
                       <<"visitor_missed">>, "missed")
  /\ UNCHANGED workflow

IntercomAnswered ==
  /\ Turn("intercom") /\ dev["intercom"].state = "answered"
  /\ LET r == dev["intercom"]
         talked == r.answered + Tick
     IN  \/ /\ talked < Cfg.answered_clear
            /\ Becomes("intercom", [r EXCEPT !.answered = talked], <<>>, NoOutcome)
         \/ /\ talked >= Cfg.answered_clear
            /\ Becomes("intercom", [r EXCEPT !.state = "idle", !.answered = 0],
                       <<"visitor_interaction_ended">>, NoOutcome)
  /\ UNCHANGED workflow

Fridge ==
  /\ "fridge" \in Devices /\ Turn("fridge")
  /\ LET r == dev["fridge"]
         ajar == r.open + Tick
         rings == ajar >= Cfg.fridge_alarm /\ ~r.alarm_sent
     IN  \/ /\ r.state = "open" /\ rings
            /\ Becomes("fridge", [r EXCEPT !.open = ajar, !.alarm_sent = TRUE],
                       <<"fridge_door_alarm">>, NoOutcome)
         \/ r.state = "open" /\ ~rings /\ Becomes("fridge", [r EXCEPT !.open = ajar], <<>>, NoOutcome)
         \/ /\ r.state = "closed"
            /\ Becomes("fridge", [r EXCEPT !.open = 0, !.alarm_sent = FALSE], <<>>, NoOutcome)
  /\ UNCHANGED workflow

\* Mutant of Stove: the hazard is tested before the tick is added.
StoveMutant ==
  /\ "stove" \in Devices /\ Turn("stove")
  /\ LET r == dev["stove"]
         shutoff == r.on >= Cfg.stove_hazard
     IN  \/ ~shutoff /\ Becomes("stove", [r EXCEPT !.on = @ + Tick], <<>>, NoOutcome)
         \/ /\ shutoff
            /\ Becomes("stove", [r EXCEPT !.state = "off", !.level = 0, !.on = 0], <<>>,
                       "safety_shutoff")
  /\ UNCHANGED workflow

\* The hazard clock: in the guard scenario it only runs while nobody attends.
Stove ==
  /\ "stove" \in Devices /\ Turn("stove")
  /\ LET r == dev["stove"]
         ticking == scenario # "unattended_stove_guard" \/ ~household.attended
         on == IF ticking THEN r.on + Tick ELSE r.on
         shutoff == ticking /\ on >= Cfg.stove_hazard
     IN  \/ ~shutoff /\ Becomes("stove", [r EXCEPT !.on = on], <<>>, NoOutcome)
         \/ /\ shutoff
            /\ Becomes("stove", [r EXCEPT !.state = "off", !.level = 0, !.on = 0],
                       <<"stove_hazard_shutoff">>, "safety_shutoff")
  /\ UNCHANGED workflow

Bathroom ==
  /\ "bathroom" \in Devices /\ Turn("bathroom")
  /\ Becomes("bathroom", [dev["bathroom"] EXCEPT !.occupied = @ + Tick], <<>>, NoOutcome)
  /\ UNCHANGED workflow

CoffeeBrews ==
  /\ Turn("coffee") /\ dev["coffee"].state = "brewing"
  /\ LET r == dev["coffee"]
         left == Countdown(r.remaining)
     IN  \/ left > 0 /\ Becomes("coffee", [r EXCEPT !.remaining = left], <<>>, NoOutcome)
         \/ /\ left = 0
            /\ Becomes("coffee", [r EXCEPT !.state = "ready", !.remaining = 0,
                                           !.freshness = Cfg.coffee_freshness],
                       <<"coffee_ready">>, "ready")
  /\ UNCHANGED workflow

CoffeeCools ==
  /\ Turn("coffee") /\ dev["coffee"].state = "ready"
  /\ LET r == dev["coffee"]
         left == Countdown(r.freshness)
     IN  \/ left > 0 /\ Becomes("coffee", [r EXCEPT !.freshness = left], <<>>, NoOutcome)
         \/ /\ left = 0
            /\ Becomes("coffee", [r EXCEPT !.state = "expired", !.freshness = 0],
                       <<"coffee_expired">>, NoOutcome)
  /\ UNCHANGED workflow

Alarm ==
  /\ "alarm" \in Devices /\ Turn("alarm")
  /\ LET r == dev["alarm"]
         rung == r.ringing + Tick
     IN  \/ rung < Cfg.alarm_timeout /\ Becomes("alarm", [r EXCEPT !.ringing = rung], <<>>, NoOutcome)
         \/ /\ rung >= Cfg.alarm_timeout
            /\ Becomes("alarm", [r EXCEPT !.state = "idle", !.ringing = 0],
                       <<"alarm_timeout">>, NoOutcome)
  /\ UNCHANGED workflow

\* A supply is consumed every consumption_interval; an order placed for it runs
\* down its lead time and is delivered.
ConsumptionTicks == Larger(1, Cfg.consumption_interval \div Tick)

\* Mutant of Consumed: an ordered supply that runs out is empty again.
ConsumedMutant(r) ==
  LET level == Larger(0, r.level - Cfg.consumption_units) IN
  IF step % ConsumptionTicks # 0 \/ r.level = 0 THEN r
  ELSE [r EXCEPT !.level = level, !.state = IF level = 0 THEN "empty" ELSE @]

Consumed(r) ==
  LET level == Larger(0, r.level - Cfg.consumption_units) IN
  IF step % ConsumptionTicks # 0 \/ r.level = 0 THEN r
  ELSE [r EXCEPT !.level = level,
                 !.state = IF level = 0 /\ @ # "ordered" THEN "empty"
                           ELSE IF level > 0 /\ @ = "stocked" /\ level <= Cfg.reorder_point
                                THEN "low" ELSE @]

Supply(d) ==
  /\ Turn(d)
  /\ LET r == Consumed(dev[d])
         stockout == IF r.level = 0 /\ dev[d].level > 0 THEN <<"inventory_stockout">> ELSE <<>>
         left == Countdown(r.remaining)
         order == workflow.orders[d]
     IN  \/ /\ r.state # "ordered"
            /\ Becomes(d, r, stockout, NoOutcome)
            /\ UNCHANGED workflow
         \/ /\ r.state = "ordered" /\ left > 0
            /\ Becomes(d, [r EXCEPT !.remaining = left], stockout, NoOutcome)
            /\ workflow' = [workflow EXCEPT !.orders[d].remaining = left]
         \/ /\ r.state = "ordered" /\ left = 0
            /\ Becomes(d, [r EXCEPT !.state = "stocked", !.remaining = 0, !.ordered = FALSE,
                                    !.level = Smaller(100, @ + order.quantity)],
                       stockout \o <<"supply_delivered">>, NoOutcome)
            /\ workflow' = [workflow EXCEPT !.orders[d] =
                               [@ EXCEPT !.status = "delivered", !.remaining = 0]]

Dynamics ==
  \/ Washer \/ Dishwasher
  \/ "vacuum" \in Devices /\ (VacuumCleans \/ VacuumReturns \/ VacuumCharges)
  \/ Garage \/ Lock
  \/ "intercom" \in Devices /\ (IntercomRings \/ IntercomAnswered)
  \/ Fridge \/ Stove \/ Bathroom
  \/ "coffee" \in Devices /\ (CoffeeBrews \/ CoffeeCools)
  \/ Alarm
  \/ \E d \in Supplies \cap Devices : Supply(d)

(***************************************************************************)
(* The end of a tick: advance goes on with the next one, or returns the     *)
(* view.                                                                   *)
(***************************************************************************)

\* _event_matches, over the events of this tick
Matches(filter) == \E i \in 1..Len(events) : events[i].type = filter

\* Mutants of CallEnds: the event is not looked for; one tick too many; the timeout
\* is not looked at.
CallEndsDeaf    == wait.left = 1 \/ Terminal
CallEndsLate    == wait.left = 0 \/ Matches(wait.filter) \/ Terminal
CallEndsUntimed == Matches(wait.filter) \/ Terminal

CallEnds == wait.left = 1 \/ Matches(wait.filter) \/ Terminal

\* Mutant of NextMicroTick: only the last tick's events are kept.
NextMicroTickMutant ==
  /\ phase = "dynamics" /\ due = {} /\ ~CallEnds
  /\ observed' = events
  /\ wait' = [wait EXCEPT !.left = @ - 1]
  /\ phase' = "accepted"
  /\ UNCHANGED <<outsideVars, step, dev, taskVars, homeVars, ruleVars, cost, pending,
                 events, emitted, batch, todo, current, due>>

NextMicroTick ==
  /\ phase = "dynamics" /\ due = {} /\ ~CallEnds
  /\ observed' = observed \o events
  /\ wait' = [wait EXCEPT !.left = @ - 1]
  /\ phase' = "accepted"
  /\ UNCHANGED <<outsideVars, step, dev, taskVars, homeVars, ruleVars, cost, pending,
                 events, emitted, batch, todo, current, due>>

ReturnView ==
  /\ phase = "dynamics" /\ due = {} /\ CallEnds
  /\ events' = observed \o events
  /\ observed' = <<>>
  /\ wait' = [left |-> 0, filter |-> NoFilter]
  /\ phase' = "execute"
  /\ UNCHANGED <<outsideVars, step, dev, taskVars, homeVars, ruleVars, cost, pending,
                 emitted, batch, todo, current, due>>

(***************************************************************************)
(* The specification.                                                      *)
(***************************************************************************)

AgentStep ==
  \/ \E cs \in Batches[scenario] : Act(cs)
  \/ \E t \in RuleTemplates[scenario] : InstallRule(t)
  \/ \E r \in rules : CancelRule(r)
  \/ \E s \in WaitSeconds, f \in WaitFilters : Wait(s, f)

Running ==
  \/ ApplyNext \/ StartTick
  \/ \E r \in todo : TakeRule(r)
  \/ RuleCommand \/ RuleFired \/ StartReleases \/ RuleReleased \/ RulesDone
  \/ \E s \in Streams : Exogenous(s)
  \/ ExogenousDone \/ Clocks \/ Dynamics \/ NextMicroTick \/ ReturnView

\* The horizon is reached and the caller takes no further step.
Over == phase = "execute" /\ Terminal /\ UNCHANGED vars

Next == AgentStep \/ Running \/ Over

Spec == Init /\ [][Next]_vars
=============================================================================
