# A TLA+ model of the unified backend

The repository runs agents on simulated homes and judges what they did. Its own
logic, as opposed to the physics of the simulators it calls, is a deterministic
household with rules and timers, a harness that drives it, an agent facade and a
session around it, an executor of worker processes, and a store of released
documents. This directory holds TLA+ modules for that logic, the TLC
configurations that check them on small instances, and proofs for TLAPS of what
matters most for every instance.

PROJECT.json maps each definition to its code; the map covers about 2,400 lines of it,
a sixteenth of the repository's Python: the control of the household, the executor, the
facade, the session, its conversation and the scheduler. The rest is section 9.

Contents: 1 inventory, 2 plan, 3 modules and their code, 4 runs, 5 bounds,
6 fairness and deadlock, 7 proofs, 8 findings, 9 what is not modelled.

Running: `tlc -config MCHouse.cfg MCWorkflow` (and so on with the table of
section 4), `tlapm BackendProofs.tla` (and `HouseholdProofs`, `HarnessProofs`,
`FaultProofs`, `ExecutorProofs`, `SessionProofs`, `SchedulerProofs`,
`ConversationProofs`).

## 1 Inventory

### The parts and their state

| part | code | state | operations |
| --- | --- | --- | --- |
| WorkflowBackend | `harness_v2/workflow_backend.py` | 20 device records, tasks, rules, sessions, orders, occurrence, household facts, schedule of outside events, step, four event lists, cost and runtime metrics | `reset`, `execute_atomic` (act, wait, install_rule, cancel_rule, ask), `advance`, `state_digest`, `metrics` |
| Harness | `harness_v2/core.py` | decisions taken, public and private records, digests of the backend | `run_one` |
| Discrete faults (D1) | `unified_compiler/adapters/d1_discrete_device_fault.py` | a schedule of fault windows over a WorkflowBackend | overrides of `_validate_command`, `_apply_commands`, `_process_dynamics` |
| Agent facade | `unified_compiler/agent_interface.py` | lifecycle flags, last receipt, poisoned or not | `reset`, `observe`, `legal_actions`, `step`, `close` |
| Bounded executor | `unified_compiler/executor.py` | uncollected futures, slots, a process, pipe and directory per job | `submit`, `result`, `close` |
| Agent session | `unified_compiler/llm_backend_session.py`, `inference_budget.py`, `decision_wait.py` | budgets, held action, decisions, who owns a failure | decide, act, wait, finish |
| Conversation | `unified_compiler/llm_conversation.py` | messages, latest observation, pending action | opening, action, feedback with a delta |
| Reference scheduler | `harness_v2/reference_scheduler.py` with `rule_dsl_v0.json` | firing counts, cooldowns, active and released rules | one instant: expiries, firings, releases |
| Immutable store | `conformance_v1/state_machine.py` | objects, hashes, statuses, lineage | `put`, `freeze`, `transition`, `invalidate` |
| Process pool, compiler | `unified_compiler/process_pool.py`, `compiler.py` | bindings of processes to contracts | `bind`, `compile` |
| D0 route | `unified_compiler/adapters/d0_exogenous_context.py` | schedule of context events, acknowledgements | `reset`, `step` |
| Simulator adapters | `unified_compiler/adapters/*`, `d2_*.py`, `d3_*.py` | handles of external simulators | lifecycle of the facade |
| Evaluators, golden vectors, validators, query construction, tools | see PROJECT.json | none between calls | pure functions of sealed traces and documents |

### How they interact

Everything around one episode is calls in one thread. `Harness.run_one` asks a
policy for an action, checks its form, calls `execute_atomic`, compares
`state_digest` before and after, and calls `advance` once per accepted action;
`advance` runs one tick, or for a `wait` as many as the wait takes, and each tick
is a fixed pipeline: queued events, rule firings, rule releases, outside events,
runtime and task clocks, device dynamics. The D1 adapter wraps the household and
intercepts commands; the facade wraps an adapter and turns the harness protocol
into receipts; the session drives a facade from a language model. The executor
is where real concurrency enters: each job is a forked process that answers on a
pipe and is killed at its deadline.

### What is hard

PROJECT.json lists each hazard at its line. In short:

- **Household.** A tick is a pipeline over shared tables, entered by four actors
  (agent, rule, outside event, clock), each of which moves the same devices by a
  code path of its own. What a rule does was validated when it was installed,
  without the state, and happens ticks later. Facts are kept in two or three
  copies: a door and its session, a task clock and a device timer, a supply and
  its order. Durations are any positive integers, ticks are 60 seconds. A wait
  spans many ticks, each of which starts its own event list.
- **Harness.** A wait can be accepted and then refused by `advance`, and `advance`
  can raise in the middle of a tick; the status of the sealed run must still be
  true, and readers join records by index.
- **Device faults.** Windows begin, end and change within a cycle, and a cycle may
  begin inside one; the wrapper adds time before each tick takes it away. Rules are
  installed while a device is healthy and fire while it is not.
- **Executor.** Deadlines that race answers, jobs that start only when somebody
  collects them, slots that are given up only when somebody looks, answers that
  block their pipe or stop in the middle, descendants that survive the kill.
- **Facade.** Calls in any order on a native side that may break in each of them,
  before or after it has changed.
- **Session and conversation.** A decision takes many native steps and may break in
  any of them; what is paid, carried out, blamed and remembered must still agree.
- **Scheduler.** Rules compete for capabilities at one instant, any batch may fail,
  and retirement overlaps with firing.
- **Store.** Ids frozen, released and put again.

### What makes each part correct

- Household: rules fire once, at their step, in a total order, and are released
  once; no command takes effect in a state that does not allow it; no event is
  lost between its emission and the view; waits neither overshoot nor run past the
  horizon; copies of a fact agree; deadlines are met.
- Harness: the status tells what happened; the trace joins; the run ends.
- D1: no command takes effect on a device that is down; a cycle is charged exactly
  the time its windows cost; outside the windows the wrapper is the household.
- Facade: a broken episode is not stepped again; what is shown is the present.
- Executor: bounds on processes and pending jobs; each job is run at most once and
  told truly whether it ran; directories outlive processes; `result` returns unless
  an answer stops in the middle.
- Session: decisions are paid once, carried out as documented and never left half
  done by a failure outside the backend; the session ends with its backend closed.
- Conversation: the messages tell every observation.
- Scheduler: what `rule_dsl_v0.json` states about once-rules, retirement, claims.
- Store: what is released never changes; what depends on something invalid is
  invalid.

## 2 Plan

| order | module | what | abstract specification or property | status |
| --- | --- | --- | --- | --- |
| A | `HomeDevices`, `ExogenousStreams`, `Workflow`, `RuleBook` | the household and its abstract book of timers | `Workflow` implements `RuleBook` | done, proved |
| B | `Harness` | the run loop, composed with `Workflow` | every run ends, truthfully | done, proved but for liveness |
| C | `DiscreteFault` | fault windows over `Workflow` | outside the windows every step is one of `Workflow` | done, proved |
| D | `AgentFacade` | lifecycle of the adapter and of the D1 facade | what a facade shows is the present | done, proved |
| E | `BoundedExecutor`, `JobPool` | jobs, slots, deadlines, reaping; processes interleave | the executor implements a pool of jobs | done, proved |
| F | `AgentSession` | budgets, held actions, waits, owners of failures, composed with `AgentFacade` | decisions paid, carried out, ended | done, proved but for liveness |
| G | `ReferenceScheduler` | one instant of expiries, firings, releases | the statements of `rule_dsl_v0.json` | done, proved |
| H | `ObservationDelta`, `Conversation` | deltas of what the agent sees, and the messages that carry them | applying the messages gives the observations | done, proved |
| I | `ImmutableStore` | statuses, freezing, invalidation downstream | release is final | not modelled, section 9 |
| J | D0 route, fault windows of simulators, `ProcessPool` | acknowledgements, windows, bindings | | not modelled, section 9 |

Every safety property that a passing run checks is proved. What a next round could
take up: the parts of section 9 that keep state (the store, the process pool).

## 3 Modules and their code

PROJECT.json maps every definition to its lines.

### The household (`src/harness_v2`)

**HomeDevices** (no state): the tables of `workflow_backend.py` (`Required` states
of each operation, `ActiveStates`, initial devices and their change by scenario),
what a command needs (`StaticOk` for the form and parameters, `Legal` with the
state and the identity checks of the scenario) and what it does (`Applied`,
`CommandEvents`, `StartsTask`, `EndsTask`, `CommandWorkflow`).

**ExogenousStreams** (no state): the outside events of `_process_exogenous` and the
schedules `_build_exogenous` can draw, by scenario. The random draws of the code
are the elements of `Schedules(sc)`; a schedule keeps the order in which streams
that fall on one tick arrive.

**Workflow**: the backend. Its variables are the fields of `WorkflowBackend`
(named in comments), the position of the program inside a call (`phase`, `batch`,
`todo`, `current`, `arriving`, `due`, `wait`), and one history variable, `emitted`. One
action is one command, one rule's turn, one outside event or one device's
dynamics, in the code's order, so that properties can look inside a tick:

| action | code |
| --- | --- |
| `Act`, `InstallRule`, `CancelRule`, `Wait` | `execute_atomic` |
| `ApplyNext` | `_apply_commands`, one command |
| `StartTick` | `_advance_once`, up to the first pass over the rules |
| `TakeRule`, `RuleCommand`, `RuleFired` | the first pass and `_apply_rule_commands` |
| `StartReleases`, `RuleReleased`, `RulesDone` | the second pass |
| `Exogenous`, `ExogenousDone` | `_process_exogenous` |
| `Clocks` | device runtimes and `_advance_tasks` |
| `Dynamics` (one action per device or state) | `_process_dynamics` |
| `NextMicroTick`, `ReturnView` | the loop of `advance` |

Abstracted data: temperatures, texts, ids of sessions, calendar dates; a clock
time of the profile is the tick at which it comes; identities are none, known or
unknown; a supplier or budget the profile does not authorise is a parameter that
fails. The layout of the view is left out except for the events in it. An action
the backend rejects changes nothing and is a step of `Harness`.

**WorkflowProperties**: what the household promises, and the refinement mapping to
**RuleBook**, the abstract specification: a book of timers without devices,
commands, events or calls.

**Harness**: `run_one` with any policy, on `Workflow`. The policy may send what
`Workflow` allows, actions the backend rejects, malformed ones, and waits until a
timestamp that `advance` refuses. `AdvanceRaises` is the failure in mid tick the
code admits: a reorder point that is no number is converted only when the supply
is consumed. `Digest` is what `state_digest` digests.

**ReferenceScheduler**: `scheduler_step`. `Instant` is everything up to the sorted
list of candidates (expiry and cancellation first, then eligibility), which touches
nothing but the retired rules. `Settle` is one turn of the loop that decides which
candidates win their keys, in canonical order, with the code's effect that a losing
firing keeps what it has claimed. After it every firing and every release is a step of
its own, because each calls the backend, which may fail it.

### Faults (`unified_compiler/adapters/d1_discrete_device_fault.py`)

**DiscreteFault** overrides the three methods the code overrides, by building on the
actions of `Workflow`: `ActUp`, `Refused` and `RuleCommandUp` are commands with the
health of their devices read at that step; `ApplySlowed` and `Lengthen` are
`_apply_commands`, which lengthens when the whole list is applied;
`ClocksThenDelays` and `Delays` are the delays that precede the dynamics of a tick.
`Inherited` lists what is left alone. `Refused` is how the D1 facade drives it: a
well-formed list whose first error is one of the state or the health of a device costs
a tick, whatever errors follow. The module extends
`WorkflowProperties`, so the household in it is the one of the other runs.

### Facade, session, conversation, executor (`src/unified_compiler`)

**AgentFacade**: `AgentReceiptAdapter` and `HarnessD1AgentBackend` of
`agent_interface.py` in one module, with `Household` where they differ. The native
side is a clock, a count of resets and a mark of the call that broke it (`torn`);
each call of the facade has one action for what it returns and one for each way the
native side can fail it: by raising, and by giving something that cannot be passed
on. `seen` and `clock` are what the facade remembers.

**AgentSession**: `run_session` on top of `AgentFacade`, whose actions it takes as
conjuncts, so that every native failure of the facade happens under the session as
well. `stage` is the program counter, one stage per place where a failure has an
owner of its own. `Target` is the rounding of `decision_wait.py`, `OverBudget` and
`Ask` are `inference_budget.py`, `Held` is `held_action`. The answer of the model is
any decision, undecodable ones included. Sizes count records, not bytes.
**SessionProperties** states what the report can be relied on for.

**ObservationDelta**: `observation_delta` and `apply_observation_delta` on JSON values
(objects are functions, arrays sequences, scalars their canonical text). Their
recursion is that of three functions, `Canonical`, `Diff` and `ApplyTo`, whose domains
are made of `Values`, the values that occur with all that is in them; `Node` and
`Applied` are one level of it. **Conversation**: the builder of messages as the
session fills it, with the rule that the last step of a wait travels without its
delta, and the exceptions that leave the builder as it is. Apart from the session's
module because it has another question.

**BoundedExecutor**: the caller's thread and the processes of the workers, which
interleave. `submit` is one action; `result` is a sequence of them, with `caller` as
its place: waiting for a slot (`Refresh`, `StartQueued`, `QueueDeadline`), waiting for
an answer (`Poll`, `AnswerDeadline`), or reading one (`Receive`, `ReceiveRaises`). A
deadline may pass whenever the code tests one, and reading tests none: `poll` is
satisfied by the first bytes, `recv` blocks for the rest. Workers answer at once or in
pieces (`BeginAnswer`, `CompleteAnswer`), into a pipe that may be too small; they fork,
die or hang at any point, and descendants may keep the write end of a dead worker's pipe,
so that its end does not show (`Ended`). `Unreaped` are those `_stop_and_reap` cannot
end. **JobPool** is the abstract specification, **ExecutorProperties** holds the
refinement mapping.

### Instances and mutants

The modules `MC...` give the constants their small values. Definitions named
`...Mutant`, and the variants beside them that a comment calls mutants of a
definition, belong to no specification: each is a plausible slip in the code, and
PROJECT.json pairs it with the property that notices it.

## 4 Runs

| run | config | module | question | distinct states |
| --- | --- | --- | --- | --- |
| house | `MCHouse.cfg` | `MCWorkflow` | twenty devices in twenty-four scenarios: do the copies of a fact agree, are deadlines met? | 2,311,760 |
| harness | `MCHarness.cfg` | `MCHarness` | rules, batches and waits of any policy, a backend that may fail in mid tick | 92,960 |
| faults | `MCFault.cfg` | `MCFault` | the household under five schedules of faults | 387,859 |
| scheduler | `MCScheduler.cfg` | `MCScheduler` | five rules in competition, batches that fail | 39,251 |
| executor | `MCExecutor.cfg` | `MCExecutor` | four jobs, two slots, workers that misbehave | 337,042 |
| facade | `MCFacade.cfg` | `MCFacade` | both facades, any calls, a native side that breaks | 661 |
| session | `MCSession.cfg` | `MCSession` | one session on three kinds of route | 125,803 |
| conversation | `MCConversation.cfg` | `MCConversation` | messages about changing observations | 327,480 |
| fridge, blame, slowdown, once | `MCFridge.cfg`, `MCBlame.cfg`, `MCSlowdown.cfg`, `MCOnce.cfg` | | violations: section 8 | |

What they show, by property:

*house*
- `TaskIffDevice`, `TaskClock`, `RuntimeIsTaskTime`: tasks, device timers and the
  two metrics agree, the metrics within a tick too. Exempt is the guard scenario's stove, which the code lights
  without a task.
- `NoOverdueDevice`: between calls no deadline has passed unnoticed.
- `SupplyMatchesOrder`: the order book and the shelf agree.
- `GarageSession`: the session shown to the agent tells where the door is. The
  exception is the code's: an obstruction re-opens the door and leaves the session
  at "reclosing".

*harness*
- `RuleWindow`, `RulesDistinct`, `NoSilentRetirement`: a rule is in the table
  exactly while it has a duty ahead; ids and sequence numbers are distinct; a rule
  leaves only by cancellation or with its last duty, with the event that says so.
- `RulesKeepTime`: the rules implement the book of timers.
- `AppliedLegal`: whatever takes effect was legal in the state it found. A batch is
  validated once, as a whole; that is enough because its devices are distinct and
  the identity checks read nothing a command changes.
- `EventsDelivered`: the view holds everything emitted in the call, in order.
- `WaitNeverOvershoots`, `WaitWithinHorizon`: waits.
- `StatusTruth`, `TraceAligned`, `TimePerAction`, `RunEnds`: the run loop.

*faults*
- `TimerUnderFaults`: what remains of a cycle is its planned length, less the ticks
  it ran, plus exactly what each tick inside a window costs.
- `AppliedAvailable`: nothing takes effect on a device that is down or in a state
  that does not allow it, whenever it was validated.
- `Transparent`: in a step no window covers, the wrapper makes a step of `Workflow`.
  It is the refinement of the wrapper, restricted to where it should hold.

*scheduler*
- `BatchesDisjoint`: no two batches applied at one instant touch one capability.
- `RetiredIsReleased`, `RetiredForGood`: what expires, is cancelled or completes is
  released in that instant, even when its release fails, and does not fire later.

*executor*
- `WorkersBounded`, `ReapedBeforeCleanup`: the bound on processes, and directories
  that outlive them; both name their exceptions, jobs whose group survives SIGKILL
  and answers that cannot be unpickled.
- `StarvedOnlyWhenFull`: a job is told "deadline exceeded while queued" only while
  every slot is held by a started job nobody has collected, or by one `close` could
  not kill.
  A dead worker that nobody has collected still counts as an occupant; the slots of
  collected and of closed jobs do not keep anybody waiting.
- `ImplementsPool`: the refinement of `JobPool`, which says of a result only whether it
  tells truly that the job ran.
- `ResultReturns`: `result` returns, unless the answer it has begun to read is never
  finished (`Stalled`): its worker hangs in mid-send, or died there and a descendant keeps
  the pipe open. Both happen in the run; no deadline covers them.

*facade, session, conversation*
- `ShowsThePresent`, `BrokenNeverStepped`: a facade that answers shows the present of
  an unbroken episode; a broken episode is never stepped.
- `DecisionsPaid`: each decision is paid for exactly once, before it is made.
- `NoHalfDecision`: a session that ends on format, transport or budget has done
  nothing for the decision it could not make.
- `DecisionsCarriedOut`: discrete commands once and then waits, setpoints held, the
  wake at the rounded-up boundary.
- `SessionEnds`: with the backend closed, unless closing raised.
- `HistoryReconstructs`: whoever has only the messages knows every observation of
  every finished decision. `RepeatedIsRefused`: a repeated message is refused.

## 5 Bounds

*Household.* `Tick` is the code's 60 seconds. The horizon is 290 s for the harness
(five ticks, the last one partial: rounding up matters), 480 s for the house (eight
ticks are the fewest for which outside events are scheduled at all), 600 s for the
fridge, 720 s for the faults (twelve are the fewest for which the second, hostile,
visitor is scheduled). Rules fire at ticks 1 to 8 and release at 3 to 10, so that equal
steps, a firing beside another rule's release, and a release equal to the firing
(rejected) all occur. The durations of `ShortCfg` are one to four ticks; 150, 90, 30
and 40 are no multiples of the tick. A larger duration repeats the same countdown.
`MaxInstalls` bounds the rules of an episode; three, on six templates with a repeated
id, give every overlap of two rules and reuse of an id after retirement. A wait filter
is one event type, as `_event_matches` compares, or none (`NoFilter`). Waits of 100, 150 and 200
seconds need rounding up. `MaxDecisions` is 5, so that the budget and the horizon can be
reached by the same decision. In the harness the pellets, whose reorder point is no
number, are first consumed in step 4 of the generic scenario, which ends the run in mid
tick: by then rules have fired beside a release, two have fired and two have been
released in one step, and an id has been used again after its retirement. In the
scenario of the pellets rules run up to the horizon. In the house, batches and rules are those that concern a
scenario's devices; devices of different groups do not read each other's records.

*Faults.* Windows that meet, that start and end around a start, overlap a cycle that
reset began, and follow one another on one device; factors on both sides of 2. Factors
are given as halves: the code multiplies floats, and `ceil` of a product such as
60 * 0.1 depends on their rounding (ceil(6.000000000000005) is 7).

*Scheduler.* Five rules on three capabilities: every lifecycle, equal priorities, a
rule with identical and one with contradictory commands; at most three occurrences at
an instant, out of twelve, which include two of one rule, an expiry and a cancellation
beside a trigger, and a condition that is false; times up to 4, with cooldowns of 0 to 3.

*Executor.* Four jobs, two slots, three pending: the queue fills, and closing and
submitting again meet slots that were left taken. One job has an answer too big for its
pipe, one an answer in pieces and descendants that resist their kill and hold its pipe,
one an answer that cannot be read.

*Facade, session.* Three resets of one facade, strides of one or two ticks, horizon
three ticks. A session of at most three calls, a declared horizon (240) before the
native one (300), waits of one and two and a half ticks, limits of 8 and 14 records, so
that each of the three budgets is the first to be exhausted somewhere.

*Conversation.* Thirteen observations (missing keys, null, arrays of two lengths,
nested objects, NaN), three native steps: every order of one- and two-step decisions.

No symmetry is declared: devices, jobs and rules are not interchangeable.

## 6 Fairness and deadlock

Safety runs use specifications without fairness.

- `HarnessSpec` has weak fairness of the whole step `RunStep`: `run_one` is a loop in
  one thread that never blocks except on the policy, and the policy is assumed to
  answer. Which action it answers with is free, so nothing is assumed about progress
  towards the horizon: `RunEnds` holds because accepted actions consume ticks and
  rejected ones decisions.
- `Spec` of the executor has weak fairness of `Proceed(j)` for each job: inside
  `result` the code waits with a deadline, both in `_start_queued` and in `poll`, and
  reads what is in the pipe. `Proceed` is not enabled while `recv` waits for the rest of
  an answer, and nothing is assumed of the workers, or of the caller between calls.
- `SessionSpec` has weak fairness of `SessionNext`: one thread, whose client answers or
  raises in the end and whose native side returns or raises.

Deadlock is checked in the runs of the household, the harness, the facade and the
scheduler; an ended episode is a self-loop there (`Over`, `Sealed`, `Ended`). It is
not checked for executor, session and conversation, which may really stop: every job
was submitted and collected, the session is finished, the last step was told.

## 7 Proofs

TLAPS checks the following for every value of the constants, from the named
assumptions of the modules: of the household `ConfigAssumption` (what `reset`
validates: positive durations, a horizon of at least one tick) and `InputAssumption`
(the agent's inputs have the form the action schema enforces; `NoRule` is no rule); of
the faults `ScheduleAssumption` and `AskAssumption` (an `ask` is accepted in every
scenario: it is the empty batch); `ExecutorConstants` (finitely many jobs, positive
limits, as `__init__` requires); `HarnessAssumption` (a number of decisions, and supplies
whose reorder point is no number); `FacadeConstants` and `SessionConstants`; of the
scheduler `BookAssumption`; of the conversation `ValuesAssumption` (JSON values hold
values that nest less deep, as whatever `json` can write does) and
`ObservationsAssumption` (observations are objects). Three theorems have a hypothesis of
their own, `SuppliesMatchOrders`, `HarnessMatchesOrders` and `FaultsMatchOrders`: the
configured first level of a supply is at most 100. `reset` takes any positive one, and a
larger level is a shelf beyond full from the start.

| theorem | module | says |
| --- | --- | --- |
| `RuleInvariant` | `BackendProofs` | the inductive invariant `RuleInv` |
| `RulesInWindow` | `BackendProofs` | `RuleWindow` always |
| `RulesAreDistinct` | `BackendProofs` | `RulesDistinct` always |
| `RulesImplementBook` | `BackendProofs` | `Workflow` implements `RuleBook` |
| `CommandsAreLegal` | `BackendProofs` | `AppliedLegal` |
| `EventsAreDelivered` | `BackendProofs` | `EventsDelivered` always |
| `CallInvariant` | `BackendProofs` | the inductive invariant `CallInv` |
| `WaitsStopInTime` | `BackendProofs` | `WaitNeverOvershoots` always |
| `WaitsStayInHorizon` | `BackendProofs` | `WaitWithinHorizon` always |
| `RetirementIsAnnounced` | `BackendProofs` | `NoSilentRetirement` |
| `HouseInvariant` | `HouseholdProofs` | the inductive invariant `HouseInv` |
| `TasksFollowDevices` | `HouseholdProofs` | `TaskIffDevice` always |
| `TasksTellTheTime` | `HouseholdProofs` | `TaskClock` always |
| `NoDeviceIsOverdue` | `HouseholdProofs` | `NoOverdueDevice` always |
| `HouseholdIsTyped` | `HouseholdProofs` | `TypeOK` always |
| `RuntimesAreTaskTimes` | `HouseholdProofs` | `RuntimeIsTaskTime` always |
| `GarageIsShown` | `HouseholdProofs` | `GarageSession` always |
| `SuppliesMatchOrders` | `HouseholdProofs` | `SupplyMatchesOrder` always |
| `RunInvariant` | `HarnessProofs` | the inductive invariant `RunInv` of the run loop |
| `StatusIsTrue` | `HarnessProofs` | `StatusTruth` always |
| `TracesAlign` | `HarnessProofs` | `TraceAligned` always |
| `ActionsTakeTime` | `HarnessProofs` | `TimePerAction` always |
| `HarnessKeepsPromises` | `HarnessProofs` | `RuleWindow`, `RulesDistinct`, `EventsDelivered`, `WaitNeverOvershoots`, `WaitWithinHorizon` always, in any run |
| `HarnessStepsAreLegal` | `HarnessProofs` | `AppliedLegal` and `NoSilentRetirement`, in any run |
| `HarnessKeepsTheBook` | `HarnessProofs` | any run implements `RuleBook` |
| `HarnessKeepsHousehold` | `HarnessProofs` | `TaskIffDevice`, `TaskClock`, `NoOverdueDevice`, `RuntimeIsTaskTime`, `GarageSession` always, in any run |
| `HarnessMatchesOrders` | `HarnessProofs` | `SupplyMatchesOrder` always, in any run |
| `CommandsFindHealth` | `FaultProofs` | `AppliedAvailable` |
| `FaultsAreTransparent` | `FaultProofs` | `Transparent` |
| `TimersCountFaults` | `FaultProofs` | `TimerUnderFaults` always |
| `WithoutWindowsHousehold` | `FaultProofs` | with no window the wrapped household implements `Workflow` |
| `FaultsKeepPromises` | `FaultProofs` | `RuleWindow`, `RulesDistinct`, `EventsDelivered`, `WaitNeverOvershoots`, `WaitWithinHorizon` always, under any windows |
| `FaultsKeepTheBook` | `FaultProofs` | the wrapped household implements `RuleBook` |
| `FaultsAnnounceRetirement` | `FaultProofs` | `NoSilentRetirement`, under any windows |
| `FaultsKeepHousehold` | `FaultProofs` | `TypeOK`, `TaskIffDevice`, `NoOverdueDevice`, `RuntimeIsTaskTime`, `GarageSession` always, under any windows |
| `FaultsMatchOrders` | `FaultProofs` | `SupplyMatchesOrder` always, under any windows |
| `ExecutorInvariant` | `ExecutorProofs` | the inductive invariant `IInv` |
| `ExecutorIsTyped` | `ExecutorProofs` | `TypeOK` always |
| `BoundedWorkers` | `ExecutorProofs` | `WorkersBounded` always |
| `CleanupAfterReaping` | `ExecutorProofs` | `ReapedBeforeCleanup` always |
| `ExecutorIsPool` | `ExecutorProofs` | `BoundedExecutor` implements `JobPool` |
| `NoJobStarves` | `ExecutorProofs` | `StarvedOnlyWhenFull` |
| `FacadeShowsThePresent` | `SessionProofs` | `ShowsThePresent` always |
| `BrokenEpisodesRest` | `SessionProofs` | `BrokenNeverStepped` |
| `SessionUsesTheFacade` | `SessionProofs` | a session is a behaviour of `AgentFacade` |
| `SessionsAreTyped` | `SessionProofs` | `TypeOK` always |
| `SessionsPay` | `SessionProofs` | `DecisionsPaid` always |
| `SessionsDoNothingByHalves` | `SessionProofs` | `NoHalfDecision` always |
| `SessionsCarryOut` | `SessionProofs` | `DecisionsCarriedOut` always |
| `SchedulerInvariant` | `SchedulerProofs` | the inductive invariant `SchedulerInv` |
| `BatchesNeverMeet` | `SchedulerProofs` | `BatchesDisjoint` always |
| `RetirementReleases` | `SchedulerProofs` | `RetiredIsReleased` always |
| `RetirementIsFinal` | `SchedulerProofs` | `RetiredForGood` |
| `DeltaIsLossless` | `ConversationProofs` | applying the delta of two values to the first gives the second |
| `DeltaIsRefusedTwice` | `ConversationProofs` | the second refuses it, if they differ |
| `ConversationInvariant` | `ConversationProofs` | the inductive invariant `ConversationInv` |
| `MessagesReconstruct` | `ConversationProofs` | `HistoryReconstructs` always |
| `MessagesAreRefusedTwice` | `ConversationProofs` | `RepeatedIsRefused` always |
| `ReceiptsAreAccepted` | `ConversationProofs` | the delta of a receipt always passes its check |

*Rules.* `RuleWindow` is not inductive alone. Inside a tick it speaks of the rules
in `todo` and of `current`, so the invariant adds their types (they are installed
rules), that nobody is in hand or waiting outside the two passes, that the one in
hand has the least sequence number (`RuleTurn`), and that a release lies after its
firing and numbers below the next number (`RuleShape`): without the last a rule
could release in the tick it fires, and a reused number break the order. Most
actions touch none of this and are covered by one frame lemma.

*Refinement.* An entry of the book has fired when its step has come and the rule is
not waiting in the first pass, so that a rule taken up twice would un-fire its entry,
which no step of the book does. Installing,
cancelling, ending a turn and starting a tick are steps of the book; the other
actions stutter. `BookSettled` says that outside the two passes nothing is due,
which is what allows time to pass; it follows from `RuleWindow`.

*Commands.* The invariant is that what is left of an accepted batch is legal as it
stands (`BatchStaysLegal`). `RestStaysLegal` is the core: applying a command changes
the record of its own device only, and a command is legal by its own device's
record, the scenario and the household. The theorem is an action property: a step
that raises the cost applies a legal command.

*Events and calls.* The account `emitted = observed \o events`, phase by phase, with
the fact that all lists are sequences, over every action that emits. `CallInv` adds
what is left of the call; a call goes on only if the tick that ended holds no event of
its filter, and the lists concatenate (`HeldByAPart`). `NoSilentRetirement` joins this
with `RuleInv`: who is in hand in a pass is at its fire or release step, so the events
emitted are those of its last duty.

*Devices.* The household's invariants about tasks, timers and deadlines have one
strengthening, `HomeInv`. Its heart is `Sound`, which says for one device alone how its
record, the task that runs on it and the time counted for it fit together: no step
moves two devices. Between `Clocks`, which advances every task, and its own turn in
`Dynamics`, a device lags a tick behind its task; `Counted` takes that tick off for the
devices in `due`, and so `Sound` holds within the tick too. A step is then a command
(`Commanded`, judged by `Legal`, which `BatchStaysLegal` provides), one device's turn,
an outside event, or leaves the household alone (`Quiet`). `WorkTyped` types orders and
sessions, which the turn of a supply reads. That what a machine has to go and what its
task has taken add up to its cycle is an invariant apart, `OnTime`: `TaskClock` needs it,
and it is the only one of these that a fault window breaks.

*The two metrics.* That a device's runtime is the time of its tasks is inductive with
`LogInv`: the log of completed tasks is a sequence and its times can be added. The sums
are those of `SumUpTo`, a recursive function, of which the proofs need three facts
(`SumLaws`: the empty sum, one more term, equal terms). They are proved by induction
over a set of numbers, through the well-foundedness of <, since the library's induction
takes an operator that no prover here can instantiate. A completed task then moves its
time from the running to the completed ones (`CompletedTime`), a started one begins at
nothing because none runs on its device (`StartsAfresh`), and only the clocks, which
advance runtime and task by the same test of the state, make either longer.

*Supplies, garage.* `OrderSound` is the property with one addition, found when the
proof failed without it: an accepted order is for something. Without it, a delivery of
nothing would leave an empty shelf marked stocked. `DoorShown` is the property for a
door and a session given separately, kept by every pair of changes.

*Faults.* The wrapper's steps are steps of `Workflow` but for four of its own
(`WrappedSteps`), and those four leave rules and devices alone, or change timers only
(`OwnSteps`). The invariant is the one of the commands, with `FaultShape`: an accepted
list has no device that is down, and what is slowed was slowed in this very step.

What faults leave standing is proved by comparing those four with steps of the household.
A refused list is, for rules, events and calls, a call that passes one tick and emits
nothing; a skipped rule command emits one event of its own and leaves the rest of the
batch; so `RuleInv`, the account of events and the invariant of the calls survive. With the empty
schedule none of the four can be taken, and what is left is `Spec`
(`WithoutWindowsHousehold`). For the devices each of the four is at most a `Stretched`
step: the washer, the dishwasher or the garage has another time to go, and some if it had
some. Nothing in `StandingInv`, the household's invariants without `OnTime`, depends on
how much. `TaskClock` is false under windows; `TimerUnderFaults` says what is true instead.

*Timers under faults.* The property speaks of two moments, between calls and in a
machine's turn; `TimerInv` follows the cycle through all of the tick. A cycle has
counted n ticks, has a length p that somebody gave it (`Origin`: the agent before a
tick, a rule within one, or reset) and a loss, and what remains is p less the time
counted plus the loss (`TimerIs`). Two things lag: a tick that has begun is not yet
counted until `Clocks` (`Begun`, `Ticked`), and after it the loss of this tick is
missing until `Delays` adds it, and the time until the machine's turn (`Counted`, as
for the household). A machine that was started and not yet lengthened has its bare
length (`AwaitsLength`); it is lengthened before the tick goes on. `WindowsCost`
needs the assumption that windows of a device do not overlap: a device is slowed or
down by one of them, and the delay is what that one costs. `LossesAddUp` adds a tick to
a sum whose index runs from the end. Nothing is assumed about when windows begin or
end, or about durations being multiples of a tick.

*Run loop.* `RunInv` says what the trace and the status mean at each place of the loop:
the last view shows the present (`Seen`), the digest is from before `advance` until it
has succeeded (`DigestOld`), an accepted action is open until its ticks are through
(`Open`), each decision has its record (`Paid`, `Aligned`), and a sealed run ended for
the reason its status names (`Ended`). What the household promises survives the run
loop although `advance` may raise in mid tick: that step takes what was consumed off one
shelf and leaves all else as it was (`ShelfOnly`), which keeps `BackendInv`, the
invariants of rules, batches, devices, events and calls together, and no step of the
household follows it. So the promises of `Workflow` hold of `HarnessSpec`, whose
behaviours are not all behaviours of `Workflow`. The records of the household survive it
too (`RecordsInv`). For the agreement of supplies with orders this needs an argument of
its own (`ShelfMatchesOrder`): the goods are gone while the marks of the shelf are still
those of before, and as consumption is less than what was there, they are still right.

*Executor.* `WorkersBounded` counts living processes; the code counts slots. The
invariant says that the former are covered by the latter (`SlotsCover`: the living
processes of uncollected jobs hold a slot, and the slots are at most `max_workers`),
which every step that takes or frees a slot must keep, and what the state of a future
says about its process and directory (`Coherent`), which is what the refinement needs
to know that a queued job never ran. `SlotCount` is the arithmetic of finite sets.
`SlotsHeld` is the converse, needed for starvation: whoever holds a slot was started,
and a caller that waits has refreshed the slots, so that only occupants hold them.

*Facade, session.* `ShowsThePresent` with the types is inductive; that the break of an
episode always shows in the flags is the content of its steps. The second theorem follows
because a step that passes time requires a running facade. Since a session is a
behaviour of the facade, both hold under it. The session's invariant says where its
program counter is: the steps after the last decision made belong to the decision in
hand (`Sequenced`), the calls are one ahead of the decisions exactly while one is in
hand (`Accounted`), what was begun has something to hold (`Blamed`), and the decision
in hand has so far been carried out and its wake is still to come (`InHand`).

*Scheduler.* `BatchesDisjoint` speaks of what was applied. The invariant adds what is
still to be attempted: winners are disjoint from one another and from what was applied,
and while candidates are settled every winner's commands have been claimed
(`Contested`); releases are compared with what was applied. `Retired` keeps "released"
and "queued" beside "active"; `Firers` says that a rule about to fire is active, or has
completed in this very instant, which is the exception in `RetiredForGood`.

*Deltas.* A recursive function is a choice among those that satisfy its equation, so
first there has to be one. `DiffExists` and `ApplyExists` build it level by level: for
each depth there is one function on the values that nest less deep, two of them agree
where both are defined (`DiffAgree`, `ApplyAgree`), because one level looks only at what
is strictly inside (`NodeLocal`, `AppliedLocal`), and their union satisfies the
equation everywhere. `DeltaIs` and `ApplyIs` are that equation, and the
rest never looks at recursion again. Induction is over a set of numbers, as for the
sums above (`NatIsInductive`). `DeltaIsLossless` and `DeltaIsRefusedTwice` go by the
depth of the older value; the latter holds because whatever came is there already,
whatever went is missing already, and what changed refuses its own delta within. Arrays
of different lengths, and values of different kinds, are replaced as a whole, which
is refused because the value before is compared.

*Conversation.* Some marks, one per message with feedback, divide the native steps into
stretches (`Marked`): the wake is the step at the mark, the message's delta leads from
one mark to the next, and the steps it tells are the deltas within, without the last. What is
still being carried out is the stretch after the last mark (`Latest`). Reading
back is then a chain of applications (`ChainIs`), each of which is lossless, and the
steps read message by message are those up to the last mark (`PrefixGrows`, `ReadIs`).

Only model-checked, because the provers cannot reach it: liveness under fairness
(`RunEnds`, `ResultReturns`, `SessionEnds`). The properties of the four runs that expect
a violation are false. Everything else that a run checks is a theorem of the table.

## 8 Findings

Each has a run that expects a violation.

*fridge: the alarm can stay silent.* The command that opens the fridge resets
`open_seconds` and `alarm_sent` (`workflow_backend.py:875-877`); the outside event that
opens it resets only `open_seconds` (`:534-539`). `alarm_sent` is otherwise cleared by a
tick that finds the door closed. Closing the door by command after its alarm and having
it opened from outside in the tick that follows leaves `alarm_sent` set from the opening
before, and the tick in which the new opening reaches `fridge_alarm_seconds` raises no
`fridge_door_alarm` (`AlarmInEachOpening`: a tick that reaches the time is heard).

*blame: a native failure is reported as the model's invalid action.*
`HarnessD1AgentBackend.step` has `execute_atomic` and `advance` in one `try` and turns
their `ValueError` and `TypeError` into `AgentActionError` (`agent_interface.py:454-456`),
which `:32` reserves for an action outside the public schema and which `:314-316`, in
the other facade, says a failure after the start is not (`ActionErrorsAreTheCallers`).

*slowdown: a factor f does not divide the speed by f.* The comment at
`d1_discrete_device_fault.py:248-249` says a tick T becomes T/f; adding T(f - 1) and
subtracting T leaves T(2 - f): nothing at 2, and less than nothing above
(`SlowdownDividesTime`).

*once: a once-rule can fire twice.* `scheduler_step` tests activity and cooldown for
all occurrences of an instant before any fires (`reference_scheduler.py:86-94`), and not
again. Two occurrences of one rule, whose identical commands coalesce, are both
committed, against `rule_dsl_v0.json:166-167` (`FiresWithinLimit`).

Noticed while modelling, without a run of their own:

- A firing that shares a command with an earlier winner is committed though it applied
  nothing, even when the winner's batch then fails in the backend; a firing that loses
  keeps the claims it made before, so that it can block a third. Identical commands
  coalesce between firings, but a release with the command of a batch already applied
  counts as in conflict.
- A jammed lock still locks itself: only commands look at the window.
- `ImmutableStore.put` speaks of provisional objects, and accepts released and
  invalidated ones, which stay replaceable when nothing has frozen them;
  `invalidate_downstream` may raise `INVALID_TRANSITION` halfway, with some objects
  invalidated; `_lineage_order` ranks ids by a table of type names.
- `result` bounds its wait for the first bytes of an answer, and not the reading of the
  rest (`executor.py:112-114`): a big answer whose worker stalls in the middle blocks the
  caller for good, whatever `timeout_seconds` (`Stalled`).
- `ReceiveRaises`: an answer that cannot be unpickled leaves its worker unreaped, and
  its directory is removed.

## 9 What is not modelled, and why

- *Immutable store, process pool, compiler*: called by one caller, one call at a time,
  on documents that are validated offline; a status table and two dictionaries, whose
  properties are assertions of the code itself.
- *D0 route and the fault windows of the simulators' adapters*: their lifecycle is the
  facade's. D0 has a fixed schedule and acknowledgements of its entries; the other
  windows scale the inputs of a simulator.
- *Simulator adapters*: floating-point physics in other programs.
- *Evaluators, golden vectors, schema validation, conformance pipeline, query
  construction, tools*: functions of sealed input, without state between calls. They are
  most of the lines of the repository. Text and evidence processing has no small
  abstract form that would still be this code.
- *`TemporalHomeBackend`* renames the operations of `WorkflowBackend` and adds no state.
- Of the household: the view's layout, calendar dates and texts. Of the harness:
  the private records' contents and hashing of traces. Of the executor: failures of
  fork and of the file system. Of the session: the projection of a receipt by route,
  the texts of the protocol, retries of the client (which a budgeted client disables).
  Of the scheduler: the event records and the reasons it reports.
- An exception that ends the caller's own program, such as one out of `execute_atomic`
  for commands that are no objects, leaves no state a property could speak of.
