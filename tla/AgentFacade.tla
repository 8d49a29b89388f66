---------------------------- MODULE AgentFacade ----------------------------
(***************************************************************************)
(* unified_compiler/agent_interface.py: the object an agent holds.         *)
(* AgentReceiptAdapter stands before a simulator, HarnessD1AgentBackend    *)
(* before the household; both promise that an episode that broke is not    *)
(* stepped on, and that what they show is where the episode is.  Of the    *)
(* native side only its clock and whether a call broke it are kept.        *)
(***************************************************************************)
EXTENDS Integers

CONSTANTS
  Routes,     \* the routes make_agent_backend is asked for
  Tick,       \* tick_seconds
  NativeEnd,  \* the native time at which the episode is over
  Strides,    \* how many ticks one native step may take: a wait of the household takes several
  MaxEpochs   \* bound: resets of one facade

Workflow == "d1_discrete_device_fault"

ASSUME FacadeConstants ==
  /\ Tick \in Nat \ {0} /\ NativeEnd \in Nat /\ MaxEpochs \in Nat
  /\ Strides \subseteq Nat \ {0}

VARIABLES
  route,  \* which backend the facade stands before
  life,   \* _started, _terminal, _closed and _poisoned
  clock,  \* _time_seconds
  seen,   \* the world _last_observation (_last_view) shows
  world,  \* the native episode: which reset, how far, and which call broke it
  reply   \* what the last call gave back

facadeVars == <<route, life, clock, seen, world, reply>>

Flags(started, terminal, closed, poisoned) ==
  [started |-> started, terminal |-> terminal, closed |-> closed, poisoned |-> poisoned]
At(w)    == [epoch |-> w.epoch, at |-> w.at]
Nothing  == [epoch |-> 0, at |-> 0]
Usable   == life.started /\ ~life.closed /\ ~life.poisoned
Running  == Usable /\ ~life.terminal
Household == route = Workflow
\* What a call the lifecycle does not allow raises.
Misuse    == IF Household THEN "interface_error" ELSE "lifecycle_error"

FacadeInit ==
  /\ route \in Routes
  /\ life = Flags(FALSE, FALSE, FALSE, FALSE)
  /\ clock = 0 /\ seen = Nothing
  /\ world = [epoch |-> 0, at |-> 0, torn |-> "no"]
  /\ reply = "none"

(***************************************************************************)
(* reset(seed)                                                             *)
(***************************************************************************)
NewEpoch(torn) ==
  /\ world.epoch < MaxEpochs
  /\ world' = [epoch |-> world.epoch + 1, at |-> 0, torn |-> torn]
  /\ UNCHANGED route

ResetOk ==
  /\ NewEpoch("no")
  /\ life' = Flags(TRUE, NativeEnd = 0, FALSE, FALSE)
  /\ clock' = 0 /\ seen' = At(world')
  /\ reply' = "receipt"

\* Mutant of ResetRaises: the flags of the episode before are kept.
ResetRaisesMutant ==
  /\ NewEpoch("reset")
  /\ life' = [life EXCEPT !.closed = FALSE, !.poisoned = FALSE]
  /\ reply' = "runtime_error"
  /\ UNCHANGED <<clock, seen>>

\* The adapter has forgiven close and poison by then; the household's facade
\* has not yet reopened.
ResetRaises ==
  /\ NewEpoch("reset")
  /\ life' = IF Household THEN Flags(FALSE, TRUE, life.closed, TRUE)
             ELSE Flags(FALSE, TRUE, FALSE, FALSE)
  /\ seen' = IF Household THEN Nothing ELSE seen
  /\ reply' = "runtime_error"
  /\ UNCHANGED clock

\* The native reset is done but shows no observation that can be passed on.
ResetUnreadable ==
  /\ NewEpoch("no")
  /\ life' = Flags(FALSE, TRUE, FALSE, ~Household)
  /\ seen' = IF Household THEN At(world') ELSE seen
  /\ reply' = IF Household THEN "interface_error" ELSE "runtime_error"
  /\ UNCHANGED clock

(***************************************************************************)
(* observe() and legal_actions()                                           *)
(***************************************************************************)
\* A terminal adapter and the household's facade answer from their copy.
Observe ==
  /\ \/ ~Usable /\ reply' = Misuse /\ UNCHANGED seen
     \/ Usable /\ seen' = (IF life.terminal \/ Household THEN seen ELSE At(world))
               /\ reply' = "observation"
     \/ Running /\ ~Household /\ reply' = "interface_error" /\ UNCHANGED seen
  /\ UNCHANGED <<route, life, clock, world>>

LegalActions ==
  /\ \/ ~Usable /\ reply' = Misuse
     \/ Usable /\ reply' = "actions"
     \/ Usable /\ ~Household /\ reply' = "interface_error"
  /\ UNCHANGED <<route, life, clock, seen, world>>

(***************************************************************************)
(* step(action, dt)                                                        *)
(***************************************************************************)
\* Refused without a call to the native side: a facade that is not running, an
\* action or an interval outside the published schema.
StepRefused ==
  /\ \/ ~Running /\ reply' = Misuse
     \/ Running /\ reply' = "action_error"
  /\ UNCHANGED <<route, life, clock, seen, world>>

Native(n) == [world EXCEPT !.at = @ + n * Tick]

\* A household command the device's state or fault refuses costs its time as well.
StepTaken(n) ==
  /\ Running /\ n \in Strides
  /\ Household \/ n = 1
  /\ world' = Native(n)
  /\ clock' = world'.at /\ seen' = At(world')
  /\ life' = [life EXCEPT !.terminal = world'.at >= NativeEnd]
  /\ reply' = "receipt"
  /\ UNCHANGED route

Poisoned == [life EXCEPT !.poisoned = TRUE, !.terminal = TRUE]

\* Mutant of StepBreaks: the adapter lets the caller try again.
StepBreaksMutant ==
  /\ Running
  /\ world' = [world EXCEPT !.torn = "step"]
  /\ life' = [life EXCEPT !.terminal = Household]
  /\ reply' = "runtime_error"
  /\ UNCHANGED <<route, clock, seen>>

\* The native call raises after it may have changed what it holds.  The
\* household's facade takes ValueError and TypeError for the action's fault.
StepBreaks ==
  /\ Running
  /\ world' = [world EXCEPT !.torn = "step"]
  /\ life' = Poisoned
  /\ reply' \in IF Household THEN {"action_error", "interface_error"} ELSE {"runtime_error"}
  /\ UNCHANGED <<route, clock, seen>>

\* The step was taken but its receipt has no observation or no later time.
StepUnreadable ==
  /\ Running
  /\ world' = Native(1)
  /\ life' = Poisoned
  /\ reply' = IF Household THEN "interface_error" ELSE "runtime_error"
  /\ UNCHANGED <<route, clock, seen>>

\* execute_atomic refuses what the schema allows, an identity for one: nothing
\* has happened, and the episode is over all the same.
StepRejected ==
  /\ Running /\ Household
  /\ life' = Poisoned
  /\ reply' = "action_error"
  /\ UNCHANGED <<route, clock, seen, world>>

Step == StepRefused \/ StepBreaks \/ StepUnreadable \/ StepRejected \/ \E n \in Strides : StepTaken(n)

(***************************************************************************)
(* close()                                                                 *)
(***************************************************************************)
Close ==
  /\ life' = Flags(FALSE, TRUE, TRUE, FALSE)
  /\ seen' = Nothing
  /\ reply' = "closed"
  /\ UNCHANGED <<route, clock, world>>

\* The native close raises before the facade has noted anything.
CloseRaises ==
  /\ ~Household
  /\ reply' = "raised"
  /\ UNCHANGED <<route, life, clock, seen, world>>

FacadeNext ==
  \/ ResetOk \/ ResetRaises \/ ResetUnreadable
  \/ Observe \/ LegalActions
  \/ Step
  \/ Close \/ CloseRaises

FacadeSpec == FacadeInit /\ [][FacadeNext]_facadeVars

(***************************************************************************)
(* What the facade keeps to, whoever calls it in whatever order            *)
(***************************************************************************)
\* An episode in which a native call raised is never stepped: not by retrying,
\* not after a failed reset, not after closing.
BrokenNeverStepped ==
  [][world'.epoch = world.epoch /\ world'.at # world.at => world.torn = "no" /\ Running]_facadeVars

\* As long as the facade answers, it shows the present of an unbroken episode on
\* the clock it keeps: no observation of an earlier step, episode or reset.
ShowsThePresent ==
  Usable => world.torn = "no" /\ seen = At(world) /\ clock = world.at

\* AgentActionError means "The caller supplied an action outside the route's
\* public schema"; once a native call has raised, "It is not evidence that the
\* model submitted an invalid action".
ActionErrorsAreTheCallers ==
  [][reply' = "action_error" => world'.torn = "no"]_facadeVars
=============================================================================
