--------------------------- MODULE HouseholdProofs ---------------------------
(***************************************************************************)
(* The devices of the household, proved for every instance of Workflow: the *)
(* records they keep, their timers, the tasks that run on them (TypeOK,     *)
(* NoOverdueDevice, TaskIffDevice, TaskClock), the two metrics of a run     *)
(* (RuntimeIsTaskTime), and what the agent is shown of orders and of the    *)
(* garage door (SupplyMatchesOrder, GarageSession).                         *)
(*                                                                         *)
(* The heart is Sound, which says what is right for one device on its own:  *)
(* no step moves two devices, so each command, outside event and tick is    *)
(* judged by the device it is about.                                       *)
(***************************************************************************)
EXTENDS BackendProofs

(***************************************************************************)
(* What is right for one device.  r is its record, running whether a task   *)
(* of it runs, t the time that task has taken as the device knows it.       *)
(***************************************************************************)

Relock(sc) == IF sc = "keyless_resident_entry" THEN Cfg.entry_relock ELSE Cfg.lock_autolock

\* The machines, whose timer OnTime below is about, and the length of their cycle.
Machines  == {"washer", "dishwasher"} \cap Devices
Length(d) == IF d = "washer" THEN Cfg.washer_cycle ELSE Cfg.dishwasher_cycle

Machine(r, busy, running) ==
  /\ r \in [state : {"idle", "loaded", busy, "done"}, remaining : Nat]
  /\ r.state = busy => r.remaining > 0
  /\ running <=> r.state = busy

VacuumSound(r, running, t) ==
  /\ r \in [state : {"docked", "cleaning", "returning"}, remaining : Nat, battery : Nat]
  /\ r.state # "docked" => r.remaining > 0
  /\ running <=> r.state # "docked"
  /\ r.state = "cleaning" => r.remaining = Larger(0, Cfg.vacuum_clean - t)

GarageSound(r) ==
  /\ r \in [state : {"closed", "opening", "open", "closing"}, remaining : Nat]
  /\ r.state \in {"opening", "closing"} => r.remaining > 0

LockSound(r, sc) ==
  /\ r \in [state : {"locked", "unlocked"}, unlocked : Nat]
  /\ Moves("lock", r.state, sc) => r.unlocked < Relock(sc)

IntercomSound(r, running, t) ==
  /\ r \in [state : {"idle", "ringing", "answered"}, ring : Nat, answered : Nat]
  /\ r.state = "ringing" => r.ring < Cfg.ring_timeout
  /\ r.state = "answered" => r.answered < Cfg.answered_clear
  /\ running <=> r.state = "ringing"
  /\ running => r.ring = t

StoveSound(r, sc, running, t) ==
  /\ r \in [state : {"off", "on"}, level : Nat, on : Nat]
  /\ r.state = "on" => r.on < Cfg.stove_hazard
  /\ sc # "unattended_stove_guard" => (running <=> r.state = "on") /\ (running => r.on = t)

CoffeeSound(r, running, t) ==
  /\ r \in [state : {"idle", "brewing", "ready", "expired"}, remaining : Nat, freshness : Nat]
  /\ r.state = "brewing" => r.remaining > 0
  /\ r.state = "ready" => r.freshness > 0
  /\ running <=> r.state = "brewing"
  /\ running => r.remaining = Larger(0, Cfg.coffee_brew - t)

AlarmSound(r) ==
  /\ r \in [state : {"idle", "ringing"}, ringing : Nat]
  /\ r.state = "ringing" => r.ringing < Cfg.alarm_timeout

SupplySound(r) ==
  /\ r \in [state : {"stocked", "low", "empty", "ordered"}, level : Nat, ordered : BOOLEAN,
            remaining : Nat]
  /\ r.state = "ordered" => r.remaining > 0

\* The devices without a timer that anything waits for.
PlainSound(d, r) ==
  /\ d = "fridge"       => r \in [state : {"closed", "open"}, open : Nat, alarm_sent : BOOLEAN]
  /\ d = "mailbox"      => r \in [state : {"empty", "flagged", "full"}, deliveries : Nat]
  /\ d = "bathroom"     => r \in [state : {"vacant", "occupied"}, occupied : Nat]
  /\ d = "notification" => r \in [state : {"ready"}, messages : Nat]
  /\ d = "media"        => r \in [state : {"off", "playing"}, content : Nat]
  /\ d = "toilet"       => r \in [state : {"flushed", "unflushed"}]
  /\ d = "paper"        => r \in [state : {"stocked", "empty"}, level : Nat]
  /\ d = "trash"        => r \in [state : {"empty", "needs_emptying", "full"}, fill : Nat]
  /\ d = "emergency"    => r \in [state : {"ready"}, calls : Nat]

PlainDevices == {"fridge", "mailbox", "bathroom", "notification", "media", "toilet", "paper",
                 "trash", "emergency"}

Sound(d, sc, r, running, t) ==
  /\ d = "washer"     => Machine(r, "washing", running)
  /\ d = "dishwasher" => Machine(r, "running", running)
  /\ d = "vacuum"     => VacuumSound(r, running, t)
  /\ d = "garage"     => GarageSound(r)
  /\ d = "lock"       => LockSound(r, sc)
  /\ d = "intercom"   => IntercomSound(r, running, t)
  /\ d = "stove"      => StoveSound(r, sc, running, t)
  /\ d = "coffee"     => CoffeeSound(r, running, t)
  /\ d = "alarm"      => AlarmSound(r)
  /\ d \in Supplies   => SupplySound(r)
  /\ PlainSound(d, r)
  /\ running => d \in TaskDevices

\* The time a task has taken, as far as its device has counted it: a device whose turn
\* is still to come in this tick has not counted the tick.
Counted(d) ==
  IF d \notin DOMAIN tasks THEN 0 ELSE IF d \in due THEN tasks[d] - Tick ELSE tasks[d]

HomeInv ==
  /\ DOMAIN tasks \subseteq Devices
  /\ \A d \in DOMAIN tasks : tasks[d] \in Nat
  /\ phase # "dynamics" => due = {}
  /\ due \subseteq Devices
  /\ \A d \in due : Moves(d, dev[d].state, scenario)
  /\ \A d \in Devices : Sound(d, scenario, dev[d], d \in DOMAIN tasks, Counted(d))

(***************************************************************************)
(* Constants.                                                              *)
(***************************************************************************)

\* Every duration is positive, and so is a tick.
LEMMA Durations ==
  /\ Tick \in Nat /\ Tick > 0
  /\ \A k \in CfgKeys : Cfg[k] \in Nat /\ Cfg[k] > 0
BY ConfigAssumption

\* The durations that devices time themselves by.
LEMMA TimersPositive ==
  /\ Cfg.washer_cycle \in Nat /\ Cfg.washer_cycle > 0
  /\ Cfg.dishwasher_cycle \in Nat /\ Cfg.dishwasher_cycle > 0
  /\ Cfg.vacuum_clean \in Nat /\ Cfg.vacuum_clean > 0
  /\ Cfg.vacuum_return \in Nat /\ Cfg.vacuum_return > 0
  /\ Cfg.garage_move \in Nat /\ Cfg.garage_move > 0
  /\ Cfg.ring_timeout \in Nat /\ Cfg.ring_timeout > 0
  /\ Cfg.answered_clear \in Nat /\ Cfg.answered_clear > 0
  /\ Cfg.stove_hazard \in Nat /\ Cfg.stove_hazard > 0
  /\ Cfg.coffee_brew \in Nat /\ Cfg.coffee_brew > 0
  /\ Cfg.coffee_freshness \in Nat /\ Cfg.coffee_freshness > 0
  /\ Cfg.alarm_timeout \in Nat /\ Cfg.alarm_timeout > 0
  /\ Cfg.pellets_lead \in Nat /\ Cfg.pellets_lead > 0
  /\ Cfg.beer_lead \in Nat /\ Cfg.beer_lead > 0
  /\ Cfg.entry_relock \in Nat /\ Cfg.entry_relock > 0
  /\ Cfg.lock_autolock \in Nat /\ Cfg.lock_autolock > 0
  /\ Cfg.initial_supply \in Nat /\ Cfg.initial_supply > 0
  /\ Cfg.vacuum_drain \in Nat /\ Cfg.vacuum_charge \in Nat
  /\ Cfg.consumption_units \in Nat /\ Cfg.consumption_units > 0
BY Durations DEF CfgKeys

\* The operations of each device.
LEMMA Operations ==
  ASSUME NEW c, StaticOk(c)
  PROVE  /\ c.device \in {"washer", "dishwasher"} => c.op \in {"load", "start", "unload"}
         /\ c.device = "vacuum" => c.op \in {"start_cleaning", "dock"}
         /\ c.device \in {"garage", "fridge"} => c.op \in {"open", "close"}
         /\ c.device = "lock" => c.op \in {"lock", "unlock"}
         /\ c.device = "intercom" => c.op = "answer"
         /\ c.device = "stove" => c.op \in {"ignite", "set_level", "extinguish"}
         /\ c.device = "mailbox" => c.op = "collect"
         /\ c.device # "bathroom"
         /\ c.device = "notification" => c.op = "send"
         /\ c.device = "media" => c.op \in {"play", "stop"}
         /\ c.device = "alarm" => c.op \in {"ring", "acknowledge"}
         /\ c.device = "coffee" => c.op \in {"start", "serve"}
         /\ c.device = "toilet" => c.op = "flush"
         /\ c.device = "paper" => c.op = "restock"
         /\ c.device = "trash" => c.op = "empty"
         /\ c.device \in Supplies => c.op = "place"
         /\ c.device = "emergency" => c.op = "call"
BY DEF StaticOk, Required, Supplies

(***************************************************************************)
(* A command leaves its device in order.                                   *)
(***************************************************************************)

\* Whether a task of c's device runs after c, and for how long it has.
RunsAfter(c, running) == StartsTask(c) \/ (running /\ EndsTask(c) = NoOutcome)
TimeAfter(c, t)       == IF StartsTask(c) THEN 0 ELSE t

\* A machine that is loaded, started and unloaded.
LEMMA MachineCommand ==
  ASSUME NEW c, NEW r, NEW running \in BOOLEAN, StaticOk(c), NEW busy,
         \/ c.device = "washer" /\ busy = "washing"
         \/ c.device = "dishwasher" /\ busy = "running",
         r.state \in Required[c.device][c.op], Machine(r, busy, running)
  PROVE  Machine(Applied(c, r), busy, RunsAfter(c, running))
<1>1. c.op \in {"load", "start", "unload"}
  BY Operations
<1>2. c.device = "washer" \/ c.device = "dishwasher"
  OBVIOUS
<1>3. PICK total \in Nat : total > 0 /\ total = Length(c.device)
  BY TimersPositive DEF Length
<1>4. CASE c.op = "load"
  <2>1. r.state = "idle"
    BY <1>2, <1>4 DEF Required
  <2>2. Applied(c, r) = [r EXCEPT !.state = "loaded"]
    BY <1>4 DEF Applied
  <2>3. ~StartsTask(c) /\ EndsTask(c) = NoOutcome
    BY <1>4 DEF StartsTask, EndsTask
  <2> QED  BY <2>1, <2>2, <2>3 DEF Machine, RunsAfter
<1>5. CASE c.op = "start"
  <2>1. Applied(c, r) = [r EXCEPT !.state = busy, !.remaining = total]
    BY <1>2, <1>3, <1>5 DEF Applied, Length
  <2>2. StartsTask(c)
    BY <1>5 DEF StartsTask
  <2> QED  BY <1>3, <2>1, <2>2 DEF Machine, RunsAfter
<1>6. CASE c.op = "unload"
  <2>1. r.state = "done"
    BY <1>2, <1>6 DEF Required
  <2>2. Applied(c, r) = [r EXCEPT !.state = "idle"]
    BY <1>6 DEF Applied
  <2>3. ~StartsTask(c) /\ EndsTask(c) = NoOutcome
    BY <1>6 DEF StartsTask, EndsTask
  <2> QED  BY <2>1, <2>2, <2>3 DEF Machine, RunsAfter
<1> QED  BY <1>1, <1>4, <1>5, <1>6

\* The vacuum starts from its dock and is sent back to it.
LEMMA VacuumCommand ==
  ASSUME NEW c, NEW r, NEW running \in BOOLEAN, NEW t \in Int, StaticOk(c), c.device = "vacuum",
         r.state \in Required[c.device][c.op], VacuumSound(r, running, t)
  PROVE  VacuumSound(Applied(c, r), RunsAfter(c, running), TimeAfter(c, t))
<1>1. CASE c.op = "start_cleaning"
  <2>1. Applied(c, r) = [r EXCEPT !.state = "cleaning", !.remaining = Cfg.vacuum_clean]
    BY <1>1 DEF Applied
  <2>2. StartsTask(c)
    BY <1>1 DEF StartsTask
  <2>3. Larger(0, Cfg.vacuum_clean - 0) = Cfg.vacuum_clean
    BY TimersPositive DEF Larger
  <2> QED  BY <2>1, <2>2, <2>3, TimersPositive DEF VacuumSound, RunsAfter, TimeAfter
<1>2. CASE c.op = "dock"
  <2>1. r.state = "cleaning"
    BY <1>2 DEF Required
  <2>2. Applied(c, r) = [r EXCEPT !.state = "returning", !.remaining = Cfg.vacuum_return]
    BY <1>2 DEF Applied
  <2>3. ~StartsTask(c) /\ EndsTask(c) = NoOutcome
    BY <1>2 DEF StartsTask, EndsTask
  <2> QED  BY <2>1, <2>2, <2>3, TimersPositive DEF VacuumSound, RunsAfter, TimeAfter
<1> QED  BY <1>1, <1>2, Operations

\* An answer ends the ringing and its task.
LEMMA IntercomCommand ==
  ASSUME NEW c, NEW r, NEW running \in BOOLEAN, NEW t \in Int, StaticOk(c), c.device = "intercom",
         IntercomSound(r, running, t)
  PROVE  IntercomSound(Applied(c, r), RunsAfter(c, running), TimeAfter(c, t))
<1>1. c.op = "answer"
  BY Operations
<1>2. Applied(c, r) = [r EXCEPT !.state = "answered", !.answered = 0]
  BY <1>1 DEF Applied
<1>3. RunsAfter(c, running) = FALSE
  BY <1>1 DEF RunsAfter, StartsTask, EndsTask, NoOutcome
<1>4. IntercomSound([r EXCEPT !.state = "answered", !.answered = 0], FALSE, TimeAfter(c, t))
  BY TimersPositive DEF IntercomSound
<1> QED  BY <1>2, <1>3, <1>4

\* Igniting starts the cooking task, extinguishing ends it.
LEMMA StoveCommand ==
  ASSUME NEW c, NEW r, NEW sc, NEW running \in BOOLEAN, NEW t \in Int, StaticOk(c),
         c.device = "stove", c.arg \in Nat, r.state \in Required[c.device][c.op],
         StoveSound(r, sc, running, t)
  PROVE  StoveSound(Applied(c, r), sc, RunsAfter(c, running), TimeAfter(c, t))
<1>1. CASE c.op = "ignite"
  <2>1. Applied(c, r) = [r EXCEPT !.state = "on", !.level = c.arg, !.on = 0]
    BY <1>1 DEF Applied
  <2>2. StartsTask(c)
    BY <1>1 DEF StartsTask
  <2>3. StoveSound([r EXCEPT !.state = "on", !.level = c.arg, !.on = 0], sc, TRUE, 0)
    BY TimersPositive DEF StoveSound
  <2> QED  BY <2>1, <2>2, <2>3 DEF RunsAfter, TimeAfter
<1>2. CASE c.op = "set_level"
  <2>1. Applied(c, r) = [r EXCEPT !.level = c.arg]
    BY <1>2 DEF Applied
  <2>2. ~StartsTask(c) /\ EndsTask(c) = NoOutcome
    BY <1>2 DEF StartsTask, EndsTask
  <2> QED  BY <2>1, <2>2 DEF StoveSound, RunsAfter, TimeAfter
<1>3. CASE c.op = "extinguish"
  <2>1. Applied(c, r) = [r EXCEPT !.state = "off", !.level = 0, !.on = 0]
    BY <1>3 DEF Applied
  <2>2. RunsAfter(c, running) = FALSE
    BY <1>3 DEF RunsAfter, StartsTask, EndsTask, NoOutcome
  <2>3. StoveSound([r EXCEPT !.state = "off", !.level = 0, !.on = 0], sc, FALSE, TimeAfter(c, t))
    BY DEF StoveSound
  <2> QED  BY <2>1, <2>2, <2>3
<1> QED  BY <1>1, <1>2, <1>3, Operations

\* The coffee maker starts when idle and is served when ready.
LEMMA CoffeeCommand ==
  ASSUME NEW c, NEW r, NEW running \in BOOLEAN, NEW t \in Int, StaticOk(c), c.device = "coffee",
         r.state \in Required[c.device][c.op], CoffeeSound(r, running, t)
  PROVE  CoffeeSound(Applied(c, r), RunsAfter(c, running), TimeAfter(c, t))
<1>1. CASE c.op = "start"
  <2>1. Applied(c, r) = [r EXCEPT !.state = "brewing", !.remaining = Cfg.coffee_brew]
    BY <1>1 DEF Applied
  <2>2. StartsTask(c)
    BY <1>1 DEF StartsTask
  <2>3. Larger(0, Cfg.coffee_brew - 0) = Cfg.coffee_brew
    BY TimersPositive DEF Larger
  <2> QED  BY <2>1, <2>2, <2>3, TimersPositive DEF CoffeeSound, RunsAfter, TimeAfter
<1>2. CASE c.op = "serve"
  <2>1. r.state = "ready"
    BY <1>2 DEF Required
  <2>2. Applied(c, r) = [r EXCEPT !.state = "idle", !.remaining = 0, !.freshness = 0]
    BY <1>2 DEF Applied
  <2>3. ~StartsTask(c) /\ EndsTask(c) = NoOutcome
    BY <1>2 DEF StartsTask, EndsTask
  <2>4. CoffeeSound([r EXCEPT !.state = "idle", !.remaining = 0, !.freshness = 0], running, t)
    BY <2>1 DEF CoffeeSound
  <2> QED  BY <2>2, <2>3, <2>4 DEF RunsAfter, TimeAfter
<1> QED  BY <1>1, <1>2, Operations

\* The devices on which no task runs.
LEMMA TimerCommand ==
  ASSUME NEW c, NEW r, NEW sc, StaticOk(c)
  PROVE  /\ c.device = "garage" /\ GarageSound(r) => GarageSound(Applied(c, r))
         /\ c.device = "lock" /\ LockSound(r, sc) => LockSound(Applied(c, r), sc)
         /\ c.device = "alarm" /\ AlarmSound(r) => AlarmSound(Applied(c, r))
         /\ c.device \in Supplies /\ SupplySound(r) => SupplySound(Applied(c, r))
<1>1. ASSUME c.device = "garage", GarageSound(r) PROVE GarageSound(Applied(c, r))
  <2>1. c.op \in {"open", "close"}
    BY <1>1, Operations
  <2>2. Applied(c, r) = [r EXCEPT !.state = IF c.op = "open" THEN "opening" ELSE "closing",
                                  !.remaining = Cfg.garage_move]
    BY <1>1, <2>1 DEF Applied
  <2> QED  BY <1>1, <2>2, TimersPositive DEF GarageSound
<1>2. ASSUME c.device = "lock", LockSound(r, sc) PROVE LockSound(Applied(c, r), sc)
  <2>1. c.op \in {"lock", "unlock"}
    BY <1>2, Operations
  <2>2. PICK s \in {"locked", "unlocked"} :
          Applied(c, r) = [r EXCEPT !.state = s, !.unlocked = 0]
    BY <1>2, <2>1 DEF Applied
  <2>3. LockSound([r EXCEPT !.state = s, !.unlocked = 0], sc)
    BY <1>2, TimersPositive DEF LockSound, Relock
  <2> QED  BY <2>2, <2>3
<1>3. ASSUME c.device = "alarm", AlarmSound(r) PROVE AlarmSound(Applied(c, r))
  <2>1. c.op \in {"ring", "acknowledge"}
    BY <1>3, Operations
  <2>2. PICK s \in {"ringing", "idle"} : Applied(c, r) = [r EXCEPT !.state = s, !.ringing = 0]
    BY <1>3, <2>1 DEF Applied
  <2>3. AlarmSound([r EXCEPT !.state = s, !.ringing = 0])
    BY <1>3, TimersPositive DEF AlarmSound
  <2> QED  BY <2>2, <2>3
<1>4. ASSUME c.device \in Supplies, SupplySound(r) PROVE SupplySound(Applied(c, r))
  <2>1. c.op = "place"
    BY <1>4, Operations
  <2>2. Applied(c, r) = [r EXCEPT !.state = "ordered", !.ordered = TRUE,
                                  !.remaining = Lead(c.device)]
    BY <1>4, <2>1 DEF Applied, Supplies
  <2>3. Lead(c.device) \in Nat /\ Lead(c.device) > 0
    BY TimersPositive DEF Lead
  <2> QED  BY <1>4, <2>2, <2>3 DEF SupplySound
<1> QED  BY <1>1, <1>2, <1>3, <1>4

\* The devices without a timer.
LEMMA PlainCommand ==
  ASSUME NEW c, NEW r, StaticOk(c), c.arg \in Nat, PlainSound(c.device, r)
  PROVE  PlainSound(c.device, Applied(c, r))
<1>1. CASE c.device = "fridge"
  <2>1. c.op \in {"open", "close"}
    BY <1>1, Operations
  <2>2. \/ Applied(c, r) = [r EXCEPT !.state = "open", !.open = 0, !.alarm_sent = FALSE]
        \/ Applied(c, r) = [r EXCEPT !.state = "closed"]
    BY <1>1, <2>1 DEF Applied
  <2>3. /\ PlainSound("fridge", [r EXCEPT !.state = "open", !.open = 0, !.alarm_sent = FALSE])
        /\ PlainSound("fridge", [r EXCEPT !.state = "closed"])
    BY <1>1 DEF PlainSound
  <2> QED  BY <1>1, <2>2, <2>3
<1>2. CASE c.device = "mailbox"
  <2>1. Applied(c, r) = [r EXCEPT !.state = "empty"]
    BY <1>2, Operations DEF Applied
  <2> QED  BY <1>2, <2>1 DEF PlainSound
<1>3. CASE c.device = "notification"
  <2>1. Applied(c, r) = [r EXCEPT !.messages = @ + 1]
    BY <1>3, Operations DEF Applied
  <2> QED  BY <1>3, <2>1 DEF PlainSound
<1>4. CASE c.device = "media"
  <2>1. \/ Applied(c, r) = [r EXCEPT !.state = "playing", !.content = c.arg]
        \/ Applied(c, r) = [r EXCEPT !.state = "off", !.content = 0]
    BY <1>4, Operations DEF Applied
  <2>2. /\ PlainSound("media", [r EXCEPT !.state = "playing", !.content = c.arg])
        /\ PlainSound("media", [r EXCEPT !.state = "off", !.content = 0])
    BY <1>4 DEF PlainSound
  <2> QED  BY <1>4, <2>1, <2>2
<1>5. CASE c.device = "toilet"
  <2>1. Applied(c, r) = [r EXCEPT !.state = "flushed"]
    BY <1>5, Operations DEF Applied
  <2> QED  BY <1>5, <2>1 DEF PlainSound
<1>6. CASE c.device = "paper"
  <2>1. Applied(c, r) = [r EXCEPT !.state = "stocked", !.level = 100]
    BY <1>6, Operations DEF Applied
  <2>2. PlainSound("paper", [r EXCEPT !.state = "stocked", !.level = 100])
    BY <1>6 DEF PlainSound
  <2> QED  BY <1>6, <2>1, <2>2
<1>7. CASE c.device = "trash"
  <2>1. Applied(c, r) = [r EXCEPT !.state = "empty", !.fill = 0]
    BY <1>7, Operations DEF Applied
  <2>2. PlainSound("trash", [r EXCEPT !.state = "empty", !.fill = 0])
    BY <1>7 DEF PlainSound
  <2> QED  BY <1>7, <2>1, <2>2
<1>8. CASE c.device = "emergency"
  <2>1. Applied(c, r) = [r EXCEPT !.calls = @ + 1]
    BY <1>8, Operations DEF Applied
  <2> QED  BY <1>8, <2>1 DEF PlainSound
<1>9. CASE c.device \notin PlainDevices
  BY <1>9 DEF PlainSound, PlainDevices
<1> QED  BY <1>1, <1>2, <1>3, <1>4, <1>5, <1>6, <1>7, <1>8, <1>9, Operations DEF PlainDevices

\* A command that the state allows leaves its device as it should be.
LEMMA CommandSound ==
  ASSUME NEW c \in Command, NEW r, NEW sc, NEW running \in BOOLEAN, NEW t \in Int, StaticOk(c),
         r.state \in Required[c.device][c.op], Sound(c.device, sc, r, running, t)
  PROVE  Sound(c.device, sc, Applied(c, r), RunsAfter(c, running), TimeAfter(c, t))
<1>1. c.arg \in Nat
  BY DEF Command
<1>2. RunsAfter(c, running) => c.device \in TaskDevices
  <2>1. c.op \in {"start", "start_cleaning", "ignite"} => c.device \in TaskDevices
    <3>1. c.device \in AllDevices
      BY ConfigAssumption DEF Command
    <3> QED  BY <3>1, Operations DEF TaskDevices, AllDevices, Supplies
  <2> QED  BY <2>1 DEF RunsAfter, StartsTask, Sound
<1>3. PlainSound(c.device, Applied(c, r))
  BY <1>1, PlainCommand DEF Sound
<1>4. c.device = "washer" => Machine(Applied(c, r), "washing", RunsAfter(c, running))
  BY MachineCommand DEF Sound
<1>5. c.device = "dishwasher" => Machine(Applied(c, r), "running", RunsAfter(c, running))
  BY MachineCommand DEF Sound
<1>6. /\ c.device = "vacuum" => VacuumSound(Applied(c, r), RunsAfter(c, running), TimeAfter(c, t))
      /\ c.device = "coffee" => CoffeeSound(Applied(c, r), RunsAfter(c, running), TimeAfter(c, t))
      /\ c.device = "intercom" =>
           IntercomSound(Applied(c, r), RunsAfter(c, running), TimeAfter(c, t))
      /\ c.device = "stove" =>
           StoveSound(Applied(c, r), sc, RunsAfter(c, running), TimeAfter(c, t))
  BY <1>1, VacuumCommand, CoffeeCommand, IntercomCommand, StoveCommand DEF Sound
<1>7. /\ c.device = "garage" => GarageSound(Applied(c, r))
      /\ c.device = "lock" => LockSound(Applied(c, r), sc)
      /\ c.device = "alarm" => AlarmSound(Applied(c, r))
      /\ c.device \in Supplies => SupplySound(Applied(c, r))
  BY TimerCommand DEF Sound
<1> QED  BY <1>2, <1>3, <1>4, <1>5, <1>6, <1>7 DEF Sound

(***************************************************************************)
(* What time does to one device.                                           *)
(***************************************************************************)

\* No time is told on a device that is not moving or on which no task runs.
LEMMA TimeIrrelevant ==
  ASSUME NEW d, NEW sc, NEW r, NEW running \in BOOLEAN, NEW t, NEW u,
         Sound(d, sc, r, running, t), ~running \/ ~Moves(d, r.state, sc)
  PROVE  Sound(d, sc, r, running, u)
<1>1. d = "washer" => Machine(r, "washing", running)
  BY DEF Sound, Machine, Moves
<1>2. d = "dishwasher" => Machine(r, "running", running)
  BY DEF Sound, Machine, Moves
<1>3. d = "vacuum" => VacuumSound(r, running, u)
  BY DEF Sound, VacuumSound, Moves
<1>4. d = "intercom" => IntercomSound(r, running, u)
  BY DEF Sound, IntercomSound, Moves
<1>5. d = "stove" => StoveSound(r, sc, running, u)
  BY DEF Sound, StoveSound, Moves
<1>6. d = "coffee" => CoffeeSound(r, running, u)
  BY DEF Sound, CoffeeSound, Moves
<1> QED  BY <1>1, <1>2, <1>3, <1>4, <1>5, <1>6 DEF Sound

\* A timer that has run for t seconds of total, a tick later.
LEMMA CountdownGoesOn ==
  ASSUME NEW n \in Nat
  PROVE  /\ Countdown(n) \in Nat
         /\ \A total \in Nat, t \in Int :
              n = Larger(0, total - t) /\ n > 0 => Countdown(n) = Larger(0, total - (t + Tick))
<1>1. Tick \in Nat /\ Tick > 0
  BY Durations
<1> QED  BY <1>1 DEF Countdown, Larger

\* A machine's cycle, a tick later.
LEMMA MachineTick ==
  ASSUME NEW r, NEW busy, NEW running \in BOOLEAN, busy \notin {"idle", "loaded", "done"},
         r.state = busy, Machine(r, busy, running), NEW left, left = Countdown(r.remaining)
  PROVE  /\ left > 0 => Machine([r EXCEPT !.remaining = left], busy, running)
         /\ Machine([r EXCEPT !.state = "done", !.remaining = 0], busy, FALSE)
<1>1. left \in Nat
  BY CountdownGoesOn DEF Machine
<1> QED  BY <1>1 DEF Machine

\* The vacuum, a tick later.
LEMMA VacuumTick ==
  ASSUME NEW r, NEW running \in BOOLEAN, NEW t \in Int, VacuumSound(r, running, t),
         NEW left, left = Countdown(r.remaining), NEW charge \in Nat
  PROVE  /\ r.state = "cleaning" =>
              /\ left > 0 => VacuumSound([r EXCEPT !.battery = charge, !.remaining = left],
                                         running, t + Tick)
              /\ VacuumSound([[r EXCEPT !.battery = charge, !.remaining = left]
                                EXCEPT !.state = "returning", !.remaining = Cfg.vacuum_return],
                             running, t + Tick)
         /\ r.state = "returning" =>
              /\ left > 0 => VacuumSound([r EXCEPT !.remaining = left], running, t + Tick)
              /\ VacuumSound([r EXCEPT !.state = "docked", !.remaining = 0], FALSE, t + Tick)
         /\ r.state = "docked" => VacuumSound([r EXCEPT !.battery = charge], running, t + Tick)
<1>1. left \in Nat
  BY CountdownGoesOn DEF VacuumSound
<1>2. ASSUME r.state = "cleaning"
      PROVE  left = Larger(0, Cfg.vacuum_clean - (t + Tick))
  <2>1. PICK n, total : n = r.remaining /\ total = Cfg.vacuum_clean
    OBVIOUS
  <2>2. total \in Nat /\ n \in Nat /\ n > 0 /\ n = Larger(0, total - t) /\ left = Countdown(n)
    BY <1>2, <2>1, TimersPositive DEF VacuumSound
  <2>3. left = Larger(0, total - (t + Tick))
    BY <2>2, CountdownGoesOn
  <2> QED  BY <2>1, <2>3
<1>3. ASSUME r.state = "cleaning"
      PROVE  /\ left > 0 => VacuumSound([r EXCEPT !.battery = charge, !.remaining = left],
                                         running, t + Tick)
             /\ VacuumSound([[r EXCEPT !.battery = charge, !.remaining = left]
                                EXCEPT !.state = "returning", !.remaining = Cfg.vacuum_return],
                             running, t + Tick)
  BY <1>1, <1>2, <1>3, TimersPositive DEF VacuumSound
<1>4. ASSUME r.state = "returning"
      PROVE  /\ left > 0 => VacuumSound([r EXCEPT !.remaining = left], running, t + Tick)
             /\ VacuumSound([r EXCEPT !.state = "docked", !.remaining = 0], FALSE, t + Tick)
  BY <1>1, <1>4 DEF VacuumSound
<1>5. ASSUME r.state = "docked"
      PROVE  VacuumSound([r EXCEPT !.battery = charge], running, t + Tick)
  BY <1>5 DEF VacuumSound
<1> QED  BY <1>3, <1>4, <1>5

\* The coffee maker, a tick later.
LEMMA CoffeeTick ==
  ASSUME NEW r, NEW running \in BOOLEAN, NEW t \in Int, CoffeeSound(r, running, t)
  PROVE  /\ \A left : r.state = "brewing" /\ left = Countdown(r.remaining) =>
              /\ left > 0 => CoffeeSound([r EXCEPT !.remaining = left], running, t + Tick)
              /\ CoffeeSound([r EXCEPT !.state = "ready", !.remaining = 0,
                                       !.freshness = Cfg.coffee_freshness], FALSE, t + Tick)
         /\ \A left : r.state = "ready" /\ left = Countdown(r.freshness) =>
              /\ left > 0 => CoffeeSound([r EXCEPT !.freshness = left], running, t + Tick)
              /\ CoffeeSound([r EXCEPT !.state = "expired", !.freshness = 0], running, t + Tick)
<1>1. ASSUME NEW left, r.state = "brewing", left = Countdown(r.remaining)
      PROVE  /\ left > 0 => CoffeeSound([r EXCEPT !.remaining = left], running, t + Tick)
             /\ CoffeeSound([r EXCEPT !.state = "ready", !.remaining = 0,
                                      !.freshness = Cfg.coffee_freshness], FALSE, t + Tick)
  <2>1. left \in Nat /\ left = Larger(0, Cfg.coffee_brew - (t + Tick))
    <3>1. PICK n, total : n = r.remaining /\ total = Cfg.coffee_brew
      OBVIOUS
    <3>2. total \in Nat /\ n \in Nat /\ n > 0 /\ n = Larger(0, total - t) /\ left = Countdown(n)
      BY <1>1, <3>1, TimersPositive DEF CoffeeSound
    <3>3. left \in Nat /\ left = Larger(0, total - (t + Tick))
      BY <3>2, CountdownGoesOn
    <3> QED  BY <3>1, <3>3
  <2>2. left > 0 => CoffeeSound([r EXCEPT !.remaining = left], running, t + Tick)
    BY <1>1, <2>1 DEF CoffeeSound
  <2>3. CoffeeSound([r EXCEPT !.state = "ready", !.remaining = 0,
                              !.freshness = Cfg.coffee_freshness], FALSE, t + Tick)
    BY <1>1, TimersPositive DEF CoffeeSound
  <2> QED  BY <2>2, <2>3
<1>2. ASSUME NEW left, r.state = "ready", left = Countdown(r.freshness)
      PROVE  /\ left > 0 => CoffeeSound([r EXCEPT !.freshness = left], running, t + Tick)
             /\ CoffeeSound([r EXCEPT !.state = "expired", !.freshness = 0], running, t + Tick)
  <2>1. left \in Nat
    BY <1>2, CountdownGoesOn DEF CoffeeSound
  <2> QED  BY <1>2, <2>1 DEF CoffeeSound
<1> QED  BY <1>1, <1>2

\* The intercom, a tick later.
LEMMA IntercomTick ==
  ASSUME NEW r, NEW running \in BOOLEAN, NEW t \in Int, IntercomSound(r, running, t)
  PROVE  /\ \A n : r.state = "ringing" /\ n = r.ring + Tick =>
              /\ n < Cfg.ring_timeout => IntercomSound([r EXCEPT !.ring = n], running, t + Tick)
              /\ IntercomSound([r EXCEPT !.state = "idle", !.ring = 0], FALSE, t + Tick)
         /\ \A n : r.state = "answered" /\ n = r.answered + Tick =>
              /\ n < Cfg.answered_clear =>
                   IntercomSound([r EXCEPT !.answered = n], running, t + Tick)
              /\ IntercomSound([r EXCEPT !.state = "idle", !.answered = 0], running, t + Tick)
<1>1. ASSUME NEW n, r.state = "ringing", n = r.ring + Tick
      PROVE  /\ n < Cfg.ring_timeout => IntercomSound([r EXCEPT !.ring = n], running, t + Tick)
             /\ IntercomSound([r EXCEPT !.state = "idle", !.ring = 0], FALSE, t + Tick)
  <2>1. n \in Nat
    BY <1>1, Durations DEF IntercomSound
  <2>2. n < Cfg.ring_timeout => IntercomSound([r EXCEPT !.ring = n], running, t + Tick)
    BY <1>1, <2>1, Durations DEF IntercomSound
  <2>3. IntercomSound([r EXCEPT !.state = "idle", !.ring = 0], FALSE, t + Tick)
    BY <1>1 DEF IntercomSound
  <2> QED  BY <2>2, <2>3
<1>2. ASSUME NEW n, r.state = "answered", n = r.answered + Tick
      PROVE  /\ n < Cfg.answered_clear =>
                  IntercomSound([r EXCEPT !.answered = n], running, t + Tick)
             /\ IntercomSound([r EXCEPT !.state = "idle", !.answered = 0], running, t + Tick)
  <2>1. n \in Nat
    BY <1>2, Durations DEF IntercomSound
  <2>2. n < Cfg.answered_clear => IntercomSound([r EXCEPT !.answered = n], running, t + Tick)
    BY <1>2, <2>1 DEF IntercomSound
  <2>3. IntercomSound([r EXCEPT !.state = "idle", !.answered = 0], running, t + Tick)
    BY <1>2 DEF IntercomSound
  <2> QED  BY <2>2, <2>3
<1> QED  BY <1>1, <1>2

\* The hazard clock moves with the task, except in the guard scenario.
LEMMA StoveTick ==
  ASSUME NEW r, NEW sc, NEW running \in BOOLEAN, NEW t \in Int, StoveSound(r, sc, running, t),
         NEW n, r.state = "on",
         n = r.on + Tick \/ (sc = "unattended_stove_guard" /\ n = r.on)
  PROVE  /\ n < Cfg.stove_hazard => StoveSound([r EXCEPT !.on = n], sc, running, t + Tick)
         /\ StoveSound([r EXCEPT !.state = "off", !.level = 0, !.on = 0], sc, FALSE, t + Tick)
<1>1. n \in Nat
  BY Durations DEF StoveSound
<1>2. n < Cfg.stove_hazard => StoveSound([r EXCEPT !.on = n], sc, running, t + Tick)
  BY <1>1, Durations DEF StoveSound
<1>3. StoveSound([r EXCEPT !.state = "off", !.level = 0, !.on = 0], sc, FALSE, t + Tick)
  BY DEF StoveSound
<1> QED  BY <1>2, <1>3

\* The devices on which no task runs.
LEMMA GarageTick ==
  ASSUME NEW r, GarageSound(r), NEW left, left = Countdown(r.remaining)
  PROVE  /\ left > 0 => GarageSound([r EXCEPT !.remaining = left])
         /\ \A s \in {"open", "closed"} : GarageSound([r EXCEPT !.state = s, !.remaining = 0])
<1>1. left \in Nat
  BY CountdownGoesOn DEF GarageSound
<1> QED  BY <1>1 DEF GarageSound

\* The lock relocks itself in time.
LEMMA LockTick ==
  ASSUME NEW r, NEW sc, LockSound(r, sc), NEW n, n = r.unlocked + Tick
  PROVE  /\ n < Relock(sc) => LockSound([r EXCEPT !.unlocked = n], sc)
         /\ LockSound([r EXCEPT !.state = "locked", !.unlocked = 0], sc)
<1>1. n \in Nat
  BY Durations DEF LockSound
<1>2. n < Relock(sc) => LockSound([r EXCEPT !.unlocked = n], sc)
  BY <1>1 DEF LockSound
<1>3. LockSound([r EXCEPT !.state = "locked", !.unlocked = 0], sc)
  <2>1. ~Moves("lock", "locked", sc)
    BY DEF Moves, Supplies
  <2> QED  BY <2>1 DEF LockSound
<1> QED  BY <1>2, <1>3

\* The alarm stops ringing in time.
LEMMA AlarmTick ==
  ASSUME NEW r, AlarmSound(r), NEW n, n = r.ringing + Tick
  PROVE  /\ n < Cfg.alarm_timeout => AlarmSound([r EXCEPT !.ringing = n])
         /\ AlarmSound([r EXCEPT !.state = "idle", !.ringing = 0])
<1>1. n \in Nat
  BY Durations DEF AlarmSound
<1> QED  BY <1>1 DEF AlarmSound

\* The fridge counts how long it has been open.
LEMMA FridgeTick ==
  ASSUME NEW r, PlainSound("fridge", r), NEW n, n = r.open + Tick
  PROVE  /\ PlainSound("fridge", [r EXCEPT !.open = n, !.alarm_sent = TRUE])
         /\ PlainSound("fridge", [r EXCEPT !.open = n])
         /\ PlainSound("fridge", [r EXCEPT !.open = 0, !.alarm_sent = FALSE])
<1>1. n \in Nat
  BY Durations DEF PlainSound
<1> QED  BY <1>1 DEF PlainSound

\* The bathroom counts how long it has been occupied.
LEMMA BathroomTick ==
  ASSUME NEW r, PlainSound("bathroom", r)
  PROVE  PlainSound("bathroom", [r EXCEPT !.occupied = @ + Tick])
<1>1. r.occupied + Tick \in Nat
  BY Durations DEF PlainSound
<1> QED  BY <1>1 DEF PlainSound

\* What is consumed leaves the order as it was.
LEMMA ConsumptionSound ==
  ASSUME NEW r, SupplySound(r)
  PROVE  SupplySound(Consumed(r))
<1>1. Larger(0, r.level - Cfg.consumption_units) \in Nat
  BY TimersPositive DEF SupplySound, Larger
<1>2. PICK level \in Nat : level = Larger(0, r.level - Cfg.consumption_units)
  BY <1>1
<1>3. PICK s : s = IF level = 0 /\ r.state # "ordered" THEN "empty"
                   ELSE IF level > 0 /\ r.state = "stocked" /\ level <= Cfg.reorder_point
                        THEN "low" ELSE r.state
  OBVIOUS
<1>4. Consumed(r) = r \/ Consumed(r) = [r EXCEPT !.level = level, !.state = s]
  BY <1>2, <1>3 DEF Consumed
<1>5. s \in {"stocked", "low", "empty", "ordered"} /\ (s = "ordered" => r.state = "ordered")
  BY <1>3 DEF SupplySound
<1>6. SupplySound([r EXCEPT !.level = level, !.state = s])
  BY <1>5 DEF SupplySound
<1> QED  BY <1>4, <1>6

\* A supply's lead time runs down, or it is delivered.
LEMMA SupplyTick ==
  ASSUME NEW r, SupplySound(r), NEW left, left = Countdown(r.remaining), NEW q \in Nat
  PROVE  /\ left > 0 => SupplySound([r EXCEPT !.remaining = left])
         /\ SupplySound([r EXCEPT !.state = "stocked", !.remaining = 0, !.ordered = FALSE,
                                  !.level = Smaller(100, @ + q)])
<1>1. left \in Nat
  BY CountdownGoesOn DEF SupplySound
<1>2. Smaller(100, r.level + q) \in Nat
  BY DEF SupplySound, Smaller
<1>3. PICK n \in Nat : n = Smaller(100, r.level + q)
  BY <1>2
<1>4. left > 0 => SupplySound([r EXCEPT !.remaining = left])
  BY <1>1 DEF SupplySound
<1>5. SupplySound([r EXCEPT !.state = "stocked", !.remaining = 0, !.ordered = FALSE, !.level = n])
  BY DEF SupplySound
<1> QED  BY <1>3, <1>4, <1>5

(***************************************************************************)
(* An outside event leaves every device as it should be.                   *)
(***************************************************************************)

\* Stream s rings device d.
Rings(s, d, r) ==
  s \in {"visitor", "unauthorized_visitor"} /\ d = "intercom" /\ r.state = "idle"

\* The plain devices first.
LEMMA PlainStream ==
  ASSUME NEW s, NEW d, NEW r, PlainSound(d, r)
  PROVE  PlainSound(d, StreamDevice(s, d, r))
<1>1. CASE d = "fridge"
  <2>1. StreamDevice(s, d, r) \in {r, [r EXCEPT !.state = "open", !.open = 0]}
    BY <1>1 DEF StreamDevice
  <2>2. PlainSound(d, [r EXCEPT !.state = "open", !.open = 0])
    BY <1>1 DEF PlainSound
  <2> QED  BY <2>1, <2>2
<1>2. CASE d = "mailbox"
  <2>1. PICK n \in Nat : n = r.deliveries + 1
    BY <1>2 DEF PlainSound
  <2>2. StreamDevice(s, d, r) \in {r, [r EXCEPT !.state = "flagged", !.deliveries = n],
                                     [r EXCEPT !.state = "full", !.deliveries = n]}
    BY <1>2, <2>1 DEF StreamDevice
  <2>3. /\ PlainSound(d, [r EXCEPT !.state = "flagged", !.deliveries = n])
        /\ PlainSound(d, [r EXCEPT !.state = "full", !.deliveries = n])
    BY <1>2 DEF PlainSound
  <2> QED  BY <2>2, <2>3
<1>3. CASE d = "bathroom"
  <2>1. StreamDevice(s, d, r) \in {r, [r EXCEPT !.state = "occupied", !.occupied = 0],
                                 [r EXCEPT !.state = "vacant", !.occupied = 0]}
    BY <1>3 DEF StreamDevice
  <2>2. /\ PlainSound(d, [r EXCEPT !.state = "occupied", !.occupied = 0])
        /\ PlainSound(d, [r EXCEPT !.state = "vacant", !.occupied = 0])
    BY <1>3 DEF PlainSound
  <2> QED  BY <2>1, <2>2
<1>4. CASE d = "toilet"
  <2>1. StreamDevice(s, d, r) \in {r, [r EXCEPT !.state = "unflushed"]}
    BY <1>4 DEF StreamDevice
  <2>2. PlainSound(d, [r EXCEPT !.state = "unflushed"])
    BY <1>4 DEF PlainSound
  <2> QED  BY <2>1, <2>2
<1>5. CASE d = "paper"
  <2>1. StreamDevice(s, d, r) \in {r, [r EXCEPT !.state = "empty", !.level = 0]}
    BY <1>5 DEF StreamDevice
  <2>2. PlainSound(d, [r EXCEPT !.state = "empty", !.level = 0])
    BY <1>5 DEF PlainSound
  <2> QED  BY <2>1, <2>2
<1>6. CASE d = "media"
  <2>1. StreamDevice(s, d, r) \in {r, [r EXCEPT !.state = "playing", !.content = 3]}
    BY <1>6 DEF StreamDevice
  <2>2. PlainSound(d, [r EXCEPT !.state = "playing", !.content = 3])
    BY <1>6 DEF PlainSound
  <2> QED  BY <2>1, <2>2
<1>7. CASE d \in {"notification", "trash", "emergency"}
  <2>1. StreamDevice(s, d, r) = r
    BY <1>7 DEF StreamDevice
  <2> QED  BY <2>1
<1>8. CASE d \notin PlainDevices
  BY <1>8 DEF PlainSound, PlainDevices
<1> QED  BY <1>1, <1>2, <1>3, <1>4, <1>5, <1>6, <1>7, <1>8 DEF PlainDevices

\* An outside event leaves every device in order; a ring starts the intercom's task.
LEMMA StreamSound ==
  ASSUME NEW s, NEW d, NEW sc, NEW r, NEW running \in BOOLEAN, NEW t \in Int,
         Sound(d, sc, r, running, t)
  PROVE  Sound(d, sc, StreamDevice(s, d, r), running \/ Rings(s, d, r),
               IF Rings(s, d, r) THEN 0 ELSE t)
<1>1. CASE Rings(s, d, r)
  <2>1. StreamDevice(s, d, r) = [r EXCEPT !.state = "ringing", !.ring = 0]
    BY <1>1 DEF Rings, StreamDevice
  <2>2. IntercomSound([r EXCEPT !.state = "ringing", !.ring = 0], TRUE, 0)
    BY <1>1, TimersPositive DEF Sound, Rings, IntercomSound
  <2>3. Sound("intercom", sc, [r EXCEPT !.state = "ringing", !.ring = 0], TRUE, 0)
    BY <2>2 DEF Sound, PlainSound, TaskDevices, Supplies
  <2> QED  BY <1>1, <2>1, <2>3 DEF Rings
<1>2. CASE ~Rings(s, d, r)
  <2>1. SUFFICES Sound(d, sc, StreamDevice(s, d, r), running, t)
    BY <1>2
  <2>2. CASE StreamDevice(s, d, r) = r
    BY <2>2
  <2>3. CASE d = "washer" /\ r.state = "idle" /\ StreamDevice(s, d, r) = [r EXCEPT !.state = "loaded"]
    <3>1. Machine([r EXCEPT !.state = "loaded"], "washing", running)
      BY <2>3 DEF Sound, Machine
    <3> QED  BY <2>3, <3>1 DEF Sound, PlainSound, TaskDevices, Supplies
  <2>4. CASE d = "garage" /\ StreamDevice(s, d, r) = [r EXCEPT !.state = "open", !.remaining = 0]
    <3>1. GarageSound([r EXCEPT !.state = "open", !.remaining = 0])
      BY <2>4 DEF Sound, GarageSound
    <3> QED  BY <2>4, <3>1 DEF Sound, PlainSound, TaskDevices, Supplies
  <2>5. CASE d \in PlainDevices
    <3>1. PlainSound(d, StreamDevice(s, d, r))
      BY PlainStream DEF Sound
    <3> QED  BY <2>5, <3>1 DEF Sound, PlainDevices, TaskDevices, Supplies
  <2>6. CASE d \notin PlainDevices
    BY <1>2, <2>2, <2>3, <2>4, <2>6 DEF StreamDevice, Rings, PlainDevices
  <2> QED  BY <2>5, <2>6
<1> QED  BY <1>1, <1>2

(***************************************************************************)
(* Steps.                                                                  *)
(***************************************************************************)

\* A step touches the task of device d at most.
TaskMove(d) ==
  /\ DOMAIN tasks' \subseteq Devices
  /\ \A e \in DOMAIN tasks' : tasks'[e] \in Nat
  /\ \A e \in Devices \ {d} : /\ e \in DOMAIN tasks' <=> e \in DOMAIN tasks
                              /\ e \in DOMAIN tasks => tasks'[e] = tasks[e]

\* What starting, completing and leaving a task alone have in common.
LEMMA TaskMoves ==
  ASSUME HomeInv, NEW d \in Devices
  PROVE  /\ StartTask(d) => TaskMove(d) /\ d \in DOMAIN tasks' /\ tasks'[d] = 0
         /\ \A outcome : CompleteTask(d, outcome) => TaskMove(d) /\ d \notin DOMAIN tasks'
         /\ UNCHANGED tasks => TaskMove(d)
<1>1. DOMAIN tasks \subseteq Devices /\ \A e \in DOMAIN tasks : tasks[e] \in Nat
  BY DEF HomeInv
<1>2. StartTask(d) => TaskMove(d) /\ d \in DOMAIN tasks' /\ tasks'[d] = 0
  BY <1>1 DEF StartTask, TaskMove
<1>3. ASSUME NEW outcome, CompleteTask(d, outcome) PROVE TaskMove(d) /\ d \notin DOMAIN tasks'
  BY <1>1, <1>3 DEF CompleteTask, TaskMove, taskVars
<1>4. UNCHANGED tasks => TaskMove(d)
  BY <1>1 DEF TaskMove
<1> QED  BY <1>2, <1>3, <1>4

\* One device moves, and leaves itself as it should be.
LEMMA DeviceStep ==
  ASSUME HomeInv, DevShape, NEW d \in Devices, NEW r, dev' = [dev EXCEPT ![d] = r],
         TaskMove(d), due' = due \ {d}, UNCHANGED <<scenario, phase>>,
         Sound(d, scenario, r, d \in DOMAIN tasks', Counted(d)')
  PROVE  HomeInv'
<1>1. dev'[d] = r /\ \A e \in Devices \ {d} : dev'[e] = dev[e]
  BY DEF DevShape
<1>2. /\ DOMAIN tasks' \subseteq Devices /\ \A e \in DOMAIN tasks' : tasks'[e] \in Nat
      /\ phase' # "dynamics" => due' = {}
      /\ due' \subseteq Devices
  BY DEF TaskMove, HomeInv
<1>3. \A e \in due' : Moves(e, dev'[e].state, scenario')
  BY <1>1 DEF HomeInv
<1>4. ASSUME NEW e \in Devices
      PROVE  Sound(e, scenario', dev'[e], e \in DOMAIN tasks', Counted(e)')
  <2>1. CASE e = d
    BY <1>1, <2>1
  <2>2. CASE e # d
    <3>1. Sound(e, scenario, dev[e], e \in DOMAIN tasks, Counted(e))
      BY DEF HomeInv
    <3>2. /\ e \in DOMAIN tasks' <=> e \in DOMAIN tasks
          /\ e \in DOMAIN tasks => tasks'[e] = tasks[e]
          /\ e \in due' <=> e \in due
      BY <2>2 DEF TaskMove
    <3>3. Counted(e)' = Counted(e)
      BY <3>2 DEF Counted
    <3>4. (e \in DOMAIN tasks') = (e \in DOMAIN tasks)
      BY <3>2
    <3> QED  BY <1>1, <2>2, <3>1, <3>3, <3>4
  <2> QED  BY <2>1, <2>2
<1> QED  BY <1>2, <1>3, <1>4 DEF HomeInv

\* What is known of a device whose turn has come.
LEMMA DueDevice ==
  ASSUME HomeInv, NEW d \in due
  PROVE  /\ d \in Devices /\ Moves(d, dev[d].state, scenario)
         /\ Counted(d) \in Int
         /\ \E running \in BOOLEAN, t \in Int :
              /\ running = (d \in DOMAIN tasks) /\ t = Counted(d)
              /\ Sound(d, scenario, dev[d], running, t)
<1>1. d \in Devices /\ Moves(d, dev[d].state, scenario)
  BY DEF HomeInv
<1>2. Counted(d) \in Int
  BY Durations DEF HomeInv, Counted
<1>3. Sound(d, scenario, dev[d], d \in DOMAIN tasks, Counted(d))
  BY <1>1 DEF HomeInv
<1>4. (d \in DOMAIN tasks) \in BOOLEAN
  OBVIOUS
<1> QED  BY <1>1, <1>2, <1>3, <1>4

\* A device that moves in its turn counts the tick.
LEMMA BecomesKeeps ==
  ASSUME HomeInv, DevShape, NEW d \in due, NEW r, NEW types,
         Becomes(d, r, types, NoOutcome), NEW running \in BOOLEAN, NEW t \in Int,
         t = Counted(d), running = (d \in DOMAIN tasks),
         Sound(d, scenario, r, running, t + Tick)
  PROVE  HomeInv'
<1>1. /\ d \in Devices /\ dev' = [dev EXCEPT ![d] = r] /\ due' = due \ {d}
      /\ UNCHANGED <<scenario, phase>> /\ tasks' = tasks
  BY DueDevice DEF Becomes, outsideVars, taskVars
<1>2. TaskMove(d)
  BY <1>1, TaskMoves
<1>3. Sound(d, scenario, r, running, Counted(d)')
  <2>1. CASE running
    <3>1. Counted(d)' = t + Tick
      <4>1. /\ d \in DOMAIN tasks /\ tasks[d] \in Nat /\ d \notin due'
        BY <1>1, <2>1 DEF HomeInv
      <4>2. t = tasks[d] - Tick /\ Counted(d)' = tasks[d]
        BY <1>1, <4>1 DEF Counted
      <4> QED  BY <4>1, <4>2, Durations
    <3> QED  BY <3>1
  <2>2. CASE ~running
    BY <2>2, TimeIrrelevant
  <2> QED  BY <2>1, <2>2
<1>4. Sound(d, scenario, r, d \in DOMAIN tasks', Counted(d)')
  BY <1>1, <1>3
<1> QED  BY <1>1, <1>2, <1>4, DeviceStep

\* If it completes its task, there is no time to tell any more.
LEMMA FinishKeeps ==
  ASSUME HomeInv, DevShape, NEW d \in due, NEW r, NEW types, NEW outcome, NEW u,
         Becomes(d, r, types, outcome), outcome # NoOutcome, Sound(d, scenario, r, FALSE, u)
  PROVE  HomeInv'
<1>1. /\ d \in Devices /\ dev' = [dev EXCEPT ![d] = r] /\ due' = due \ {d}
      /\ UNCHANGED <<scenario, phase>> /\ CompleteTask(d, outcome)
  BY DueDevice DEF Becomes, outsideVars
<1>2. TaskMove(d) /\ d \notin DOMAIN tasks'
  BY <1>1, TaskMoves
<1>3. Sound(d, scenario, r, FALSE, Counted(d)')
  BY TimeIrrelevant
<1>4. (d \in DOMAIN tasks') = FALSE
  BY <1>2
<1>5. Sound(d, scenario, r, d \in DOMAIN tasks', Counted(d)')
  BY <1>3, <1>4
<1> QED  BY <1>1, <1>2, <1>5, DeviceStep

\* Sound, device by device.
LEMMA SoundIs ==
  ASSUME NEW sc, NEW r, NEW running \in BOOLEAN, NEW t
  PROVE  /\ Sound("washer", sc, r, running, t) <=>
              Machine(r, "washing", running)
         /\ Sound("dishwasher", sc, r, running, t) <=>
              Machine(r, "running", running)
         /\ Sound("vacuum", sc, r, running, t) <=> VacuumSound(r, running, t)
         /\ Sound("intercom", sc, r, running, t) <=> IntercomSound(r, running, t)
         /\ Sound("stove", sc, r, running, t) <=> StoveSound(r, sc, running, t)
         /\ Sound("coffee", sc, r, running, t) <=> CoffeeSound(r, running, t)
         /\ Sound("garage", sc, r, running, t) <=> GarageSound(r) /\ ~running
         /\ Sound("lock", sc, r, running, t) <=> LockSound(r, sc) /\ ~running
         /\ Sound("alarm", sc, r, running, t) <=> AlarmSound(r) /\ ~running
         /\ Sound("fridge", sc, r, running, t) <=> PlainSound("fridge", r) /\ ~running
         /\ Sound("bathroom", sc, r, running, t) <=> PlainSound("bathroom", r) /\ ~running
         /\ \A d \in Supplies : Sound(d, sc, r, running, t) <=> SupplySound(r) /\ ~running
<1>1. \A d \in TaskDevices \cup Supplies \cup {"garage", "lock", "alarm"} : PlainSound(d, r)
  BY DEF PlainSound, TaskDevices, Supplies
<1> QED  BY <1>1 DEF Sound, TaskDevices, Supplies

\* The turn of a machine keeps the household in order.
LEMMA CycleKeeps ==
  ASSUME HomeInv, DevShape, Washer \/ Dishwasher
  PROVE  HomeInv'
<1>1. PICK d, finished : d \in {"washer", "dishwasher"} /\ Cycle(d, finished)
  BY DEF Washer, Dishwasher
<1>2. PICK busy : \/ d = "washer" /\ busy = "washing"
                  \/ d = "dishwasher" /\ busy = "running"
  BY <1>1
<1>3. d \in due
  BY <1>1 DEF Cycle, Turn
<1>4. PICK running \in BOOLEAN, t \in Int :
        /\ running = (d \in DOMAIN tasks) /\ t = Counted(d)
        /\ Sound(d, scenario, dev[d], running, t)
  BY <1>3, DueDevice
<1>5. PICK r, left : r = dev[d] /\ left = Countdown(r.remaining)
  OBVIOUS
<1>6. r.state = busy
  BY <1>2, <1>3, <1>5, DueDevice DEF Moves, Supplies
<1>7. busy \notin {"idle", "loaded", "done"}
  BY <1>2
<1>8. Machine(r, busy, running)
  <2>1. CASE d = "washer"
    <3>1. Sound("washer", scenario, r, running, t)
      BY <1>4, <1>5, <2>1
    <3>2. Machine(r, "washing", running)
      BY <3>1, SoundIs
    <3> QED  BY <1>2, <2>1, <3>2
  <2>2. CASE d = "dishwasher"
    <3>1. Sound("dishwasher", scenario, r, running, t)
      BY <1>4, <1>5, <2>2
    <3>2. Machine(r, "running", running)
      BY <3>1, SoundIs
    <3> QED  BY <1>2, <2>2, <3>2
  <2> QED  BY <1>1, <2>1, <2>2
<1>9. /\ left > 0 => Machine([r EXCEPT !.remaining = left], busy, running)
      /\ Machine([r EXCEPT !.state = "done", !.remaining = 0], busy, FALSE)
  BY <1>5, <1>6, <1>7, <1>8, MachineTick
<1>10. CASE left > 0 /\ Becomes(d, [r EXCEPT !.remaining = left], <<>>, NoOutcome)
  <2>1. Sound(d, scenario, [r EXCEPT !.remaining = left], running, t + Tick)
    BY <1>2, <1>9, <1>10, SoundIs
  <2> QED  BY <1>3, <1>4, <1>10, <2>1, BecomesKeeps
<1>11. CASE Becomes(d, [r EXCEPT !.state = "done", !.remaining = 0], <<finished>>,
                    "cycle_finished")
  <2>1. Sound(d, scenario, [r EXCEPT !.state = "done", !.remaining = 0], FALSE, t + Tick)
    BY <1>2, <1>9, SoundIs
  <2>2. "cycle_finished" # NoOutcome
    BY DEF NoOutcome
  <2> QED  BY <1>3, <1>11, <2>1, <2>2, FinishKeeps
<1> QED  BY <1>1, <1>5, <1>10, <1>11 DEF Cycle

\* The turn of the vacuum.
LEMMA VacuumKeeps ==
  ASSUME HomeInv, DevShape, VacuumCleans \/ VacuumReturns \/ VacuumCharges
  PROVE  HomeInv'
<1>1. "vacuum" \in due
  BY DEF VacuumCleans, VacuumReturns, VacuumCharges, Turn
<1>2. PICK running \in BOOLEAN, t \in Int :
        /\ running = ("vacuum" \in DOMAIN tasks) /\ t = Counted("vacuum")
        /\ Sound("vacuum", scenario, dev["vacuum"], running, t)
  BY <1>1, DueDevice
<1>3. PICK r, left : r = dev["vacuum"] /\ left = Countdown(r.remaining)
  OBVIOUS
<1>4. VacuumSound(r, running, t)
  BY <1>2, <1>3, SoundIs
<1>5. ASSUME NEW q, NEW types, Becomes("vacuum", q, types, NoOutcome),
             VacuumSound(q, running, t + Tick)
      PROVE  HomeInv'
  <2>1. Sound("vacuum", scenario, q, running, t + Tick)
    BY <1>5, SoundIs
  <2> QED  BY <1>1, <1>2, <1>5, <2>1, BecomesKeeps
<1>6. CASE VacuumCleans
  <2>1. PICK charge : charge = Larger(0, r.battery - Cfg.vacuum_drain)
    OBVIOUS
  <2>2. charge \in Nat
    BY <1>4, <2>1, TimersPositive DEF VacuumSound, Larger
  <2>3. r.state = "cleaning"
    BY <1>3, <1>6 DEF VacuumCleans
  <2>4. /\ left > 0 => VacuumSound([r EXCEPT !.battery = charge, !.remaining = left],
                                   running, t + Tick)
        /\ VacuumSound([[r EXCEPT !.battery = charge, !.remaining = left]
                          EXCEPT !.state = "returning", !.remaining = Cfg.vacuum_return],
                       running, t + Tick)
    <3>1. VacuumSound(r, running, t) /\ left = Countdown(r.remaining)
      BY <1>3, <1>4
    <3>2. /\ r.state = "cleaning" =>
               /\ left > 0 => VacuumSound([r EXCEPT !.battery = charge, !.remaining = left],
                                          running, t + Tick)
               /\ VacuumSound([[r EXCEPT !.battery = charge, !.remaining = left]
                                 EXCEPT !.state = "returning", !.remaining = Cfg.vacuum_return],
                              running, t + Tick)
      BY <2>2, <3>1, VacuumTick
    <3> QED  BY <2>3, <3>2
  <2>5. \E types :
          \/ Becomes("vacuum", [[r EXCEPT !.battery = charge, !.remaining = left]
                          EXCEPT !.state = "returning", !.remaining = Cfg.vacuum_return],
                     types, NoOutcome)
          \/ left > 0 /\ Becomes("vacuum", [r EXCEPT !.battery = charge, !.remaining = left],
                                 types, NoOutcome)
    BY <1>3, <1>6, <2>1 DEF VacuumCleans
  <2> QED  BY <1>5, <2>4, <2>5
<1>7. CASE VacuumReturns
  <2>1. r.state = "returning"
    BY <1>3, <1>7 DEF VacuumReturns
  <2>2. /\ left > 0 => VacuumSound([r EXCEPT !.remaining = left], running, t + Tick)
        /\ VacuumSound([r EXCEPT !.state = "docked", !.remaining = 0], FALSE, t + Tick)
    BY <1>3, <1>4, <2>1, VacuumTick
  <2>3. CASE left > 0 /\ Becomes("vacuum", [r EXCEPT !.remaining = left], <<>>, NoOutcome)
    BY <1>5, <2>2, <2>3
  <2>4. CASE Becomes("vacuum", [r EXCEPT !.state = "docked", !.remaining = 0],
                     <<"vacuum_docked">>, "docked")
    <3>1. Sound("vacuum", scenario, [r EXCEPT !.state = "docked", !.remaining = 0], FALSE, t + Tick)
      BY <2>2, SoundIs
    <3>2. "docked" # NoOutcome
      BY DEF NoOutcome
    <3> QED  BY <1>1, <2>4, <3>1, <3>2, FinishKeeps
  <2> QED  BY <1>3, <1>7, <2>3, <2>4 DEF VacuumReturns
<1>8. CASE VacuumCharges
  <2>1. PICK charge : charge = Smaller(100, r.battery + Cfg.vacuum_charge)
    OBVIOUS
  <2>2. charge \in Nat
    BY <1>4, <2>1, TimersPositive DEF VacuumSound, Smaller
  <2>3. r.state = "docked"
    BY <1>3, <1>8 DEF VacuumCharges
  <2>4. VacuumSound([r EXCEPT !.battery = charge], running, t + Tick)
    BY <1>3, <1>4, <2>2, <2>3, VacuumTick
  <2>5. Becomes("vacuum", [r EXCEPT !.battery = charge], <<>>, NoOutcome)
    BY <1>3, <1>8, <2>1 DEF VacuumCharges
  <2> QED  BY <1>5, <2>4, <2>5
<1> QED  BY <1>6, <1>7, <1>8

\* The turn of the coffee maker.
LEMMA CoffeeKeeps ==
  ASSUME HomeInv, DevShape, CoffeeBrews \/ CoffeeCools
  PROVE  HomeInv'
<1>1. "coffee" \in due
  BY DEF CoffeeBrews, CoffeeCools, Turn
<1>2. PICK running \in BOOLEAN, t \in Int :
        /\ running = ("coffee" \in DOMAIN tasks) /\ t = Counted("coffee")
        /\ Sound("coffee", scenario, dev["coffee"], running, t)
  BY <1>1, DueDevice
<1>3. PICK r : r = dev["coffee"]
  OBVIOUS
<1>4. CoffeeSound(r, running, t)
  BY <1>2, <1>3, SoundIs
<1>5. ASSUME NEW q, NEW types, Becomes("coffee", q, types, NoOutcome),
             CoffeeSound(q, running, t + Tick)
      PROVE  HomeInv'
  <2>1. Sound("coffee", scenario, q, running, t + Tick)
    BY <1>5, SoundIs
  <2> QED  BY <1>1, <1>2, <1>5, <2>1, BecomesKeeps
<1>6. CASE CoffeeBrews
  <2>1. PICK left : left = Countdown(r.remaining)
    OBVIOUS
  <2>2. r.state = "brewing"
    BY <1>3, <1>6 DEF CoffeeBrews
  <2>3. /\ left > 0 => CoffeeSound([r EXCEPT !.remaining = left], running, t + Tick)
        /\ CoffeeSound([r EXCEPT !.state = "ready", !.remaining = 0,
                                 !.freshness = Cfg.coffee_freshness], FALSE, t + Tick)
    BY <1>4, <2>1, <2>2, CoffeeTick
  <2>4. CASE left > 0 /\ Becomes("coffee", [r EXCEPT !.remaining = left], <<>>, NoOutcome)
    BY <1>5, <2>3, <2>4
  <2>5. CASE Becomes("coffee", [r EXCEPT !.state = "ready", !.remaining = 0,
                                         !.freshness = Cfg.coffee_freshness],
                     <<"coffee_ready">>, "ready")
    <3>1. Sound("coffee", scenario, [r EXCEPT !.state = "ready", !.remaining = 0,
                                     !.freshness = Cfg.coffee_freshness], FALSE, t + Tick)
      BY <2>3, SoundIs
    <3>2. "ready" # NoOutcome
      BY DEF NoOutcome
    <3> QED  BY <1>1, <2>5, <3>1, <3>2, FinishKeeps
  <2> QED  BY <1>3, <1>6, <2>1, <2>4, <2>5 DEF CoffeeBrews
<1>7. CASE CoffeeCools
  <2>1. PICK left : left = Countdown(r.freshness)
    OBVIOUS
  <2>2. r.state = "ready"
    BY <1>3, <1>7 DEF CoffeeCools
  <2>3. /\ left > 0 => CoffeeSound([r EXCEPT !.freshness = left], running, t + Tick)
        /\ CoffeeSound([r EXCEPT !.state = "expired", !.freshness = 0], running, t + Tick)
    BY <1>4, <2>1, <2>2, CoffeeTick
  <2>4. \E types : \/ left > 0 /\ Becomes("coffee", [r EXCEPT !.freshness = left], types, NoOutcome)
                   \/ Becomes("coffee", [r EXCEPT !.state = "expired", !.freshness = 0],
                              types, NoOutcome)
    BY <1>3, <1>7, <2>1 DEF CoffeeCools
  <2> QED  BY <1>5, <2>3, <2>4
<1> QED  BY <1>6, <1>7

\* The turn of the intercom.
LEMMA IntercomKeeps ==
  ASSUME HomeInv, DevShape, IntercomRings \/ IntercomAnswered
  PROVE  HomeInv'
<1>1. "intercom" \in due
  BY DEF IntercomRings, IntercomAnswered, Turn
<1>2. PICK running \in BOOLEAN, t \in Int :
        /\ running = ("intercom" \in DOMAIN tasks) /\ t = Counted("intercom")
        /\ Sound("intercom", scenario, dev["intercom"], running, t)
  BY <1>1, DueDevice
<1>3. PICK r : r = dev["intercom"]
  OBVIOUS
<1>4. IntercomSound(r, running, t)
  BY <1>2, <1>3, SoundIs
<1>5. ASSUME NEW q, NEW types, Becomes("intercom", q, types, NoOutcome),
             IntercomSound(q, running, t + Tick)
      PROVE  HomeInv'
  <2>1. Sound("intercom", scenario, q, running, t + Tick)
    BY <1>5, SoundIs
  <2> QED  BY <1>1, <1>2, <1>5, <2>1, BecomesKeeps
<1>6. CASE IntercomRings
  <2>1. PICK n : n = r.ring + Tick
    OBVIOUS
  <2>2. r.state = "ringing"
    BY <1>3, <1>6 DEF IntercomRings
  <2>3. /\ n < Cfg.ring_timeout => IntercomSound([r EXCEPT !.ring = n], running, t + Tick)
        /\ IntercomSound([r EXCEPT !.state = "idle", !.ring = 0], FALSE, t + Tick)
    BY <1>4, <2>1, <2>2, IntercomTick
  <2>4. CASE n < Cfg.ring_timeout /\ Becomes("intercom", [r EXCEPT !.ring = n], <<>>, NoOutcome)
    BY <1>5, <2>3, <2>4
  <2>5. CASE Becomes("intercom", [r EXCEPT !.state = "idle", !.ring = 0],
                     <<"visitor_missed">>, "missed")
    <3>1. Sound("intercom", scenario, [r EXCEPT !.state = "idle", !.ring = 0], FALSE, t + Tick)
      BY <2>3, SoundIs
    <3>2. "missed" # NoOutcome
      BY DEF NoOutcome
    <3> QED  BY <1>1, <2>5, <3>1, <3>2, FinishKeeps
  <2> QED  BY <1>3, <1>6, <2>1, <2>4, <2>5 DEF IntercomRings
<1>7. CASE IntercomAnswered
  <2>1. PICK n : n = r.answered + Tick
    OBVIOUS
  <2>2. r.state = "answered"
    BY <1>3, <1>7 DEF IntercomAnswered
  <2>3. /\ n < Cfg.answered_clear =>
             IntercomSound([r EXCEPT !.answered = n], running, t + Tick)
        /\ IntercomSound([r EXCEPT !.state = "idle", !.answered = 0], running, t + Tick)
    BY <1>4, <2>1, <2>2, IntercomTick
  <2>4. \E types : \/ /\ n < Cfg.answered_clear
                      /\ Becomes("intercom", [r EXCEPT !.answered = n], types, NoOutcome)
                   \/ Becomes("intercom", [r EXCEPT !.state = "idle", !.answered = 0],
                              types, NoOutcome)
    BY <1>3, <1>7, <2>1 DEF IntercomAnswered
  <2> QED  BY <1>5, <2>3, <2>4
<1> QED  BY <1>6, <1>7

\* The turn of the stove.
LEMMA StoveKeeps ==
  ASSUME HomeInv, DevShape, Stove
  PROVE  HomeInv'
<1>1. "stove" \in due
  BY DEF Stove, Turn
<1>2. PICK running \in BOOLEAN, t \in Int :
        /\ running = ("stove" \in DOMAIN tasks) /\ t = Counted("stove")
        /\ Sound("stove", scenario, dev["stove"], running, t)
  BY <1>1, DueDevice
<1>3. PICK r, sc : r = dev["stove"] /\ sc = scenario
  OBVIOUS
<1>4. StoveSound(r, sc, running, t)
  BY <1>2, <1>3, SoundIs
<1>5. r.state = "on"
  BY <1>1, <1>3, DueDevice DEF Moves, Supplies
<1>6. PICK ticking : ticking = (scenario # "unattended_stove_guard" \/ ~household.attended)
  OBVIOUS
<1>7. PICK n : n = IF ticking THEN r.on + Tick ELSE r.on
  OBVIOUS
<1>8. n = r.on + Tick \/ (sc = "unattended_stove_guard" /\ n = r.on)
  BY <1>3, <1>6, <1>7
<1>9. /\ n < Cfg.stove_hazard => StoveSound([r EXCEPT !.on = n], sc, running, t + Tick)
      /\ StoveSound([r EXCEPT !.state = "off", !.level = 0, !.on = 0], sc, FALSE, t + Tick)
  BY <1>4, <1>5, <1>8, StoveTick
<1>10. CASE ~(ticking /\ n >= Cfg.stove_hazard) /\ Becomes("stove", [r EXCEPT !.on = n], <<>>, NoOutcome)
  <2>1. n < Cfg.stove_hazard
    <3>1. r.on \in Nat /\ r.on < Cfg.stove_hazard /\ Cfg.stove_hazard \in Nat
      BY <1>4, <1>5, TimersPositive DEF StoveSound
    <3> QED  BY <1>7, <1>10, <3>1, Durations
  <2>2. Sound("stove", scenario, [r EXCEPT !.on = n], running, t + Tick)
    BY <1>3, <1>9, <2>1, SoundIs
  <2> QED  BY <1>1, <1>2, <1>10, <2>2, BecomesKeeps
<1>11. CASE Becomes("stove", [r EXCEPT !.state = "off", !.level = 0, !.on = 0],
                    <<"stove_hazard_shutoff">>, "safety_shutoff")
  <2>1. Sound("stove", scenario, [r EXCEPT !.state = "off", !.level = 0, !.on = 0], FALSE, t + Tick)
    BY <1>3, <1>9, SoundIs
  <2>2. "safety_shutoff" # NoOutcome
    BY DEF NoOutcome
  <2> QED  BY <1>1, <1>11, <2>1, <2>2, FinishKeeps
<1> QED  BY <1>3, <1>6, <1>7, <1>10, <1>11 DEF Stove

\* A device without a task keeps to its own part of Sound.
LEMMA TimerKeeps ==
  ASSUME HomeInv, DevShape, NEW d \in due, NEW r, NEW types, Becomes(d, r, types, NoOutcome),
         \/ d = "garage" /\ GarageSound(r)
         \/ d = "lock" /\ LockSound(r, scenario)
         \/ d = "alarm" /\ AlarmSound(r)
         \/ d \in {"fridge", "bathroom"} /\ PlainSound(d, r)
         \/ d \in Supplies /\ SupplySound(r)
  PROVE  HomeInv'
<1>1. PICK running \in BOOLEAN, t \in Int :
        /\ running = (d \in DOMAIN tasks) /\ t = Counted(d)
        /\ Sound(d, scenario, dev[d], running, t)
  BY DueDevice
<1>2. ~running
  <2>1. d \notin TaskDevices
    BY DEF TaskDevices, Supplies
  <2> QED  BY <1>1, <2>1 DEF Sound
<1>3. Sound(d, scenario, r, running, t + Tick)
  BY <1>2, SoundIs DEF Supplies
<1> QED  BY <1>1, <1>3, BecomesKeeps

\* The turns of garage door and lock.
LEMMA DoorsKeep ==
  ASSUME HomeInv, DevShape, Garage \/ Lock
  PROVE  HomeInv'
<1>1. CASE Garage
  <2>1. "garage" \in due
    BY <1>1 DEF Garage, Turn
  <2>2. PICK r, left, s : /\ r = dev["garage"] /\ left = Countdown(r.remaining)
                          /\ s = IF r.state = "opening" THEN "open" ELSE "closed"
    OBVIOUS
  <2>3. GarageSound(r)
    BY <2>1, <2>2, DueDevice DEF Sound
  <2>4. /\ left > 0 => GarageSound([r EXCEPT !.remaining = left])
        /\ GarageSound([r EXCEPT !.state = s, !.remaining = 0])
    BY <2>2, <2>3, GarageTick
  <2>5. \E types :
          \/ left > 0 /\ Becomes("garage", [r EXCEPT !.remaining = left], types, NoOutcome)
          \/ Becomes("garage", [r EXCEPT !.state = s, !.remaining = 0], types, NoOutcome)
    BY <1>1, <2>2 DEF Garage
  <2> QED  BY <2>1, <2>4, <2>5, TimerKeeps
<1>2. CASE Lock
  <2>1. "lock" \in due
    BY <1>2 DEF Lock, Turn
  <2>2. PICK r, n, sc : r = dev["lock"] /\ n = r.unlocked + Tick /\ sc = scenario
    OBVIOUS
  <2>3. LockSound(r, sc)
    BY <2>1, <2>2, DueDevice DEF Sound
  <2>4. /\ n < Relock(sc) => LockSound([r EXCEPT !.unlocked = n], sc)
        /\ LockSound([r EXCEPT !.state = "locked", !.unlocked = 0], sc)
    BY <2>2, <2>3, LockTick
  <2>5. \E types :
          \/ n < Relock(sc) /\ Becomes("lock", [r EXCEPT !.unlocked = n], types, NoOutcome)
          \/ Becomes("lock", [r EXCEPT !.state = "locked", !.unlocked = 0], types, NoOutcome)
    BY <1>2, <2>2 DEF Lock, RelockSeconds, Relock
  <2> QED  BY <2>1, <2>2, <2>4, <2>5, TimerKeeps
<1> QED  BY <1>1, <1>2

\* The turns of fridge, bathroom and alarm.
LEMMA RoomsKeep ==
  ASSUME HomeInv, DevShape, Fridge \/ Bathroom \/ Alarm
  PROVE  HomeInv'
<1>1. CASE Fridge
  <2>1. "fridge" \in due
    BY <1>1 DEF Fridge, Turn
  <2>2. PICK r, n : r = dev["fridge"] /\ n = r.open + Tick
    OBVIOUS
  <2>3. PlainSound("fridge", r)
    BY <2>1, <2>2, DueDevice DEF Sound
  <2>4. /\ PlainSound("fridge", [r EXCEPT !.open = n, !.alarm_sent = TRUE])
        /\ PlainSound("fridge", [r EXCEPT !.open = n])
        /\ PlainSound("fridge", [r EXCEPT !.open = 0, !.alarm_sent = FALSE])
    BY <2>2, <2>3, FridgeTick
  <2>5. \E types :
          \/ Becomes("fridge", [r EXCEPT !.open = n, !.alarm_sent = TRUE], types, NoOutcome)
          \/ Becomes("fridge", [r EXCEPT !.open = n], types, NoOutcome)
          \/ Becomes("fridge", [r EXCEPT !.open = 0, !.alarm_sent = FALSE], types, NoOutcome)
    BY <1>1, <2>2 DEF Fridge
  <2> QED  BY <2>1, <2>4, <2>5, TimerKeeps
<1>2. CASE Bathroom
  <2>1. "bathroom" \in due
    BY <1>2 DEF Bathroom, Turn
  <2>2. PICK r, q : r = dev["bathroom"] /\ q = [r EXCEPT !.occupied = @ + Tick]
    OBVIOUS
  <2>3. PlainSound("bathroom", r)
    BY <2>1, <2>2, DueDevice DEF Sound
  <2>4. PlainSound("bathroom", q)
    BY <2>2, <2>3, BathroomTick
  <2>5. Becomes("bathroom", q, <<>>, NoOutcome)
    BY <1>2, <2>2 DEF Bathroom
  <2> QED  BY <2>1, <2>4, <2>5, TimerKeeps
<1>3. CASE Alarm
  <2>1. "alarm" \in due
    BY <1>3 DEF Alarm, Turn
  <2>2. PICK r, n : r = dev["alarm"] /\ n = r.ringing + Tick
    OBVIOUS
  <2>3. AlarmSound(r)
    BY <2>1, <2>2, DueDevice DEF Sound
  <2>4. /\ n < Cfg.alarm_timeout => AlarmSound([r EXCEPT !.ringing = n])
        /\ AlarmSound([r EXCEPT !.state = "idle", !.ringing = 0])
    BY <2>2, <2>3, AlarmTick
  <2>5. \E types :
          \/ n < Cfg.alarm_timeout /\ Becomes("alarm", [r EXCEPT !.ringing = n], types, NoOutcome)
          \/ Becomes("alarm", [r EXCEPT !.state = "idle", !.ringing = 0], types, NoOutcome)
    BY <1>3, <2>2 DEF Alarm
  <2> QED  BY <2>1, <2>4, <2>5, TimerKeeps
<1> QED  BY <1>1, <1>2, <1>3

(***************************************************************************)
(* Sessions and orders.                                                    *)
(***************************************************************************)

Order == [status : {"none", "accepted", "delivered"}, quantity : Nat, remaining : Nat]

Session  == {"none", "active", "inactive"}
Sessions == [garage_access : {"none", "opening", "open", "closed", "reclosing"},
             resident_entry : Session, vehicle_entry : Session, television_curfew : Session,
             departure : Session, shower : Session]

\* The household's books have the form they were given at reset.
Works == [sessions : Sessions, orders : [Supplies -> Order],
          occurrence : {"none", "due", "completed"}, visitors : Seq({"known", "unknown"})]

WorkTyped == workflow \in Works

\* The turn of a supply; a delivery adds what its order is for.
LEMMA SupplyKeeps ==
  ASSUME HomeInv, DevShape, WorkTyped, NEW d \in Supplies, Supply(d)
  PROVE  HomeInv'
<1>1. d \in due
  BY DEF Supply, Turn
<1>2. PICK r, left, q : /\ r = Consumed(dev[d]) /\ left = Countdown(r.remaining)
                        /\ q = workflow.orders[d].quantity
  OBVIOUS
<1>3. SupplySound(r)
  BY <1>1, <1>2, DueDevice, ConsumptionSound DEF Sound
<1>4. q \in Nat
  BY <1>2 DEF WorkTyped, Works, Order
<1>5. /\ left > 0 => SupplySound([r EXCEPT !.remaining = left])
      /\ SupplySound([r EXCEPT !.state = "stocked", !.remaining = 0, !.ordered = FALSE,
                               !.level = Smaller(100, @ + q)])
  BY <1>2, <1>3, <1>4, SupplyTick
<1>6. \E types :
        \/ Becomes(d, r, types, NoOutcome)
        \/ left > 0 /\ Becomes(d, [r EXCEPT !.remaining = left], types, NoOutcome)
        \/ Becomes(d, [r EXCEPT !.state = "stocked", !.remaining = 0, !.ordered = FALSE,
                                !.level = Smaller(100, @ + q)], types, NoOutcome)
  BY <1>2 DEF Supply
<1> QED  BY <1>1, <1>3, <1>5, <1>6, TimerKeeps

(***************************************************************************)
(* Commands, outside events and clocks.                                    *)
(***************************************************************************)

\* Outside the dynamics a device is known as one in its turn is.
LEMMA RestingDevice ==
  ASSUME HomeInv, phase # "dynamics", NEW d \in Devices
  PROVE  \E running \in BOOLEAN, t \in Int :
           /\ running = (d \in DOMAIN tasks)
           /\ t = IF running THEN tasks[d] ELSE 0
           /\ Sound(d, scenario, dev[d], running, t)
<1>1. due = {} /\ \A e \in DOMAIN tasks : tasks[e] \in Nat
  BY DEF HomeInv
<1>2. Sound(d, scenario, dev[d], d \in DOMAIN tasks, Counted(d))
  BY DEF HomeInv
<1>3. CASE d \in DOMAIN tasks
  <2>1. tasks[d] \in Int /\ Counted(d) = tasks[d] /\ (d \in DOMAIN tasks) = TRUE
    BY <1>1, <1>3 DEF Counted
  <2>2. PICK running \in BOOLEAN, t \in Int : running = TRUE /\ t = tasks[d]
    BY <2>1
  <2>3. running = (d \in DOMAIN tasks) /\ t = IF running THEN tasks[d] ELSE 0
    BY <2>1, <2>2
  <2>4. Sound(d, scenario, dev[d], running, t)
    BY <1>2, <2>1, <2>2
  <2> QED  BY <2>3, <2>4
<1>4. CASE d \notin DOMAIN tasks
  <2>1. Counted(d) = 0 /\ (d \in DOMAIN tasks) = FALSE
    BY <1>4 DEF Counted
  <2>2. PICK running \in BOOLEAN : running = FALSE
    OBVIOUS
  <2>3. PICK t \in Int : t = 0
    OBVIOUS
  <2>4. running = (d \in DOMAIN tasks) /\ t = IF running THEN tasks[d] ELSE 0
    BY <2>1, <2>2, <2>3
  <2>5. Sound(d, scenario, dev[d], running, t)
    BY <1>2, <2>1, <2>2, <2>3
  <2> QED  BY <2>4, <2>5
<1> QED  BY <1>3, <1>4

\* A legal command keeps the household in order.
LEMMA CommandKeeps ==
  ASSUME HomeInv, DevShape, phase # "dynamics", NEW c \in Command, StaticOk(c),
         dev[c.device].state \in Required[c.device][c.op], ApplyCommand(c),
         UNCHANGED <<scenario, phase, due>>
  PROVE  HomeInv'
<1>1. PICK d : d = c.device
  OBVIOUS
<1>2. d \in Devices /\ due = {}
  BY <1>1 DEF Command, HomeInv
<1>3. PICK r, q : r = dev[d] /\ q = Applied(c, r)
  OBVIOUS
<1>4. dev' = [dev EXCEPT ![d] = q]
  BY <1>1, <1>3 DEF ApplyCommand
<1>5. IF StartsTask(c) THEN StartTask(d)
      ELSE IF EndsTask(c) # NoOutcome THEN CompleteTask(d, EndsTask(c))
      ELSE UNCHANGED taskVars
  BY <1>1 DEF ApplyCommand
<1>6. PICK running \in BOOLEAN, t \in Int :
        /\ running = (d \in DOMAIN tasks)
        /\ t = IF running THEN tasks[d] ELSE 0
        /\ Sound(d, scenario, r, running, t)
  BY <1>2, <1>3, RestingDevice
<1>7. Sound(d, scenario, q, RunsAfter(c, running), TimeAfter(c, t))
  BY <1>1, <1>3, <1>6, CommandSound
<1>8. /\ TaskMove(d)
      /\ (d \in DOMAIN tasks') = RunsAfter(c, running)
      /\ d \in DOMAIN tasks' => tasks'[d] = TimeAfter(c, t)
  <2>1. CASE StartsTask(c)
    BY <1>2, <1>5, <2>1, TaskMoves DEF RunsAfter, TimeAfter
  <2>2. CASE ~StartsTask(c) /\ EndsTask(c) # NoOutcome
    BY <1>2, <1>5, <2>2, TaskMoves DEF RunsAfter, TimeAfter
  <2>3. CASE ~StartsTask(c) /\ EndsTask(c) = NoOutcome
    BY <1>2, <1>5, <1>6, <2>3, TaskMoves DEF RunsAfter, TimeAfter, taskVars
  <2> QED  BY <2>1, <2>2, <2>3
<1>9. Sound(d, scenario, q, d \in DOMAIN tasks', Counted(d)')
  <2>1. PICK after \in BOOLEAN : after = RunsAfter(c, running)
    BY DEF RunsAfter
  <2>2. CASE after
    <3>1. Counted(d)' = TimeAfter(c, t)
      BY <1>2, <1>8, <2>1, <2>2 DEF Counted
    <3> QED  BY <1>7, <1>8, <3>1
  <2>3. CASE ~after
    <3>1. Sound(d, scenario, q, after, Counted(d)')
      BY <1>7, <2>1, <2>3, TimeIrrelevant
    <3> QED  BY <1>8, <2>1, <3>1
  <2> QED  BY <2>2, <2>3
<1> QED  BY <1>2, <1>4, <1>8, <1>9, DeviceStep

\* An outside event keeps the household in order.
LEMMA StreamKeeps ==
  ASSUME HomeInv, NEW s \in Streams, Exogenous(s)
  PROVE  HomeInv'
<1>1. /\ phase = "exogenous" /\ due = {} /\ UNCHANGED <<scenario, phase, due>>
      /\ dev' = StreamDevices(s, dev)
      /\ IF StreamStartsTask(s, dev) THEN StartTask("intercom") ELSE UNCHANGED tasks
  BY DEF Exogenous, HomeInv, taskVars
<1>2. DOMAIN tasks \subseteq Devices /\ \A d \in DOMAIN tasks : tasks[d] \in Nat
  BY DEF HomeInv
<1>3. DOMAIN tasks' \subseteq Devices /\ \A d \in DOMAIN tasks' : tasks'[d] \in Nat
  BY <1>1, <1>2 DEF StartTask, StreamStartsTask, At
<1>4. ASSUME NEW d \in Devices
      PROVE  Sound(d, scenario', dev'[d], d \in DOMAIN tasks', Counted(d)')
  <2>0. PICK r : r = dev[d]
    OBVIOUS
  <2>1. PICK rings \in BOOLEAN : rings = Rings(s, d, r)
    BY DEF Rings
  <2>2. PICK running \in BOOLEAN, t \in Int :
          /\ running = (d \in DOMAIN tasks)
          /\ t = IF running THEN tasks[d] ELSE 0
          /\ Sound(d, scenario, r, running, t)
    BY <1>1, <2>0, RestingDevice
  <2>3. Sound(d, scenario, StreamDevice(s, d, r), running \/ rings, IF rings THEN 0 ELSE t)
    BY <2>1, <2>2, StreamSound
  <2>4. dev'[d] = StreamDevice(s, d, r)
    BY <1>1, <2>0 DEF StreamDevices
  <2>5. rings => d = "intercom" /\ StreamStartsTask(s, dev)
    BY <2>0, <2>1 DEF Rings, StreamStartsTask, At
  <2>6. d = "intercom" /\ StreamStartsTask(s, dev) => rings
    BY <2>0, <2>1 DEF Rings, StreamStartsTask, At
  <2>7. (d \in DOMAIN tasks') = (running \/ rings)
    <3>1. CASE StreamStartsTask(s, dev)
      <4>1. DOMAIN tasks' = DOMAIN tasks \cup {"intercom"}
        BY <1>1, <3>1 DEF StartTask
      <4>2. rings <=> d = "intercom"
        BY <2>5, <2>6, <3>1
      <4>3. d \in DOMAIN tasks' <=> running \/ rings
        BY <2>2, <4>1, <4>2
      <4> QED  BY <4>3
    <3>2. CASE ~StreamStartsTask(s, dev)
      BY <1>1, <2>2, <2>5, <3>2
    <3> QED  BY <3>1, <3>2
  <2>8. d \in DOMAIN tasks' => tasks'[d] = IF rings THEN 0 ELSE t
    BY <1>1, <2>2, <2>5, <2>6, <2>7 DEF StartTask
  <2>9. Counted(d)' = IF rings THEN 0 ELSE t
    BY <1>1, <2>2, <2>7, <2>8 DEF Counted
  <2> QED  BY <1>1, <2>3, <2>4, <2>7, <2>9
<1> QED  BY <1>1, <1>3, <1>4 DEF HomeInv

\* The clocks move ahead of the devices, which catch up in their turns; a device that
\* has none has nothing to count.
LEMMA ClocksKeep ==
  ASSUME HomeInv, Clocks
  PROVE  HomeInv'
<1>1. /\ phase = "clocks" /\ due = {} /\ phase' = "dynamics" /\ UNCHANGED <<scenario, dev>>
      /\ tasks' = [d \in DOMAIN tasks |-> tasks[d] + Tick]
      /\ due' = {d \in Devices : Moves(d, dev[d].state, scenario)}
  BY DEF Clocks, HomeInv, outsideVars
<1>2. DOMAIN tasks \subseteq Devices /\ \A d \in DOMAIN tasks : tasks[d] \in Nat
  BY DEF HomeInv
<1>3. DOMAIN tasks' \subseteq Devices /\ \A d \in DOMAIN tasks' : tasks'[d] \in Nat
  BY <1>1, <1>2, Durations
<1>4. ASSUME NEW d \in Devices
      PROVE  Sound(d, scenario', dev'[d], d \in DOMAIN tasks', Counted(d)')
  <2>1. PICK running \in BOOLEAN, t \in Int :
          /\ running = (d \in DOMAIN tasks)
          /\ t = IF running THEN tasks[d] ELSE 0
          /\ Sound(d, scenario, dev[d], running, t)
    BY <1>1, RestingDevice
  <2>2. (d \in DOMAIN tasks') = running
    BY <1>1, <2>1
  <2>3. Sound(d, scenario, dev[d], running, Counted(d)')
    <3>1. CASE running /\ Moves(d, dev[d].state, scenario)
      <4>1. tasks'[d] = tasks[d] + Tick /\ d \in due' /\ t = tasks[d] /\ d \in DOMAIN tasks'
        BY <1>1, <2>1, <3>1
      <4>2. Counted(d)' = t
        BY <1>2, <2>1, <3>1, <4>1, Durations DEF Counted
      <4> QED  BY <2>1, <4>2
    <3>2. CASE ~running \/ ~Moves(d, dev[d].state, scenario)
      BY <2>1, <3>2, TimeIrrelevant
    <3> QED  BY <3>1, <3>2
  <2> QED  BY <1>1, <2>2, <2>3
<1> QED  BY <1>1, <1>3, <1>4 DEF HomeInv

(***************************************************************************)
(* The initial state.                                                      *)
(***************************************************************************)

\* The devices whose scenario may start them otherwise than InitialDevice says.
LEMMA ScenarioDeviceIs ==
  ASSUME NEW sc, NEW d \in AllDevices
  PROVE  \/ ScenarioDevice(sc, d) = InitialDevice[d]
         \/ d = "washer" /\ ScenarioDevice(sc, d) =
              [InitialDevice[d] EXCEPT !.state = "washing", !.remaining = Cfg.washer_cycle]
         \/ d = "stove" /\ ScenarioDevice(sc, d) =
              [InitialDevice[d] EXCEPT !.state = "on", !.level = 2]
            /\ sc = "unattended_stove_guard"
         \/ d = "lock" /\ ScenarioDevice(sc, d) = [InitialDevice[d] EXCEPT !.state = "unlocked"]
         \/ d = "garage" /\ ScenarioDevice(sc, d) = [InitialDevice[d] EXCEPT !.state = "open"]
         \/ d = "media" /\ ScenarioDevice(sc, d) =
              [InitialDevice[d] EXCEPT !.state = "playing", !.content = 3]
         \/ d = "trash" /\ ScenarioDevice(sc, d) =
              [InitialDevice[d] EXCEPT !.state = "full", !.fill = 100]
         \/ d \in Supplies /\ ScenarioDevice(sc, d) =
              [InitialDevice[d] EXCEPT !.state = "low", !.level = Cfg.initial_supply]
BY DEF ScenarioDevice, Supplies

\* The first records of the devices with a timer.
LEMMA InitialIs ==
  /\ InitialDevice["washer"] = [state |-> "idle", remaining |-> 0]
  /\ InitialDevice["dishwasher"] = [state |-> "idle", remaining |-> 0]
  /\ InitialDevice["vacuum"] = [state |-> "docked", remaining |-> 0, battery |-> 100]
  /\ InitialDevice["garage"] = [state |-> "closed", remaining |-> 0]
  /\ InitialDevice["lock"] = [state |-> "locked", unlocked |-> 0]
  /\ InitialDevice["intercom"] = [state |-> "idle", ring |-> 0, answered |-> 0]
  /\ InitialDevice["stove"] = [state |-> "off", level |-> 0, on |-> 0]
  /\ InitialDevice["coffee"] = [state |-> "idle", remaining |-> 0, freshness |-> 0]
  /\ InitialDevice["alarm"] = [state |-> "idle", ringing |-> 0]
  /\ \A d \in Supplies : InitialDevice[d] =
       [state |-> "stocked", level |-> 100, ordered |-> FALSE, remaining |-> 0]
BY DEF InitialDevice, Supplies

\* The first records of the others.
LEMMA InitialPlain ==
  /\ InitialDevice["fridge"] = [state |-> "closed", open |-> 0, alarm_sent |-> FALSE]
  /\ InitialDevice["mailbox"] = [state |-> "empty", deliveries |-> 0]
  /\ InitialDevice["bathroom"] = [state |-> "vacant", occupied |-> 0]
  /\ InitialDevice["notification"] = [state |-> "ready", messages |-> 0]
  /\ InitialDevice["media"] = [state |-> "off", content |-> 0]
  /\ InitialDevice["toilet"] = [state |-> "flushed"]
  /\ InitialDevice["paper"] = [state |-> "stocked", level |-> 100]
  /\ InitialDevice["trash"] = [state |-> "empty", fill |-> 0]
  /\ InitialDevice["emergency"] = [state |-> "ready", calls |-> 0]
BY DEF InitialDevice

\* What InitialDevice says is in order.
LEMMA InitialSound ==
  ASSUME NEW sc
  PROVE  /\ Machine(InitialDevice["washer"], "washing", FALSE)
         /\ Machine(InitialDevice["dishwasher"], "running", FALSE)
         /\ VacuumSound(InitialDevice["vacuum"], FALSE, 0)
         /\ GarageSound(InitialDevice["garage"])
         /\ LockSound(InitialDevice["lock"], sc)
         /\ IntercomSound(InitialDevice["intercom"], FALSE, 0)
         /\ StoveSound(InitialDevice["stove"], sc, FALSE, 0)
         /\ CoffeeSound(InitialDevice["coffee"], FALSE, 0)
         /\ AlarmSound(InitialDevice["alarm"])
         /\ \A d \in Supplies : SupplySound(InitialDevice[d])
<1>1. Machine(InitialDevice["washer"], "washing", FALSE)
  BY InitialIs DEF Machine
<1>2. Machine(InitialDevice["dishwasher"], "running", FALSE)
  BY InitialIs DEF Machine
<1>3. VacuumSound(InitialDevice["vacuum"], FALSE, 0)
  BY InitialIs DEF VacuumSound
<1>4. GarageSound(InitialDevice["garage"])
  BY InitialIs DEF GarageSound
<1>5. LockSound(InitialDevice["lock"], sc)
  <2>1. ~Moves("lock", "locked", sc)
    BY DEF Moves, Supplies
  <2> QED  BY <2>1, InitialIs DEF LockSound
<1>6. IntercomSound(InitialDevice["intercom"], FALSE, 0)
  BY InitialIs DEF IntercomSound
<1>7. StoveSound(InitialDevice["stove"], sc, FALSE, 0)
  BY InitialIs DEF StoveSound
<1>8. CoffeeSound(InitialDevice["coffee"], FALSE, 0)
  BY InitialIs DEF CoffeeSound
<1>9. AlarmSound(InitialDevice["alarm"])
  BY InitialIs DEF AlarmSound
<1>10. ASSUME NEW d \in Supplies PROVE SupplySound(InitialDevice[d])
  <2>1. PICK r : r = InitialDevice[d]
    OBVIOUS
  <2>2. r = [state |-> "stocked", level |-> 100, ordered |-> FALSE, remaining |-> 0]
    BY <2>1, InitialIs
  <2>3. SupplySound(r)
    BY <2>2 DEF SupplySound
  <2> QED  BY <2>1, <2>3
<1> QED  BY <1>1, <1>2, <1>3, <1>4, <1>5, <1>6, <1>7, <1>8, <1>9, <1>10

\* The same for the devices without a timer.
LEMMA InitialPlainSound ==
  \A d \in PlainDevices : PlainSound(d, InitialDevice[d])
<1>1. PlainSound("fridge", InitialDevice["fridge"])
  BY InitialPlain DEF PlainSound
<1>2. PlainSound("mailbox", InitialDevice["mailbox"])
  BY InitialPlain DEF PlainSound
<1>3. PlainSound("bathroom", InitialDevice["bathroom"])
  BY InitialPlain DEF PlainSound
<1>4. PlainSound("notification", InitialDevice["notification"])
  BY InitialPlain DEF PlainSound
<1>5. PlainSound("media", InitialDevice["media"])
  BY InitialPlain DEF PlainSound
<1>6. PlainSound("toilet", InitialDevice["toilet"])
  BY InitialPlain DEF PlainSound
<1>7. PlainSound("paper", InitialDevice["paper"])
  BY InitialPlain DEF PlainSound
<1>8. PlainSound("trash", InitialDevice["trash"])
  BY InitialPlain DEF PlainSound
<1>9. PlainSound("emergency", InitialDevice["emergency"])
  BY InitialPlain DEF PlainSound
<1> QED  BY <1>1, <1>2, <1>3, <1>4, <1>5, <1>6, <1>7, <1>8, <1>9 DEF PlainDevices

\* So is what reset() makes of it for a scenario; the only task it starts is the washer's.
LEMMA ScenarioSound ==
  ASSUME NEW sc, NEW d \in AllDevices, NEW running \in BOOLEAN,
         running <=> d = "washer" /\ ScenarioDevice(sc, d).state = "washing"
  PROVE  Sound(d, sc, ScenarioDevice(sc, d), running, 0)
<1>1. PICK r : r = InitialDevice[d]
  OBVIOUS
<1>2. d # "washer" => running = FALSE
  OBVIOUS
<1>3. CASE ScenarioDevice(sc, d) = r
  <2>1. running = FALSE
    BY <1>1, <1>3, InitialIs
  <2>2. Sound(d, sc, r, FALSE, 0)
    <3>1. CASE d \in PlainDevices
      BY <1>1, <3>1, InitialPlainSound DEF Sound, PlainDevices, Supplies, TaskDevices
    <3>2. CASE d \in Supplies
      BY <1>1, <3>2, InitialSound, SoundIs
    <3>3. CASE d \in TaskDevices \cup {"dishwasher", "garage", "lock", "alarm"}
      BY <1>1, <3>3, InitialSound, SoundIs DEF TaskDevices
    <3> QED  BY <3>1, <3>2, <3>3 DEF AllDevices, PlainDevices, Supplies, TaskDevices
  <2> QED  BY <1>3, <2>1, <2>2
<1>4. CASE d = "washer" /\ ScenarioDevice(sc, d) =
             [r EXCEPT !.state = "washing", !.remaining = Cfg.washer_cycle]
  <2>1. Machine(r, "washing", FALSE)
    BY <1>1, <1>4, InitialSound
  <2>2. Machine([r EXCEPT !.state = "washing", !.remaining = Cfg.washer_cycle], "washing", TRUE)
    BY <2>1, TimersPositive DEF Machine
  <2>3. running = TRUE
    BY <1>4, <2>1 DEF Machine
  <2>4. Sound("washer", sc, [r EXCEPT !.state = "washing", !.remaining = Cfg.washer_cycle],
              TRUE, 0)
    BY <2>2, SoundIs
  <2> QED  BY <1>4, <2>3, <2>4
<1>5. CASE d = "stove" /\ ScenarioDevice(sc, d) = [r EXCEPT !.state = "on", !.level = 2]
           /\ sc = "unattended_stove_guard"
  <2>0. StoveSound(r, sc, FALSE, 0)
    BY <1>1, <1>5, InitialSound
  <2>1. r.on = 0
    BY <1>1, <1>5, InitialIs
  <2>2. StoveSound([r EXCEPT !.state = "on", !.level = 2], sc, FALSE, 0)
    BY <1>5, <2>0, <2>1, TimersPositive DEF StoveSound
  <2>3. Sound("stove", sc, [r EXCEPT !.state = "on", !.level = 2], FALSE, 0)
    BY <2>2, SoundIs
  <2> QED  BY <1>2, <1>5, <2>3
<1>6. CASE d = "lock" /\ ScenarioDevice(sc, d) = [r EXCEPT !.state = "unlocked"]
  <2>0. LockSound(r, sc)
    BY <1>1, <1>6, InitialSound
  <2>1. r.unlocked = 0
    BY <1>1, <1>6, InitialIs
  <2>2. LockSound([r EXCEPT !.state = "unlocked"], sc)
    BY <2>0, <2>1, TimersPositive DEF LockSound, Relock
  <2> QED  BY <1>2, <1>6, <2>2, SoundIs
<1>7. CASE d = "garage" /\ ScenarioDevice(sc, d) = [r EXCEPT !.state = "open"]
  <2>1. GarageSound(r)
    BY <1>1, <1>7, InitialSound
  <2>2. GarageSound([r EXCEPT !.state = "open"])
    BY <2>1 DEF GarageSound
  <2> QED  BY <1>2, <1>7, <2>2, SoundIs
<1>8. CASE d \in {"media", "trash"} /\ ScenarioDevice(sc, d) # r
  <2>1. PlainSound(d, r)
    BY <1>1, <1>8, InitialPlainSound DEF PlainDevices
  <2>2. /\ d = "media" => PlainSound(d, [r EXCEPT !.state = "playing", !.content = 3])
        /\ d = "trash" => PlainSound(d, [r EXCEPT !.state = "full", !.fill = 100])
    BY <2>1 DEF PlainSound
  <2>3. PlainSound(d, ScenarioDevice(sc, d))
    BY <1>1, <1>8, <2>2, ScenarioDeviceIs DEF Supplies
  <2> QED  BY <1>2, <1>8, <2>3 DEF Sound, Supplies
<1>9. CASE d \in Supplies /\ ScenarioDevice(sc, d) =
             [r EXCEPT !.state = "low", !.level = Cfg.initial_supply]
  <2>1. SupplySound(r)
    BY <1>1, <1>9, InitialSound
  <2>2. SupplySound([r EXCEPT !.state = "low", !.level = Cfg.initial_supply])
    BY <2>1, TimersPositive DEF SupplySound
  <2>3. running = FALSE
    BY <1>2, <1>9 DEF Supplies
  <2>4. Sound(d, sc, [r EXCEPT !.state = "low", !.level = Cfg.initial_supply], FALSE, 0)
    BY <1>9, <2>2, SoundIs
  <2> QED  BY <1>9, <2>3, <2>4
<1> QED  BY <1>1, <1>3, <1>4, <1>5, <1>6, <1>7, <1>8, <1>9, ScenarioDeviceIs

\* The household is in order when an episode starts.
LEMMA HomeInit == Init => HomeInv
<1> SUFFICES ASSUME Init PROVE HomeInv
  OBVIOUS
<1>1. /\ dev = [d \in Devices |-> ScenarioDevice(scenario, d)] /\ due = {} /\ phase = "execute"
      /\ tasks = [d \in {x \in Devices : x = "washer" /\ dev[x].state = "washing"} |-> 0]
  BY DEF Init
<1>2. DOMAIN tasks \subseteq Devices /\ \A d \in DOMAIN tasks : tasks[d] \in Nat
  BY <1>1
<1>3. ASSUME NEW d \in Devices
      PROVE  Sound(d, scenario, dev[d], d \in DOMAIN tasks, Counted(d))
  <2>1. PICK running \in BOOLEAN :
          running <=> d = "washer" /\ ScenarioDevice(scenario, d).state = "washing"
    OBVIOUS
  <2>2. d \in DOMAIN tasks <=> running
    BY <1>1, <2>1
  <2>3. (d \in DOMAIN tasks) = running
    BY <2>2
  <2>4. Counted(d) = 0
    BY <1>1 DEF Counted
  <2>5. Sound(d, scenario, ScenarioDevice(scenario, d), running, 0)
    BY <2>1, ScenarioSound, ConfigAssumption
  <2> QED  BY <1>1, <2>3, <2>4, <2>5
<1> QED  BY <1>1, <1>2, <1>3 DEF HomeInv

(***************************************************************************)
(* What a step does to the household.                                      *)
(***************************************************************************)

\* A legal command is applied, for an agent or a rule.
Commanded ==
  \E c \in Command :
    /\ phase # "dynamics" /\ StaticOk(c) /\ dev[c.device].state \in Required[c.device][c.op]
    /\ ApplyCommand(c)
    /\ UNCHANGED <<scenario, phase, due>>

\* The household is left alone, and no device is still to move when a tick ends.
Quiet ==
  /\ UNCHANGED <<scenario, dev, tasks, completed, due, workflow, cost, runtime>>
  /\ phase' # "dynamics" => due = {}

\* An accepted command is legal when its turn comes.
LEMMA HeadIsLegal ==
  ASSUME BatchInv, phase = "accepted", batch # <<>>
  PROVE  CommandOk(Head(batch))
<1>1. batch \in Seq(Command)
  BY DEF BatchInv, BatchShape
<1>2. 1 \in 1..Len(batch) /\ Head(batch) = batch[1]
  BY <1>1
<1> QED  BY <1>2 DEF BatchInv, BatchStaysLegal

\* A step applies one legal command, or it is an outside event, the clocks or a
\* device's turn, or it leaves the household alone.
LEMMA HouseholdStep ==
  ASSUME BatchInv, HomeInv, [Next]_vars
  PROVE  \/ Quiet \/ Commanded \/ Clocks \/ Dynamics
         \/ \E s \in Streams : Exogenous(s)
<1>1. phase # "dynamics" => due = {}
  BY DEF HomeInv
<1>2. ASSUME phase # "dynamics", batch # <<>>, CommandOk(Head(batch)),
             ApplyCommand(Head(batch)), UNCHANGED <<scenario, phase, due>>
      PROVE  Commanded
  <2>1. Head(batch) \in Command
    BY <1>2 DEF BatchInv, BatchShape
  <2> QED  BY <1>2, <2>1 DEF Commanded, CommandOk, Legal
<1>3. CASE AgentStep
  <2>1. phase = "execute" /\ phase' = "accepted"
        /\ UNCHANGED <<scenario, dev, tasks, completed, due, workflow, cost, runtime>>
    BY <1>3 DEF AgentStep, Act, InstallRule, CancelRule, Wait, Idle, Accept, outsideVars,
       taskVars, homeVars
  <2> QED  BY <1>1, <2>1 DEF Quiet
<1>4. CASE Running
  <2>1. CASE ApplyNext
    BY <1>2, <2>1, HeadIsLegal DEF ApplyNext, outsideVars
  <2>2. CASE RuleCommand
    <3>1. CASE CommandOk(Head(batch))
      BY <1>2, <2>2, <3>1 DEF RuleCommand, outsideVars
    <3>2. CASE ~CommandOk(Head(batch))
      BY <1>1, <2>2, <3>2 DEF RuleCommand, Quiet, outsideVars, taskVars, homeVars
    <3> QED  BY <3>1, <3>2
  <2>3. CASE StartTick \/ (\E r \in todo : TakeRule(r)) \/ RuleFired \/ StartReleases
    BY <1>1, <2>3 DEF StartTick, TakeRule, RuleFired, StartReleases, Quiet, outsideVars,
       taskVars, homeVars
  <2>4. CASE RuleReleased \/ RulesDone \/ ExogenousDone
    BY <1>1, <2>4 DEF RuleReleased, RulesDone, ExogenousDone, Quiet, outsideVars,
       taskVars, homeVars
  <2>5. CASE NextMicroTick \/ ReturnView
    BY <2>5 DEF NextMicroTick, ReturnView, Quiet, outsideVars, taskVars, homeVars
  <2> QED  BY <1>4, <2>1, <2>2, <2>3, <2>4, <2>5 DEF Running
<1>5. CASE UNCHANGED vars
  BY <1>1, <1>5 DEF vars, Quiet, outsideVars, taskVars, homeVars
<1> QED  BY <1>3, <1>4, <1>5 DEF Next, Over

(***************************************************************************)
(* The books keep their form.                                              *)
(***************************************************************************)

\* A legal command writes an order or a session.
LEMMA CommandWork ==
  ASSUME NEW w \in Works, NEW c \in Command
  PROVE  CommandWorkflow(c, w) \in Works
<1>1. Lead(c.device) \in Nat /\ c.arg \in Nat
  BY TimersPositive DEF Lead, Command
<1>2. CASE c.device = "garage"
  <2>1. PICK v \in {"opening", "reclosing"} : v = IF c.op = "open" THEN "opening" ELSE "reclosing"
    OBVIOUS
  <2>2. [w EXCEPT !.sessions.garage_access = v] \in Works
    BY DEF Works, Sessions
  <2>3. CommandWorkflow(c, w) = [w EXCEPT !.sessions.garage_access = v]
    BY <1>2, <2>1 DEF CommandWorkflow, Supplies
  <2> QED  BY <2>2, <2>3
<1>3. CASE c.device \in Supplies
  <2>1. PICK d \in Supplies, o \in Order :
          /\ d = c.device
          /\ o = [status |-> "accepted", quantity |-> c.arg, remaining |-> Lead(c.device)]
    BY <1>1, <1>3 DEF Order
  <2>2. [w EXCEPT !.orders[d] = o] \in Works
    BY DEF Works
  <2>3. CommandWorkflow(c, w) = [w EXCEPT !.orders[d] = o]
    BY <1>3, <2>1 DEF CommandWorkflow, Supplies
  <2> QED  BY <2>2, <2>3
<1>4. CASE c.device # "garage" /\ c.device \notin Supplies
  BY <1>4 DEF CommandWorkflow
<1> QED  BY <1>2, <1>3, <1>4

\* An outside event opens or closes a session, logs a visitor or makes a clean due.
LEMMA StreamWork ==
  ASSUME NEW w \in Works, NEW s, NEW D
  PROVE  StreamWorkflow(s, D, w) \in Works
<1>1. ASSUME NEW v \in {"active", "inactive"}
      PROVE  /\ [w EXCEPT !.sessions.television_curfew = v] \in Works
             /\ [w EXCEPT !.sessions.resident_entry = v] \in Works
             /\ [w EXCEPT !.sessions.vehicle_entry = v] \in Works
             /\ [w EXCEPT !.sessions.shower = v] \in Works
             /\ [w EXCEPT !.sessions.departure = v] \in Works
  BY <1>1 DEF Works, Sessions, Session
<1>2. [w EXCEPT !.occurrence = "due"] \in Works
  BY DEF Works
<1>3. ASSUME NEW v \in {"known", "unknown"}
      PROVE  [w EXCEPT !.visitors = Append(@, v)] \in Works
  <2>1. PICK q : q = Append(w.visitors, v)
    OBVIOUS
  <2>2. q \in Seq({"known", "unknown"})
    BY <1>3, <2>1, AppendProperties DEF Works
  <2>3. [w EXCEPT !.visitors = q] \in Works
    BY <2>2 DEF Works
  <2> QED  BY <2>1, <2>3
<1>4. PICK v \in {"known", "unknown"} : v = IF s = "visitor" THEN "known" ELSE "unknown"
  OBVIOUS
<1>5. \/ StreamWorkflow(s, D, w) = w
      \/ StreamWorkflow(s, D, w) = [w EXCEPT !.visitors = Append(@, v)]
      \/ StreamWorkflow(s, D, w) = [w EXCEPT !.occurrence = "due"]
      \/ \E x \in {"active", "inactive"} :
           \/ StreamWorkflow(s, D, w) = [w EXCEPT !.sessions.television_curfew = x]
           \/ StreamWorkflow(s, D, w) = [w EXCEPT !.sessions.resident_entry = x]
           \/ StreamWorkflow(s, D, w) = [w EXCEPT !.sessions.vehicle_entry = x]
           \/ StreamWorkflow(s, D, w) = [w EXCEPT !.sessions.shower = x]
           \/ StreamWorkflow(s, D, w) = [w EXCEPT !.sessions.departure = x]
  BY <1>4 DEF StreamWorkflow
<1> QED  BY <1>1, <1>2, <1>3, <1>4, <1>5

\* Initially no order is placed and no session is open.
LEMMA WorkInit == Init => WorkTyped
<1> SUFFICES ASSUME Init PROVE WorkTyped
  OBVIOUS
<1>1. workflow = [sessions |-> NoSessions, orders |-> [d \in Supplies |-> NoOrder],
                  occurrence |-> "none", visitors |-> <<>>]
  BY DEF Init
<1>2. NoSessions \in Sessions
  BY DEF NoSessions, Sessions, Session
<1>3. [d \in Supplies |-> NoOrder] \in [Supplies -> Order]
  BY DEF NoOrder, Order
<1>4. <<>> \in Seq({"known", "unknown"})
  OBVIOUS
<1> QED  BY <1>1, <1>2, <1>3, <1>4 DEF WorkTyped, Works

\* In its turn a device changes its own record.  Of the books, the garage door and the
\* supplies write their session and orders, the others an occurrence or the entry session.
LEMMA TurnShape ==
  ASSUME Dynamics
  PROVE  \E e, r :
           /\ e \in due /\ dev' = [dev EXCEPT ![e] = r] /\ scenario' = scenario
           /\ \/ e = "garage" /\ Garage
              \/ e \in Supplies /\ Supply(e)
              \/ /\ e # "garage" /\ e \notin Supplies
                 /\ \/ workflow' = workflow
                    \/ workflow' = [workflow EXCEPT !.occurrence = "completed"]
                    \/ workflow' = [workflow EXCEPT !.occurrence = workflow.occurrence]
                    \/ workflow' = [workflow EXCEPT !.sessions.resident_entry = "inactive"]
<1>1. ASSUME NEW d, NEW r, NEW types, NEW outcome, Becomes(d, r, types, outcome)
      PROVE  dev' = [dev EXCEPT ![d] = r] /\ scenario' = scenario
  BY <1>1 DEF Becomes, outsideVars
<1>2. CASE Washer \/ Dishwasher
  <2>1. PICK d, finished : d \in {"washer", "dishwasher"} /\ Cycle(d, finished)
    BY <1>2 DEF Washer, Dishwasher
  <2>2. d \in due /\ (\E r, types, outcome : Becomes(d, r, types, outcome)) /\ workflow' = workflow
    BY <2>1 DEF Cycle, Turn
  <2> QED  BY <1>1, <2>1, <2>2 DEF Supplies
<1>3. CASE VacuumCleans \/ VacuumCharges
  <2>1. /\ "vacuum" \in due /\ workflow' = workflow
        /\ \E r, types, outcome : Becomes("vacuum", r, types, outcome)
    BY <1>3 DEF VacuumCleans, VacuumCharges, Turn
  <2> QED  BY <1>1, <2>1 DEF Supplies
<1>4. CASE VacuumReturns
  <2>1. /\ "vacuum" \in due
        /\ \E r, types, outcome : Becomes("vacuum", r, types, outcome)
    BY <1>4 DEF VacuumReturns, Turn
  <2>2. \/ workflow' = workflow
        \/ workflow' = [workflow EXCEPT !.occurrence = "completed"]
        \/ workflow' = [workflow EXCEPT !.occurrence = workflow.occurrence]
    BY <1>4 DEF VacuumReturns
  <2> QED  BY <1>1, <2>1, <2>2 DEF Supplies
<1>5. CASE Garage
  <2>1. "garage" \in due /\ \E r, types, outcome : Becomes("garage", r, types, outcome)
    BY <1>5 DEF Garage, Turn
  <2> QED  BY <1>1, <1>5, <2>1
<1>6. CASE Lock
  <2>1. "lock" \in due /\ \E r, types, outcome : Becomes("lock", r, types, outcome)
    BY <1>6 DEF Lock, Turn
  <2>2. \/ workflow' = workflow
        \/ workflow' = [workflow EXCEPT !.sessions.resident_entry = "inactive"]
    BY <1>6 DEF Lock
  <2> QED  BY <1>1, <2>1, <2>2 DEF Supplies
<1>7. CASE IntercomRings \/ IntercomAnswered
  <2>1. /\ "intercom" \in due /\ workflow' = workflow
        /\ \E r, types, outcome : Becomes("intercom", r, types, outcome)
    BY <1>7 DEF IntercomRings, IntercomAnswered, Turn
  <2> QED  BY <1>1, <2>1 DEF Supplies
<1>8. CASE Fridge \/ Stove \/ Bathroom
  <2>1. \E d \in {"fridge", "stove", "bathroom"} : \E r, types, outcome :
          d \in due /\ workflow' = workflow /\ Becomes(d, r, types, outcome)
    BY <1>8 DEF Fridge, Stove, Bathroom, Turn
  <2> QED  BY <1>1, <2>1 DEF Supplies
<1>9. CASE CoffeeBrews \/ CoffeeCools \/ Alarm
  <2>1. \E d \in {"coffee", "alarm"} : \E r, types, outcome :
          d \in due /\ workflow' = workflow /\ Becomes(d, r, types, outcome)
    BY <1>9 DEF CoffeeBrews, CoffeeCools, Alarm, Turn
  <2> QED  BY <1>1, <2>1 DEF Supplies
<1>10. ASSUME NEW d \in Supplies, Supply(d)
       PROVE  d \in due /\ \E r, types, outcome : Becomes(d, r, types, outcome)
  BY <1>10 DEF Supply, Turn
<1>11. CASE \E d \in Supplies \cap Devices : Supply(d)
  <2>1. PICK d \in Supplies : Supply(d)
    BY <1>11
  <2> QED  BY <1>1, <1>10, <2>1
<1> QED  BY <1>2, <1>3, <1>4, <1>5, <1>6, <1>7, <1>8, <1>9, <1>11 DEF Dynamics

\* A supply in its turn, and what is left of its lead time.
LEMMA SupplyDue ==
  ASSUME HomeInv, NEW d \in Supplies, d \in due
  PROVE  /\ d \in Devices /\ SupplySound(dev[d]) /\ SupplySound(Consumed(dev[d]))
         /\ Countdown(Consumed(dev[d]).remaining) \in Nat
<1>1. d \in Devices /\ SupplySound(dev[d])
  BY DueDevice DEF Sound
<1>2. SupplySound(Consumed(dev[d]))
  BY <1>1, ConsumptionSound
<1>3. Consumed(dev[d]).remaining \in Nat
  BY <1>2 DEF SupplySound
<1> QED  BY <1>1, <1>2, <1>3, CountdownGoesOn

\* What a supply's turn writes into its order.
LEMMA SupplyWork ==
  ASSUME HomeInv, WorkTyped, NEW d \in Supplies, Supply(d)
  PROVE  \/ workflow' = workflow
         \/ \E o \in Order : workflow' = [workflow EXCEPT !.orders[d] = o]
<1>1. PICK r, o : r = Consumed(dev[d]) /\ o = workflow.orders[d]
  OBVIOUS
<1>2. o \in Order
  BY <1>1 DEF WorkTyped, Works
<1>3. PICK left \in Nat : left = Countdown(r.remaining)
  BY <1>1, SupplyDue DEF Supply, Turn
<1>4. CASE workflow' = [workflow EXCEPT !.orders[d].remaining = left]
  <2>1. [o EXCEPT !.remaining = left] \in Order
    BY <1>2 DEF Order
  <2>2. workflow' = [workflow EXCEPT !.orders[d] = [o EXCEPT !.remaining = left]]
    BY <1>1, <1>4
  <2> QED  BY <2>1, <2>2
<1>5. CASE workflow' = [workflow EXCEPT !.orders[d] =
                          [o EXCEPT !.status = "delivered", !.remaining = 0]]
  <2>1. [o EXCEPT !.status = "delivered", !.remaining = 0] \in Order
    BY <1>2 DEF Order
  <2> QED  BY <1>5, <2>1
<1>6. \/ workflow' = workflow
      \/ workflow' = [workflow EXCEPT !.orders[d].remaining = left]
      \/ workflow' = [workflow EXCEPT !.orders[d] =
                        [o EXCEPT !.status = "delivered", !.remaining = 0]]
  BY <1>1, <1>3 DEF Supply
<1> QED  BY <1>4, <1>5, <1>6

\* Every step keeps the form of the books.
LEMMA WorkNext ==
  ASSUME BatchInv, HomeInv, WorkTyped, [Next]_vars
  PROVE  WorkTyped'
<1>1. workflow \in Works
  BY DEF WorkTyped
<1>2. CASE Quiet
  BY <1>1, <1>2 DEF Quiet, WorkTyped
<1>3. CASE Commanded
  <2>1. PICK c \in Command : workflow' = CommandWorkflow(c, workflow)
    BY <1>3 DEF Commanded, ApplyCommand
  <2> QED  BY <1>1, <2>1, CommandWork DEF WorkTyped
<1>4. CASE Clocks
  BY <1>1, <1>4 DEF Clocks, WorkTyped
<1>5. ASSUME NEW s \in Streams, Exogenous(s)
      PROVE  WorkTyped'
  <2>1. workflow' = StreamWorkflow(s, dev, workflow)
    BY <1>5 DEF Exogenous
  <2> QED  BY <1>1, <2>1, StreamWork DEF WorkTyped
<1>6. CASE Dynamics
  <2>1. PICK e : \/ e = "garage" /\ Garage
                 \/ e \in Supplies /\ Supply(e)
                 \/ workflow' = workflow
                 \/ workflow' = [workflow EXCEPT !.occurrence = "completed"]
                 \/ workflow' = [workflow EXCEPT !.occurrence = workflow.occurrence]
                 \/ workflow' = [workflow EXCEPT !.sessions.resident_entry = "inactive"]
    BY <1>6, TurnShape
  <2>2. CASE Garage
    <3>1. \/ workflow' = workflow
          \/ \E v \in {"open", "closed"} :
               workflow' = [workflow EXCEPT !.sessions.garage_access = v]
      BY <2>2 DEF Garage
    <3>2. \A v \in {"open", "closed"} :
            [workflow EXCEPT !.sessions.garage_access = v] \in Works
      BY <1>1 DEF Works, Sessions
    <3> QED  BY <1>1, <3>1, <3>2 DEF WorkTyped
  <2>3. CASE e \in Supplies /\ Supply(e)
    <3>1. \/ workflow' = workflow
          \/ \E o \in Order : workflow' = [workflow EXCEPT !.orders[e] = o]
      BY <2>3, SupplyWork
    <3> QED  BY <1>1, <2>3, <3>1 DEF WorkTyped, Works
  <2>4. /\ [workflow EXCEPT !.occurrence = "completed"] \in Works
        /\ [workflow EXCEPT !.occurrence = workflow.occurrence] \in Works
        /\ [workflow EXCEPT !.sessions.resident_entry = "inactive"] \in Works
    BY <1>1 DEF Works, Sessions, Session
  <2> QED  BY <1>1, <2>1, <2>2, <2>3, <2>4 DEF WorkTyped
<1> QED  BY <1>2, <1>3, <1>4, <1>5, <1>6, HouseholdStep

(***************************************************************************)
(* The household stays in order.                                           *)
(***************************************************************************)

\* A step that leaves the household alone.
LEMMA QuietHome == HomeInv /\ Quiet => HomeInv'
<1> SUFFICES ASSUME HomeInv, Quiet PROVE HomeInv'
  OBVIOUS
<1>1. /\ scenario' = scenario /\ dev' = dev /\ tasks' = tasks /\ due' = due
      /\ phase' # "dynamics" => due' = {}
  BY DEF Quiet
<1>2. \A d : Counted(d)' = Counted(d)
  BY <1>1 DEF Counted
<1> QED  BY <1>1, <1>2 DEF HomeInv

\* Every step keeps the household in order.
LEMMA HomeNext ==
  ASSUME BatchInv, HomeInv, WorkTyped, [Next]_vars
  PROVE  HomeInv'
<1>1. DevShape
  BY DEF BatchInv
<1>2. CASE Commanded
  BY <1>1, <1>2, CommandKeeps DEF Commanded
<1>3. CASE Dynamics
  <2>1. ASSUME NEW d \in Supplies \cap Devices, Supply(d) PROVE HomeInv'
    BY <1>1, <2>1, SupplyKeeps
  <2> QED  BY <1>1, <1>3, <2>1, CycleKeeps, VacuumKeeps, DoorsKeep, IntercomKeeps, RoomsKeep,
              StoveKeeps, CoffeeKeeps DEF Dynamics
<1> QED  BY <1>2, <1>3, HouseholdStep, QuietHome, ClocksKeep, StreamKeeps

(***************************************************************************)
(* The machines are on time.                                               *)
(***************************************************************************)

\* What remains of a machine's cycle is what its task has not run.
OnTime ==
  \A d \in Machines \cap DOMAIN tasks : dev[d].remaining = Larger(0, Length(d) - Counted(d))

\* A machine runs exactly while its task does.
LEMMA MachineIs ==
  ASSUME HomeInv, NEW d \in Machines
  PROVE  \E running \in BOOLEAN, busy \in {"washing", "running"} :
           /\ running <=> d \in DOMAIN tasks
           /\ Machine(dev[d], busy, running)
           /\ busy = IF d = "washer" THEN "washing" ELSE "running"
<1>1. PICK running \in BOOLEAN : running = (d \in DOMAIN tasks)
  <2>1. (d \in DOMAIN tasks) \in BOOLEAN
    OBVIOUS
  <2> QED  BY <2>1
<1>2. Sound(d, scenario, dev[d], running, Counted(d))
  BY <1>1 DEF HomeInv, Machines
<1>3. CASE d = "washer"
  BY <1>1, <1>2, <1>3, SoundIs
<1>4. CASE d = "dishwasher"
  BY <1>1, <1>2, <1>4, SoundIs
<1> QED  BY <1>3, <1>4 DEF Machines

\* Starting or completing a task of e leaves the others' alone.
LEMMA OneTaskMoves ==
  ASSUME NEW e, StartTask(e) \/ (\E outcome : CompleteTask(e, outcome)) \/ UNCHANGED taskVars
  PROVE  /\ DOMAIN tasks' \subseteq DOMAIN tasks \cup {e}
         /\ \A d : d # e => /\ d \in DOMAIN tasks' <=> d \in DOMAIN tasks
                            /\ d \in DOMAIN tasks => tasks'[d] = tasks[d]
BY DEF StartTask, CompleteTask, taskVars

\* A machine whose record, task and turn stand still stays on time.
LEMMA StaysOnTime ==
  ASSUME OnTime, NEW d \in Machines \cap DOMAIN tasks', d \in DOMAIN tasks,
         dev'[d] = dev[d], Counted(d)' = Counted(d)
  PROVE  dev'[d].remaining = Larger(0, Length(d) - Counted(d)')
BY DEF OnTime

\* A command starts a machine that is at rest; its cycle is all to come.
LEMMA CommandedOnTime ==
  ASSUME BatchInv, HomeInv, OnTime, Commanded
  PROVE  OnTime'
<1>1. PICK c \in Command :
        /\ StaticOk(c) /\ dev[c.device].state \in Required[c.device][c.op]
        /\ ApplyCommand(c) /\ due = {} /\ due' = {}
  BY DEF Commanded, HomeInv
<1>2. /\ dev' = [dev EXCEPT ![c.device] = Applied(c, dev[c.device])] /\ DevShape
      /\ IF StartsTask(c) THEN StartTask(c.device)
         ELSE IF EndsTask(c) # NoOutcome THEN CompleteTask(c.device, EndsTask(c))
         ELSE UNCHANGED taskVars
  BY <1>1 DEF ApplyCommand, BatchInv
<1>3. \A d : d # c.device => /\ d \in DOMAIN tasks' <=> d \in DOMAIN tasks
                             /\ d \in DOMAIN tasks => tasks'[d] = tasks[d]
  BY <1>2, OneTaskMoves
<1>4. ASSUME NEW d \in Machines \cap DOMAIN tasks'
      PROVE  dev'[d].remaining = Larger(0, Length(d) - Counted(d)')
  <2>1. CASE d # c.device
    <3>1. d \in DOMAIN tasks /\ dev'[d] = dev[d] /\ tasks'[d] = tasks[d]
      BY <1>2, <1>3, <2>1 DEF DevShape
    <3>2. Counted(d)' = Counted(d)
      BY <1>1, <3>1 DEF Counted
    <3> QED  BY <3>1, <3>2, StaysOnTime
  <2>2. CASE d = c.device
    <3>1. c.op \in {"load", "start", "unload"}
      BY <1>1, <2>2, Operations DEF Machines
    <3>2. d \notin DOMAIN tasks
      <4>1. PICK running \in BOOLEAN, busy \in {"washing", "running"} :
              running = (d \in DOMAIN tasks) /\ Machine(dev[d], busy, running)
        BY MachineIs
      <4>2. dev[d].state \notin {"washing", "running"}
        BY <1>1, <2>2, <3>1 DEF Required, Machines
      <4> QED  BY <4>1, <4>2 DEF Machine
    <3>3. StartsTask(c) /\ c.op = "start"
      BY <1>2, <3>1, <3>2, <2>2 DEF StartsTask, CompleteTask, taskVars
    <3>4. dev'[d].remaining = Length(d)
      <4>1. PICK r, busy : r = dev[d] /\ busy = IF d = "washer" THEN "washing" ELSE "running"
        OBVIOUS
      <4>2. Applied(c, r) = [r EXCEPT !.state = busy, !.remaining = Length(d)]
        BY <2>2, <3>3, <4>1 DEF Applied, Length, Machines
      <4>3. r \in [state : {"idle", "loaded", busy, "done"}, remaining : Nat]
        BY <4>1, MachineIs DEF Machine
      <4>4. Length(d) \in Nat
        BY TimersPositive DEF Length
      <4>5. [r EXCEPT !.state = busy, !.remaining = Length(d)].remaining = Length(d)
        BY <4>3, <4>4
      <4>6. dev'[d] = Applied(c, r)
        BY <1>2, <2>2, <4>1 DEF DevShape, Machines
      <4> QED  BY <4>2, <4>5, <4>6
    <3>5. Counted(d)' = 0
      <4>1. tasks'[d] = 0
        BY <1>2, <2>2, <3>3 DEF StartTask
      <4> QED  BY <1>1, <4>1 DEF Counted
    <3>6. Larger(0, Length(d) - 0) = Length(d)
      BY TimersPositive DEF Larger, Length
    <3> QED  BY <3>4, <3>5, <3>6
  <2> QED  BY <2>1, <2>2
<1> QED  BY <1>4 DEF OnTime

\* A turn is that of a machine, or moves another device and may complete its task.
LEMMA TurnOf ==
  ASSUME Dynamics
  PROVE  \/ \E d \in Machines : \E finished : Cycle(d, finished)
         \/ \E e, r, types, outcome :
              e \notin {"washer", "dishwasher"} /\ Becomes(e, r, types, outcome)
<1>1. CASE Washer \/ Dishwasher
  BY <1>1 DEF Washer, Dishwasher, Machines
<1>2. CASE VacuumCleans \/ VacuumReturns \/ VacuumCharges
  BY <1>2 DEF VacuumCleans, VacuumReturns, VacuumCharges
<1>3. CASE Garage \/ Lock
  BY <1>3 DEF Garage, Lock
<1>4. CASE IntercomRings \/ IntercomAnswered
  BY <1>4 DEF IntercomRings, IntercomAnswered
<1>5. CASE Fridge \/ Stove \/ Bathroom
  BY <1>5 DEF Fridge, Stove, Bathroom
<1>6. CASE CoffeeBrews \/ CoffeeCools \/ Alarm
  BY <1>6 DEF CoffeeBrews, CoffeeCools, Alarm
<1>7. CASE \E d \in Supplies \cap Devices : Supply(d)
  BY <1>7 DEF Supply, Supplies
<1> QED  BY <1>1, <1>2, <1>3, <1>4, <1>5, <1>6, <1>7 DEF Dynamics

\* In its turn a machine counts the tick that its task has run, or ends with its task.
LEMMA TurnOnTime ==
  ASSUME BatchInv, HomeInv, OnTime, Dynamics
  PROVE  OnTime'
<1>1. ASSUME NEW e, NEW r, NEW types, NEW outcome, Becomes(e, r, types, outcome),
             e \in Machines \cap DOMAIN tasks' =>
               dev'[e].remaining = Larger(0, Length(e) - Counted(e)')
      PROVE  OnTime'
  <2>1. /\ dev' = [dev EXCEPT ![e] = r] /\ due' = due \ {e} /\ DevShape
        /\ CompleteTask(e, outcome) \/ UNCHANGED taskVars
    BY <1>1 DEF Becomes, BatchInv
  <2>2. ASSUME NEW d \in Machines \cap DOMAIN tasks', d # e
        PROVE  dev'[d].remaining = Larger(0, Length(d) - Counted(d)')
    <3>1. d \in DOMAIN tasks /\ tasks'[d] = tasks[d]
      BY <2>1, <2>2, OneTaskMoves
    <3>2. dev'[d] = dev[d] /\ (d \in due' <=> d \in due)
      BY <2>1, <2>2 DEF DevShape
    <3>3. Counted(d)' = Counted(d)
      BY <3>1, <3>2 DEF Counted
    <3> QED  BY <3>1, <3>2, <3>3, StaysOnTime
  <2> QED  BY <1>1, <2>2 DEF OnTime
<1>2. ASSUME NEW d \in Machines, NEW finished, Cycle(d, finished) PROVE OnTime'
  <2>1. PICK r, left : r = dev[d] /\ left = Countdown(r.remaining)
    OBVIOUS
  <2>2. d \in due /\ DevShape /\ d \in Devices
    BY <1>2 DEF Cycle, Turn, BatchInv, Machines
  <2>3. PICK busy : r \in [state : {"idle", "loaded", busy, "done"}, remaining : Nat]
    BY <2>1, MachineIs DEF Machine
  <2>4. CASE left > 0 /\ Becomes(d, [r EXCEPT !.remaining = left], <<>>, NoOutcome)
    <3>1. /\ dev' = [dev EXCEPT ![d] = [r EXCEPT !.remaining = left]]
          /\ due' = due \ {d} /\ tasks' = tasks
      BY <2>4 DEF Becomes, taskVars
    <3>2. ASSUME d \in DOMAIN tasks'
          PROVE  dev'[d].remaining = Larger(0, Length(d) - Counted(d)')
      <4>1. tasks[d] \in Nat /\ d \in DOMAIN tasks
        BY <3>1, <3>2 DEF HomeInv
      <4>2. PICK t \in Int : t = tasks[d] - Tick
        BY <4>1, Durations
      <4>3. Counted(d) = t /\ Counted(d)' = t + Tick
        BY <2>2, <3>1, <4>1, <4>2, Durations DEF Counted
      <4>4. PICK n \in Nat : n = r.remaining
        BY <2>3
      <4>5. n = Larger(0, Length(d) - t)
        BY <2>1, <4>1, <4>3, <4>4 DEF OnTime
      <4>6. Length(d) \in Nat
        BY TimersPositive DEF Length
      <4>7. n > 0
        BY <2>1, <2>4, <4>4, Durations DEF Countdown, Larger
      <4>8. left = Larger(0, Length(d) - (t + Tick))
        BY <2>1, <4>4, <4>5, <4>6, <4>7, CountdownGoesOn
      <4>9. dev'[d].remaining = left
        BY <2>2, <2>3, <3>1 DEF DevShape
      <4> QED  BY <4>3, <4>8, <4>9
    <3> QED  BY <1>1, <2>4, <3>2
  <2>5. CASE Becomes(d, [r EXCEPT !.state = "done", !.remaining = 0], <<finished>>,
                     "cycle_finished")
    <3>1. CompleteTask(d, "cycle_finished")
      BY <2>5 DEF Becomes, NoOutcome
    <3>2. d \notin DOMAIN tasks'
      BY <3>1 DEF CompleteTask, taskVars
    <3> QED  BY <1>1, <2>5, <3>2
  <2> QED  BY <1>2, <2>1, <2>4, <2>5 DEF Cycle
<1>3. ASSUME NEW e, NEW r, NEW types, NEW outcome, e \notin {"washer", "dishwasher"},
             Becomes(e, r, types, outcome)
      PROVE  OnTime'
  BY <1>1, <1>3 DEF Machines
<1> QED  BY <1>2, <1>3, TurnOf

\* Every step of the household keeps the machines on time.
LEMMA OnTimeNext ==
  ASSUME BatchInv, HomeInv, OnTime, [Next]_vars
  PROVE  OnTime'
<1>1. CASE Quiet
  <2>1. dev' = dev /\ tasks' = tasks /\ due' = due
    BY <1>1 DEF Quiet
  <2> QED  BY <2>1 DEF OnTime, Counted
<1>2. CASE Clocks
  <2>1. /\ dev' = dev /\ due = {} /\ tasks' = [d \in DOMAIN tasks |-> tasks[d] + Tick]
        /\ due' = {d \in Devices : Moves(d, dev[d].state, scenario)}
    BY <1>2 DEF Clocks, HomeInv
  <2>2. ASSUME NEW d \in Machines \cap DOMAIN tasks'
        PROVE  dev'[d].remaining = Larger(0, Length(d) - Counted(d)')
    <3>1. d \in DOMAIN tasks /\ tasks[d] \in Nat /\ tasks'[d] = tasks[d] + Tick
      BY <2>1 DEF HomeInv
    <3>2. d \in due'
      <4>1. dev[d].state = IF d = "washer" THEN "washing" ELSE "running"
        BY <3>1, MachineIs DEF Machine
      <4> QED  BY <2>1, <4>1 DEF Moves, Machines
    <3>3. Counted(d)' = Counted(d)
      BY <2>1, <3>1, <3>2, Durations DEF Counted
    <3> QED  BY <2>1, <3>1, <3>3, StaysOnTime
  <2> QED  BY <2>2 DEF OnTime
<1>3. ASSUME NEW s \in Streams, Exogenous(s) PROVE OnTime'
  <2>1. /\ dev' = StreamDevices(s, dev) /\ due' = due
        /\ StartTask("intercom") \/ UNCHANGED taskVars
    BY <1>3 DEF Exogenous
  <2>2. ASSUME NEW d \in Machines \cap DOMAIN tasks'
        PROVE  dev'[d].remaining = Larger(0, Length(d) - Counted(d)')
    <3>1. d \in DOMAIN tasks /\ tasks'[d] = tasks[d]
      BY <2>1, OneTaskMoves DEF Machines
    <3>2. Counted(d)' = Counted(d)
      BY <2>1, <3>1 DEF Counted
    <3>3. dev[d].state \in {"washing", "running"}
      BY <3>1, MachineIs DEF Machine
    <3>4. dev'[d] = dev[d]
      BY <2>1, <3>3 DEF StreamDevices, StreamDevice, Machines
    <3> QED  BY <3>1, <3>2, <3>4, StaysOnTime
  <2> QED  BY <2>2 DEF OnTime
<1> QED  BY <1>1, <1>2, <1>3, HouseholdStep, CommandedOnTime, TurnOnTime

\* A washer that reset() has started has its whole cycle to come.
LEMMA OnTimeInit == Init => OnTime
<1> SUFFICES ASSUME Init, NEW d \in Machines \cap DOMAIN tasks
             PROVE  dev[d].remaining = Larger(0, Length(d) - Counted(d))
  BY DEF OnTime
<1>1. /\ d = "washer" /\ d \in Devices /\ dev[d] = ScenarioDevice(scenario, d)
      /\ dev[d].state = "washing" /\ tasks[d] = 0 /\ due = {}
  BY DEF Init
<1>2. Counted(d) = 0
  BY <1>1 DEF Counted
<1>3. InitialDevice[d] = [state |-> "idle", remaining |-> 0]
  BY <1>1, InitialIs
<1>4. PICK r : r = InitialDevice[d]
  OBVIOUS
<1>5. dev[d] = [r EXCEPT !.state = "washing", !.remaining = Cfg.washer_cycle]
  <2>1. d \in AllDevices /\ d \notin Supplies
    BY <1>1, ConfigAssumption DEF Supplies
  <2>2. \/ dev[d] = r
        \/ dev[d] = [r EXCEPT !.state = "washing", !.remaining = Cfg.washer_cycle]
    BY <1>1, <1>4, <2>1, ScenarioDeviceIs
  <2>3. r.state # "washing"
    BY <1>3, <1>4
  <2> QED  BY <1>1, <2>2, <2>3
<1>6. dev[d].remaining = Cfg.washer_cycle
  BY <1>3, <1>4, <1>5
<1> QED  BY <1>1, <1>2, <1>6, TimersPositive DEF Length, Larger

HouseInv == ScenarioKnown /\ RuleInv /\ BatchInv /\ WorkTyped /\ HomeInv

\* The invariant the theorems about the household rest on.
THEOREM HouseInvariant == Spec => []HouseInv
<1>1. Init => HouseInv
  BY RuleInit, ScenarioInit, BatchInit, WorkInit, HomeInit DEF HouseInv
<1>2. HouseInv /\ [Next]_vars => HouseInv'
  <2> SUFFICES ASSUME HouseInv, [Next]_vars PROVE HouseInv'
    OBVIOUS
  <2>1. ScenarioKnown' /\ RuleInv' /\ BatchInv'
    BY RuleNext, ScenarioNext, BatchNext DEF HouseInv, ScenarioKnown
  <2> QED  BY <2>1, WorkNext, HomeNext DEF HouseInv
<1> QED  BY <1>1, <1>2, PTL DEF Spec

\* A device in order has a task exactly in the states the task is about.
LEMMA TasksAgree == HomeInv => TaskIffDevice
<1> SUFFICES ASSUME HomeInv, NEW d \in Devices \cap TaskDevices, ~Untasked(d)
             PROVE  d \in DOMAIN tasks <=> dev[d].state \in TaskStates(d)
  BY DEF TaskIffDevice
<1>1. (d \in DOMAIN tasks) \in BOOLEAN
  OBVIOUS
<1>2. PICK running \in BOOLEAN : running = (d \in DOMAIN tasks)
  BY <1>1
<1>3. PICK t, r : t = Counted(d) /\ r = dev[d]
  OBVIOUS
<1>4. running = (d \in DOMAIN tasks) /\ t = Counted(d) /\ r = dev[d]
  BY <1>2, <1>3
<1>5. Sound(d, scenario, r, running, t)
  BY <1>4 DEF HomeInv
<1>6. CASE d \in {"washer", "dishwasher"}
  BY <1>4, <1>5, <1>6 DEF Sound, Machine, TaskStates
<1>7. CASE d = "vacuum"
  BY <1>4, <1>5, <1>7 DEF Sound, VacuumSound, TaskStates
<1>8. CASE d = "intercom"
  BY <1>4, <1>5, <1>8 DEF Sound, IntercomSound, TaskStates
<1>9. CASE d = "stove"
  BY <1>4, <1>5, <1>9 DEF Sound, StoveSound, TaskStates, Untasked
<1>10. CASE d = "coffee"
  BY <1>4, <1>5, <1>10 DEF Sound, CoffeeSound, TaskStates
<1> QED  BY <1>6, <1>7, <1>8, <1>9, <1>10 DEF TaskDevices

\* A task runs exactly while its device is in a state the task is about, whoever moved
\* the device: agent, rule, outside event or clock.
THEOREM TasksFollowDevices == Spec => []TaskIffDevice
BY TasksAgree, HouseInvariant, PTL DEF HouseInv

\* A device in order shows what its task's clock leaves of the cycle.
LEMMA ClocksAgree == HomeInv /\ OnTime => TaskClock
<1> SUFFICES ASSUME HomeInv, OnTime, BeforeClocks, NEW d \in DOMAIN tasks
             PROVE  CASE d = "washer"     -> CountsDown(d, Cfg.washer_cycle)
                      [] d = "dishwasher" -> CountsDown(d, Cfg.dishwasher_cycle)
                      [] d = "vacuum"     -> dev[d].state = "cleaning"
                                               => CountsDown(d, Cfg.vacuum_clean)
                      [] d = "coffee"     -> CountsDown(d, Cfg.coffee_brew)
                      [] d = "intercom"   -> dev[d].ring = tasks[d]
                      [] d = "stove"      -> Untasked(d) \/ dev[d].on = tasks[d]
  BY DEF TaskClock
<1>1. d \in Devices /\ d \notin due
  BY DEF HomeInv, BeforeClocks
<1>2. PICK t, r : t = tasks[d] /\ r = dev[d]
  OBVIOUS
<1>3. Counted(d) = t /\ (d \in DOMAIN tasks) = TRUE
  BY <1>1, <1>2 DEF Counted
<1>4. Sound(d, scenario, r, TRUE, t)
  <2>1. Sound(d, scenario, dev[d], d \in DOMAIN tasks, Counted(d))
    BY <1>1 DEF HomeInv
  <2> QED  BY <1>2, <1>3, <2>1
<1>5. CASE d \in {"washer", "dishwasher"}
  <2>1. r.remaining = Larger(0, Length(d) - t)
    BY <1>1, <1>2, <1>3, <1>5 DEF OnTime, Machines
  <2> QED  BY <1>2, <1>5, <2>1 DEF CountsDown, Length
<1>6. CASE d = "vacuum"
  BY <1>2, <1>4, <1>6 DEF Sound, VacuumSound, CountsDown
<1>7. CASE d = "intercom"
  BY <1>2, <1>4, <1>7 DEF Sound, IntercomSound
<1>8. CASE d = "stove"
  BY <1>2, <1>4, <1>8 DEF Sound, StoveSound, Untasked
<1>9. CASE d = "coffee"
  BY <1>2, <1>4, <1>9 DEF Sound, CoffeeSound, CountsDown
<1>10. d \in TaskDevices
  BY <1>4 DEF Sound
<1> QED  BY <1>5, <1>6, <1>7, <1>8, <1>9, <1>10 DEF TaskDevices

\* A running task's elapsed_seconds and its device's own timer tell the same time.
THEOREM TasksTellTheTime == Spec => []TaskClock
<1>1. HouseInv /\ OnTime /\ [Next]_vars => OnTime'
  BY OnTimeNext DEF HouseInv
<1>2. HouseInv /\ OnTime => TaskClock
  BY ClocksAgree DEF HouseInv
<1> QED  BY <1>1, <1>2, OnTimeInit, HouseInvariant, PTL DEF Spec

\* The deadlines of a device in order lie ahead of it.
LEMMA DeadlinesAhead == HomeInv => NoOverdueDevice
<1> SUFFICES ASSUME HomeInv, phase = "execute", NEW d \in Devices
    PROVE  /\ dev[d].state \in {"washing", "running", "cleaning", "returning", "opening",
                                "closing", "brewing", "ordered"} => dev[d].remaining > 0
           /\ dev[d].state = "ready" /\ d = "coffee" => dev[d].freshness > 0
           /\ dev[d].state = "ringing" /\ d = "intercom" => dev[d].ring < Cfg.ring_timeout
           /\ dev[d].state = "answered" => dev[d].answered < Cfg.answered_clear
           /\ dev[d].state = "ringing" /\ d = "alarm" => dev[d].ringing < Cfg.alarm_timeout
           /\ dev[d].state = "on" => dev[d].on < Cfg.stove_hazard
           /\ d = "lock" /\ Moves(d, dev[d].state, scenario) => dev[d].unlocked < RelockSeconds
  BY DEF NoOverdueDevice
<1>1. PICK r, running, t, sc : /\ r = dev[d] /\ sc = scenario
                               /\ Sound(d, sc, r, running, t)
  BY DEF HomeInv
<1>2. CASE d \in {"washer", "dishwasher"}
  BY <1>1, <1>2 DEF Sound, Machine
<1>3. CASE d = "vacuum"
  BY <1>1, <1>3 DEF Sound, VacuumSound
<1>4. CASE d = "garage"
  BY <1>1, <1>4 DEF Sound, GarageSound
<1>5. CASE d = "lock"
  BY <1>1, <1>5 DEF Sound, LockSound, Relock, RelockSeconds
<1>6. CASE d = "intercom"
  BY <1>1, <1>6 DEF Sound, IntercomSound
<1>7. CASE d = "stove"
  BY <1>1, <1>7 DEF Sound, StoveSound
<1>8. CASE d = "coffee"
  BY <1>1, <1>8 DEF Sound, CoffeeSound
<1>9. CASE d = "alarm"
  BY <1>1, <1>9 DEF Sound, AlarmSound
<1>10. CASE d \in Supplies
  BY <1>1, <1>10 DEF Sound, SupplySound, Supplies
<1>11. CASE d \in PlainDevices
  BY <1>1, <1>11 DEF Sound, PlainSound, PlainDevices
<1>12. d \in AllDevices
  BY ConfigAssumption
<1> QED  BY <1>2, <1>3, <1>4, <1>5, <1>6, <1>7, <1>8, <1>9, <1>10, <1>11, <1>12
            DEF AllDevices, Supplies, PlainDevices

\* Between calls no device has outlived its deadline.
THEOREM NoDeviceIsOverdue == Spec => []NoOverdueDevice
BY DeadlinesAhead, HouseInvariant, PTL DEF HouseInv

(***************************************************************************)
(* The types of the whole state.                                           *)
(***************************************************************************)

\* Every field of a device in order, its flags aside, is a state or a natural number.
LEMMA FieldsAreNumbers ==
  ASSUME NEW d \in Devices, NEW sc, NEW r, NEW running, NEW t, Sound(d, sc, r, running, t)
  PROVE  \A f \in DOMAIN r \ {"state", "alarm_sent", "ordered"} : r[f] \in Nat
<1>1. CASE d \in {"washer", "dishwasher"}
  BY <1>1 DEF Sound, Machine
<1>2. CASE d = "vacuum"
  BY <1>2 DEF Sound, VacuumSound
<1>3. CASE d \in {"garage", "lock", "alarm"}
  BY <1>3 DEF Sound, GarageSound, LockSound, AlarmSound
<1>4. CASE d = "intercom"
  BY <1>4 DEF Sound, IntercomSound
<1>5. CASE d = "stove"
  BY <1>5 DEF Sound, StoveSound
<1>6. CASE d = "coffee"
  BY <1>6 DEF Sound, CoffeeSound
<1>7. CASE d \in Supplies
  BY <1>7 DEF Sound, SupplySound, Supplies
<1>8. CASE d \in {"fridge", "mailbox", "bathroom", "notification"}
  BY <1>8 DEF Sound, PlainSound
<1>9. CASE d \in {"media", "toilet", "paper", "trash", "emergency"}
  BY <1>9 DEF Sound, PlainSound
<1>10. d \in AllDevices
  BY ConfigAssumption
<1> QED  BY <1>1, <1>2, <1>3, <1>4, <1>5, <1>6, <1>7, <1>8, <1>9, <1>10 DEF AllDevices, Supplies

\* What is counted: the commands applied and the time devices have run.
CountInv == cost \in Nat /\ runtime \in [Devices -> Nat]

\* Only commands cost, and only the clocks let a device's runtime grow.
LEMMA CountNext ==
  ASSUME BatchInv, HomeInv, CountInv, [Next]_vars
  PROVE  CountInv'
<1>1. CASE Commanded
  BY <1>1 DEF Commanded, ApplyCommand, CountInv
<1>2. CASE Clocks
  <2>1. runtime' = [d \in Devices |->
                      IF dev[d].state \in ActiveStates[d] THEN runtime[d] + Tick ELSE runtime[d]]
        /\ cost' = cost
    BY <1>2 DEF Clocks
  <2> QED  BY <2>1, Durations DEF CountInv
<1>3. CASE Quiet \/ Dynamics \/ \E s \in Streams : Exogenous(s)
  BY <1>3, DynamicsFrame DEF Quiet, Exogenous, CountInv
<1> QED  BY <1>1, <1>2, <1>3, HouseholdStep

\* The invariants type the backend's state.
LEMMA HouseTypes ==
  ASSUME HouseInv, CountInv, CallInv
  PROVE  TypeOK
<1>1. /\ step \in Nat /\ ruleSeq \in Nat /\ rules \subseteq Rule /\ todo \subseteq Rule
      /\ current \in Rule \cup {NoRule} /\ phase \in Phases
  BY DEF HouseInv, RuleInv, RuleTypes
<1>2. batch \in Seq(Command) /\ DOMAIN dev = Devices
  BY DEF HouseInv, BatchInv, BatchShape, DevShape
<1>3. /\ DOMAIN tasks \subseteq Devices /\ \A d \in DOMAIN tasks : tasks[d] \in Nat
      /\ due \subseteq Devices
  BY DEF HouseInv, HomeInv
<1>4. ASSUME NEW d \in Devices
      PROVE  \A f \in DOMAIN dev[d] \ {"state", "alarm_sent", "ordered"} : dev[d][f] \in Nat
  BY FieldsAreNumbers DEF HouseInv, HomeInv
<1>5. wait \in [left : Nat, filter : WaitFilters \cup {NoFilter}]
  BY DEF CallInv
<1> QED  BY <1>1, <1>2, <1>3, <1>4, <1>5 DEF TypeOK, CountInv, Phases

\* The types of the backend's state.
THEOREM HouseholdIsTyped == Spec => []TypeOK
<1>1. Init => CountInv
  BY DEF Init, CountInv
<1>2. HouseInv /\ CountInv /\ [Next]_vars => CountInv'
  BY CountNext DEF HouseInv
<1>3. Spec => []CountInv
  BY <1>1, <1>2, HouseInvariant, PTL DEF Spec
<1>4. HouseInv /\ CountInv /\ CallInv => TypeOK
  BY HouseTypes
<1> QED  BY <1>3, <1>4, HouseInvariant, CallInvariant, PTL

(***************************************************************************)
(* The two metrics of a run.                                               *)
(***************************************************************************)

\* elapsed_seconds of all the completed tasks of d
Spent(d) == SumUpTo(TookFor(d), Len(completed))

\* The log is a sequence, and the times in it can be added up.
LogInv == IsSeq(completed) /\ \A d \in Devices : Spent(d) \in Nat

\* The running and the completed tasks of d have taken as long as before.
SameTime(d) == (RunFor(d) + Spent(d))' = RunFor(d) + Spent(d)

\* A completed task adds its time to its device's.
LEMMA LogGrows ==
  ASSUME IsSeq(completed), NEW e, completed' = Append(completed, e)
  PROVE  /\ IsSeq(completed')
         /\ \A d : Spent(d)' = Spent(d) + IF e.task = d THEN e.elapsed ELSE 0
<1>1. PICK S : completed \in Seq(S)
  BY DEF IsSeq
<1>2. PICK n \in Nat : n = Len(completed)
  BY <1>1
<1>3. completed \in Seq(S \cup {e})
  BY <1>1
<1>4. /\ completed' \in Seq(S \cup {e}) /\ Len(completed') = n + 1
      /\ \A i \in 1..n : completed'[i] = completed[i]
      /\ completed'[n + 1] = e
  BY <1>2, <1>3
<1>5. ASSUME NEW d
      PROVE  Spent(d)' = Spent(d) + IF e.task = d THEN e.elapsed ELSE 0
  <2>1. PICK f, g : f = TookFor(d)' /\ g = TookFor(d)
    OBVIOUS
  <2>2. f = [i \in 1..n+1 |-> IF completed'[i].task = d THEN completed'[i].elapsed ELSE 0]
    BY <1>4, <2>1 DEF TookFor
  <2>3. g = [i \in 1..n |-> IF completed[i].task = d THEN completed[i].elapsed ELSE 0]
    BY <1>2, <2>1 DEF TookFor
  <2>4. \A i \in 1..n : f[i] = g[i]
    BY <1>4, <2>2, <2>3
  <2>5. f[n + 1] = IF e.task = d THEN e.elapsed ELSE 0
    BY <1>4, <2>2
  <2>6. SumUpTo(f, n + 1) = SumUpTo(f, n) + f[n + 1] /\ SumUpTo(f, n) = SumUpTo(g, n)
    BY <2>4, SumLaws
  <2>7. Spent(d)' = SumUpTo(f, n + 1) /\ Spent(d) = SumUpTo(g, n)
    BY <1>2, <1>4, <2>1 DEF Spent
  <2> QED  BY <2>5, <2>6, <2>7
<1> QED  BY <1>4, <1>5 DEF IsSeq

\* Completing a task moves its time to the log.
LEMMA CompletedTime ==
  ASSUME HomeInv, LogInv, NEW e, NEW outcome, CompleteTask(e, outcome)
  PROVE  LogInv' /\ \A d \in Devices : SameTime(d)
<1>1. DOMAIN tasks \subseteq Devices /\ \A x \in DOMAIN tasks : tasks[x] \in Nat
  BY DEF HomeInv
<1>2. CASE e \in DOMAIN tasks
  <2>1. /\ tasks' = [x \in DOMAIN tasks \ {e} |-> tasks[x]]
        /\ completed' = Append(completed, [task |-> e, elapsed |-> tasks[e], outcome |-> outcome])
    BY <1>2 DEF CompleteTask
  <2>2. IsSeq(completed')
        /\ \A d : Spent(d)' = Spent(d) + IF e = d THEN tasks[e] ELSE 0
    BY <2>1, LogGrows DEF LogInv
  <2>3. \A d : RunFor(d)' = IF e = d THEN 0 ELSE RunFor(d)
    BY <2>1 DEF RunFor
  <2>4. RunFor(e) = tasks[e]
    BY <1>2 DEF RunFor
  <2>5. \A d \in Devices : RunFor(d) \in Nat /\ Spent(d) \in Nat
    BY <1>1 DEF RunFor, LogInv
  <2>6. LogInv'
    BY <1>1, <1>2, <2>2, <2>5 DEF LogInv
  <2>7. ASSUME NEW d \in Devices PROVE RunFor(d)' + Spent(d)' = RunFor(d) + Spent(d)
    BY <1>1, <1>2, <2>2, <2>3, <2>4, <2>5
  <2> QED  BY <2>6, <2>7 DEF SameTime
<1>3. CASE e \notin DOMAIN tasks
  <2>1. tasks' = tasks /\ completed' = completed
    BY <1>3 DEF CompleteTask, taskVars
  <2> QED  BY <2>1 DEF LogInv, SameTime, Spent, TookFor, RunFor
<1> QED  BY <1>2, <1>3

\* Starting one, on a device on which none runs, adds nothing.
LEMMA StartedTime ==
  ASSUME LogInv, NEW e, StartTask(e)
  PROVE  LogInv' /\ \A d \in Devices : d # e \/ d \notin DOMAIN tasks => SameTime(d)
<1>1. /\ tasks' = [x \in DOMAIN tasks \cup {e} |-> IF x = e THEN 0 ELSE tasks[x]]
      /\ completed' = completed
  BY DEF StartTask
<1>2. LogInv' /\ \A d : Spent(d)' = Spent(d)
  BY <1>1 DEF LogInv, Spent, TookFor
<1>3. \A d : d # e \/ d \notin DOMAIN tasks => RunFor(d)' = RunFor(d)
  BY <1>1 DEF RunFor
<1> QED  BY <1>2, <1>3 DEF SameTime

\* The turn of a device leaves the tasks alone or completes its own.
LEMMA DynamicsTask ==
  ASSUME Dynamics
  PROVE  UNCHANGED taskVars \/ \E d, outcome : CompleteTask(d, outcome)
<1>1. ASSUME NEW d, NEW r, NEW types, NEW outcome, Becomes(d, r, types, outcome)
      PROVE  UNCHANGED taskVars \/ CompleteTask(d, outcome)
  BY <1>1 DEF Becomes
<1>2. \E d, r, types, outcome : Becomes(d, r, types, outcome)
  <2>1. CASE Washer \/ Dishwasher
    BY <2>1 DEF Washer, Dishwasher, Cycle
  <2>2. CASE VacuumCleans \/ VacuumReturns \/ VacuumCharges
    BY <2>2 DEF VacuumCleans, VacuumReturns, VacuumCharges
  <2>3. CASE Garage \/ Lock
    BY <2>3 DEF Garage, Lock
  <2>4. CASE IntercomRings \/ IntercomAnswered
    BY <2>4 DEF IntercomRings, IntercomAnswered
  <2>5. CASE Fridge \/ Stove \/ Bathroom
    BY <2>5 DEF Fridge, Stove, Bathroom
  <2>6. CASE CoffeeBrews \/ CoffeeCools \/ Alarm
    BY <2>6 DEF CoffeeBrews, CoffeeCools, Alarm
  <2>7. CASE \E d \in Supplies \cap Devices : Supply(d)
    BY <2>7 DEF Supply
  <2> QED  BY <2>1, <2>2, <2>3, <2>4, <2>5, <2>6, <2>7 DEF Dynamics
<1> QED  BY <1>1, <1>2

\* The devices both of whose metrics the property compares.
Metered == {d \in Devices \cap (TaskDevices \ {"intercom"}) : ~Untasked(d)}

\* A device is started when no task runs on it.
LEMMA StartsAfresh ==
  ASSUME TaskIffDevice, NEW c, StaticOk(c), StartsTask(c), c.device \in Metered,
         dev[c.device].state \in Required[c.device][c.op]
  PROVE  c.device \notin DOMAIN tasks
<1>1. dev[c.device].state \notin TaskStates(c.device)
  <2>1. c.op \in {"start", "start_cleaning", "ignite"}
    BY DEF StartsTask
  <2>2. CASE c.device \in {"washer", "dishwasher"}
    BY <2>1, <2>2, Operations DEF Required, TaskStates
  <2>3. CASE c.device = "vacuum"
    BY <2>1, <2>3, Operations DEF Required, TaskStates
  <2>4. CASE c.device = "stove"
    BY <2>1, <2>4, Operations DEF Required, TaskStates
  <2>5. CASE c.device = "coffee"
    BY <2>1, <2>5, Operations DEF Required, TaskStates
  <2> QED  BY <2>2, <2>3, <2>4, <2>5 DEF Metered, TaskDevices
<1> QED  BY <1>1 DEF TaskIffDevice, Metered

\* The clocks let runtime and task of a device run together.
LEMMA ClocksTime ==
  ASSUME HomeInv, LogInv, CountInv, Clocks, NEW d \in Metered
  PROVE  \/ SameTime(d) /\ runtime'[d] = runtime[d]
         \/ /\ RunFor(d)' + Spent(d)' = (RunFor(d) + Spent(d)) + Tick
            /\ runtime'[d] = runtime[d] + Tick
<1>1. /\ runtime' = [e \in Devices |->
                       IF dev[e].state \in ActiveStates[e] THEN runtime[e] + Tick ELSE runtime[e]]
      /\ tasks' = [e \in DOMAIN tasks |-> tasks[e] + Tick]
      /\ completed' = completed
  BY DEF Clocks
<1>2. d \in Devices /\ d \in TaskDevices \ {"intercom"} /\ d \in AllDevices
  BY ConfigAssumption DEF Metered
<1>3. ActiveStates[d] = TaskStates(d)
  BY <1>2 DEF ActiveStates, TaskStates, TaskDevices
<1>4. d \in DOMAIN tasks <=> dev[d].state \in TaskStates(d)
  BY TasksAgree DEF TaskIffDevice, Metered
<1>5. Spent(d)' = Spent(d) /\ Spent(d) \in Nat
  BY <1>1, <1>2 DEF Spent, TookFor, LogInv
<1>6. CASE d \in DOMAIN tasks
  <2>1. RunFor(d)' = RunFor(d) + Tick /\ runtime'[d] = runtime[d] + Tick
    BY <1>1, <1>2, <1>3, <1>4, <1>6 DEF RunFor
  <2>2. RunFor(d) \in Nat
    BY <1>6 DEF RunFor, HomeInv
  <2> QED  BY <1>5, <2>1, <2>2, Durations
<1>7. CASE d \notin DOMAIN tasks
  <2>1. RunFor(d)' = RunFor(d) /\ runtime'[d] = runtime[d]
    BY <1>1, <1>2, <1>3, <1>4, <1>7 DEF RunFor
  <2> QED  BY <1>5, <2>1 DEF SameTime
<1> QED  BY <1>6, <1>7

\* No step breaks the tie between runtimes and tasks.
LEMMA RuntimeNext ==
  ASSUME HouseInv, CountInv, LogInv, RuntimeIsTaskTime, [Next]_vars
  PROVE  LogInv' /\ RuntimeIsTaskTime'
<1>1. BatchInv /\ HomeInv /\ TaskIffDevice
  BY TasksAgree DEF HouseInv
<1>2. Metered' = Metered
  BY ScenarioNext DEF HouseInv, Metered, Untasked
<1>3. \A d \in Metered : runtime[d] = RunFor(d) + Spent(d)
  BY DEF RuntimeIsTaskTime, Metered, Spent
<1>4. ASSUME LogInv', \A d \in Metered : runtime'[d] = RunFor(d)' + Spent(d)'
      PROVE  LogInv' /\ RuntimeIsTaskTime'
  BY <1>2, <1>4 DEF RuntimeIsTaskTime, Metered, Spent
<1>5. ASSUME LogInv', runtime' = runtime, \A d \in Metered : SameTime(d)
      PROVE  LogInv' /\ RuntimeIsTaskTime'
  BY <1>3, <1>4, <1>5 DEF SameTime
<1>6. \A d \in Metered : d \in Devices /\ d # "intercom"
  BY DEF Metered
<1>7. ASSUME UNCHANGED taskVars
      PROVE  LogInv' /\ \A d \in Metered : SameTime(d)
  BY <1>7 DEF taskVars, LogInv, SameTime, Spent, TookFor, RunFor
<1>8. CASE Quiet
  BY <1>5, <1>7, <1>8 DEF Quiet, taskVars
<1>9. CASE Commanded
  <2>1. PICK c \in Command : /\ StaticOk(c) /\ ApplyCommand(c)
                             /\ dev[c.device].state \in Required[c.device][c.op]
    BY <1>9 DEF Commanded
  <2>2. runtime' = runtime
    BY <2>1 DEF ApplyCommand
  <2>3. CASE StartsTask(c)
    <3>1. StartTask(c.device)
      BY <2>1, <2>3 DEF ApplyCommand
    <3>2. \A d \in Metered : d # c.device \/ d \notin DOMAIN tasks
      BY <1>1, <2>1, <2>3, StartsAfresh
    <3> QED  BY <1>5, <1>6, <2>2, <3>1, <3>2, StartedTime
  <2>4. CASE ~StartsTask(c)
    <3>1. CompleteTask(c.device, EndsTask(c)) \/ UNCHANGED taskVars
      BY <2>1, <2>4 DEF ApplyCommand
    <3> QED  BY <1>1, <1>5, <1>6, <1>7, <2>2, <3>1, CompletedTime
  <2> QED  BY <2>3, <2>4
<1>10. CASE Clocks
  <2>1. LogInv'
    BY <1>10 DEF Clocks, LogInv, Spent, TookFor
  <2>2. ASSUME NEW d \in Metered PROVE runtime'[d] = RunFor(d)' + Spent(d)'
    BY <1>1, <1>3, <1>10, ClocksTime DEF SameTime
  <2> QED  BY <1>4, <2>1, <2>2
<1>11. CASE Dynamics
  BY <1>1, <1>5, <1>6, <1>7, <1>11, DynamicsFrame, DynamicsTask, CompletedTime
<1>12. ASSUME NEW s \in Streams, Exogenous(s)
       PROVE  LogInv' /\ RuntimeIsTaskTime'
  <2>1. runtime' = runtime /\ (StartTask("intercom") \/ UNCHANGED taskVars)
    BY <1>12 DEF Exogenous
  <2> QED  BY <1>5, <1>6, <1>7, <2>1, StartedTime
<1> QED  BY <1>1, <1>8, <1>9, <1>10, <1>11, <1>12, HouseholdStep

\* At first no task has taken any time.
LEMMA RuntimeInit == Init => CountInv /\ LogInv /\ RuntimeIsTaskTime
<1> SUFFICES ASSUME Init PROVE CountInv /\ LogInv /\ RuntimeIsTaskTime
  OBVIOUS
<1>1. /\ completed = <<>> /\ runtime = [d \in Devices |-> 0] /\ cost = 0
      /\ \A d \in DOMAIN tasks : tasks[d] = 0
  BY DEF Init
<1>2. \A d : Spent(d) = 0
  BY <1>1, SumLaws DEF Spent
<1>3. \A d : RunFor(d) = 0
  BY <1>1 DEF RunFor
<1>4. LogInv
  BY <1>1, <1>2, EmptyIsSeq DEF LogInv
<1> QED  BY <1>1, <1>2, <1>3, <1>4 DEF CountInv, RuntimeIsTaskTime, Spent

\* The two metrics of a run agree: at every step, within a tick too, a device's runtime is
\* the time its tasks took, the running one and the completed ones of the whole episode.
THEOREM RuntimesAreTaskTimes == Spec => []RuntimeIsTaskTime
<1>1. HouseInv /\ CountInv /\ LogInv /\ RuntimeIsTaskTime /\ [Next]_vars
        => CountInv' /\ LogInv' /\ RuntimeIsTaskTime'
  BY CountNext, RuntimeNext DEF HouseInv
<1> QED  BY <1>1, RuntimeInit, HouseInvariant, PTL DEF Spec

(***************************************************************************)
(* The session of the garage door.                                         *)
(***************************************************************************)

\* What the session shows against where the door is; start is the door's first state.
DoorShown(door, shown, start) ==
  /\ shown \in {"opening", "open", "closed"} => door = shown
  /\ shown = "reclosing" => door \in {"closing", "open"}
  /\ shown = "none" => door = start

\* The door stands still when an episode starts.
LEMMA DoorStarts ==
  ASSUME NEW sc
  PROVE  ScenarioDevice(sc, "garage").state \in {"open", "closed"}
<1>1. "garage" \in AllDevices /\ "garage" \notin Supplies
  BY DEF AllDevices, Supplies
<1>2. InitialDevice["garage"] = [state |-> "closed", remaining |-> 0]
  BY InitialIs
<1>3. \/ ScenarioDevice(sc, "garage") = InitialDevice["garage"]
      \/ ScenarioDevice(sc, "garage") = [InitialDevice["garage"] EXCEPT !.state = "open"]
  BY <1>1, ScenarioDeviceIs
<1> QED  BY <1>2, <1>3

\* An outside event writes no order and does not touch the session of the garage door.
LEMMA StreamLeaves ==
  ASSUME NEW w \in Works, NEW s, NEW D
  PROVE  /\ StreamWorkflow(s, D, w).orders = w.orders
         /\ StreamWorkflow(s, D, w).sessions.garage_access = w.sessions.garage_access
<1>1. PICK v : v = IF s = "visitor" THEN "known" ELSE "unknown"
  OBVIOUS
<1>2. \/ StreamWorkflow(s, D, w) = w
      \/ StreamWorkflow(s, D, w) = [w EXCEPT !.visitors = Append(@, v)]
      \/ StreamWorkflow(s, D, w) = [w EXCEPT !.occurrence = "due"]
      \/ \E x \in {"active", "inactive"} :
           \/ StreamWorkflow(s, D, w) = [w EXCEPT !.sessions.television_curfew = x]
           \/ StreamWorkflow(s, D, w) = [w EXCEPT !.sessions.resident_entry = x]
           \/ StreamWorkflow(s, D, w) = [w EXCEPT !.sessions.vehicle_entry = x]
           \/ StreamWorkflow(s, D, w) = [w EXCEPT !.sessions.shower = x]
           \/ StreamWorkflow(s, D, w) = [w EXCEPT !.sessions.departure = x]
  BY <1>1 DEF StreamWorkflow
<1>3. CASE StreamWorkflow(s, D, w) = [w EXCEPT !.visitors = Append(@, v)]
  BY <1>3 DEF Works
<1>4. CASE \E x \in {"active", "inactive"} :
             \/ StreamWorkflow(s, D, w) = [w EXCEPT !.sessions.television_curfew = x]
             \/ StreamWorkflow(s, D, w) = [w EXCEPT !.sessions.resident_entry = x]
             \/ StreamWorkflow(s, D, w) = [w EXCEPT !.sessions.vehicle_entry = x]
             \/ StreamWorkflow(s, D, w) = [w EXCEPT !.sessions.shower = x]
             \/ StreamWorkflow(s, D, w) = [w EXCEPT !.sessions.departure = x]
  BY <1>4 DEF Works, Sessions
<1>5. CASE StreamWorkflow(s, D, w) = [w EXCEPT !.occurrence = "due"]
  BY <1>5 DEF Works
<1> QED  BY <1>2, <1>3, <1>4, <1>5

\* A command on another device leaves door and session alone; one on the door moves both.
LEMMA CommandedDoor ==
  ASSUME HouseInv, Commanded, "garage" \in Devices,
         NEW start \in {"open", "closed"},
         DoorShown(dev["garage"].state, workflow.sessions.garage_access, start)
  PROVE  DoorShown(dev["garage"].state, workflow.sessions.garage_access, start)'
<1>1. PICK c \in Command :
        /\ StaticOk(c) /\ dev[c.device].state \in Required[c.device][c.op]
        /\ dev' = [dev EXCEPT ![c.device] = Applied(c, dev[c.device])]
        /\ workflow' = CommandWorkflow(c, workflow)
  BY DEF Commanded, ApplyCommand
<1>2. PICK r : r = dev["garage"]
  OBVIOUS
<1>3. GarageSound(r) /\ workflow \in Works /\ DevShape
  BY <1>2 DEF HouseInv, HomeInv, Sound, WorkTyped, BatchInv
<1>4. CASE c.device = "garage"
  <2>1. c.op \in {"open", "close"}
    BY <1>1, <1>4, Operations
  <2>2. PICK s, v : /\ s = IF c.op = "open" THEN "opening" ELSE "closing"
                    /\ v = IF c.op = "open" THEN "opening" ELSE "reclosing"
    OBVIOUS
  <2>3. Applied(c, r) = [r EXCEPT !.state = s, !.remaining = Cfg.garage_move]
    BY <1>4, <2>1, <2>2 DEF Applied
  <2>4. [r EXCEPT !.state = s, !.remaining = Cfg.garage_move].state = s
    BY <1>3 DEF GarageSound
  <2>5. dev'["garage"].state = s
    BY <1>1, <1>2, <1>3, <1>4, <2>3, <2>4 DEF DevShape
  <2>6. CommandWorkflow(c, workflow) = [workflow EXCEPT !.sessions.garage_access = v]
    BY <1>4, <2>2 DEF CommandWorkflow, Supplies
  <2>7. workflow'.sessions.garage_access = v
    BY <1>1, <1>3, <2>6 DEF Works, Sessions
  <2> QED  BY <2>1, <2>2, <2>5, <2>7 DEF DoorShown
<1>5. CASE c.device # "garage"
  <2>1. dev'["garage"] = dev["garage"]
    BY <1>1, <1>3, <1>5 DEF DevShape
  <2>2. \/ workflow' = workflow
        \/ \E o : workflow' = [workflow EXCEPT !.orders[c.device] = o]
    BY <1>1, <1>5 DEF CommandWorkflow
  <2>3. workflow'.sessions.garage_access = workflow.sessions.garage_access
    BY <1>3, <2>2 DEF Works
  <2> QED  BY <2>1, <2>3 DEF DoorShown
<1> QED  BY <1>4, <1>5

\* An obstruction opens a closing door, whose session still says reclosing.
LEMMA ObstructedDoor ==
  ASSUME HouseInv, NEW s \in Streams, Exogenous(s), "garage" \in Devices,
         NEW start \in {"open", "closed"},
         DoorShown(dev["garage"].state, workflow.sessions.garage_access, start)
  PROVE  DoorShown(dev["garage"].state, workflow.sessions.garage_access, start)'
<1>1. PICK r, shown : r = dev["garage"] /\ shown = workflow.sessions.garage_access
  OBVIOUS
<1>2. GarageSound(r) /\ workflow \in Works
  BY <1>1 DEF HouseInv, HomeInv, Sound, WorkTyped
<1>3. shown \in {"none", "opening", "open", "closed", "reclosing"}
  BY <1>1, <1>2 DEF Works, Sessions
<1>4. workflow'.sessions.garage_access = shown
  BY <1>1, <1>2, StreamLeaves DEF Exogenous
<1>5. dev'["garage"] = StreamDevice(s, "garage", r)
  BY <1>1 DEF Exogenous, StreamDevices
<1>6. \/ StreamDevice(s, "garage", r) = r
      \/ /\ r.state = "closing"
         /\ StreamDevice(s, "garage", r) = [r EXCEPT !.state = "open", !.remaining = 0]
  BY DEF StreamDevice
<1>7. [r EXCEPT !.state = "open", !.remaining = 0].state = "open"
  BY <1>2 DEF GarageSound
<1>8. \/ dev'["garage"].state = r.state
      \/ r.state = "closing" /\ dev'["garage"].state = "open"
  BY <1>5, <1>6, <1>7
<1> QED  BY <1>1, <1>3, <1>4, <1>8 DEF DoorShown

\* The door arrives, and its session is told.
LEMMA ArrivingDoor ==
  ASSUME HouseInv, Dynamics, "garage" \in Devices,
         NEW start \in {"open", "closed"},
         DoorShown(dev["garage"].state, workflow.sessions.garage_access, start)
  PROVE  DoorShown(dev["garage"].state, workflow.sessions.garage_access, start)'
<1>1. workflow \in Works /\ DevShape /\ HomeInv
  BY DEF HouseInv, WorkTyped, BatchInv
<1>2. PICK e, q :
        /\ e \in due /\ dev' = [dev EXCEPT ![e] = q]
        /\ \/ e = "garage" /\ Garage
           \/ e \in Supplies /\ Supply(e)
           \/ /\ e # "garage" /\ e \notin Supplies
              /\ \/ workflow' = workflow
                 \/ workflow' = [workflow EXCEPT !.occurrence = "completed"]
                 \/ workflow' = [workflow EXCEPT !.occurrence = workflow.occurrence]
                 \/ workflow' = [workflow EXCEPT !.sessions.resident_entry = "inactive"]
  BY TurnShape
<1>3. CASE Garage
  <2>1. PICK r, left, moved :
          /\ r = dev["garage"] /\ left = Countdown(r.remaining)
          /\ moved = IF r.state = "opening" THEN "open" ELSE "closed"
    OBVIOUS
  <2>2. GarageSound(r)
    BY <1>1, <2>1 DEF HomeInv, Sound
  <2>3. \/ /\ dev' = [dev EXCEPT !["garage"] = [r EXCEPT !.remaining = left]]
           /\ workflow' = workflow
        \/ /\ dev' = [dev EXCEPT !["garage"] = [r EXCEPT !.state = moved, !.remaining = 0]]
           /\ workflow' = [workflow EXCEPT !.sessions.garage_access = moved]
    BY <1>3, <2>1 DEF Garage, Becomes
  <2>4. [r EXCEPT !.remaining = left].state = r.state
        /\ [r EXCEPT !.state = moved, !.remaining = 0].state = moved
    BY <2>2 DEF GarageSound
  <2>5. \/ dev'["garage"].state = r.state /\ workflow' = workflow
        \/ dev'["garage"].state = moved /\ workflow'.sessions.garage_access = moved
    BY <1>1, <2>3, <2>4 DEF DevShape, Works, Sessions
  <2> QED  BY <2>1, <2>5 DEF DoorShown
<1>4. CASE ~(e = "garage" /\ Garage)
  <2>1. e # "garage"
    BY <1>2, <1>4 DEF Supplies
  <2>2. dev'["garage"] = dev["garage"]
    BY <1>1, <1>2, <2>1 DEF DevShape
  <2>3. CASE e \in Supplies /\ Supply(e)
    <3>1. \/ workflow' = workflow
          \/ \E o : workflow' = [workflow EXCEPT !.orders[e] = o]
      BY <1>1, <2>3, SupplyWork DEF WorkTyped
    <3> QED  BY <1>1, <2>2, <3>1 DEF DoorShown, Works
  <2>4. CASE e \notin Supplies
    <3>1. workflow'.sessions.garage_access = workflow.sessions.garage_access
      BY <1>1, <1>2, <2>1, <2>4 DEF Works, Sessions
    <3> QED  BY <2>2, <3>1 DEF DoorShown
  <2> QED  BY <1>2, <1>4, <2>3, <2>4
<1> QED  BY <1>3, <1>4

\* Every step keeps door and session in agreement.
LEMMA GarageNext ==
  ASSUME HouseInv, GarageSession, [Next]_vars
  PROVE  GarageSession'
<1> SUFFICES ASSUME "garage" \in Devices PROVE GarageSession'
  BY DEF GarageSession
<1>1. PICK start : start = ScenarioDevice(scenario, "garage").state
  OBVIOUS
<1>2. start \in {"open", "closed"} /\ scenario' = scenario
  BY <1>1, DoorStarts, ScenarioNext
<1>3. DoorShown(dev["garage"].state, workflow.sessions.garage_access, start)
  BY <1>1 DEF GarageSession, DoorShown
<1>4. DoorShown(dev["garage"].state, workflow.sessions.garage_access, start)'
  <2>1. CASE Quiet \/ Clocks
    BY <1>3, <2>1 DEF Quiet, Clocks, DoorShown
  <2> QED  BY <1>2, <1>3, <2>1, HouseholdStep, CommandedDoor, ObstructedDoor, ArrivingDoor
           DEF HouseInv
<1> QED  BY <1>1, <1>2, <1>4 DEF GarageSession, DoorShown

\* At first there is no session, and the door is where the scenario has put it.
LEMMA GarageInit == Init => GarageSession
<1> SUFFICES ASSUME Init, "garage" \in Devices PROVE GarageSession
  BY DEF GarageSession
<1>1. /\ dev["garage"] = ScenarioDevice(scenario, "garage")
      /\ workflow.sessions.garage_access = "none"
  BY DEF Init, NoSessions
<1> QED  BY <1>1 DEF GarageSession

\* The access session the agent is shown tells where the garage door is, whoever moved it
\* last; after an obstruction it still says reclosing for a door that is open.
THEOREM GarageIsShown == Spec => []GarageSession
<1>1. HouseInv /\ GarageSession /\ [Next]_vars => GarageSession'
  BY GarageNext
<1> QED  BY <1>1, GarageInit, HouseInvariant, PTL DEF Spec

(***************************************************************************)
(* Supplies and their orders.                                              *)
(***************************************************************************)

\* What is right for a supply's record r and its order o.  An outstanding order is for
\* something: only so does its delivery leave no empty shelf marked as stocked.
OrderSound(r, o) ==
  /\ r.state = "ordered" <=> o.status = "accepted"
  /\ r.ordered <=> r.state = "ordered"
  /\ r.state = "ordered" => o.remaining = r.remaining /\ o.quantity > 0
  /\ r.state \in {"stocked", "low"} => r.level > 0
  /\ r.level = 0 => r.state \in {"empty", "ordered"}
  /\ r.level <= 100

OrdersInv == \A d \in Supplies \cap Devices : OrderSound(dev[d], workflow.orders[d])

\* Consumption empties a supply, marks it low, or leaves its state, and never its order.
LEMMA ConsumptionOrder ==
  ASSUME NEW r, NEW o, SupplySound(r), OrderSound(r, o)
  PROVE  OrderSound(Consumed(r), o)
<1>1. Larger(0, r.level - Cfg.consumption_units) \in Nat
  BY TimersPositive DEF SupplySound, Larger
<1>2. PICK level \in Nat : level = Larger(0, r.level - Cfg.consumption_units)
  BY <1>1
<1>3. level <= r.level
  BY <1>2, TimersPositive DEF SupplySound, Larger
<1>4. PICK s : s = IF level = 0 /\ r.state # "ordered" THEN "empty"
                   ELSE IF level > 0 /\ r.state = "stocked" /\ level <= Cfg.reorder_point
                        THEN "low" ELSE r.state
  OBVIOUS
<1>5. Consumed(r) = r \/ Consumed(r) = [r EXCEPT !.level = level, !.state = s]
  BY <1>2, <1>4 DEF Consumed
<1>6. /\ s = "ordered" <=> r.state = "ordered"
      /\ s \in {"stocked", "low"} => level > 0
      /\ level = 0 => s \in {"empty", "ordered"}
  BY <1>4 DEF SupplySound
<1>7. level <= 100
  BY <1>3 DEF OrderSound, SupplySound
<1>8. OrderSound([r EXCEPT !.level = level, !.state = s], o)
  BY <1>6, <1>7 DEF OrderSound, SupplySound
<1> QED  BY <1>5, <1>8

\* What a delivery or a tick of the lead time makes of a supply and its order.
LEMMA DeliveryOrder ==
  ASSUME NEW r, NEW o \in Order, SupplySound(r), OrderSound(r, o), r.state = "ordered",
         NEW left \in Nat
  PROVE  /\ OrderSound([r EXCEPT !.remaining = left], [o EXCEPT !.remaining = left])
         /\ OrderSound([r EXCEPT !.state = "stocked", !.remaining = 0, !.ordered = FALSE,
                                 !.level = Smaller(100, @ + o.quantity)],
                       [o EXCEPT !.status = "delivered", !.remaining = 0])
<1>1. OrderSound([r EXCEPT !.remaining = left], [o EXCEPT !.remaining = left])
  BY DEF OrderSound, SupplySound, Order
<1>2. PICK level : level = Smaller(100, r.level + o.quantity)
  OBVIOUS
<1>3. level \in Nat /\ level > 0 /\ level <= 100
  BY <1>2 DEF OrderSound, SupplySound, Order, Smaller
<1>4. OrderSound([r EXCEPT !.state = "stocked", !.remaining = 0, !.ordered = FALSE,
                           !.level = level],
                 [o EXCEPT !.status = "delivered", !.remaining = 0])
  BY <1>3 DEF OrderSound, SupplySound, Order
<1> QED  BY <1>1, <1>2, <1>4

\* A purchase: the supply was low or empty, and is ordered now.
LEMMA PurchaseOrder ==
  ASSUME NEW r, NEW o, SupplySound(r), OrderSound(r, o), NEW n \in Nat, NEW k \in 1..100
  PROVE  OrderSound([r EXCEPT !.state = "ordered", !.ordered = TRUE, !.remaining = n],
                    [status |-> "accepted", quantity |-> k, remaining |-> n])
BY DEF OrderSound, SupplySound

\* A command on a supply places an order; no other touches supplies or orders.
LEMMA CommandedOrder ==
  ASSUME HouseInv, OrdersInv, Commanded, NEW d \in Supplies \cap Devices
  PROVE  OrderSound(dev'[d], workflow'.orders[d])
<1>1. PICK c \in Command :
        /\ StaticOk(c) /\ dev' = [dev EXCEPT ![c.device] = Applied(c, dev[c.device])]
        /\ workflow' = CommandWorkflow(c, workflow)
  BY DEF Commanded, ApplyCommand
<1>2. PICK r, o : r = dev[d] /\ o = workflow.orders[d]
  OBVIOUS
<1>3. /\ SupplySound(r) /\ OrderSound(r, o) /\ workflow \in Works /\ DevShape
  BY <1>2 DEF HouseInv, HomeInv, Sound, WorkTyped, BatchInv, OrdersInv
<1>4. CASE c.device = d
  <2>1. c.op = "place" /\ c.arg \in 1..100
    BY <1>1, <1>4, Operations DEF StaticOk, ParamsOk, Supplies
  <2>2. PICK n \in Nat : n = Lead(d)
    BY TimersPositive DEF Lead
  <2>3. Applied(c, r) = [r EXCEPT !.state = "ordered", !.ordered = TRUE, !.remaining = n]
    BY <1>4, <2>1, <2>2 DEF Applied, Supplies
  <2>4. CommandWorkflow(c, workflow) = [workflow EXCEPT !.orders[d] =
          [status |-> "accepted", quantity |-> c.arg, remaining |-> n]]
    BY <1>4, <2>2 DEF CommandWorkflow, Supplies
  <2>5. workflow'.orders[d] = [status |-> "accepted", quantity |-> c.arg, remaining |-> n]
    BY <1>1, <1>3, <2>4 DEF Works
  <2>6. dev'[d] = [r EXCEPT !.state = "ordered", !.ordered = TRUE, !.remaining = n]
    BY <1>1, <1>2, <1>3, <1>4, <2>3 DEF DevShape
  <2>7. PICK k \in 1..100 : k = c.arg
    BY <2>1
  <2>8. OrderSound([r EXCEPT !.state = "ordered", !.ordered = TRUE, !.remaining = n],
                   [status |-> "accepted", quantity |-> k, remaining |-> n])
    BY <1>3, PurchaseOrder
  <2> QED  BY <2>5, <2>6, <2>7, <2>8
<1>5. CASE c.device # d
  <2>1. dev'[d] = r
    BY <1>1, <1>2, <1>3, <1>5 DEF DevShape
  <2>2. \/ workflow' = workflow
        \/ \E v : workflow' = [workflow EXCEPT !.sessions.garage_access = v]
        \/ \E p : workflow' = [workflow EXCEPT !.orders[c.device] = p]
    <3>1. CASE c.device = "garage"
      BY <1>1, <3>1 DEF CommandWorkflow, Supplies
    <3>2. CASE c.device # "garage"
      BY <1>1, <3>2 DEF CommandWorkflow
    <3> QED  BY <3>1, <3>2
  <2>3. workflow'.orders[d] = o
    BY <1>2, <1>3, <1>5, <2>2 DEF Works
  <2> QED  BY <1>3, <2>1, <2>3
<1> QED  BY <1>4, <1>5

\* A supply's turn writes the same into its record and into its order.
LEMMA TurnOrder ==
  ASSUME HouseInv, OrdersInv, Dynamics, NEW d \in Supplies \cap Devices
  PROVE  OrderSound(dev'[d], workflow'.orders[d])
<1>1. workflow \in Works /\ DevShape /\ HomeInv
  BY DEF HouseInv, WorkTyped, BatchInv
<1>2. PICK e, p :
        /\ e \in due /\ dev' = [dev EXCEPT ![e] = p]
        /\ \/ e = "garage" /\ Garage
           \/ e \in Supplies /\ Supply(e)
           \/ /\ e # "garage" /\ e \notin Supplies
              /\ \/ workflow' = workflow
                 \/ workflow' = [workflow EXCEPT !.occurrence = "completed"]
                 \/ workflow' = [workflow EXCEPT !.occurrence = workflow.occurrence]
                 \/ workflow' = [workflow EXCEPT !.sessions.resident_entry = "inactive"]
  BY TurnShape
<1>3. PICK o \in Order : o = workflow.orders[d]
  BY <1>1 DEF Works
<1>4. SupplySound(dev[d]) /\ OrderSound(dev[d], o)
  BY <1>1, <1>3 DEF HomeInv, Sound, OrdersInv
<1>5. CASE e = d
  <2>1. Supply(d)
    BY <1>2, <1>5 DEF Supplies
  <2>2. PICK r : r = Consumed(dev[d])
    OBVIOUS
  <2>3. SupplySound(r) /\ OrderSound(r, o)
    BY <1>4, <2>2, ConsumptionSound, ConsumptionOrder
  <2>4. PICK left \in Nat : left = Countdown(r.remaining)
    BY <1>1, <2>1, <2>2, SupplyDue DEF Supply, Turn
  <2>5. PICK r1, o1, r2, o2 :
          /\ r1 = [r EXCEPT !.remaining = left] /\ o1 = [o EXCEPT !.remaining = left]
          /\ r2 = [r EXCEPT !.state = "stocked", !.remaining = 0, !.ordered = FALSE,
                            !.level = Smaller(100, @ + o.quantity)]
          /\ o2 = [o EXCEPT !.status = "delivered", !.remaining = 0]
    OBVIOUS
  <2>6. r.state = "ordered" => OrderSound(r1, o1) /\ OrderSound(r2, o2)
    BY <2>3, <2>5, DeliveryOrder
  <2>7. \/ dev' = [dev EXCEPT ![d] = r] /\ workflow' = workflow
        \/ /\ r.state = "ordered" /\ dev' = [dev EXCEPT ![d] = r1]
           /\ workflow' = [workflow EXCEPT !.orders[d].remaining = left]
        \/ /\ r.state = "ordered" /\ dev' = [dev EXCEPT ![d] = r2]
           /\ workflow' = [workflow EXCEPT !.orders[d] = o2]
    BY <1>3, <2>1, <2>2, <2>4, <2>5 DEF Supply, Becomes
  <2>8. [workflow EXCEPT !.orders[d].remaining = left].orders[d] = o1
    BY <1>1, <1>3, <2>5 DEF Works
  <2>9. \/ dev'[d] = r /\ workflow'.orders[d] = o
        \/ r.state = "ordered" /\ dev'[d] = r1 /\ workflow'.orders[d] = o1
        \/ r.state = "ordered" /\ dev'[d] = r2 /\ workflow'.orders[d] = o2
    BY <1>1, <1>3, <2>7, <2>8 DEF DevShape, Works
  <2> QED  BY <2>3, <2>6, <2>9
<1>6. CASE e # d
  <2>1. dev'[d] = dev[d]
    BY <1>1, <1>2, <1>6 DEF DevShape
  <2>2. CASE e = "garage" /\ Garage
    <3>1. \/ workflow' = workflow
          \/ \E v : workflow' = [workflow EXCEPT !.sessions.garage_access = v]
      BY <2>2 DEF Garage
    <3>2. workflow'.orders[d] = o
      BY <1>1, <1>3, <3>1 DEF Works
    <3> QED  BY <1>4, <2>1, <3>2
  <2>3. CASE e \in Supplies /\ Supply(e)
    <3>1. \/ workflow' = workflow
          \/ \E q : workflow' = [workflow EXCEPT !.orders[e] = q]
      BY <1>1, <2>3, SupplyWork DEF WorkTyped
    <3>2. workflow'.orders[d] = o
      BY <1>1, <1>3, <1>6, <3>1 DEF Works
    <3> QED  BY <1>4, <2>1, <3>2
  <2>4. CASE e # "garage" /\ e \notin Supplies
    <3>1. workflow'.orders[d] = o
      BY <1>1, <1>2, <1>3, <2>4 DEF Works
    <3> QED  BY <1>4, <2>1, <3>1
  <2> QED  BY <1>2, <2>2, <2>3, <2>4
<1> QED  BY <1>5, <1>6

\* Every step keeps supplies and orders in agreement.
LEMMA OrdersNext ==
  ASSUME HouseInv, OrdersInv, [Next]_vars
  PROVE  OrdersInv'
<1>1. ASSUME NEW d \in Supplies \cap Devices
      PROVE  OrderSound(dev'[d], workflow'.orders[d])
  <2>1. OrderSound(dev[d], workflow.orders[d])
    BY DEF OrdersInv
  <2>2. CASE Quiet \/ Clocks
    <3>1. dev' = dev /\ workflow' = workflow
      BY <2>2 DEF Quiet, Clocks
    <3> QED  BY <2>1, <3>1
  <2>3. ASSUME NEW s \in Streams, Exogenous(s)
        PROVE  OrderSound(dev'[d], workflow'.orders[d])
    <3>1. workflow'.orders = workflow.orders
      BY <2>3, StreamLeaves DEF Exogenous, HouseInv, WorkTyped
    <3>2. dev'[d] = StreamDevice(s, d, dev[d])
      BY <2>3 DEF Exogenous, StreamDevices
    <3>3. StreamDevice(s, d, dev[d]) = dev[d]
      BY DEF StreamDevice, Supplies
    <3> QED  BY <2>1, <3>1, <3>2, <3>3
  <2> QED  BY <2>2, <2>3, HouseholdStep, CommandedOrder, TurnOrder DEF HouseInv
<1> QED  BY <1>1 DEF OrdersInv

\* At first nothing is ordered.
LEMMA OrdersInit ==
  ASSUME Cfg.initial_supply <= 100
  PROVE  Init => OrdersInv
<1> SUFFICES ASSUME Init, NEW d \in Supplies \cap Devices
             PROVE  OrderSound(dev[d], workflow.orders[d])
  BY DEF OrdersInv
<1>1. dev[d] = ScenarioDevice(scenario, d) /\ workflow.orders[d] = NoOrder
  BY DEF Init
<1>2. InitialDevice[d] = [state |-> "stocked", level |-> 100, ordered |-> FALSE,
                          remaining |-> 0]
  BY InitialIs
<1>3. PICK r : r = InitialDevice[d]
  OBVIOUS
<1>4. d \in AllDevices /\ d \notin {"washer", "stove", "lock", "garage", "media", "trash"}
  BY DEF AllDevices, Supplies
<1>5. \/ ScenarioDevice(scenario, d) = r
      \/ ScenarioDevice(scenario, d) =
           [r EXCEPT !.state = "low", !.level = Cfg.initial_supply]
  BY <1>3, <1>4, ScenarioDeviceIs
<1>6. OrderSound(r, NoOrder)
  BY <1>2, <1>3 DEF OrderSound, NoOrder
<1>7. SupplySound(r)
  BY <1>2, <1>3 DEF SupplySound
<1>8. OrderSound([r EXCEPT !.state = "low", !.level = Cfg.initial_supply], NoOrder)
  BY <1>6, <1>7, TimersPositive DEF OrderSound, SupplySound, NoOrder
<1> QED  BY <1>1, <1>5, <1>6, <1>8

\* A supply and its order agree: the supply is ordered exactly while an accepted order is
\* outstanding, with the same time to delivery; it claims no stock it has not got, and no
\* delivery is lost or booked twice.  reset() takes any positive initial_supply_level, so
\* that a level stays within 100 rests on the configuration.
THEOREM SuppliesMatchOrders ==
  ASSUME Cfg.initial_supply <= 100
  PROVE  Spec => []SupplyMatchesOrder
<1>1. HouseInv /\ OrdersInv /\ [Next]_vars => OrdersInv'
  BY OrdersNext
<1>2. OrdersInv => SupplyMatchesOrder
  BY DEF OrdersInv, OrderSound, SupplyMatchesOrder
<1> QED  BY <1>1, <1>2, OrdersInit, HouseInvariant, PTL DEF Spec
=============================================================================
