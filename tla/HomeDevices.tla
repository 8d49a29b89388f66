---------------------------- MODULE HomeDevices ----------------------------
(***************************************************************************)
(* The household of harness_v2/workflow_backend.py without its clock: the  *)
(* device tables, what a command requires and does, what an outside event  *)
(* ("stream") does, and the schedules of outside events each scenario can  *)
(* draw.  Nothing here has state; module Workflow adds the backend's       *)
(* variables and its tick.                                                 *)
(*                                                                         *)
(* Abstracted: the fridge temperature, the texts of notifications, calendar *)
(* dates, ids and start times of sessions and occurrences, the household's *)
(* copy of the bathroom's state, supplier and budget (a purchase the       *)
(* profile does not authorise is a command whose parameters fail), and the *)
(* values of identities, which are "none", "known" or "unknown".           *)
(***************************************************************************)
EXTENDS Integers, Sequences, FiniteSets

CONSTANTS
  Devices,     \* the devices this instance keeps, a subset of AllDevices
  Scenarios,   \* the scenario types a run may be reset with
  Tick,        \* seconds per tick, TICK_SECONDS
  Horizon,     \* horizon_seconds
  Cfg,         \* the durations and levels of workflow_config
  Clock,       \* ticks of the profile's clock times
  Allowlist    \* the identities the profile accepts

AllDevices == {"washer", "dishwasher", "vacuum", "garage", "lock", "intercom",
               "fridge", "stove", "mailbox", "bathroom", "notification", "media",
               "alarm", "coffee", "toilet", "paper", "trash", "pellets", "beer",
               "emergency"}

CfgKeys == {"washer_cycle", "dishwasher_cycle", "vacuum_clean", "vacuum_return",
            "vacuum_drain", "vacuum_charge", "vacuum_min_battery",
            "vacuum_low_battery", "garage_move", "lock_autolock", "ring_timeout",
            "answered_clear", "fridge_alarm", "stove_hazard",
            "bathroom_occupancy", "coffee_brew", "coffee_freshness",
            "alarm_timeout", "shower_session", "entry_relock",
            "pellets_lead", "beer_lead", "consumption_interval",
            "consumption_units", "initial_supply", "reorder_point"}

\* reset() refuses a duration that is not a positive integer and a horizon
\* shorter than one tick.
ASSUME ConfigAssumption ==
  /\ Devices \subseteq AllDevices
  /\ Tick \in Nat \ {0}
  /\ Horizon \in Nat /\ Horizon >= Tick
  /\ Cfg \in [CfgKeys -> Nat \ {0}]
  /\ Allowlist \subseteq {"known", "unknown"}

(***************************************************************************)
(* The tables.                                                             *)
(***************************************************************************)

\* States an operation may be applied in.
Required ==
  [washer       |-> [load |-> {"idle"}, start |-> {"loaded"}, unload |-> {"done"}],
   dishwasher   |-> [load |-> {"idle"}, start |-> {"loaded"}, unload |-> {"done"}],
   vacuum       |-> [start_cleaning |-> {"docked"}, dock |-> {"cleaning"}],
   garage       |-> [open |-> {"closed"}, close |-> {"open"}],
   lock         |-> [lock |-> {"unlocked"}, unlock |-> {"locked"}],
   intercom     |-> [answer |-> {"ringing"}],
   fridge       |-> [open |-> {"closed"}, close |-> {"open"}],
   stove        |-> [ignite |-> {"off"}, set_level |-> {"on"}, extinguish |-> {"on"}],
   mailbox      |-> [collect |-> {"flagged", "full"}],
   bathroom     |-> <<>>,
   notification |-> [send |-> {"ready"}],
   media        |-> [play |-> {"off", "playing"}, stop |-> {"playing"}],
   alarm        |-> [ring |-> {"idle"}, acknowledge |-> {"ringing"}],
   coffee       |-> [start |-> {"idle"}, serve |-> {"ready"}],
   toilet       |-> [flush |-> {"unflushed"}],
   paper        |-> [restock |-> {"empty"}],
   trash        |-> [empty |-> {"needs_emptying", "full"}],
   pellets      |-> [place |-> {"low", "empty"}],
   beer         |-> [place |-> {"low", "empty"}],
   emergency    |-> [call |-> {"ready"}]]

\* States in which device_runtime_seconds of the device runs.
ActiveStates ==
  [d \in AllDevices |->
     CASE d = "washer"     -> {"washing"}
       [] d = "dishwasher" -> {"running"}
       [] d = "vacuum"     -> {"cleaning", "returning"}
       [] d = "garage"     -> {"opening", "closing"}
       [] d = "intercom"   -> {"ringing", "answered"}
       [] d = "fridge"     -> {"open"}
       [] d = "stove"      -> {"on"}
       [] d = "bathroom"   -> {"occupied"}
       [] d = "media"      -> {"playing"}
       [] d = "alarm"      -> {"ringing"}
       [] d = "coffee"     -> {"brewing"}
       [] OTHER            -> {}]

InitialDevice ==
  [washer       |-> [state |-> "idle", remaining |-> 0],
   dishwasher   |-> [state |-> "idle", remaining |-> 0],
   vacuum       |-> [state |-> "docked", remaining |-> 0, battery |-> 100],
   garage       |-> [state |-> "closed", remaining |-> 0],
   lock         |-> [state |-> "locked", unlocked |-> 0],
   intercom     |-> [state |-> "idle", ring |-> 0, answered |-> 0],
   fridge       |-> [state |-> "closed", open |-> 0, alarm_sent |-> FALSE],
   stove        |-> [state |-> "off", level |-> 0, on |-> 0],
   mailbox      |-> [state |-> "empty", deliveries |-> 0],
   bathroom     |-> [state |-> "vacant", occupied |-> 0],
   notification |-> [state |-> "ready", messages |-> 0],
   media        |-> [state |-> "off", content |-> 0],
   alarm        |-> [state |-> "idle", ringing |-> 0],
   coffee       |-> [state |-> "idle", remaining |-> 0, freshness |-> 0],
   toilet       |-> [state |-> "flushed"],
   paper        |-> [state |-> "stocked", level |-> 100],
   trash        |-> [state |-> "empty", fill |-> 0],
   pellets      |-> [state |-> "stocked", level |-> 100, ordered |-> FALSE, remaining |-> 0],
   beer         |-> [state |-> "stocked", level |-> 100, ordered |-> FALSE, remaining |-> 0],
   emergency    |-> [state |-> "ready", calls |-> 0]]

\* _apply_scenario_initial_state: what reset() changes for one scenario.
ScenarioDevice(sc, d) ==
  LET r == InitialDevice[d] IN
  CASE sc = "laundry_completion_notification" /\ d = "washer" ->
         [r EXCEPT !.state = "washing", !.remaining = Cfg.washer_cycle]
    [] sc = "unattended_stove_guard" /\ d = "stove" ->
         [r EXCEPT !.state = "on", !.level = 2]
    [] sc \in {"departure_lockdown", "unoccupied_home_security"} /\ d = "lock" ->
         [r EXCEPT !.state = "unlocked"]
    [] sc = "post_parking_garage_closure" /\ d = "garage" ->
         [r EXCEPT !.state = "open"]
    [] sc = "television_curfew" /\ d = "media" ->
         [r EXCEPT !.state = "playing", !.content = 3]
    [] sc = "full_bin_collection_notice" /\ d = "trash" ->
         [r EXCEPT !.state = "full", !.fill = 100]
    [] \/ sc = "pellet_supply_guard" /\ d = "pellets"
       \/ sc = "beer_dispenser_stock" /\ d = "beer" ->
         [r EXCEPT !.state = "low", !.level = Cfg.initial_supply]
    [] OTHER -> r

Supplies == {"pellets", "beer"}

(***************************************************************************)
(* Commands.  arg stands for the parameters: a burner level, a content, a  *)
(* quantity; 0 where there are none.  0 for an operation that has          *)
(* parameters stands for parameters its schema or the profile refuses.     *)
(***************************************************************************)
Command == [device : Devices, op : STRING, arg : Nat]

ParamsOk(c) ==
  CASE c.device = "stove" /\ c.op # "extinguish" -> c.arg \in 1..3
    [] c.device = "stove" /\ c.op = "extinguish" -> TRUE
    [] c.device = "media" /\ c.op = "play"       -> c.arg \in 1..3
    [] c.device = "notification"                 -> c.arg = 1
    [] c.device = "emergency"                    -> c.arg \in 1..2
    [] c.device \in Supplies                     -> c.arg \in 1..100
    [] OTHER                                     -> c.arg = 0

\* What can be said of a command without looking at the state: all that the
\* installation of a rule checks.
StaticOk(c) == c.op \in DOMAIN Required[c.device] /\ ParamsOk(c)

\* The identity that a scenario's access command has to have been presented.
IdentityOk(c, sc, hh) ==
  CASE c.device = "garage" /\ c.op = "open" ->
         /\ sc = "expected_delivery_gate_and_notice" => hh.delivery \in Allowlist
         /\ sc = "remote_visitor_gate_access" => hh.visitor \in Allowlist
         /\ sc = "authorized_vehicle_gate_entry" => hh.vehicle \in Allowlist
    [] c.device = "lock" /\ c.op = "unlock" ->
         sc = "keyless_resident_entry" => hh.credential \in Allowlist
    [] c.device = "emergency" ->
         sc = "supported_emergency_call" => hh.emergency \in Allowlist
    [] OTHER -> TRUE

\* _validate_command with check_state: may c be applied to the devices D of a
\* household hh in scenario sc?
Legal(c, D, sc, hh) ==
  /\ StaticOk(c)
  /\ D[c.device].state \in Required[c.device][c.op]
  /\ c.op = "start_cleaning" => D[c.device].battery >= Cfg.vacuum_min_battery
  /\ IdentityOk(c, sc, hh)

Lead(d) == IF d = "pellets" THEN Cfg.pellets_lead ELSE Cfg.beer_lead

\* _apply_command: what c makes of its device's record r.
Applied(c, r) ==
  CASE c.op = "load"           -> [r EXCEPT !.state = "loaded"]
    [] c.op = "unload"         -> [r EXCEPT !.state = "idle"]
    [] c.device = "washer" /\ c.op = "start" ->
         [r EXCEPT !.state = "washing", !.remaining = Cfg.washer_cycle]
    [] c.device = "dishwasher" /\ c.op = "start" ->
         [r EXCEPT !.state = "running", !.remaining = Cfg.dishwasher_cycle]
    [] c.op = "start_cleaning" -> [r EXCEPT !.state = "cleaning", !.remaining = Cfg.vacuum_clean]
    [] c.op = "dock"           -> [r EXCEPT !.state = "returning", !.remaining = Cfg.vacuum_return]
    [] c.device = "garage"     ->
         [r EXCEPT !.state = IF c.op = "open" THEN "opening" ELSE "closing",
                   !.remaining = Cfg.garage_move]
    [] c.device = "lock"       ->
         [r EXCEPT !.state = IF c.op = "lock" THEN "locked" ELSE "unlocked", !.unlocked = 0]
    [] c.op = "answer"         -> [r EXCEPT !.state = "answered", !.answered = 0]
    [] c.device = "fridge" /\ c.op = "open"  ->
         [r EXCEPT !.state = "open", !.open = 0, !.alarm_sent = FALSE]
    [] c.device = "fridge" /\ c.op = "close" -> [r EXCEPT !.state = "closed"]
    [] c.op = "ignite"         -> [r EXCEPT !.state = "on", !.level = c.arg, !.on = 0]
    [] c.op = "set_level"      -> [r EXCEPT !.level = c.arg]
    [] c.op = "extinguish"     -> [r EXCEPT !.state = "off", !.level = 0, !.on = 0]
    [] c.op = "collect"        -> [r EXCEPT !.state = "empty"]
    [] c.op = "send"           -> [r EXCEPT !.messages = @ + 1]
    [] c.op = "play"           -> [r EXCEPT !.state = "playing", !.content = c.arg]
    [] c.op = "stop"           -> [r EXCEPT !.state = "off", !.content = 0]
    [] c.device = "alarm"      ->
         [r EXCEPT !.state = IF c.op = "ring" THEN "ringing" ELSE "idle", !.ringing = 0]
    [] c.device = "coffee" /\ c.op = "start" ->
         [r EXCEPT !.state = "brewing", !.remaining = Cfg.coffee_brew]
    [] c.op = "serve"          -> [r EXCEPT !.state = "idle", !.remaining = 0, !.freshness = 0]
    [] c.op = "flush"          -> [r EXCEPT !.state = "flushed"]
    [] c.op = "restock"        -> [r EXCEPT !.state = "stocked", !.level = 100]
    [] c.op = "empty"          -> [r EXCEPT !.state = "empty", !.fill = 0]
    [] c.op = "place"          ->
         [r EXCEPT !.state = "ordered", !.ordered = TRUE, !.remaining = Lead(c.device)]
    [] c.op = "call"           -> [r EXCEPT !.calls = @ + 1]
    [] OTHER                   -> r

\* The event types _apply_command emits for c.
CommandEvents(c) ==
  CASE c.device = "lock" /\ c.op = "lock"    -> <<"front_door_locked">>
    [] c.device = "lock" /\ c.op = "unlock"  -> <<"front_door_unlocked">>
    [] c.op = "answer"                       -> <<"visitor_answered">>
    [] c.device = "fridge" /\ c.op = "close" -> <<"fridge_door_closed">>
    [] c.op = "extinguish"                   -> <<"stove_extinguished">>
    [] c.op = "collect"                      -> <<"mail_collected">>
    [] c.op = "send"                         -> <<"notification_sent">>
    [] c.op = "play"                         -> <<"media_started">>
    [] c.op = "stop"                         -> <<"media_stopped">>
    [] c.op = "ring"                         -> <<"alarm_sounded">>
    [] c.op = "acknowledge"                  -> <<"alarm_acknowledged">>
    [] c.op = "serve"                        -> <<"coffee_served">>
    [] c.op = "flush"                        -> <<"toilet_flushed">>
    [] c.op = "restock"                      -> <<"supply_restocked">>
    [] c.op = "empty"                        -> <<"trash_bin_emptied">>
    [] c.op = "place"                        -> <<"supply_order_accepted">>
    [] c.op = "call"                         -> <<"emergency_call_placed", "emergency_call_accepted">>
    [] OTHER                                 -> <<>>

\* A task belongs to one device and is named by it here: laundry_cycle,
\* dish_cycle, vacuum_clean, visitor_response, cooking, coffee_brew.
TaskDevices == {"washer", "dishwasher", "vacuum", "intercom", "stove", "coffee"}

StartsTask(c) == c.op \in {"start", "start_cleaning", "ignite"}

NoOutcome == "none"

\* Mutant of EndsTask: putting out the stove leaves the cooking task running.
EndsTaskMutant(c) == IF c.op = "answer" THEN "answered" ELSE NoOutcome

\* The outcome with which c completes its device's task, NoOutcome if it does not.
EndsTask(c) ==
  CASE c.op = "answer"     -> "answered"
    [] c.op = "extinguish" -> "extinguished"
    [] OTHER               -> NoOutcome

\* What c does to sessions and orders (self._workflow).
CommandWorkflow(c, w) ==
  CASE c.device = "garage" ->
         [w EXCEPT !.sessions.garage_access = IF c.op = "open" THEN "opening" ELSE "reclosing"]
    [] c.device \in Supplies ->
         [w EXCEPT !.orders[c.device] =
            [status |-> "accepted", quantity |-> c.arg, remaining |-> Lead(c.device)]]
    [] OTHER -> w
=============================================================================
