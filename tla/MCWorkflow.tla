----------------------------- MODULE MCWorkflow -----------------------------
(***************************************************************************)
(* Small instances of Workflow for TLC.  A cfg picks the devices of one     *)
(* part of the house, the scenarios a run is reset with, the commands and   *)
(* rules an agent may send in each, and the horizon.  Tick is the code's 60 *)
(* seconds.                                                                *)
(***************************************************************************)
EXTENDS WorkflowProperties, TLC

Do(d, op)          == [device |-> d, op |-> op, arg |-> 0]
DoWith(d, op, arg) == [device |-> d, op |-> op, arg |-> arg]

\* Durations of a few ticks; some are not multiples of the tick, as reset allows.
ShortCfg ==
  [washer_cycle |-> 150, dishwasher_cycle |-> 120, vacuum_clean |-> 180,
   vacuum_return |-> 60, vacuum_drain |-> 30, vacuum_charge |-> 40,
   vacuum_min_battery |-> 30, vacuum_low_battery |-> 20, garage_move |-> 90,
   lock_autolock |-> 150, ring_timeout |-> 120, answered_clear |-> 60,
   fridge_alarm |-> 120, stove_hazard |-> 150, bathroom_occupancy |-> 120,
   coffee_brew |-> 90, coffee_freshness |-> 120, alarm_timeout |-> 120,
   shower_session |-> 120, entry_relock |-> 120, pellets_lead |-> 120,
   beer_lead |-> 60, consumption_interval |-> 60, consumption_units |-> 4,
   initial_supply |-> 10, reorder_point |-> 10]

SomeClock == [curfew_start |-> 2, curfew_end |-> 7, weekly_due |-> 2, wake |-> 3, morning |-> 2]
KnownOnly == {"known"}

Timed(id, fire, release, cmds, rel) ==
  [id |-> id, fire |-> fire, release |-> release, cmds |-> cmds, rel |-> rel]

(***************************************************************************)
(* Rules on a garage door and a lock, for the run of the harness.           *)
(***************************************************************************)
SomeRules ==
  {Timed("r1", 2, 0, <<Do("garage", "open"), Do("lock", "unlock")>>, <<>>),
   Timed("r1", 3, 0, <<Do("garage", "close")>>, <<>>),
   Timed("r2", 2, 3, <<Do("lock", "unlock"), Do("lock", "lock")>>, <<Do("garage", "open")>>),
   Timed("r3", 1, 3, <<Do("garage", "open")>>, <<Do("garage", "close"), Do("lock", "lock")>>),
   Timed("r3", 3, 3, <<Do("garage", "open")>>, <<Do("lock", "lock")>>),
   Timed("r2", 2, 0, <<Do("garage", "jump")>>, <<>>)}

(***************************************************************************)
(* The entrance: visitors, deliveries, vehicles, residents.                 *)
(***************************************************************************)
EntryDevices   == {"garage", "lock", "intercom"}
EntryScenarios == {"remote_visitor_gate_access", "expected_delivery_gate_and_notice",
                   "authorized_vehicle_gate_entry", "keyless_resident_entry",
                   "post_parking_garage_closure", "unoccupied_home_security"}
EntryBatches ==
  [sc \in EntryScenarios |->
     {<<>>, <<Do("garage", "open"), Do("intercom", "answer")>>, <<Do("garage", "open")>>,
      <<Do("garage", "close")>>, <<Do("lock", "unlock")>>}]
EntryRules ==
  [sc \in EntryScenarios |->
     {Timed("relock", 6, 0, <<Do("lock", "lock"), Do("garage", "close")>>, <<>>)}]
EntryFilters == {NoFilter, "visitor_rang", "garage_door_obstruction"}

(***************************************************************************)
(* The machines of chores and kitchen, each scenario with the commands on   *)
(* the devices it is about.                                                *)
(***************************************************************************)
MachineDevices   == {"washer", "dishwasher", "vacuum", "stove", "fridge", "coffee"}
ChoreScenarios   == {"laundry_completion_notification", "laundry_backlog_management",
                     "weekly_floor_cleaning"}
KitchenScenarios == {"unattended_stove_guard", "coffee_ready_at_wake"}
MachineScenarios == ChoreScenarios \cup KitchenScenarios
MachineBatches ==
  [sc \in MachineScenarios |->
     IF sc \in ChoreScenarios
     THEN {<<>>, <<Do("washer", "start")>>, <<Do("washer", "unload")>>, <<Do("dishwasher", "load")>>,
           <<Do("vacuum", "start_cleaning")>>, <<Do("vacuum", "dock")>>}
     ELSE {<<>>, <<DoWith("stove", "ignite", 2)>>, <<DoWith("stove", "ignite", 4)>>,
           <<DoWith("stove", "set_level", 3), Do("fridge", "open")>>,
           <<Do("stove", "extinguish"), Do("fridge", "close")>>,
           <<Do("coffee", "start")>>, <<Do("coffee", "serve"), Do("fridge", "open")>>}]
MachineRules ==
  [sc \in MachineScenarios |->
     IF sc \in ChoreScenarios
     THEN {Timed("dishes", 4, 6, <<Do("dishwasher", "start")>>,
                    <<Do("dishwasher", "unload"), Do("vacuum", "dock")>>)}
     ELSE {Timed("tea", 3, 5, <<DoWith("stove", "ignite", 1), Do("coffee", "start")>>,
                    <<Do("stove", "extinguish"), Do("coffee", "serve")>>)}]
MachineFilters == {NoFilter, "coffee_ready"}

(***************************************************************************)
(* Goods and services: supplies, and the devices without a cycle.          *)
(***************************************************************************)
GoodsDevices     == {"pellets", "beer", "mailbox", "bathroom", "notification", "media",
                     "alarm", "toilet", "paper", "trash", "emergency"}
SupplyScenarios  == {"pellet_supply_guard", "beer_dispenser_stock"}
ServiceScenarios == {"mail_arrival_notification", "bathroom_occupancy_indicator",
                     "full_bin_collection_notice", "post_use_toilet_flush",
                     "toilet_paper_depletion_notice", "television_curfew",
                     "intended_wake_alarm", "supported_emergency_call",
                     "departure_key_reminder", "shower_music_availability",
                     "failed_entry_notification"}
GoodsScenarios   == SupplyScenarios \cup ServiceScenarios

GoodsBatches ==
  [sc \in GoodsScenarios |->
     CASE sc \in SupplyScenarios ->
            {<<>>, <<DoWith("pellets", "place", 1)>>, <<DoWith("beer", "place", 100)>>,
             <<DoWith("pellets", "place", 12), DoWith("beer", "place", 3)>>,
             <<DoWith("pellets", "place", 0)>>}
       [] sc \in ServiceScenarios ->
            {<<>>, <<Do("mailbox", "collect"), Do("trash", "empty")>>, <<Do("trash", "empty")>>,
             <<Do("toilet", "flush")>>, <<Do("paper", "restock")>>,
             <<DoWith("emergency", "call", 1)>>, <<Do("media", "stop")>>}]

GoodsRules ==
  [sc \in GoodsScenarios |->
     CASE sc \in SupplyScenarios ->
            {Timed("restock", 4, 0, <<DoWith("pellets", "place", 5)>>, <<>>)}
       [] sc \in ServiceScenarios ->
            {Timed("evening", 3, 5,
               <<DoWith("notification", "send", 1), DoWith("media", "play", 1), Do("alarm", "ring")>>,
               <<Do("media", "stop"), Do("mailbox", "collect"), Do("alarm", "acknowledge")>>)}]
GoodsFilters == {NoFilter, "supply_delivered"}

(***************************************************************************)
(* The house: entrance, machines, goods and services in one run.            *)
(***************************************************************************)
HouseholdDevices   == EntryDevices \cup MachineDevices \cup GoodsDevices
HouseholdScenarios == EntryScenarios \cup MachineScenarios \cup GoodsScenarios
HouseholdBatches   == EntryBatches @@ MachineBatches @@ GoodsBatches
HouseholdRules     == EntryRules @@ MachineRules @@ GoodsRules
HouseholdWaits     == {150}
HouseholdFilters   == EntryFilters \cup MachineFilters \cup GoodsFilters

(***************************************************************************)
(* The fridge door that an outside event opens.                            *)
(***************************************************************************)
FridgeOnly     == {"fridge"}
FridgeScenario == {"fridge_door_left_open"}
FridgeBatches  == [sc \in FridgeScenario |-> {<<>>, <<Do("fridge", "open")>>, <<Do("fridge", "close")>>}]
FridgeRules    == [sc \in FridgeScenario |-> {}]
=============================================================================
