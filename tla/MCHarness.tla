----------------------------- MODULE MCHarness -----------------------------
(***************************************************************************)
(* One harness on a house of a garage door, a lock and pellets whose        *)
(* reorder point nobody can read, and an agent that installs rules.         *)
(***************************************************************************)
EXTENDS Harness, MCWorkflow

HouseDevices   == {"garage", "lock", "pellets"}
HouseScenarios == {"generic_household_workflow", "pellet_supply_guard"}
HouseCfg ==
  [k \in CfgKeys |->
     CASE k \in {"pellets_lead", "lock_autolock"}     -> 120
       [] k = "consumption_interval"                  -> 240
       [] k = "garage_move"                           -> 90
       [] k \in {"initial_supply", "reorder_point"}   -> 10
       [] k = "consumption_units"                     -> 4
       [] OTHER                                       -> 60]
HouseBatches ==
  [sc \in HouseScenarios |->
     IF sc = "generic_household_workflow"
     THEN {<<>>, <<Do("garage", "open"), Do("lock", "unlock")>>,
           <<Do("lock", "unlock"), Do("lock", "unlock")>>}
     ELSE {<<>>, <<Do("garage", "open")>>, <<Do("garage", "close"), DoWith("pellets", "place", 12)>>,
           <<DoWith("pellets", "place", 12)>>}]
HouseRules ==
  [sc \in HouseScenarios |->
     IF sc = "generic_household_workflow" THEN SomeRules
     ELSE {Timed("r", 2, 4, <<Do("garage", "open")>>, <<Do("garage", "close")>>)}]
HouseWaits      == {100, 200}
HouseFilters    == {NoFilter, "rule_fired", "garage_door_opened"}
HouseUnreadable == {"pellets"}
=============================================================================
