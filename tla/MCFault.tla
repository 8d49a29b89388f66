------------------------------ MODULE MCFault ------------------------------
(***************************************************************************)
(* Faults on a house of a garage door, a lock, a washer and a dishwasher,   *)
(* with visitors at the intercom, the second of whom is not expected.       *)
(***************************************************************************)
EXTENDS DiscreteFault, MCWorkflow

FaultDevices   == Faultable \cup {"intercom"}
FaultScenarios == {"laundry_completion_notification", "laundry_backlog_management",
                   "remote_visitor_gate_access"}
FaultBatches ==
  [sc \in FaultScenarios |->
     CASE sc = "remote_visitor_gate_access" ->
            {<<>>, <<Do("intercom", "answer"), Do("garage", "open")>>,
             <<Do("garage", "close"), Do("lock", "unlock")>>}
       [] sc = "laundry_backlog_management" ->
            {<<>>, <<Do("washer", "load"), Do("dishwasher", "load")>>,
             <<Do("washer", "start"), Do("dishwasher", "start")>>}
       [] sc = "laundry_completion_notification" ->
            {<<>>, <<Do("washer", "unload"), Do("garage", "open")>>, <<Do("garage", "open")>>,
             <<Do("garage", "close")>>}]
FaultRules ==
  [sc \in FaultScenarios |->
     IF sc = "remote_visitor_gate_access"
     THEN {Timed("gate", 8, 10, <<Do("garage", "open")>>, <<Do("garage", "close"), Do("lock", "lock")>>)}
     ELSE {Timed("chores", 3, 5,
             <<Do("dishwasher", "load"), Do("dishwasher", "start"), Do("garage", "open")>>,
             <<Do("garage", "close"), Do("lock", "lock")>>)}]

Fails(d, from, until, mode) ==
  [device |-> d, from |-> from, until |-> until, mode |-> mode, halves |-> 2]
Slows(d, from, until, halves) ==
  [device |-> d, from |-> from, until |-> until, mode |-> "slowdown", halves |-> halves]

\* Windows that meet, that begin and end around a start, and factors on both sides of 2.
SomeSchedules ==
  {{}, {Fails("washer", 2, 4, "offline"), Slows("dishwasher", 3, 5, 3), Slows("washer", 4, 6, 3)},
   {Slows("washer", 0, 3, 3), Fails("garage", 3, 5, "jammed"), Fails("dishwasher", 5, 6, "stuck")},
   {Slows("washer", 2, 4, 5), Slows("garage", 1, 4, 3), Fails("lock", 5, 7, "jammed")},
   {Fails("dishwasher", 3, 4, "stuck"), Slows("dishwasher", 4, 6, 4), Slows("garage", 3, 4, 4)}}
=============================================================================
