---------------------------- MODULE MCScheduler ----------------------------
(***************************************************************************)
(* Five rules on three capabilities: three lifecycles, two of them with a   *)
(* release that others get in the way of, and one that contradicts itself.  *)
(***************************************************************************)
EXTENDS ReferenceScheduler

Set(k, v) == [key |-> k, val |-> v]
SomeRules == 1..5
SomeKeys  == {"lamp", "door", "heat"}
SomeBook ==
  <<[priority |-> 5, creation |-> 1, commands |-> <<Set("lamp", 1), Set("door", 1)>>,
     release |-> <<Set("lamp", 0)>>, lifecycle |-> "once", max |-> 0, cooldown |-> 0],
    [priority |-> 5, creation |-> 2, commands |-> <<Set("door", 1), Set("door", 1), Set("heat", 2)>>,
     release |-> <<Set("heat", 0), Set("door", 0)>>, lifecycle |-> "max_fires", max |-> 2, cooldown |-> 2],
    [priority |-> 3, creation |-> 0, commands |-> <<Set("heat", 3), Set("lamp", 1)>>,
     release |-> <<>>, lifecycle |-> "manual_cancel", max |-> 0, cooldown |-> 1],
    [priority |-> 9, creation |-> 3, commands |-> <<Set("heat", 2), Set("lamp", 2)>>,
     release |-> <<Set("door", 0)>>, lifecycle |-> "once", max |-> 0, cooldown |-> 3],
    [priority |-> 1, creation |-> 3, commands |-> <<Set("lamp", 1), Set("lamp", 2)>>,
     release |-> <<>>, lifecycle |-> "manual_cancel", max |-> 0, cooldown |-> 0]>>

Occurs(i, r, kind) == [id |-> i, rule |-> r, kind |-> kind, condition |-> TRUE]
SomeOccurrences ==
  {Occurs(1, 1, "trigger"), Occurs(2, 2, "trigger"), Occurs(3, 3, "trigger"), Occurs(4, 4, "trigger"),
   Occurs(5, 2, "trigger"), Occurs(6, 1, "trigger"), Occurs(7, 2, "cancel"), Occurs(8, 1, "expiry"),
   Occurs(9, 4, "expiry"), Occurs(10, 5, "trigger"), Occurs(11, 3, "cancel"),
   [Occurs(12, 4, "trigger") EXCEPT !.condition = FALSE]}
SomeArrivals == {A \in SUBSET SomeOccurrences : \A a, b, c, d \in A : a = b \/ a = c \/ a = d \/ b = c \/ b = d \/ c = d}
=============================================================================
