----------------------------- MODULE MCSession -----------------------------
(***************************************************************************)
(* One session on each kind of route: a simulator, the context route and   *)
(* the household, in intervals of a minute.                                *)
(***************************************************************************)
EXTENDS SessionProperties

AllRoutes    == {"d0_exogenous_context", Workflow, "d1_citylearn_battery_fault"}
Setpoints    == {"on", "off"}
SomeWaits    == {60, 150}
OneOrTwo     == {1, 2}
=============================================================================
