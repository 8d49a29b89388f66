----------------------------- MODULE MCFacade ------------------------------
(***************************************************************************)
(* A facade before a simulator and one before the household, called in any *)
(* order over three episodes.                                              *)
(***************************************************************************)
EXTENDS AgentFacade

BothKinds == {"d1_ev2gym_fault", Workflow}
OneOrTwo  == {1, 2}
=============================================================================
