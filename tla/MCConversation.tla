--------------------------- MODULE MCConversation ---------------------------
(***************************************************************************)
(* A small instance of Conversation: observations with missing keys, null,  *)
(* arrays of two lengths, nested objects, and a number that is not finite.  *)
(***************************************************************************)
EXTENDS Conversation

Small ==
  {Scalar("null"), Scalar("1"), Object(<<>>),
   Array(<<Scalar("1")>>), Array(<<Scalar("null")>>), Array(<<Scalar("1"), Scalar("1")>>),
   Array(<<Object(<<>>)>>)}
Middle ==
  Small \cup {Object([t |-> Scalar("1")]), Object([t |-> Scalar("null")]),
             Object([u |-> Array(<<Object(<<>>)>>)])}
Rooms == {<<>>} \cup {[room |-> v] : v \in Middle \ {Array(<<Object(<<>>)>>)}}
               \cup {[light |-> Scalar("1")], [room |-> Scalar("1"), light |-> Scalar("null")]}

SomeObservations == {Object(f) : f \in Rooms} \cup {Object([room |-> NaN])}
SomeValues       == Middle \cup {NaN} \cup SomeObservations
SomeDepth[v \in SomeValues] ==
  IF v.kind = "scalar" THEN 0 ELSE 1 + Max({0} \cup {SomeDepth[v.at[i]] : i \in DOMAIN v.at})
=============================================================================
