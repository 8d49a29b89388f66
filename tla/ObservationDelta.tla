-------------------------- MODULE ObservationDelta --------------------------
(***************************************************************************)
(* unified_compiler/llm_conversation.py: the difference of two public       *)
(* observations, and its application.  A JSON value is an object (a         *)
(* function from its keys), an array (a sequence) or a scalar, known by its *)
(* canonical text: 1, 1.0 and true are three texts.  NaN has none.  The     *)
(* recursion of the code is that of functions on all values and deltas.     *)
(***************************************************************************)
EXTENDS Naturals, Sequences, FiniteSets

CONSTANTS Values, \* the JSON values that occur, with the values within them
          Depth   \* how deep each of them nests

Object(f)   == [kind |-> "object", at |-> f]
Array(s)    == [kind |-> "array", at |-> s]
Scalar(txt) == [kind |-> "scalar", at |-> txt]
NaN         == Scalar("NaN")

ASSUME ValuesAssumption ==
  /\ Depth \in [Values -> Nat]
  /\ \A v \in Values :
       /\ v = [kind |-> v.kind, at |-> v.at]
       /\ \/ v.kind = "scalar"
          \/ v.kind = "object" /\ v.at \in [DOMAIN v.at -> Values]
          \/ v.kind = "array" /\ v.at \in Seq(Values)
       /\ v.kind # "scalar" => \A i \in DOMAIN v.at : Depth[v.at[i]] < Depth[v]

\* What apply_observation_delta raises for a delta that does not fit.
Rejected == [kind |-> "rejected"]

\* canonical_json raises for a value with a non-finite number anywhere in it.
Canonical[v \in Values] ==
  IF v.kind = "scalar" THEN v # NaN ELSE \A i \in DOMAIN v.at : Canonical[v.at[i]]

None == [op |-> "none"]

SameShape(old, new) ==
  /\ old.kind = new.kind
  /\ old.kind = "array" => Len(old.at) = Len(new.at)
  /\ old.kind # "scalar"

\* Nodes of both kinds carry what changed below them; an object also what came
\* and what went.
Changes(diff, old, new) ==
  [k \in {i \in DOMAIN old.at \cap DOMAIN new.at : old.at[i] # new.at[i]} |->
     diff[<<old.at[k], new.at[k]>>]]

Node(diff, old, new) ==
  CASE old = new -> None
    [] old # new /\ ~SameShape(old, new) -> [op |-> "replace", before |-> old, after |-> new]
    [] old # new /\ SameShape(old, new) /\ old.kind = "array" ->
         [op |-> "array", changed |-> Changes(diff, old, new)]
    [] old # new /\ SameShape(old, new) /\ old.kind # "array" ->
         [op      |-> "object",
          added   |-> [k \in DOMAIN new.at \ DOMAIN old.at |-> new.at[k]],
          removed |-> DOMAIN old.at \ DOMAIN new.at,
          changed |-> Changes(diff, old, new)]

Diff[p \in Values \X Values] == Node(Diff, p[1], p[2])

Delta(old, new) == Diff[<<old, new>>]

\* Mutant of ApplyReplace: the value before is not compared.
ApplyReplaceLax(before, delta) == delta.after

ApplyReplace(before, delta) == IF before = delta.before THEN delta.after ELSE Rejected

\* What an object delta may do: remove and change what is there, add what is not.
Fits(before, delta) ==
  /\ before.kind = "object"
  /\ delta.removed \cap (DOMAIN delta.added \cup DOMAIN delta.changed) = {}
  /\ delta.removed \subseteq DOMAIN before.at
  /\ DOMAIN delta.added \cap DOMAIN before.at = {}
  /\ DOMAIN delta.changed \subseteq DOMAIN before.at \cup DOMAIN delta.added

Changed(apply, at, changed) ==
  [i \in DOMAIN at |-> IF i \in DOMAIN changed THEN apply[<<at[i], changed[i]>>] ELSE at[i]]

\* What an object holds once keys are removed and added.
Rekeyed(before, delta) ==
  LET kept == DOMAIN before.at \ delta.removed
  IN  [k \in kept \cup DOMAIN delta.added |-> IF k \in kept THEN before.at[k] ELSE delta.added[k]]

\* A value is rejected with what is rejected in it.
Whole(v) == IF \E i \in DOMAIN v.at : v.at[i] = Rejected THEN Rejected ELSE v

Applied(apply, before, delta) ==
  CASE delta.op = "none" -> before
    [] delta.op = "replace" -> ApplyReplace(before, delta)
    [] delta.op = "array" ->
         IF before.kind = "array" /\ DOMAIN delta.changed \subseteq DOMAIN before.at
         THEN Whole(Array(Changed(apply, before.at, delta.changed)))
         ELSE Rejected
    [] delta.op = "object" ->
         IF Fits(before, delta)
         THEN Whole(Object(Changed(apply, Rekeyed(before, delta), delta.changed)))
         ELSE Rejected

Deltas == {Delta(old, new) : old \in Values, new \in Values}

ApplyTo[p \in Values \X Deltas] == Applied(ApplyTo, p[1], p[2])

\* Nothing can be applied to what was rejected: the exception ends the reading.
Apply(before, delta) == IF before = Rejected THEN Rejected ELSE ApplyTo[<<before, delta>>]
=============================================================================
