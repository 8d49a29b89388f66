---------------------------- MODULE Conversation ----------------------------
(***************************************************************************)
(* CompactObservationConversation (llm_conversation.py), filled by          *)
(* run_session (llm_backend_session.py).  What the model may know of the    *)
(* house is in the messages: the whole first observation, and a delta for   *)
(* every one after it.  A decision takes one native step, or several when   *)
(* the session waits on its own; the latter travel inside the feedback, the *)
(* last of them without its delta, which would repeat that of the message.  *)
(*                                                                         *)
(* An exception leaves the builder as it is; the session would end there,   *)
(* other callers go on.  Texts, queries and the action's content are left   *)
(* out.                                                                    *)
(***************************************************************************)
EXTENDS ObservationDelta, SequencesExt

CONSTANTS Observations,  \* what a backend may show, with or without NaN
          MaxSteps       \* native steps of an episode

VARIABLES
  autonomous,  \* the session waits on its own
  messages,    \* _messages, from the first observation on
  latest,      \* _latest_observation
  pending,     \* _pending_action
  microsteps,  \* deltas of the native steps of the decision being carried out
  previous,    \* previous_observation of the loop
  transitions, \* what the native steps showed, from the reset on
  wakes        \* wake_observations
vars == <<autonomous, messages, latest, pending, microsteps, previous, transitions, wakes>>

ASSUME ObservationsAssumption ==
  /\ Observations \subseteq {v \in Values : v.kind = "object"}
  /\ MaxSteps \in Nat

Opening(o)           == [role |-> "initial", observation |-> o]
Action               == [role |-> "assistant"]
Environment(d, told) == [role |-> "environment", delta |-> d, microsteps |-> told]

Init ==
  /\ autonomous \in BOOLEAN
  /\ latest \in {o \in Observations : Canonical[o]}
  /\ messages = <<Opening(latest)>>
  /\ pending = FALSE
  /\ microsteps = <<>> /\ previous = latest
  /\ transitions = <<latest>> /\ wakes = <<latest>>

(***************************************************************************)
(* The loop of native steps                                                *)
(***************************************************************************)
Deciding == ~pending /\ (autonomous \/ microsteps = <<>>)

\* The delta is applied on the spot, and the receipt refused if it misses.
Step(o) ==
  /\ Deciding /\ Len(transitions) <= MaxSteps
  /\ Canonical[o]
  /\ LET delta == Delta(previous, o) IN
       /\ Apply(previous, delta) = o
       /\ microsteps' = Append(microsteps, delta)
  /\ previous' = o
  /\ transitions' = Append(transitions, o)
  /\ UNCHANGED <<autonomous, messages, latest, pending, wakes>>

StepRaises(o) ==
  /\ Deciding /\ Len(transitions) <= MaxSteps
  /\ ~Canonical[o] \/ Apply(previous, Delta(previous, o)) # o
  /\ UNCHANGED vars

(***************************************************************************)
(* append_action and append_environment                                    *)
(***************************************************************************)
AppendAction ==
  /\ ~pending /\ microsteps # <<>>
  /\ messages' = Append(messages, Action)
  /\ pending' = TRUE
  /\ UNCHANGED <<autonomous, latest, microsteps, previous, transitions, wakes>>

Told == IF autonomous THEN Front(microsteps) ELSE <<>>

AppendEnvironment ==
  /\ pending
  /\ messages' = Append(messages, Environment(Delta(latest, previous), Told))
  /\ latest' = previous
  /\ pending' = FALSE
  /\ microsteps' = <<>>
  /\ wakes' = Append(wakes, previous)
  /\ UNCHANGED <<autonomous, previous, transitions>>

\* Mutant of AppendEnvironmentRaises: the observation is noted before the
\* message is built.
AppendEnvironmentRaisesMutant ==
  /\ pending /\ autonomous
  /\ latest' = previous
  /\ UNCHANGED <<autonomous, messages, pending, microsteps, previous, transitions, wakes>>

\* The feedback of an autonomous wait is serialised only here, after the action
\* was appended; append_native_transition tries it before.
AppendEnvironmentRaises ==
  /\ pending /\ autonomous
  /\ UNCHANGED vars

Next ==
  \/ \E o \in Observations : Step(o) \/ StepRaises(o)
  \/ AppendAction
  \/ AppendEnvironment
  \/ AppendEnvironmentRaises

ConversationSpec == Init /\ [][Next]_vars

(***************************************************************************)
(* What can be read from the messages                                      *)
(***************************************************************************)
\* The values that deltas lead to, one after the other.
Chain(from, deltas) ==
  LET known[i \in 0..Len(deltas)] == IF i = 0 THEN from ELSE Apply(known[i - 1], deltas[i])
  IN  [i \in 1..Len(deltas) + 1 |-> known[i - 1]]

\* After the first message come pairs of an action and what it led to.
Decisions == (Len(messages) - 1) \div 2
Wakings   == [i \in 1..Decisions |-> messages[2 * i + 1]]

\* validate_canonical_conversation.
Reconstructed == Chain(messages[1].observation, [i \in 1..Decisions |-> Wakings[i].delta])

\* The same, with the native steps told within each decision.
Everything ==
  LET known[i \in 0..Decisions] ==
        IF i = 0 THEN <<messages[1].observation>>
        ELSE LET last == Last(known[i - 1])
             IN  known[i - 1] \o Tail(Chain(last, Wakings[i].microsteps))
                              \o <<Apply(last, Wakings[i].delta)>>
  IN  known[Decisions]

\* "history_mode: initial_full_plus_lossless_deltas", and "The outer wake delta
\* already reconstructs the final state. [...] Earlier states remain": whoever
\* has only the messages knows every observation of every finished decision,
\* after errors too, and validate finds what the session has woken to.
HistoryReconstructs ==
  /\ Reconstructed = wakes
  /\ Everything = SubSeq(transitions, 1, Len(transitions) - Len(microsteps))

\* "Strictly apply one delta and reject tampered or ambiguous payloads": a
\* message repeated in the history is refused, unless it says that nothing
\* has changed.
RepeatedIsRefused ==
  \A i \in 1..Decisions :
    Wakings[i].delta # None => Apply(Reconstructed[i + 1], Wakings[i].delta) = Rejected
=============================================================================
