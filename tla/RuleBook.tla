------------------------------ MODULE RuleBook ------------------------------
(***************************************************************************)
(* What the installed rules of WorkflowBackend amount to, without devices,  *)
(* commands, events or calls: a book of timers.  Each entry fires exactly   *)
(* once, at its own step; if it has a release it stays in the book and is   *)
(* released exactly once, at its own later step.  At one step all firings   *)
(* come before all releases, each in the order of installation, and the     *)
(* clock does not move on while an entry is due.                           *)
(***************************************************************************)
EXTENDS Integers

VARIABLES
  now,    \* the step
  book    \* entries [id, fire, release, seq, fired]; release = 0 is none

DueFire(b)    == ~b.fired /\ b.fire = now
DueRelease(b) == b.fired /\ b.release = now

Settled == \A b \in book : ~DueFire(b) /\ ~DueRelease(b)

Init == now = 0 /\ book = {}

Install(b) ==
  /\ Settled
  /\ \A c \in book : c.id # b.id /\ c.seq < b.seq
  /\ ~b.fired /\ b.fire > now
  /\ b.release # 0 => b.release > b.fire
  /\ book' = book \cup {b}
  /\ UNCHANGED now

Cancel(b) ==
  /\ Settled
  /\ book' = book \ {b}
  /\ UNCHANGED now

Fire(b) ==
  /\ DueFire(b)
  /\ \A c \in book : DueFire(c) => b.seq <= c.seq
  /\ book' = (book \ {b}) \cup (IF b.release = 0 THEN {} ELSE {[b EXCEPT !.fired = TRUE]})
  /\ UNCHANGED now

Release(b) ==
  /\ DueRelease(b)
  /\ \A c \in book : ~DueFire(c) /\ (DueRelease(c) => b.seq <= c.seq)
  /\ book' = book \ {b}
  /\ UNCHANGED now

Pass ==
  /\ Settled
  /\ now' = now + 1
  /\ UNCHANGED book

Next ==
  \/ \E b \in book' \ book : Install(b)
  \/ \E b \in book : Cancel(b) \/ Fire(b) \/ Release(b)
  \/ Pass

Spec == Init /\ [][Next]_<<now, book>>
=============================================================================
