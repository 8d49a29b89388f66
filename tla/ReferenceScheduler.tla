------------------------- MODULE ReferenceScheduler -------------------------
(***************************************************************************)
(* harness_v2/reference_scheduler.py: scheduler_step, one instant of the    *)
(* rule language of rule_dsl_v0.json.  An instant retires the rules that    *)
(* expire or are cancelled, collects the triggers that may fire, settles    *)
(* one by one which of them win each device's capability, attempts the      *)
(* winners' batches on the backend one by one, and then the release batches *)
(* of what was retired.  The backend applies a batch as a whole or fails it. *)
(*                                                                         *)
(* Abstracted: the events an instant reports, the callback reasons, and the *)
(* order of the commands within a batch.                                   *)
(***************************************************************************)
EXTENDS Integers, Sequences

CONSTANTS
  RuleIds,   \* rule_id, as naturals: their order is the lexical one
  Book,      \* the fields of each rule that never change
  Keys,      \* conflict keys: (device_id, capability)
  Arrivals,  \* the sets of occurrences an instant may be given
  Horizon    \* horizon, in seconds of the first instant

Command == [key : Keys, val : Nat]

RuleBook ==
  [priority : Nat, creation : Nat, commands : Seq(Command), release : Seq(Command),
   lifecycle : {"once", "max_fires", "manual_cancel"}, max : Nat, cooldown : Nat]

Occurrence ==
  [id : Nat, rule : RuleIds, kind : {"trigger", "expiry", "cancel"}, condition : BOOLEAN]

ASSUME BookAssumption ==
  /\ RuleIds \subseteq Nat
  /\ Book \in [RuleIds -> RuleBook]
  /\ Arrivals \subseteq SUBSET Occurrence
  /\ \A A \in Arrivals : \A a, b \in A : a.id = b.id => a = b
  /\ Horizon \in Nat

VARIABLES
  now,         \* timestamp of the instant
  rules,       \* RuleState: fires, until (cooldown_until), active, released
  candidates,  \* candidates still to be settled
  claimed,     \* the commands that hold a key, of firings that won or lost
  firings,     \* firing_batches: those won, then those still to be attempted
  queue,       \* release_queue: how often each rule is in it
  applied,     \* applied_commands of this instant, by batch
  phase

svars == <<now, rules, candidates, claimed, firings, queue, applied, phase>>

Init ==
  /\ now = 0
  /\ rules = [r \in RuleIds |-> [fires |-> 0, until |-> 0, active |-> TRUE, released |-> FALSE]]
  /\ candidates = {} /\ claimed = {} /\ firings = <<>>
  /\ queue = [r \in RuleIds |-> 0] /\ applied = <<>>
  /\ phase = "idle"

(***************************************************************************)
(* Who fires.                                                              *)
(***************************************************************************)

Retires(o) == o.kind \in {"expiry", "cancel"}

\* The rules that the occurrences' expiries and cancellations retire.
Retirees(occs) == {r \in RuleIds : rules[r].active /\ \E o \in occs : o.rule = r /\ Retires(o)}

Expired(occs) ==
  [r \in RuleIds |-> IF r \in Retirees(occs) THEN [rules[r] EXCEPT !.active = FALSE] ELSE rules[r]]

\* Mutant of Eligible: a rule that expires at this instant still fires.
EligibleBefore(o, t, R) == o.kind = "trigger" /\ rules[o.rule].active /\ o.condition /\ R[o.rule].until <= t

\* R: the rules after expiry
Eligible(o, t, R) == o.kind = "trigger" /\ R[o.rule].active /\ o.condition /\ R[o.rule].until <= t

Before(o, p) ==
  LET b == Book[o.rule]  c == Book[p.rule] IN
  \/ b.priority > c.priority
  \/ /\ b.priority = c.priority
     /\ \/ b.creation < c.creation
        \/ b.creation = c.creation /\ (o.rule < p.rule \/ (o.rule = p.rule /\ o.id < p.id))

(***************************************************************************)
(* The steps of an instant.                                                *)
(***************************************************************************)

Instant(t, occs) ==
  /\ phase = "idle" /\ now < t /\ t < Horizon
  /\ now' = t
  /\ rules' = Expired(occs)
  /\ queue' = [r \in RuleIds |-> IF r \in Retirees(occs) THEN 1 ELSE 0]
  /\ candidates' = {o \in occs : Eligible(o, t, rules')}
  /\ claimed' = {} /\ firings' = <<>> /\ applied' = <<>>
  /\ phase' = "settling"

\* Horizon precedence: nothing else happens at that instant.
Terminate(t) ==
  /\ phase = "idle" /\ t >= Horizon
  /\ now' = t /\ phase' = "terminated"
  /\ UNCHANGED <<rules, candidates, claimed, firings, queue, applied>>

\* A firing that gives one key two commands is none at all.
Consistent(cmds) == \A i, j \in 1..Len(cmds) : cmds[i].key = cmds[j].key => cmds[i] = cmds[j]

\* Another command holds the key.
Clashes(c) == \E d \in claimed : d.key = c.key /\ d # c

\* The commands up to the first that clashes.
Taken(cmds) == {cmds[i] : i \in {n \in 1..Len(cmds) : \A k \in 1..n : ~Clashes(cmds[k])}}

\* Mutant of Settle: a command another firing already gives is given again.
SettleAgain(o) ==
  /\ phase = "settling" /\ o \in candidates /\ \A p \in candidates \ {o} : Before(o, p)
  /\ LET cmds == Book[o.rule].commands
         won  == \A i \in 1..Len(cmds) : ~Clashes(cmds[i])
     IN  IF Consistent(cmds)
         THEN /\ claimed' = claimed \cup Taken(cmds)
              /\ firings' = IF won THEN Append(firings, [rule |-> o.rule, batch |-> Taken(cmds)])
                                   ELSE firings
         ELSE UNCHANGED <<claimed, firings>>
  /\ candidates' = candidates \ {o}
  /\ UNCHANGED <<now, rules, queue, applied, phase>>

\* A command takes its key, shares it with an identical one, or loses the firing.
\* What a losing firing has claimed stays claimed.
Settle(o) ==
  /\ phase = "settling" /\ o \in candidates /\ \A p \in candidates \ {o} : Before(o, p)
  /\ LET cmds == Book[o.rule].commands
         won  == \A i \in 1..Len(cmds) : ~Clashes(cmds[i])
     IN  IF Consistent(cmds)
         THEN /\ claimed' = claimed \cup Taken(cmds)
              /\ firings' = IF won THEN Append(firings, [rule |-> o.rule, batch |-> Taken(cmds) \ claimed])
                                   ELSE firings
         ELSE UNCHANGED <<claimed, firings>>
  /\ candidates' = candidates \ {o}
  /\ UNCHANGED <<now, rules, queue, applied, phase>>

Settled ==
  /\ phase = "settling" /\ candidates = {}
  /\ phase' = "firing"
  /\ UNCHANGED <<now, rules, candidates, claimed, firings, queue, applied>>

Complete(r, fires) ==
  \/ Book[r].lifecycle = "once"
  \/ Book[r].lifecycle = "max_fires" /\ fires >= Book[r].max

Commit ==
  /\ phase = "firing" /\ firings # <<>>
  /\ LET f == Head(firings)
         n == rules[f.rule].fires + 1
         done == Complete(f.rule, n)
     IN  /\ rules' = [rules EXCEPT ![f.rule] =
                        [rules[f.rule] EXCEPT !.fires = n, !.until = now + Book[f.rule].cooldown,
                                              !.active = @ /\ ~done]]
         /\ queue' = IF done THEN [queue EXCEPT ![f.rule] = @ + 1] ELSE queue
         /\ applied' = Append(applied, f.batch)
  /\ firings' = Tail(firings)
  /\ UNCHANGED <<now, candidates, claimed, phase>>

FiringFails ==
  /\ phase = "firing" /\ firings # <<>>
  /\ firings' = Tail(firings)
  /\ UNCHANGED <<now, rules, candidates, claimed, queue, applied, phase>>

FiringsDone ==
  /\ phase = "firing" /\ firings = <<>>
  /\ phase' = "releasing"
  /\ UNCHANGED <<now, rules, candidates, claimed, firings, queue, applied>>

\* r is the next in canonical order.
NextRelease(r) ==
  /\ phase = "releasing" /\ queue[r] > 0
  /\ \A q \in RuleIds : queue[q] > 0 =>
       \/ Book[r].creation < Book[q].creation
       \/ Book[r].creation = Book[q].creation /\ r <= q
  /\ queue' = [queue EXCEPT ![r] = @ - 1]
  /\ UNCHANGED <<now, candidates, claimed, firings, phase>>

Released(r) == rules' = [rules EXCEPT ![r].released = TRUE]

KeysOf(batch) == {c.key : c \in batch}
ReleaseOf(r)  == {Book[r].release[i] : i \in 1..Len(Book[r].release)}

\* A key of the release has been claimed by what was applied at this instant.
Claimed(r) == \E i \in 1..Len(applied) : KeysOf(applied[i]) \cap KeysOf(ReleaseOf(r)) # {}

AlreadyReleased(r) ==
  /\ NextRelease(r) /\ rules[r].released
  /\ UNCHANGED <<rules, applied>>

Release(r) ==
  /\ NextRelease(r) /\ ~rules[r].released /\ ~Claimed(r)
  /\ Released(r)
  /\ applied' = IF Book[r].release = <<>> THEN applied ELSE Append(applied, ReleaseOf(r))

\* Mutant of ReleaseFails: the release stays to be done.
ReleaseFailsOpen(r) ==
  /\ NextRelease(r) /\ ~rules[r].released /\ Book[r].release # <<>>
  /\ UNCHANGED <<rules, applied>>

\* The release conflicts with what was applied, or the backend fails it: it is not
\* tried again.
ReleaseFails(r) ==
  /\ NextRelease(r) /\ ~rules[r].released /\ Book[r].release # <<>>
  /\ Released(r)
  /\ UNCHANGED applied

InstantDone ==
  /\ phase = "releasing" /\ \A r \in RuleIds : queue[r] = 0
  /\ phase' = "idle"
  /\ UNCHANGED <<now, rules, candidates, claimed, firings, queue, applied>>

Ended == phase = "terminated" /\ UNCHANGED svars

Next ==
  \/ \E t \in 1..Horizon : (\E occs \in Arrivals : Instant(t, occs)) \/ Terminate(t)
  \/ \E o \in candidates : Settle(o)
  \/ Settled \/ Commit \/ FiringFails \/ FiringsDone
  \/ \E r \in RuleIds : AlreadyReleased(r) \/ Release(r) \/ ReleaseFails(r)
  \/ InstantDone
  \/ Ended

SchedulerSpec == Init /\ [][Next]_svars

(***************************************************************************)
(* Properties.                                                             *)
(***************************************************************************)

\* No two batches applied at one instant touch the same capability of a device,
\* whichever firings lost, failed or shared a command, and whatever was released
\* afterwards: the outcome of an instant does not depend on the order of its batches.
BatchesDisjoint ==
  \A i, j \in 1..Len(applied) : i < j => KeysOf(applied[i]) \cap KeysOf(applied[j]) = {}

\* Between instants the rules that were released are exactly the retired ones: a rule
\* that expires, is cancelled or completes is released in that very instant, even when
\* its release fails or it is queued twice.
RetiredIsReleased ==
  phase \in {"idle", "terminated"} => \A r \in RuleIds : rules[r].released <=> ~rules[r].active

\* A rule that was retired does not fire any more; only one that completed with a
\* firing of this very instant may go on to its other occurrences of the instant.
RetiredForGood ==
  [][\A r \in RuleIds :
       rules'[r].fires # rules[r].fires /\ ~rules[r].active =>
         /\ Complete(r, rules[r].fires) /\ rules[r].fires > 0
         /\ rules[r].until = now + Book[r].cooldown]_svars

\* "retire_after_first_successful_firing": a rule with lifecycle once fires once, and
\* one with max_fires fires no more often than that.
FiresWithinLimit ==
  \A r \in RuleIds :
    /\ Book[r].lifecycle = "once" => rules[r].fires <= 1
    /\ Book[r].lifecycle = "max_fires" => rules[r].fires <= Book[r].max
=============================================================================
