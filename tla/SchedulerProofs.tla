-------------------------- MODULE SchedulerProofs --------------------------
(***************************************************************************)
(* For every rule book, all arrivals and any horizon: the batches of an     *)
(* instant do not touch one another, and a rule that is retired is released *)
(* in that instant and does not fire again.                                *)
(***************************************************************************)
EXTENDS ReferenceScheduler, SequenceTheorems, TLAPS

(***************************************************************************)
(* The inductive invariant.                                                *)
(***************************************************************************)

RuleState == [fires : Nat, until : Nat, active : BOOLEAN, released : BOOLEAN]
Firing    == [rule : RuleIds, batch : SUBSET Command]

SchedulerType ==
  /\ now \in Nat
  /\ rules \in [RuleIds -> RuleState]
  /\ candidates \subseteq Occurrence
  /\ claimed \subseteq Command
  /\ firings \in Seq(Firing)
  /\ queue \in [RuleIds -> Nat]
  /\ applied \in Seq(SUBSET Command)
  /\ phase \in {"idle", "settling", "firing", "releasing", "terminated"}

\* What each phase has finished, and what it has not begun.
Phased ==
  /\ phase = "settling" => applied = <<>>
  /\ phase \in {"idle", "releasing", "terminated"} => firings = <<>>
  /\ phase \in {"idle", "terminated"} => \A r \in RuleIds : queue[r] = 0

Apart(A, B) == KeysOf(A) \cap KeysOf(B) = {}

\* What is still to be attempted was won against everything else, and has been claimed.
Contested ==
  /\ phase = "settling" => \A i \in 1..Len(firings) : firings[i].batch \subseteq claimed
  /\ \A i, j \in 1..Len(firings) : i < j => Apart(firings[i].batch, firings[j].batch)
  /\ \A i \in 1..Len(applied), j \in 1..Len(firings) : Apart(applied[i], firings[j].batch)

\* A retired rule is released, or queued to be.
Retired ==
  \A r \in RuleIds :
    /\ rules[r].released \/ queue[r] > 0 => ~rules[r].active
    /\ ~rules[r].active => rules[r].released \/ queue[r] > 0

\* The rule has just completed, with a firing of this instant.
JustCompleted(r) ==
  /\ Complete(r, rules[r].fires) /\ rules[r].fires > 0
  /\ rules[r].until = now + Book[r].cooldown

\* What will fire was active when the instant began.
Firers ==
  /\ phase = "settling" => \A o \in candidates : rules[o.rule].active
  /\ \A i \in 1..Len(firings) :
       rules[firings[i].rule].active \/ (phase = "firing" /\ JustCompleted(firings[i].rule))

SchedulerInv ==
  SchedulerType /\ Phased /\ Contested /\ BatchesDisjoint /\ Retired /\ Firers

(***************************************************************************)
(* Lemmas.                                                                 *)
(***************************************************************************)

\* The rules of the book have their types.
LEMMA BookTypes ==
  ASSUME NEW r \in RuleIds
  PROVE  /\ Book[r].commands \in Seq(Command) /\ Book[r].release \in Seq(Command)
         /\ Book[r].max \in Nat /\ Book[r].cooldown \in Nat
BY BookAssumption DEF RuleBook

\* What a firing takes is of its commands, and none of it clashes.
LEMMA TakenClear ==
  ASSUME NEW cmds \in Seq(Command)
  PROVE  /\ Taken(cmds) \subseteq Command
         /\ \A c \in Taken(cmds) : ~Clashes(c)
<1>1. SUFFICES ASSUME NEW c \in Taken(cmds) PROVE c \in Command /\ ~Clashes(c)
  OBVIOUS
<1>2. PICK i \in 1..Len(cmds) : c = cmds[i] /\ \A k \in 1..i : ~Clashes(cmds[k])
  BY <1>1 DEF Taken
<1>3. i \in 1..i /\ cmds[i] \in Command
  BY <1>2
<1> QED  BY <1>2, <1>3

\* The batch a firing wins touches nothing that was claimed before.
LEMMA WonIsNew ==
  ASSUME NEW cmds \in Seq(Command), NEW B, B \subseteq claimed
  PROVE  Apart(B, Taken(cmds) \ claimed)
<1> SUFFICES ASSUME NEW k \in KeysOf(B), k \in KeysOf(Taken(cmds) \ claimed) PROVE FALSE
  BY DEF Apart
<1>1. PICK c \in Taken(cmds) \ claimed : k = c.key
  BY DEF KeysOf
<1>2. PICK d \in B : k = d.key
  BY DEF KeysOf
<1>3. ~Clashes(c)
  BY <1>1, TakenClear
<1> QED  BY <1>1, <1>2, <1>3 DEF Clashes

\* The invariant holds before the first instant.
LEMMA SchedulerStarts == Init => SchedulerInv
<1> SUFFICES ASSUME Init PROVE SchedulerInv
  OBVIOUS
<1> USE DEF Init
<1>1. Len(firings) = 0 /\ Len(applied) = 0 /\ 1..0 = {}
  OBVIOUS
<1>2. SchedulerType
  BY DEF SchedulerType, RuleState, Firing
<1>3. Phased
  BY DEF Phased
<1>4. Contested /\ BatchesDisjoint /\ Firers
  BY <1>1 DEF Contested, BatchesDisjoint, Firers
<1>5. Retired
  <2>1. \A r \in RuleIds : queue[r] = 0 /\ rules[r].active = TRUE /\ rules[r].released = FALSE
    OBVIOUS
  <2>2. ~(0 > 0)
    OBVIOUS
  <2> QED  BY <2>1, <2>2, Zenon DEF Retired
<1> QED  BY <1>2, <1>3, <1>4, <1>5 DEF SchedulerInv

\* A new instant: rules retire, and its occurrences become candidates.
LEMMA InstantKeeps ==
  ASSUME SchedulerInv, NEW t \in 1..Horizon, NEW occs \in Arrivals, Instant(t, occs)
  PROVE  SchedulerInv'
<1> USE DEF SchedulerInv
<1>1. Len(firings') = 0 /\ Len(applied') = 0 /\ 1..0 = {}
  BY DEF Instant
<1>2. \A r \in RuleIds : /\ rules'[r] \in RuleState
                         /\ rules'[r].released = rules[r].released
                         /\ rules'[r].active <=> rules[r].active /\ r \notin Retirees(occs)
  BY DEF Instant, Expired, SchedulerType, RuleState, Retirees
<1>3. SchedulerType'
  <2>1. t \in Nat /\ occs \subseteq Occurrence
    BY BookAssumption
  <2>2. rules' \in [RuleIds -> RuleState]
    BY <1>2 DEF Instant, Expired
  <2> QED  BY <2>1, <2>2 DEF SchedulerType, Instant, Firing
<1>4. Phased'
  BY DEF Phased, Instant
<1>5. Contested' /\ BatchesDisjoint'
  BY <1>1 DEF Contested, BatchesDisjoint
<1>6. Retired'
  BY <1>2 DEF Retired, Phased, Instant, Retirees
<1>7. Firers'
  BY <1>1 DEF Firers, Instant, Eligible
<1> QED  BY <1>3, <1>4, <1>5, <1>6, <1>7

\* Settling a candidate claims for it what no earlier one has claimed.
LEMMA SettleKeeps ==
  ASSUME SchedulerInv, NEW o \in candidates, Settle(o)
  PROVE  SchedulerInv'
<1> USE DEF SchedulerInv
<1> DEFINE cmds == Book[o.rule].commands
           won  == Taken(cmds) \ claimed
           f    == [rule |-> o.rule, batch |-> won]
<1>1. o.rule \in RuleIds /\ cmds \in Seq(Command)
  BY BookTypes DEF SchedulerType, Occurrence
<1>2. Taken(cmds) \subseteq Command /\ \A c \in Taken(cmds) : ~Clashes(c)
  BY <1>1, TakenClear
<1>3. f \in Firing /\ f.batch = won /\ f.rule = o.rule
  BY <1>1, <1>2 DEF Firing
<1>4. /\ firings' = firings \/ (firings' = Append(firings, f) /\ won \subseteq claimed')
      /\ claimed' = claimed \cup Taken(cmds) \/ claimed' = claimed
      /\ candidates' \subseteq candidates
  BY DEF Settle
<1>5. UNCHANGED <<now, rules, queue, applied, phase>> /\ phase = "settling" /\ applied = <<>>
  BY DEF Settle, Phased
<1>6. rules[o.rule].active
  BY <1>5 DEF Firers
<1>7. \A i \in 1..Len(firings) : firings[i].batch \subseteq claimed /\ Apart(firings[i].batch, won)
  BY <1>1, <1>5, WonIsNew DEF Contested
<1> HIDE DEF cmds, won, f
<1>8. SchedulerType'
  <2>1. firings' \in Seq(Firing)
    <3>1. firings \in Seq(Firing)
      BY DEF SchedulerType
    <3>2. Append(firings, f) \in Seq(Firing)
      BY <3>1, <1>3, AppendProperties, Zenon
    <3> QED  BY <3>1, <3>2, <1>4, Zenon
  <2>2. claimed' \subseteq Command /\ candidates' \subseteq Occurrence
    BY <1>2, <1>4 DEF SchedulerType
  <2> QED  BY <2>1, <2>2, <1>5 DEF SchedulerType
<1>9. Phased' /\ Retired'
  BY <1>5 DEF Phased, Retired
<1>10. BatchesDisjoint'
  BY <1>5 DEF BatchesDisjoint
<1>11. Contested' /\ Firers'
  <2>1. CASE firings' = firings
    BY <2>1, <1>4, <1>5 DEF Contested, Firers, JustCompleted
  <2>2. CASE firings' = Append(firings, f) /\ won \subseteq claimed'
    <3>1. firings \in Seq(Firing) /\ Len(firings) \in Nat /\ Len(firings') = Len(firings) + 1
      BY <2>2, <1>3 DEF SchedulerType
    <3>2. /\ firings'[Len(firings) + 1] = f
          /\ \A i \in 1..Len(firings) : firings'[i] = firings[i]
      BY <2>2, <1>3, <3>1
    <3>3. \A i \in 1..Len(firings') : i \in 1..Len(firings) \/ i = Len(firings) + 1
      BY <3>1
    <3>4. \A i \in 1..Len(firings') : firings'[i].batch \subseteq claimed'
      BY <3>2, <3>3, <2>2, <1>3, <1>4, <1>7
    <3>5. \A i, j \in 1..Len(firings') : i < j => Apart(firings'[i].batch, firings'[j].batch)
      <4> SUFFICES ASSUME NEW i \in 1..Len(firings'), NEW j \in 1..Len(firings'), i < j
                   PROVE  Apart(firings'[i].batch, firings'[j].batch)
        OBVIOUS
      <4>1. i \in 1..Len(firings)
        BY <3>1
      <4> QED  BY <4>1, <3>2, <3>3, <1>3, <1>7 DEF Contested
    <3>6. Len(applied') = 0 /\ 1..0 = {}
      BY <1>5
    <3>7. Contested'
      BY <3>4, <3>5, <3>6, <1>5 DEF Contested, Apart, KeysOf
    <3>8. \A i \in 1..Len(firings) : rules[firings[i].rule].active
      BY <1>5 DEF Firers
    <3>9. Firers'
      BY <3>2, <3>3, <3>8, <1>3, <1>4, <1>5, <1>6 DEF Firers
    <3> QED  BY <3>7, <3>9
  <2> QED  BY <2>1, <2>2, <1>4
<1> QED  BY <1>8, <1>9, <1>10, <1>11

\* The batch of the next firing leaves the winners, and may be applied.
LEMMA NextFiring ==
  ASSUME SchedulerInv, firings # <<>>, firings' = Tail(firings)
  PROVE  /\ Head(firings) = firings[1] /\ firings[1] \in Firing /\ 1 \in 1..Len(firings)
         /\ firings' \in Seq(Firing)
         /\ \A i \in 1..Len(firings') : /\ firings'[i] = firings[i + 1]
                                        /\ i + 1 \in 1..Len(firings) /\ 1 < i + 1
         /\ \A i, j \in 1..Len(firings') :
              i < j => Apart(firings'[i].batch, firings'[j].batch)
<1>1. firings \in Seq(Firing) /\ Len(firings) \in Nat /\ Len(firings) > 0
  BY DEF SchedulerInv, SchedulerType
<1>2. Len(firings') = Len(firings) - 1 /\ firings' \in Seq(Firing)
  BY <1>1
<1>3. \A i \in 1..Len(firings') : /\ firings'[i] = firings[i + 1]
                                  /\ i + 1 \in 1..Len(firings) /\ 1 < i + 1
  BY <1>1, <1>2
<1>4. \A i, j \in 1..Len(firings') : i < j => Apart(firings'[i].batch, firings'[j].batch)
  <2> SUFFICES ASSUME NEW i \in 1..Len(firings'), NEW j \in 1..Len(firings'), i < j
               PROVE  Apart(firings'[i].batch, firings'[j].batch)
    OBVIOUS
  <2>1. i + 1 < j + 1
    BY <1>2
  <2> QED  BY <2>1, <1>3 DEF SchedulerInv, Contested
<1>5. Head(firings) = firings[1] /\ firings[1] \in Firing /\ 1 \in 1..Len(firings)
  BY <1>1
<1> QED  BY <1>2, <1>3, <1>4, <1>5

\* Committing a firing applies its batch and, with the last one, its release.
LEMMA CommitKeeps ==
  ASSUME SchedulerInv, Commit
  PROVE  SchedulerInv'
<1> USE DEF SchedulerInv
<1> DEFINE f    == Head(firings)
           r    == f.rule
           n    == rules[r].fires + 1
           done == Complete(r, n)
           new  == [rules[r] EXCEPT !.fires = n, !.until = now + Book[r].cooldown,
                                    !.active = @ /\ ~done]
<1>1. /\ f = firings[1] /\ f \in Firing /\ 1 \in 1..Len(firings) /\ firings' \in Seq(Firing)
      /\ \A i \in 1..Len(firings') : /\ firings'[i] = firings[i + 1]
                                     /\ i + 1 \in 1..Len(firings) /\ 1 < i + 1
      /\ \A i, j \in 1..Len(firings') : i < j => Apart(firings'[i].batch, firings'[j].batch)
  BY NextFiring DEF Commit
<1>2. r \in RuleIds /\ f.batch \subseteq Command
  BY <1>1 DEF Firing
<1>3. /\ rules[r] \in RuleState /\ rules[r].fires \in Nat /\ n \in Nat /\ n > 0
      /\ now \in Nat /\ Book[r].cooldown \in Nat /\ now + Book[r].cooldown \in Nat
  <2>1. rules[r] \in RuleState /\ now \in Nat
    BY <1>2 DEF SchedulerType
  <2>2. rules[r].fires \in Nat /\ Book[r].cooldown \in Nat
    BY <2>1, <1>2, BookTypes DEF RuleState
  <2> HIDE DEF r
  <2> QED  BY <2>1, <2>2
<1>4. /\ rules' = [rules EXCEPT ![r] = new]
      /\ queue' = IF done THEN [queue EXCEPT ![r] = @ + 1] ELSE queue
      /\ applied' = Append(applied, f.batch)
      /\ UNCHANGED <<now, candidates, claimed, phase>> /\ phase = "firing"
  BY Zenon DEF Commit
<1>5. /\ rules'[r].fires = n /\ rules'[r].until = now + Book[r].cooldown
      /\ rules'[r].active <=> rules[r].active /\ ~done
      /\ rules'[r].released = rules[r].released
      /\ \A q \in RuleIds : q # r => rules'[q] = rules[q]
  <2>1. rules' = [rules EXCEPT ![r] = new] /\ rules \in [RuleIds -> RuleState]
    BY <1>4 DEF SchedulerType
  <2>2. /\ new.fires = n /\ new.until = now + Book[r].cooldown
        /\ new.active = (rules[r].active /\ ~done) /\ new.released = rules[r].released
    BY <1>3 DEF RuleState
  <2>3. rules'[r] = new /\ \A q \in RuleIds : q # r => rules'[q] = rules[q]
    <3> HIDE DEF new, r
    <3> QED  BY <2>1, <1>2
  <2> HIDE DEF new, r, n, done
  <2> QED  BY <2>2, <2>3
<1>6. rules' \in [RuleIds -> RuleState]
  BY <1>2, <1>3, <1>4 DEF SchedulerType, RuleState
<1>7. /\ queue' \in [RuleIds -> Nat]
      /\ done => queue'[r] > 0
      /\ ~done => queue' = queue
      /\ \A q \in RuleIds : q # r => queue'[q] = queue[q]
  BY <1>2, <1>4 DEF SchedulerType
<1>8. SchedulerType'
  BY <1>1, <1>2, <1>4, <1>6, <1>7 DEF SchedulerType
<1>9. Phased'
  BY <1>4 DEF Phased
<1>10. /\ Len(applied) \in Nat /\ Len(applied') = Len(applied) + 1
       /\ applied'[Len(applied) + 1] = f.batch
       /\ \A i \in 1..Len(applied) : applied'[i] = applied[i]
       /\ \A i \in 1..Len(applied') : i \in 1..Len(applied) \/ i = Len(applied) + 1
  BY <1>2, <1>4 DEF SchedulerType
<1>11. \A i \in 1..Len(applied), j \in 1..Len(firings) : Apart(applied[i], firings[j].batch)
  BY DEF Contested
<1>12. \A j \in 1..Len(firings) : 1 < j => Apart(f.batch, firings[j].batch)
  BY <1>1 DEF Contested
<1>13. Contested'
  <2>1. \A i \in 1..Len(applied'), j \in 1..Len(firings') : Apart(applied'[i], firings'[j].batch)
    BY <1>1, <1>10, <1>11, <1>12
  <2> QED  BY <2>1, <1>1, <1>4 DEF Contested, Apart, KeysOf
<1>14. BatchesDisjoint'
  <2> SUFFICES ASSUME NEW i \in 1..Len(applied'), NEW j \in 1..Len(applied'), i < j
               PROVE  Apart(applied'[i], applied'[j])
    BY DEF BatchesDisjoint, Apart, KeysOf
  <2>1. i \in 1..Len(applied)
    BY <1>10
  <2>2. CASE j \in 1..Len(applied)
    BY <2>1, <2>2, <1>10 DEF BatchesDisjoint, Apart
  <2>3. CASE j = Len(applied) + 1
    BY <2>1, <2>3, <1>1, <1>10, <1>11
  <2> QED  BY <2>2, <2>3, <1>10
<1>15. Retired'
  <2> SUFFICES ASSUME NEW q \in RuleIds
               PROVE  /\ rules'[q].released \/ queue'[q] > 0 => ~rules'[q].active
                      /\ ~rules'[q].active => rules'[q].released \/ queue'[q] > 0
    BY DEF Retired
  <2>1. CASE q # r
    BY <2>1, <1>5, <1>7 DEF Retired
  <2>2. CASE q = r
    BY <2>2, <1>2, <1>5, <1>7 DEF Retired
  <2> QED  BY <2>1, <2>2
<1>16. Firers'
  <2> SUFFICES ASSUME NEW i \in 1..Len(firings'), NEW q, q = firings'[i].rule
               PROVE  rules'[q].active \/ JustCompleted(q)'
    BY <1>4 DEF Firers
  <2>1. q \in RuleIds /\ (rules[q].active \/ JustCompleted(q))
    <3>1. firings'[i] = firings[i + 1] /\ i + 1 \in 1..Len(firings)
      BY <1>1
    <3>2. firings[i + 1] \in Firing
      BY <3>1 DEF SchedulerType
    <3> QED  BY <3>1, <3>2 DEF Firing, Firers
  <2>2. CASE q # r
    BY <2>1, <2>2, <1>4, <1>5 DEF JustCompleted, Complete
  <2>3. CASE q = r /\ done
    BY <2>3, <1>3, <1>4, <1>5 DEF JustCompleted, Complete
  <2>4. CASE q = r /\ ~done
    <3>1. Book[r].max \in Nat
      BY <1>2, BookTypes
    <3>2. ~JustCompleted(q)
      BY <2>4, <3>1, <1>3 DEF JustCompleted, Complete
    <3> QED  BY <3>2, <2>1, <2>4, <1>5
  <2> QED  BY <2>2, <2>3, <2>4
<1> QED  BY <1>8, <1>9, <1>13, <1>14, <1>15, <1>16

\* A firing that fails is dropped and applies nothing.
LEMMA FiringFailsKeeps ==
  ASSUME SchedulerInv, FiringFails
  PROVE  SchedulerInv'
<1> USE DEF SchedulerInv
<1>1. /\ firings' \in Seq(Firing)
      /\ \A i \in 1..Len(firings') : /\ firings'[i] = firings[i + 1]
                                     /\ i + 1 \in 1..Len(firings)
      /\ \A i, j \in 1..Len(firings') : i < j => Apart(firings'[i].batch, firings'[j].batch)
  BY NextFiring DEF FiringFails
<1>2. UNCHANGED <<now, rules, candidates, claimed, queue, applied, phase>> /\ phase = "firing"
  BY DEF FiringFails
<1>3. SchedulerType' /\ Phased' /\ BatchesDisjoint' /\ Retired'
  BY <1>1, <1>2 DEF SchedulerType, Phased, BatchesDisjoint, Retired
<1>4. Contested'
  <2>1. \A i \in 1..Len(applied'), j \in 1..Len(firings') : Apart(applied'[i], firings'[j].batch)
    BY <1>1, <1>2 DEF Contested
  <2> QED  BY <2>1, <1>1, <1>2 DEF Contested, Apart, KeysOf
<1>5. Firers'
  BY <1>1, <1>2 DEF Firers, JustCompleted
<1> QED  BY <1>3, <1>4, <1>5

\* A rule is taken from the queue, and it is released now or was before.
LEMMA ReleasesKeep ==
  ASSUME SchedulerInv, NEW r \in RuleIds, AlreadyReleased(r) \/ Release(r) \/ ReleaseFails(r)
  PROVE  SchedulerInv'
<1> USE DEF SchedulerInv
<1>1. NextRelease(r) /\ phase = "releasing" /\ firings = <<>> /\ firings' = <<>>
  BY DEF AlreadyReleased, Release, ReleaseFails, NextRelease, Phased
<1>2. UNCHANGED <<now, candidates, claimed, firings, phase>>
  BY <1>1 DEF NextRelease
<1>3. /\ rules' \in [RuleIds -> RuleState]
      /\ rules'[r].released /\ rules'[r].active = rules[r].active
      /\ \A q \in RuleIds : q # r => rules'[q] = rules[q]
  BY DEF AlreadyReleased, Release, ReleaseFails, Released, SchedulerType, RuleState
<1>4. /\ queue' \in [RuleIds -> Nat] /\ queue[r] > 0
      /\ \A q \in RuleIds : q # r => queue'[q] = queue[q]
  BY <1>1 DEF NextRelease, SchedulerType
<1>5. \/ applied' = applied
      \/ applied' = Append(applied, ReleaseOf(r)) /\ ~Claimed(r)
  BY DEF AlreadyReleased, Release, ReleaseFails
<1>6. ReleaseOf(r) \subseteq Command
  BY BookTypes DEF ReleaseOf
<1>7. SchedulerType'
  <2>1. applied' \in Seq(SUBSET Command)
    <3>1. applied \in Seq(SUBSET Command) /\ ReleaseOf(r) \in SUBSET Command
      BY <1>6 DEF SchedulerType
    <3>2. Append(applied, ReleaseOf(r)) \in Seq(SUBSET Command)
      BY <3>1, AppendProperties, Zenon
    <3> QED  BY <3>1, <3>2, <1>5, Zenon
  <2> QED  BY <2>1, <1>2, <1>3, <1>4 DEF SchedulerType
<1>8. Phased'
  BY <1>1, <1>2 DEF Phased
<1>9. Len(firings') = 0 /\ 1..0 = {}
  BY <1>1
<1>10. Contested' /\ Firers'
  BY <1>1, <1>2, <1>9 DEF Contested, Firers
<1>11. Retired'
  BY <1>3, <1>4 DEF Retired
<1>12. BatchesDisjoint'
  <2>1. CASE applied' = applied
    BY <2>1 DEF BatchesDisjoint
  <2>2. CASE applied' = Append(applied, ReleaseOf(r)) /\ ~Claimed(r)
    <3> SUFFICES ASSUME NEW i \in 1..Len(applied'), NEW j \in 1..Len(applied'), i < j
                 PROVE  KeysOf(applied'[i]) \cap KeysOf(applied'[j]) = {}
      BY DEF BatchesDisjoint, KeysOf
    <3>1. /\ Len(applied) \in Nat /\ Len(applied') = Len(applied) + 1
          /\ applied'[Len(applied) + 1] = ReleaseOf(r)
          /\ \A k \in 1..Len(applied) : applied'[k] = applied[k]
      BY <2>2, <1>6 DEF SchedulerType
    <3>2. i \in 1..Len(applied) /\ (j \in 1..Len(applied) \/ j = Len(applied) + 1)
      BY <3>1
    <3>3. KeysOf(applied[i]) \cap KeysOf(ReleaseOf(r)) = {}
      BY <2>2, <3>2 DEF Claimed
    <3> QED  BY <3>1, <3>2, <3>3 DEF BatchesDisjoint
  <2> QED  BY <2>1, <2>2, <1>5
<1> QED  BY <1>7, <1>8, <1>10, <1>11, <1>12

\* One phase ends and the next begins, or nothing happens.
LEMMA PhasesKeep ==
  ASSUME SchedulerInv,
         \/ \E t \in 1..Horizon : Terminate(t)
         \/ Settled \/ FiringsDone \/ InstantDone \/ UNCHANGED svars
  PROVE  SchedulerInv'
<1> USE DEF SchedulerInv, Terminate, Settled, FiringsDone, InstantDone, svars
<1>1. /\ UNCHANGED <<rules, candidates, claimed, firings, queue, applied>>
      /\ now' \in Nat
  BY BookAssumption DEF SchedulerType
<1>2. SchedulerType'
  BY <1>1 DEF SchedulerType
<1>3. Phased'
  BY <1>1 DEF Phased
<1>4. Contested' /\ BatchesDisjoint' /\ Retired'
  BY <1>1 DEF Contested, BatchesDisjoint, Retired
<1>5. Firers'
  <2>1. CASE phase' = phase /\ now' = now
    BY <2>1, <1>1 DEF Firers, JustCompleted
  <2>2. CASE phase = "settling" /\ phase' = "firing"
    BY <2>2, <1>1 DEF Firers
  <2>3. CASE firings = <<>> /\ phase' # "settling"
    <3>1. Len(firings') = 0 /\ 1..0 = {}
      BY <2>3, <1>1
    <3> QED  BY <2>3, <3>1 DEF Firers
  <2> QED  BY <2>1, <2>2, <2>3 DEF Phased
<1> QED  BY <1>2, <1>3, <1>4, <1>5

\* Every step keeps the invariant.
LEMMA SchedulerKeeps == SchedulerInv /\ [Next]_svars => SchedulerInv'
<1> SUFFICES ASSUME SchedulerInv, [Next]_svars PROVE SchedulerInv'
  OBVIOUS
<1>1. CASE \E t \in 1..Horizon, occs \in Arrivals : Instant(t, occs)
  BY <1>1, InstantKeeps
<1>2. CASE \E o \in candidates : Settle(o)
  BY <1>2, SettleKeeps
<1>3. CASE Commit
  BY <1>3, CommitKeeps
<1>4. CASE FiringFails
  BY <1>4, FiringFailsKeeps
<1>5. CASE \E r \in RuleIds : AlreadyReleased(r) \/ Release(r) \/ ReleaseFails(r)
  BY <1>5, ReleasesKeep
<1>6. CASE \/ \E t \in 1..Horizon : Terminate(t)
           \/ Settled \/ FiringsDone \/ InstantDone \/ UNCHANGED svars
  BY <1>6, PhasesKeep
<1> QED  BY <1>1, <1>2, <1>3, <1>4, <1>5, <1>6 DEF Next, Ended

(***************************************************************************)
(* The theorems.                                                           *)
(***************************************************************************)

\* The invariant holds of the scheduler: what is claimed, attempted, applied and queued
\* at each step of an instant.
THEOREM SchedulerInvariant == SchedulerSpec => []SchedulerInv
<1>1. Init => SchedulerInv
  BY SchedulerStarts
<1>2. SchedulerInv /\ [Next]_svars => SchedulerInv'
  BY SchedulerKeeps
<1> QED  BY <1>1, <1>2, PTL DEF SchedulerSpec

\* The batches scheduler_step applies at one instant touch different capabilities, for
\* any rules, priorities, commands shared between rules and failures of the backend.
THEOREM BatchesNeverMeet == SchedulerSpec => []BatchesDisjoint
<1>1. SchedulerInv => BatchesDisjoint
  BY DEF SchedulerInv
<1> QED  BY <1>1, SchedulerInvariant, PTL

\* Every rule that expires, is cancelled or completes is released within the same
\* scheduler_step, whatever fails on the way, and no other rule is.
THEOREM RetirementReleases == SchedulerSpec => []RetiredIsReleased
<1>1. SchedulerInv => RetiredIsReleased
  <2> SUFFICES ASSUME SchedulerInv, phase \in {"idle", "terminated"}, NEW r \in RuleIds
               PROVE  rules[r].released <=> ~rules[r].active
    BY DEF RetiredIsReleased
  <2>1. queue[r] = 0
    BY DEF SchedulerInv, Phased
  <2>2. (rules[r].released \/ queue[r] > 0 => ~rules[r].active)
        /\ (~rules[r].active => rules[r].released \/ queue[r] > 0)
    BY DEF SchedulerInv, Retired
  <2>3. rules[r].released \in BOOLEAN /\ rules[r].active \in BOOLEAN
    BY DEF SchedulerInv, SchedulerType, RuleState
  <2>4. ~(0 > 0)
    OBVIOUS
  <2> QED  BY <2>1, <2>2, <2>3, <2>4
<1> QED  BY <1>1, SchedulerInvariant, PTL

\* No scheduler_step lets a rule fire that an earlier one retired.
THEOREM RetirementIsFinal == SchedulerSpec => RetiredForGood
<1> DEFINE Final(r) == rules'[r].fires # rules[r].fires /\ ~rules[r].active => JustCompleted(r)
<1>1. ASSUME SchedulerInv, [Next]_svars, NEW r \in RuleIds PROVE Final(r)
  <2>1. CASE Commit
    <3>1. firings[1] \in Firing /\ Head(firings) = firings[1] /\ 1 \in 1..Len(firings)
      BY <1>1, <2>1, NextFiring DEF Commit
    <3>2. r # firings[1].rule => rules'[r] = rules[r]
      BY <1>1, <2>1, <3>1 DEF Commit, SchedulerInv, SchedulerType
    <3>3. rules[firings[1].rule].active \/ JustCompleted(firings[1].rule)
      BY <1>1, <3>1 DEF SchedulerInv, Firers
    <3> QED  BY <3>2, <3>3
  <2>2. CASE \E t \in 1..Horizon, occs \in Arrivals : Instant(t, occs)
    <3>1. rules'[r].fires = rules[r].fires
      BY <1>1, <2>2 DEF Instant, Expired, SchedulerInv, SchedulerType, RuleState
    <3> QED  BY <3>1
  <2>3. CASE \E q \in RuleIds : AlreadyReleased(q) \/ Release(q) \/ ReleaseFails(q)
    <3>1. rules' = rules \/ \E q \in RuleIds : rules' = [rules EXCEPT ![q].released = TRUE]
      BY <2>3 DEF AlreadyReleased, Release, ReleaseFails, Released
    <3>2. rules \in [RuleIds -> RuleState] /\ rules[r] \in RuleState
      BY <1>1 DEF SchedulerInv, SchedulerType
    <3>3. CASE rules' = rules
      BY <3>3
    <3>4. ASSUME NEW q \in RuleIds, rules' = [rules EXCEPT ![q].released = TRUE]
          PROVE  rules'[r].fires = rules[r].fires
      <4>1. CASE r = q
        BY <3>2, <3>4, <4>1 DEF RuleState
      <4>2. CASE r # q
        BY <3>2, <3>4, <4>2
      <4> QED  BY <4>1, <4>2
    <3> QED  BY <3>1, <3>3, <3>4
  <2>4. CASE UNCHANGED rules
    BY <2>4
  <2> QED
    BY <1>1, <2>1, <2>2, <2>3, <2>4
    DEF Next, Ended, svars, Terminate, Settle, Settled, FiringFails, FiringsDone, InstantDone
<1>2. SchedulerInv /\ [Next]_svars =>
        [\A r \in RuleIds :
           rules'[r].fires # rules[r].fires /\ ~rules[r].active =>
             /\ Complete(r, rules[r].fires) /\ rules[r].fires > 0
             /\ rules[r].until = now + Book[r].cooldown]_svars
  BY <1>1 DEF JustCompleted
<1> QED  BY <1>2, SchedulerInvariant, PTL DEF SchedulerSpec, RetiredForGood
=============================================================================
