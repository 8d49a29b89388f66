---------------------------- MODULE HarnessProofs ----------------------------
(***************************************************************************)
(* The run loop, proved for every instance of Harness: the status of a       *)
(* sealed run is true (StatusTruth), the public trace can be joined by       *)
(* index (TraceAligned), every accepted action costs time (TimePerAction),  *)
(* and the backend keeps its promises under a policy that may send anything *)
(* and an advance that may fail half way.                                  *)
(***************************************************************************)
EXTENDS HouseholdProofs, Harness, FiniteSetTheorems

PublicRecord ==
  [type : {"observation", "accepted", "rejected", "protocol_error", "backend_error"},
   index : Nat, at : Nat]

harnessVars == <<vars, runVars>>

(***************************************************************************)
(* The clock.                                                              *)
(***************************************************************************)

\* An accepted action takes no time by itself.
LEMMA AgentClock ==
  ASSUME AgentStep
  PROVE  phase = "execute" /\ ~Terminal /\ phase' = "accepted" /\ step' = step
BY DEF AgentStep, Act, InstallRule, CancelRule, Wait, Idle, Accept

\* Time passes when a tick starts, and at no other step of the backend.
LEMMA RunningClock ==
  ASSUME Running
  PROVE  \/ phase = "accepted" /\ phase' = "accepted" /\ step' = step
         \/ phase = "accepted" /\ InTick' /\ step' = step + 1
         \/ InTick /\ step' = step /\ (InTick' \/ phase' \in {"accepted", "execute"})
<1>1. CASE ApplyNext
  BY <1>1 DEF ApplyNext
<1>2. CASE StartTick
  BY <1>2 DEF StartTick, InTick
<1>3. CASE (\E r \in todo : TakeRule(r)) \/ RuleCommand \/ RuleFired \/ RuleReleased
  BY <1>3 DEF TakeRule, RuleCommand, RuleFired, RuleReleased, InTick
<1>4. CASE StartReleases \/ RulesDone \/ ExogenousDone \/ Clocks
  BY <1>4 DEF StartReleases, RulesDone, ExogenousDone, Clocks, InTick
<1>5. CASE \E s \in Streams : Exogenous(s)
  BY <1>5 DEF Exogenous, InTick
<1>6. CASE Dynamics
  BY <1>6, DynamicsFrame DEF ruleState, InTick
<1>7. CASE NextMicroTick \/ ReturnView
  BY <1>7 DEF NextMicroTick, ReturnView, InTick
<1> QED BY <1>1, <1>2, <1>3, <1>4, <1>5, <1>6, <1>7 DEF Running

(***************************************************************************)
(* The trace.                                                              *)
(***************************************************************************)

IsView(tr, i) ==
  /\ i \in 1..Len(tr) /\ tr[i].type = "observation"
  /\ \A j \in i+1..Len(tr) : tr[j].type # "observation"

\* The last observation of the trace shows step n.
Shows(tr, n) == \E i : IsView(tr, i) /\ tr[i].at = n

\* There is one last observation.
LEMMA LastViewShows ==
  ASSUME NEW n, trace \in Seq(PublicRecord), Shows(trace, n)
  PROVE  trace[LastView].at = n
<1>1. PICK i : IsView(trace, i) /\ trace[i].at = n
  BY DEF Shows
<1>2. Len(trace) \in Nat
  OBVIOUS
<1>3. ASSUME NEW j, IsView(trace, j) PROVE j = i
  <2>1. i \in 1..Len(trace) /\ j \in 1..Len(trace) /\ ~(j < i) /\ ~(i < j)
    BY <1>1, <1>2, <1>3 DEF IsView
  <2> QED BY <1>2, <2>1
<1>4. LastView = CHOOSE j \in 1..Len(trace) : IsView(trace, j)
  BY DEF LastView, IsView
<1>5. i \in 1..Len(trace)
  BY <1>1 DEF IsView
<1>6. IsView(trace, LastView)
  BY <1>1, <1>4, <1>5
<1> QED BY <1>1, <1>3, <1>6

\* Other records do not hide the last observation.
LEMMA ViewStays ==
  ASSUME NEW tr \in Seq(PublicRecord), NEW r \in PublicRecord, r.type # "observation",
         NEW n, Shows(tr, n)
  PROVE  Shows(Append(tr, r), n)
<1>1. PICK i : IsView(tr, i) /\ tr[i].at = n
  BY DEF Shows
<1>2. /\ Len(Append(tr, r)) = Len(tr) + 1 /\ Len(tr) \in Nat
      /\ \A j \in 1..Len(tr) : Append(tr, r)[j] = tr[j]
      /\ Append(tr, r)[Len(tr) + 1] = r
  BY AppendProperties
<1>3. i \in 1..Len(tr)
  BY <1>1 DEF IsView
<1>4. \A j \in i+1..Len(tr) + 1 : j = Len(tr) + 1 \/ (j \in i+1..Len(tr) /\ j \in 1..Len(tr))
  BY <1>2, <1>3
<1>5. IsView(Append(tr, r), i)
  BY <1>1, <1>2, <1>3, <1>4 DEF IsView
<1> QED BY <1>1, <1>2, <1>3, <1>5 DEF Shows

\* A new observation is the last.
LEMMA ViewShown ==
  ASSUME NEW tr \in Seq(PublicRecord), NEW r \in PublicRecord, r.type = "observation"
  PROVE  Shows(Append(tr, r), r.at)
<1>1. /\ Len(Append(tr, r)) = Len(tr) + 1 /\ Len(tr) \in Nat
      /\ Append(tr, r)[Len(tr) + 1] = r
  BY AppendProperties
<1>2. Len(tr) + 1 \in 1..Len(Append(tr, r)) /\ (Len(tr) + 1) + 1..Len(Append(tr, r)) = {}
  BY <1>1
<1>3. IsView(Append(tr, r), Len(tr) + 1)
  BY <1>1, <1>2 DEF IsView
<1> QED BY <1>1, <1>3 DEF Shows

(***************************************************************************)
(* TraceAligned, part by part, as facts about any trace and number of        *)
(* decisions.                                                              *)
(***************************************************************************)

Follows(r, q) == /\ q.type = "observation" =>
                      r.type = "accepted" /\ q.index = r.index + 1 /\ q.at > r.at
                 /\ r.type = "accepted" => q.type \in {"observation", "backend_error"}

IsAction(r) == r.type \in {"accepted", "rejected"}

Joined(tr) == \A i \in 2..Len(tr) : Follows(tr[i-1], tr[i])

Actions(tr) == {i \in 1..Len(tr) : IsAction(tr[i])}

AcceptedIn(tr) == {i \in 1..Len(tr) : tr[i].type = "accepted"}

Numbered(tr, n) ==
  /\ {tr[i].index : i \in Actions(tr)} = 0..n-1
  /\ IsFiniteSet(Actions(tr)) /\ Cardinality(Actions(tr)) = n

Aligned(tr, n) == Joined(tr) /\ Numbered(tr, n)

LastRecord(tr) == tr[Len(tr)]

\* The parts make up the whole.
LEMMA AlignedIsEnough ==
  ASSUME trace \in Seq(PublicRecord), Aligned(trace, decisions)
  PROVE  TraceAligned
<1>1. Len(trace) \in Nat
  OBVIOUS
<1>2. \A i \in 2..Len(trace) : trace[i].type = "observation" =>
             /\ trace[i-1].type = "accepted"
             /\ trace[i].index = trace[i-1].index + 1
             /\ trace[i].at > trace[i-1].at
  BY DEF Aligned, Joined, Follows
<1>3. \A i \in Accepted : i < Len(trace) => trace[i+1].type \in {"observation", "backend_error"}
  <2> SUFFICES ASSUME NEW i \in Accepted, i < Len(trace)
               PROVE  trace[i+1].type \in {"observation", "backend_error"}
    OBVIOUS
  <2>1. i \in 1..Len(trace) /\ trace[i].type = "accepted"
    BY DEF Accepted
  <2>2. i + 1 \in 2..Len(trace) /\ (i + 1) - 1 = i
    BY <1>1, <2>1
  <2> QED BY <2>1, <2>2 DEF Aligned, Joined, Follows
<1>4. Actions(trace) = {i \in 1..Len(trace) : trace[i].type \in {"accepted", "rejected"}}
  BY DEF Actions, IsAction
<1>5. {trace[i].index : i \in Actions(trace)} = 0..decisions-1 /\ Cardinality(Actions(trace)) = decisions
  BY DEF Aligned, Numbered
<1>6. LET actions == {i \in 1..Len(trace) : trace[i].type \in {"accepted", "rejected"}}
      IN  {trace[i].index : i \in actions} = 0..decisions-1 /\ Cardinality(actions) = decisions
  BY <1>4, <1>5, Zenon
<1> QED BY <1>2, <1>3, <1>6, SMT DEF TraceAligned

\* A record that fits the last one keeps the trace joined.
LEMMA JoinedAppend ==
  ASSUME NEW tr \in Seq(PublicRecord), tr # <<>>, NEW r \in PublicRecord,
         Joined(tr), Follows(LastRecord(tr), r)
  PROVE  Joined(Append(tr, r))
<1>1. /\ Len(Append(tr, r)) = Len(tr) + 1 /\ Len(tr) \in Nat /\ Len(tr) >= 1
      /\ \A j \in 1..Len(tr) : Append(tr, r)[j] = tr[j]
      /\ Append(tr, r)[Len(tr) + 1] = r
  BY AppendProperties
<1> SUFFICES ASSUME NEW i \in 2..Len(tr) + 1
             PROVE  Follows(Append(tr, r)[i-1], Append(tr, r)[i])
  BY <1>1 DEF Joined
<1>2. i - 1 \in 1..Len(tr)
  BY <1>1
<1>3. CASE i = Len(tr) + 1
  <2>1. i - 1 = Len(tr)
    BY <1>1, <1>3
  <2> QED BY <1>1, <1>2, <1>3, <2>1 DEF LastRecord
<1>4. CASE i # Len(tr) + 1
  <2>1. i \in 2..Len(tr) /\ i \in 1..Len(tr)
    BY <1>1, <1>4
  <2> QED BY <1>1, <1>2, <2>1 DEF Joined
<1> QED BY <1>3, <1>4

\* An action is counted, and numbered with the decisions before it.
LEMMA NumberedAction ==
  ASSUME NEW tr \in Seq(PublicRecord), NEW r \in PublicRecord, NEW n \in Nat,
         Numbered(tr, n), IsAction(r), r.index = n
  PROVE  Numbered(Append(tr, r), n + 1)
<1>1. /\ Len(Append(tr, r)) = Len(tr) + 1 /\ Len(tr) \in Nat
      /\ \A j \in 1..Len(tr) : Append(tr, r)[j] = tr[j]
      /\ Append(tr, r)[Len(tr) + 1] = r
  BY AppendProperties
<1>2. 1..Len(tr) + 1 = 1..Len(tr) \cup {Len(tr) + 1} /\ Len(tr) + 1 \notin 1..Len(tr)
  BY <1>1
<1>3. Actions(Append(tr, r)) = Actions(tr) \cup {Len(tr) + 1} /\ Len(tr) + 1 \notin Actions(tr)
  BY <1>1, <1>2 DEF Actions
<1>4. IsFiniteSet(Actions(Append(tr, r))) /\ Cardinality(Actions(Append(tr, r))) = n + 1
  BY <1>3, FS_AddElement DEF Numbered
<1>5. {Append(tr, r)[i].index : i \in Actions(Append(tr, r))}
        = {tr[i].index : i \in Actions(tr)} \cup {n}
  <2>1. \A i \in Actions(tr) : Append(tr, r)[i] = tr[i]
    BY <1>1 DEF Actions
  <2>2. Append(tr, r)[Len(tr) + 1].index = n
    BY <1>1
  <2>3. PICK a, l : a = Append(tr, r) /\ l = Len(tr) + 1
    OBVIOUS
  <2>4. {a[i].index : i \in Actions(tr) \cup {l}} = {tr[i].index : i \in Actions(tr)} \cup {n}
    BY <2>1, <2>2, <2>3
  <2> QED BY <1>3, <2>3, <2>4
<1>6. 0..(n + 1) - 1 = 0..n-1 \cup {n}
  OBVIOUS
<1> QED BY <1>4, <1>5, <1>6 DEF Numbered

\* Other records are not counted.
LEMMA NumberedOther ==
  ASSUME NEW tr \in Seq(PublicRecord), NEW r \in PublicRecord, NEW n \in Nat,
         Numbered(tr, n), ~IsAction(r)
  PROVE  Numbered(Append(tr, r), n)
<1>1. /\ Len(Append(tr, r)) = Len(tr) + 1 /\ Len(tr) \in Nat
      /\ \A j \in 1..Len(tr) : Append(tr, r)[j] = tr[j]
      /\ Append(tr, r)[Len(tr) + 1] = r
  BY AppendProperties
<1>2. 1..Len(tr) + 1 = 1..Len(tr) \cup {Len(tr) + 1}
  BY <1>1
<1>3. Actions(Append(tr, r)) = Actions(tr)
  BY <1>1, <1>2 DEF Actions
<1>4. \A i \in Actions(tr) : Append(tr, r)[i] = tr[i]
  BY <1>1 DEF Actions
<1>5. {Append(tr, r)[i].index : i \in Actions(tr)} = {tr[i].index : i \in Actions(tr)}
  BY <1>4
<1> QED BY <1>3, <1>5 DEF Numbered

\* The accepted actions can be counted.
LEMMA AcceptedCounted ==
  ASSUME NEW tr \in Seq(PublicRecord)
  PROVE  IsFiniteSet(AcceptedIn(tr)) /\ Cardinality(AcceptedIn(tr)) \in Nat
<1>1. Len(tr) \in Nat
  OBVIOUS
<1>2. IsFiniteSet(1..Len(tr)) /\ AcceptedIn(tr) \subseteq 1..Len(tr)
  BY <1>1, FS_Interval DEF AcceptedIn
<1>3. IsFiniteSet(AcceptedIn(tr))
  BY <1>2, FS_Subset
<1> QED BY <1>3, FS_CardinalityType

\* How many actions were accepted after one more record.
LEMMA AcceptedAppend ==
  ASSUME NEW tr \in Seq(PublicRecord), NEW r \in PublicRecord
  PROVE  /\ Cardinality(AcceptedIn(tr)) \in Nat
         /\ Cardinality(AcceptedIn(Append(tr, r)))
              = Cardinality(AcceptedIn(tr)) + (IF r.type = "accepted" THEN 1 ELSE 0)
<1>1. /\ Len(Append(tr, r)) = Len(tr) + 1 /\ Len(tr) \in Nat
      /\ \A j \in 1..Len(tr) : Append(tr, r)[j] = tr[j]
      /\ Append(tr, r)[Len(tr) + 1] = r
  BY AppendProperties
<1>2. 1..Len(tr) + 1 = 1..Len(tr) \cup {Len(tr) + 1} /\ Len(tr) + 1 \notin 1..Len(tr)
  BY <1>1
<1>3. IsFiniteSet(AcceptedIn(tr)) /\ Cardinality(AcceptedIn(tr)) \in Nat
  BY AcceptedCounted
<1>4. CASE r.type = "accepted"
  <2>1. AcceptedIn(Append(tr, r)) = AcceptedIn(tr) \cup {Len(tr) + 1}
        /\ Len(tr) + 1 \notin AcceptedIn(tr)
    BY <1>1, <1>2, <1>4 DEF AcceptedIn
  <2> QED BY <1>3, <1>4, <2>1, FS_AddElement
<1>5. CASE r.type # "accepted"
  <2>1. AcceptedIn(Append(tr, r)) = AcceptedIn(tr)
    BY <1>1, <1>2, <1>5 DEF AcceptedIn
  <2> QED BY <1>3, <1>5, <2>1
<1> QED BY <1>4, <1>5

(***************************************************************************)
(* The invariant.                                                          *)
(***************************************************************************)

RunTypes ==
  /\ decisions \in 0..MaxDecisions /\ step \in Nat /\ phase \in Phases
  /\ trace \in Seq(PublicRecord) /\ trace # <<>>

\* While the loop runs, the last observation is of the present, or of the step at
\* which the call under way started.
Seen ==
  status = "running" => \E n \in Nat :
    /\ Shows(trace, n)
    /\ phase = "execute" => n = step
    /\ phase = "accepted" => n <= step
    /\ InTick => n < step

\* An accepted action is the last record exactly while its call is under way.
Open ==
  status = "running" =>
    IF phase = "execute"
    THEN LastRecord(trace).type # "accepted"
    ELSE /\ LastRecord(trace).type = "accepted" /\ LastRecord(trace).index + 1 = decisions
         /\ phase = "accepted" => LastRecord(trace).at <= step
         /\ InTick => LastRecord(trace).at < step

\* The digest compared with is the one of before the first tick.
DigestOld ==
  status = "running" => /\ phase = "accepted" => before[3] \in Nat /\ before[3] <= step
                        /\ InTick => before[3] \in Nat /\ before[3] < step

Paid ==
  status = "running" =>
    Cardinality(AcceptedIn(trace)) <= (IF phase = "accepted" THEN step + 1 ELSE step)

\* What StatusTruth says, without the choice of the last observation.
Ended ==
  /\ status = "completed" => Terminal
  /\ status = "decision_budget_exhausted" => ~Terminal /\ decisions = MaxDecisions
  /\ status = "backend_advance_failed" => Shows(trace, step) /\ phase = "execute"
  /\ status = "backend_advance_atomicity_violation" => \E n \in Nat : n < step /\ Shows(trace, n)

RunInv == RunTypes /\ Seen /\ Open /\ DigestOld /\ Paid /\ Ended /\ Aligned(trace, decisions)

\* A run starts with its first observation.
LEMMA RunInit == HarnessInit => RunInv
<1> SUFFICES ASSUME HarnessInit PROVE RunInv
  OBVIOUS
<1>1. /\ step = 0 /\ phase = "execute" /\ decisions = 0 /\ status = "running"
      /\ trace = <<Observation(0, 0)>>
  BY DEF HarnessInit, Init
<1> DEFINE r == Observation(0, 0)
<1>2. r \in PublicRecord /\ r.type = "observation" /\ r.at = 0
  BY DEF Observation, PublicRecord
<1>3. trace \in Seq(PublicRecord) /\ trace # <<>> /\ Len(trace) = 1 /\ trace[1] = r
  BY <1>1, <1>2
<1>4. Shows(trace, 0)
  <2>1. IsView(trace, 1)
    BY <1>2, <1>3 DEF IsView
  <2> QED BY <1>2, <1>3, <2>1 DEF Shows
<1>5. Actions(trace) = {} /\ AcceptedIn(trace) = {}
  BY <1>2, <1>3 DEF Actions, AcceptedIn, IsAction
<1>6. IsFiniteSet({}) /\ Cardinality({}) = 0
  BY FS_EmptySet
<1>7. Aligned(trace, decisions)
  <2>1. Joined(trace)
    BY <1>3 DEF Joined
  <2>2. {trace[i].index : i \in {}} = 0..decisions-1
    BY <1>1
  <2> QED BY <1>1, <1>5, <1>6, <2>1, <2>2 DEF Aligned, Numbered
<1>8. RunTypes
  BY <1>1, <1>3, HarnessAssumption DEF RunTypes, Phases
<1>9. Seen
  BY <1>1, <1>4 DEF Seen, InTick
<1>10. Open
  BY <1>1, <1>2, <1>3 DEF Open, LastRecord
<1>11. DigestOld
  BY <1>1 DEF DigestOld, InTick
<1>12. Paid
  BY <1>1, <1>5, <1>6 DEF Paid
<1>13. Ended
  BY <1>1 DEF Ended
<1> QED BY <1>7, <1>8, <1>9, <1>10, <1>11, <1>12, <1>13 DEF RunInv

\* What an action the harness answers puts on the trace.
LEMMA ActionRecorded ==
  ASSUME RunTypes, Aligned(trace, decisions), NEW type \in {"accepted", "rejected"},
         LastRecord(trace).type # "accepted"
  PROVE  LET told == Append(trace, Record(type))
         IN  /\ told \in Seq(PublicRecord) /\ told # <<>>
             /\ LastRecord(told) = Record(type)
             /\ Aligned(told, decisions + 1)
             /\ \A n : Shows(trace, n) => Shows(told, n)
<1> DEFINE r == Record(type)
<1>1. r \in PublicRecord /\ r.type = type /\ r.index = decisions
  BY DEF Record, PublicRecord, RunTypes
<1>2. decisions \in Nat /\ trace \in Seq(PublicRecord) /\ trace # <<>>
  BY HarnessAssumption DEF RunTypes
<1>3. Follows(LastRecord(trace), r)
  BY <1>1 DEF Follows
<1>4. Aligned(Append(trace, r), decisions + 1)
  BY <1>1, <1>2, <1>3, JoinedAppend, NumberedAction DEF Aligned, IsAction
<1>5. \A n : Shows(trace, n) => Shows(Append(trace, r), n)
  BY <1>1, <1>2, ViewStays
<1>6. Append(trace, r) \in Seq(PublicRecord) /\ Append(trace, r) # <<>>
      /\ LastRecord(Append(trace, r)) = r
  BY <1>1, <1>2, AppendProperties DEF LastRecord
<1> QED BY <1>4, <1>5, <1>6

\* What a failure puts on the trace.
LEMMA FailureRecorded ==
  ASSUME RunTypes, NEW tr \in Seq(PublicRecord), tr # <<>>, NEW n \in Nat, Aligned(tr, n),
         NEW r \in PublicRecord,
         \/ r.type = "backend_error"
         \/ r.type = "protocol_error" /\ LastRecord(tr).type # "accepted"
  PROVE  LET told == Append(tr, r)
         IN  /\ told \in Seq(PublicRecord) /\ told # <<>>
             /\ Aligned(told, n)
             /\ \A k : Shows(tr, k) => Shows(told, k)
<1>1. Follows(LastRecord(tr), r) /\ ~IsAction(r) /\ r.type # "observation"
  BY DEF Follows, IsAction
<1>2. Aligned(Append(tr, r), n)
  BY <1>1, JoinedAppend, NumberedOther DEF Aligned
<1>3. \A k : Shows(tr, k) => Shows(Append(tr, r), k)
  BY <1>1, ViewStays
<1>4. Append(tr, r) \in Seq(PublicRecord) /\ Append(tr, r) # <<>>
  BY AppendProperties
<1> QED BY <1>2, <1>3, <1>4

\* Where the loop stands when it asks the policy.
LEMMA AskedAt ==
  ASSUME RunInv, Asked
  PROVE  /\ status = "running" /\ phase = "execute" /\ ~Terminal /\ ~InTick
         /\ decisions \in Nat /\ decisions + 1 \in 0..MaxDecisions /\ step \in Nat
         /\ LastRecord(trace).type # "accepted" /\ Shows(trace, step)
         /\ Cardinality(AcceptedIn(trace)) <= step
BY HarnessAssumption DEF RunInv, RunTypes, Asked, Between, Open, Seen, Paid, InTick

\* An accepted action is recorded, and its call begins.
LEMMA DecideKeeps ==
  ASSUME RunInv, Decide
  PROVE  RunInv'
<1>1. /\ Asked /\ decisions' = decisions + 1 /\ trace' = Append(trace, Record("accepted"))
      /\ before' = Digest' /\ status' = status
      /\ phase' = "accepted" /\ step' = step
  BY AgentClock DEF Decide
<1>2. Record("accepted") \in PublicRecord /\ Record("accepted").type = "accepted"
      /\ Record("accepted").index = decisions /\ Record("accepted").at = step
  BY AskedAt, <1>1 DEF Record, PublicRecord
<1>3. /\ trace' \in Seq(PublicRecord) /\ trace' # <<>> /\ LastRecord(trace') = Record("accepted")
      /\ Aligned(trace', decisions') /\ Shows(trace', step)
  BY <1>1, AskedAt, ActionRecorded DEF RunInv
<1>4. RunTypes'
  BY <1>1, <1>3, AskedAt DEF RunTypes, Phases
<1>5. Seen'
  BY <1>1, <1>3, AskedAt DEF Seen, InTick
<1>6. Open'
  BY <1>1, <1>2, <1>3, AskedAt DEF Open, InTick, LastRecord
<1>7. DigestOld'
  <2>1. before'[3] = step'
    BY <1>1 DEF Digest
  <2> QED BY <1>1, <2>1, AskedAt DEF DigestOld, InTick
<1>8. Paid'
  BY <1>1, <1>2, AskedAt, AcceptedAppend DEF Paid, RunInv, RunTypes
<1>9. Ended'
  BY <1>1, AskedAt DEF Ended
<1>10. Aligned(trace, decisions)'
  BY <1>3 DEF Aligned, Joined, Numbered, Actions
<1> QED BY <1>4, <1>5, <1>6, <1>7, <1>8, <1>9, <1>10 DEF RunInv

\* The commands of an accepted action take no time.
LEMMA ExecuteKeeps ==
  ASSUME RunInv, Execute
  PROVE  RunInv'
<1>1. /\ status = "running" /\ phase = "accepted" /\ phase' = "accepted" /\ step' = step
      /\ before' = Digest' /\ UNCHANGED <<decisions, status, trace>>
  BY DEF Execute, ApplyNext
<1>2. before'[3] = step'
  BY <1>1 DEF Digest
<1>3. RunTypes' /\ Seen' /\ Open' /\ Paid' /\ Ended'
  BY <1>1 DEF RunInv, RunTypes, Seen, Shows, IsView, Open, LastRecord, Paid, AcceptedIn, Ended, InTick
<1>4. DigestOld'
  BY <1>1, <1>2 DEF RunInv, RunTypes, DigestOld, InTick
<1>5. Aligned(trace, decisions)'
  BY <1>1 DEF RunInv, Aligned, Joined, Numbered, Actions
<1> QED BY <1>3, <1>4, <1>5 DEF RunInv

\* A rejected action is recorded and changes nothing else.
LEMMA RejectKeeps ==
  ASSUME RunInv, Reject
  PROVE  RunInv'
<1>1. /\ Asked /\ decisions' = decisions + 1 /\ trace' = Append(trace, Record("rejected"))
      /\ UNCHANGED <<status, before, phase, step>>
  BY DEF Reject, vars
<1>2. Record("rejected") \in PublicRecord /\ Record("rejected").type = "rejected"
  BY AskedAt, <1>1 DEF Record, PublicRecord
<1>3. /\ trace' \in Seq(PublicRecord) /\ trace' # <<>> /\ LastRecord(trace') = Record("rejected")
      /\ Aligned(trace', decisions') /\ Shows(trace', step)
  BY <1>1, AskedAt, ActionRecorded DEF RunInv
<1>4. RunTypes'
  BY <1>1, <1>3, AskedAt DEF RunInv, RunTypes
<1>5. Seen'
  BY <1>1, <1>3, AskedAt DEF Seen, InTick
<1>6. Open'
  BY <1>1, <1>2, <1>3, AskedAt DEF Open, LastRecord
<1>7. DigestOld'
  BY <1>1, AskedAt DEF DigestOld, InTick
<1>8. Paid'
  BY <1>1, <1>2, AskedAt, AcceptedAppend DEF Paid, RunInv, RunTypes
<1>9. Ended'
  BY <1>1, AskedAt DEF Ended
<1>10. Aligned(trace, decisions)'
  BY <1>3 DEF Aligned, Joined, Numbered, Actions
<1> QED BY <1>4, <1>5, <1>6, <1>7, <1>8, <1>9, <1>10 DEF RunInv

\* A run that is over owes only its status.
LEMMA SealedKeeps ==
  ASSUME RunTypes', Ended', Aligned(trace', decisions'), status' # "running"
  PROVE  RunInv'
BY DEF RunInv, Seen, Open, DigestOld, Paid, Aligned, Joined, Numbered, Actions

\* A malformed action ends the run.
LEMMA MalformedKeeps ==
  ASSUME RunInv, Malformed
  PROVE  RunInv'
<1>1. /\ Asked /\ status' = "protocol_invalid" /\ trace' = Append(trace, Record("protocol_error"))
      /\ UNCHANGED <<decisions, phase, step>>
  BY DEF Malformed, vars
<1>2. Record("protocol_error") \in PublicRecord /\ Record("protocol_error").type = "protocol_error"
  BY AskedAt, <1>1 DEF Record, PublicRecord
<1>3. trace' \in Seq(PublicRecord) /\ trace' # <<>> /\ Aligned(trace', decisions')
  BY <1>1, <1>2, AskedAt, FailureRecorded DEF RunInv, RunTypes
<1>4. RunTypes' /\ Ended'
  BY <1>1, <1>3 DEF RunInv, RunTypes, Ended
<1> QED BY <1>1, <1>3, <1>4, SealedKeeps

\* A wait that advance refuses is accepted, recorded, and ends the run where it was.
LEMMA RefusedWaitKeeps ==
  ASSUME RunInv, RefusedWait
  PROVE  RunInv'
<1> DEFINE a == Record("accepted")
           e == [Record("backend_error") EXCEPT !.index = @ + 1]
           told == Append(trace, a)
<1>1. /\ Asked /\ status' = "backend_advance_failed" /\ decisions' = decisions + 1
      /\ trace' = trace \o <<a, e>>
      /\ UNCHANGED <<phase, step>>
  BY DEF RefusedWait, vars
<1>2. a \in PublicRecord /\ e \in PublicRecord /\ e.type = "backend_error"
  BY AskedAt, <1>1 DEF Record, PublicRecord
<1>3. /\ told \in Seq(PublicRecord) /\ told # <<>> /\ Aligned(told, decisions + 1)
      /\ Shows(told, step)
  BY <1>1, AskedAt, ActionRecorded DEF RunInv
<1>4. trace' = Append(told, e)
  BY <1>1, <1>2 DEF RunInv, RunTypes
<1>5. /\ trace' \in Seq(PublicRecord) /\ trace' # <<>> /\ Aligned(trace', decisions')
      /\ Shows(trace', step)
  <2>1. decisions + 1 \in Nat
    BY <1>1, AskedAt
  <2> HIDE DEF told, e
  <2> QED BY <1>1, <1>2, <1>3, <1>4, <2>1, FailureRecorded DEF RunInv
<1>6. RunTypes'
  BY <1>1, <1>5, AskedAt DEF RunInv, RunTypes
<1>7. Ended'
  BY <1>1, <1>5, AskedAt DEF Ended, Shows, IsView
<1> QED BY <1>1, <1>5, <1>6, <1>7, SealedKeeps

\* An advance that raises within a tick leaves a digest that shows it.
LEMMA AdvanceRaisesKeeps ==
  ASSUME RunInv, AdvanceRaises
  PROVE  RunInv'
<1>1. /\ status = "running" /\ phase = "dynamics" /\ InTick /\ UNCHANGED <<phase, step, decisions, before>>
      /\ trace' = Append(trace, Record("backend_error")) /\ status' = Failure(Digest')
  BY DEF AdvanceRaises, Reads, Turn, InTick
<1>2. Digest'[3] = step
  BY <1>1 DEF Digest
<1>3. status' = "backend_advance_atomicity_violation"
  <2>1. before[3] \in Nat /\ before[3] < step /\ step \in Nat
    BY <1>1 DEF RunInv, RunTypes, DigestOld
  <2>2. Digest' # before
    BY <1>2, <2>1
  <2> QED BY <1>1, <2>2 DEF Failure
<1>4. PICK n \in Nat : Shows(trace, n) /\ n < step
  BY <1>1 DEF RunInv, Seen
<1>5. Record("backend_error") \in PublicRecord /\ Record("backend_error").type = "backend_error"
  BY HarnessAssumption DEF Record, PublicRecord, RunInv, RunTypes
<1>6. /\ trace' \in Seq(PublicRecord) /\ trace' # <<>> /\ Aligned(trace', decisions')
      /\ Shows(trace', n)
  <2>1. decisions \in Nat
    BY HarnessAssumption DEF RunInv, RunTypes
  <2> QED BY <1>1, <1>4, <1>5, <2>1, FailureRecorded DEF RunInv, RunTypes
<1>7. RunTypes'
  BY <1>1, <1>6 DEF RunInv, RunTypes
<1>8. Ended'
  BY <1>1, <1>3, <1>4, <1>6 DEF Ended, Shows, IsView
<1> QED BY <1>3, <1>6, <1>7, <1>8, SealedKeeps

\* The last record of the trace is a record.
LEMMA LastIsRecord ==
  ASSUME RunInv
  PROVE  LastRecord(trace).index \in Nat /\ LastRecord(trace).at \in Nat
<1>1. trace \in Seq(PublicRecord) /\ trace # <<>>
  BY DEF RunInv, RunTypes
<1>2. LastRecord(trace) \in PublicRecord
  BY <1>1 DEF LastRecord
<1> QED BY <1>2 DEF PublicRecord

\* A call that goes on keeps the record of its action the last.
LEMMA AdvanceGoesOn ==
  ASSUME RunInv, Advance, phase' # "execute"
  PROVE  RunInv'
<1>1. /\ status = "running" /\ UNCHANGED <<decisions, status, before, trace>>
      /\ Running /\ phase \in {"accepted"} \cup Phases
  BY DEF Advance, RunInv, RunTypes
<1>2. \/ phase = "accepted" /\ phase' = "accepted" /\ step' = step
      \/ phase = "accepted" /\ InTick' /\ step' = step + 1
      \/ InTick /\ step' = step /\ (InTick' \/ phase' = "accepted")
  BY <1>1, RunningClock
<1>3. step \in Nat /\ step' \in Nat /\ phase' \in Phases /\ phase # "execute"
  BY <1>2 DEF RunInv, RunTypes, Phases, InTick
<1>4. RunTypes'
  BY <1>1, <1>3 DEF RunInv, RunTypes
<1>5. Seen'
  <2>1. PICK n \in Nat : Shows(trace, n) /\ (phase = "accepted" => n <= step) /\ (InTick => n < step)
    BY <1>1 DEF RunInv, Seen
  <2>2. Shows(trace, n)'
    BY <1>1, <2>1 DEF Shows, IsView
  <2>3. (phase' = "accepted" => n <= step') /\ (InTick' => n < step')
    BY <1>2, <1>3, <2>1 DEF InTick
  <2> QED BY <2>2, <2>3 DEF Seen
<1>6. Open'
  <2>1. PICK r : r = LastRecord(trace)
    OBVIOUS
  <2>2. /\ r.type = "accepted" /\ r.index + 1 = decisions
        /\ phase = "accepted" => r.at <= step
        /\ InTick => r.at < step
    BY <1>1, <1>3, <2>1 DEF RunInv, Open
  <2>3. LastRecord(trace)' = r
    BY <1>1, <2>1 DEF LastRecord
  <2>4. r.at \in Nat
    BY <2>1, LastIsRecord
  <2>5. (phase' = "accepted" => r.at <= step') /\ (InTick' => r.at < step')
    BY <1>2, <1>3, <2>2, <2>4 DEF InTick
  <2> QED BY <1>1, <2>2, <2>3, <2>5 DEF Open
<1>7. DigestOld'
  <2>1. PICK b : b = before[3]
    OBVIOUS
  <2>2. /\ phase = "accepted" => b \in Nat /\ b <= step
        /\ InTick => b \in Nat /\ b < step
    BY <1>1, <2>1 DEF RunInv, DigestOld
  <2>3. /\ phase' = "accepted" => b \in Nat /\ b <= step'
        /\ InTick' => b \in Nat /\ b < step'
    BY <1>2, <1>3, <2>2 DEF InTick
  <2> QED BY <1>1, <2>1, <2>3 DEF DigestOld
<1>8. Paid'
  <2>1. PICK c : c = Cardinality(AcceptedIn(trace))
    OBVIOUS
  <2>2. c \in Nat
    BY <2>1, AcceptedCounted DEF RunInv, RunTypes
  <2>3. c <= (IF phase = "accepted" THEN step + 1 ELSE step)
    BY <1>1, <2>1 DEF RunInv, Paid
  <2>4. c <= (IF phase' = "accepted" THEN step' + 1 ELSE step')
    <3>1. CASE phase = "accepted" /\ phase' = "accepted" /\ step' = step
      BY <2>3, <3>1
    <3>2. CASE phase = "accepted" /\ InTick' /\ step' = step + 1
      BY <2>3, <3>2 DEF InTick
    <3>3. CASE InTick /\ step' = step
      BY <1>3, <2>2, <2>3, <3>3 DEF InTick
    <3> QED BY <1>2, <3>1, <3>2, <3>3
  <2> QED BY <1>1, <2>1, <2>4 DEF Paid, AcceptedIn
<1>9. Ended'
  BY <1>1 DEF Ended
<1>10. Aligned(trace, decisions)'
  BY <1>1 DEF RunInv, Aligned, Joined, Numbered, Actions
<1> QED BY <1>4, <1>5, <1>6, <1>7, <1>8, <1>9, <1>10 DEF RunInv

\* A call that returns puts its observation after its action.
LEMMA AdvanceReturns ==
  ASSUME RunInv, Advance, phase' = "execute"
  PROVE  RunInv'
<1> DEFINE r == Observation(decisions, step)
<1>1. /\ status = "running" /\ UNCHANGED <<decisions, status, before>>
      /\ trace' = Append(trace, r) /\ InTick /\ phase # "accepted" /\ phase # "execute" /\ step' = step
  BY RunningClock DEF Advance, InTick
<1>2. /\ decisions \in Nat /\ step \in Nat /\ trace \in Seq(PublicRecord) /\ trace # <<>>
  BY HarnessAssumption DEF RunInv, RunTypes
<1>3. /\ r \in PublicRecord /\ r.type = "observation" /\ r.index = decisions /\ r.at = step
  BY <1>2 DEF Observation, PublicRecord
<1>4. /\ LastRecord(trace).type = "accepted" /\ LastRecord(trace).index + 1 = decisions
      /\ LastRecord(trace).at < step /\ LastRecord(trace).at \in Nat
  BY <1>1, LastIsRecord DEF RunInv, Open
<1>5. Follows(LastRecord(trace), r)
  <2>1. PICK q : q = LastRecord(trace)
    OBVIOUS
  <2>2. q.type = "accepted" /\ r.index = q.index + 1 /\ r.at > q.at
    BY <1>2, <1>3, <1>4, <2>1
  <2> QED BY <1>3, <2>1, <2>2 DEF Follows
<1> HIDE DEF r
<1>6. Aligned(trace', decisions')
  BY <1>1, <1>2, <1>3, <1>5, JoinedAppend, NumberedOther DEF RunInv, Aligned, IsAction
<1>7. /\ trace' \in Seq(PublicRecord) /\ trace' # <<>> /\ LastRecord(trace') = r
      /\ Shows(trace', step)
  BY <1>1, <1>2, <1>3, AppendProperties, ViewShown DEF LastRecord
<1>8. RunTypes'
  BY <1>1, <1>2, <1>7 DEF RunInv, RunTypes, Phases
<1>9. Seen'
  BY <1>1, <1>2, <1>7 DEF Seen, InTick
<1>10. Open'
  BY <1>3, <1>7 DEF Open, LastRecord
<1>11. DigestOld'
  BY DEF DigestOld, InTick
<1>12. Paid'
  <2>1. Cardinality(AcceptedIn(trace')) = Cardinality(AcceptedIn(trace)) + 0
    BY <1>1, <1>2, <1>3, AcceptedAppend
  <2>2. Cardinality(AcceptedIn(trace)) \in Nat
    BY <1>2, <1>3, AcceptedAppend
  <2>3. Cardinality(AcceptedIn(trace)) <= step
    BY <1>1 DEF RunInv, Paid
  <2> QED BY <1>1, <2>1, <2>2, <2>3 DEF Paid
<1>13. Ended'
  BY <1>1 DEF Ended
<1>14. Aligned(trace, decisions)'
  BY <1>6 DEF Aligned, Joined, Numbered, Actions
<1> QED BY <1>8, <1>9, <1>10, <1>11, <1>12, <1>13, <1>14 DEF RunInv

\* A run is sealed with its last observation showing the present.
LEMMA SealingKeeps ==
  ASSUME RunInv, Complete \/ Exhaust
  PROVE  RunInv'
<1>1. /\ UNCHANGED <<decisions, trace, phase, step>>
      /\ \/ status' = "completed" /\ Terminal
         \/ status' = "decision_budget_exhausted" /\ ~Terminal /\ decisions >= MaxDecisions
  BY DEF Complete, Exhaust, Between, vars
<1>2. decisions >= MaxDecisions => decisions = MaxDecisions
  BY HarnessAssumption DEF RunInv, RunTypes
<1>3. Ended'
  BY <1>1, <1>2 DEF Ended, Terminal
<1>4. RunTypes' /\ Aligned(trace', decisions')
  BY <1>1 DEF RunInv, RunTypes
<1> QED BY <1>1, <1>3, <1>4, SealedKeeps

\* Every step of the loop keeps the invariant.
LEMMA RunNext == RunInv /\ [HarnessNext]_harnessVars => RunInv'
<1> SUFFICES ASSUME RunInv, [HarnessNext]_harnessVars PROVE RunInv'
  OBVIOUS
<1>1. CASE UNCHANGED harnessVars
  <2>1. UNCHANGED <<decisions, status, before, trace, phase, step>>
    BY <1>1 DEF harnessVars, runVars, vars
  <2> QED BY <2>1 DEF RunInv, RunTypes, Seen, Shows, IsView, Open, LastRecord, DigestOld, Paid,
             AcceptedIn, Ended, Terminal, InTick, Aligned, Joined, Numbered, Actions
<1>2. CASE Advance
  BY <1>2, AdvanceGoesOn, AdvanceReturns
<1> QED BY <1>1, <1>2, DecideKeeps, ExecuteKeeps, RejectKeeps, MalformedKeeps, RefusedWaitKeeps,
           AdvanceRaisesKeeps, SealingKeeps DEF HarnessNext, RunStep, Sealed, harnessVars

\* The invariant the theorems about the run loop rest on.
THEOREM RunInvariant == HarnessSpec => []RunInv
BY RunInit, RunNext, PTL DEF HarnessSpec, harnessVars

\* The status of a sealed run is true of the episode: completed at the horizon,
\* exhausted before it with every decision used, failed cleanly only if the last
\* observation shows where the backend is, and failed half way only if ticks were
\* taken that it does not show.
THEOREM StatusIsTrue == HarnessSpec => []StatusTruth
<1>1. RunInv => StatusTruth
  BY LastViewShows DEF RunInv, RunTypes, Ended, StatusTruth
<1> QED BY <1>1, RunInvariant, PTL

\* The records of the public trace alternate as its readers expect, and the actions
\* are numbered without a gap, however a run ends.
THEOREM TracesAlign == HarnessSpec => []TraceAligned
<1>1. RunInv => TraceAligned
  BY AlignedIsEnough DEF RunInv, RunTypes
<1> QED BY <1>1, RunInvariant, PTL

\* Between calls at least one tick has passed for every accepted action.
THEOREM ActionsTakeTime == HarnessSpec => []TimePerAction
<1>1. RunInv => TimePerAction
  <2> SUFFICES ASSUME RunInv, Between PROVE step >= Cardinality(Accepted)
    BY DEF TimePerAction
  <2>1. AcceptedIn(trace) = Accepted /\ status = "running" /\ phase # "accepted" /\ step \in Nat
    BY DEF AcceptedIn, Accepted, Between, RunInv, RunTypes
  <2>2. Cardinality(AcceptedIn(trace)) \in Nat
    BY AcceptedCounted DEF RunInv, RunTypes
  <2> QED BY <2>1, <2>2 DEF RunInv, Paid
<1> QED BY <1>1, RunInvariant, PTL

(***************************************************************************)
(* The backend under the harness.                                          *)
(***************************************************************************)

\* Within the dynamics, an advance that raises takes something off a shelf.
ShelfOnly ==
  /\ phase = "dynamics"
  /\ \E d \in Supplies \cap Devices :
       /\ dev[d].level > Cfg.consumption_units
       /\ dev' = [dev EXCEPT ![d].level = @ - Cfg.consumption_units]
  /\ UNCHANGED <<outsideVars, step, taskVars, homeVars, ruleVars, cost, busVars>>
  /\ UNCHANGED <<phase, batch, todo, current, due, wait>>

\* Every other step of the loop is a step of the backend or leaves it alone.
LEMMA BackendSteps ==
  ASSUME [HarnessNext]_harnessVars
  PROVE  [Next]_vars \/ ShelfOnly
<1>1. CASE AdvanceRaises
  BY <1>1, HarnessAssumption DEF AdvanceRaises, Reads, Turn, ShelfOnly
<1> QED BY <1>1 DEF HarnessNext, RunStep, Sealed, harnessVars, Decide, Execute, Reject, Malformed,
           RefusedWait, Advance, Complete, Exhaust, Next, Running

BackendInv == HouseInv /\ CountInv /\ EventInv /\ CallInv

\* What is taken off a shelf leaves every device as it should be.
LEMMA ShelfKeeps ==
  ASSUME BatchInv, HomeInv, ShelfOnly
  PROVE  HomeInv'
<1>1. PICK d \in Supplies \cap Devices :
        /\ dev[d].level > Cfg.consumption_units
        /\ dev' = [dev EXCEPT ![d].level = @ - Cfg.consumption_units]
  BY DEF ShelfOnly
<1>2. UNCHANGED <<scenario, tasks, due, phase>>
  BY DEF ShelfOnly, taskVars, outsideVars
<1>3. \A e : Counted(e)' = Counted(e)
  BY <1>2 DEF Counted
<1>4. dev = [e \in Devices |-> dev[e]]
  BY DEF BatchInv, DevShape
<1>5. PICK n : n = dev[d].level - Cfg.consumption_units
  OBVIOUS
<1>6. /\ dev'[d] = [dev[d] EXCEPT !.level = n]
      /\ \A e \in Devices : e # d => dev'[e] = dev[e]
  BY <1>1, <1>4, <1>5
<1>7. PICK running \in BOOLEAN : running = (d \in DOMAIN tasks)
  <2>1. (d \in DOMAIN tasks) \in BOOLEAN
    OBVIOUS
  <2> QED BY <2>1
<1>8. Sound(d, scenario, dev[d], running, Counted(d))
  BY <1>7 DEF HomeInv
<1>9. SupplySound(dev[d]) /\ ~running
  BY <1>8, SoundIs
<1>10. n \in Nat
  BY <1>1, <1>5, <1>9, TimersPositive DEF SupplySound
<1>11. SupplySound([dev[d] EXCEPT !.level = n]) /\ dev'[d].state = dev[d].state
  <2>1. PICK r : r = dev[d]
    OBVIOUS
  <2>2. SupplySound([r EXCEPT !.level = n]) /\ [r EXCEPT !.level = n].state = r.state
    BY <1>9, <1>10, <2>1 DEF SupplySound
  <2> QED BY <1>6, <2>1, <2>2
<1>12. Sound(d, scenario, dev'[d], running, Counted(d))
  <2>1. PICK r : r = dev'[d]
    OBVIOUS
  <2>2. SupplySound(r)
    BY <1>6, <1>11, <2>1
  <2>3. Sound(d, scenario, r, running, Counted(d))
    BY <1>9, <2>2, SoundIs
  <2> QED BY <2>1, <2>3
<1>13. ASSUME NEW e \in Devices
       PROVE  Sound(e, scenario, dev'[e], e \in DOMAIN tasks, Counted(e))
  BY <1>6, <1>7, <1>12 DEF HomeInv
<1>14. ASSUME NEW e \in due PROVE Moves(e, dev'[e].state, scenario)
  BY <1>6, <1>11 DEF HomeInv
<1> QED BY <1>2, <1>3, <1>13, <1>14 DEF HomeInv

\* The invariants of the backend survive the harness.
LEMMA BackendKeeps == BackendInv /\ [HarnessNext]_harnessVars => BackendInv'
<1> SUFFICES ASSUME BackendInv, [HarnessNext]_harnessVars PROVE BackendInv'
  OBVIOUS
<1>1. CASE [Next]_vars
  <2>1. HouseInv'
    BY <1>1, ScenarioNext, RuleNext, BatchNext, WorkNext, HomeNext
    DEF BackendInv, HouseInv, ScenarioKnown
  <2> QED BY <1>1, <2>1, CountNext, EventNext, CallNext DEF BackendInv, HouseInv
<1>2. CASE ShelfOnly
  <2>1. phase' \in Phases /\ phase = "dynamics"
        /\ UNCHANGED <<scenario, phase, step, batch, current, workflow, runtime, cost>>
    BY <1>2 DEF ShelfOnly, BackendInv, HouseInv, RuleInv, RuleTypes, outsideVars, homeVars
  <2>2. RuleInv'
    BY <1>2, RuleFrame DEF ShelfOnly, BackendInv, HouseInv, ruleState, ruleVars
  <2>3. EventInv'
    BY <1>2, <2>1, QuietKeeps DEF ShelfOnly, BackendInv
  <2>4. CallInv'
    BY <1>2, CallFrame DEF ShelfOnly, BackendInv, busVars
  <2>5. DevShape'
    BY <1>2 DEF ShelfOnly, BackendInv, HouseInv, BatchInv, DevShape
  <2>6. BatchInv'
    BY <2>1, <2>5 DEF BackendInv, HouseInv, BatchInv, BatchShape, BatchStaysLegal
  <2>7. HomeInv'
    BY <1>2, ShelfKeeps DEF BackendInv, HouseInv
  <2>8. ScenarioKnown' /\ WorkTyped' /\ CountInv'
    BY <2>1 DEF BackendInv, HouseInv, ScenarioKnown, WorkTyped, CountInv
  <2> QED BY <2>2, <2>3, <2>4, <2>6, <2>7, <2>8 DEF BackendInv, HouseInv
<1> QED BY <1>1, <1>2, BackendSteps

\* It holds throughout a run.
LEMMA BackendInvariant == HarnessSpec => []BackendInv
<1>1. HarnessInit => BackendInv
  BY ScenarioInit, RuleInit, BatchInit, WorkInit, HomeInit, EventInit, CallInit
  DEF HarnessInit, BackendInv, HouseInv, CountInv, Init
<1> QED BY <1>1, BackendKeeps, PTL DEF HarnessSpec, harnessVars

\* What the backend promises about rules, events and waits it keeps under the harness,
\* with the types of its state, whatever the policy sends and wherever advance fails.
THEOREM HarnessKeepsPromises ==
  HarnessSpec => [](TypeOK /\ RuleWindow /\ RulesDistinct /\ EventsDelivered
                    /\ WaitNeverOvershoots /\ WaitWithinHorizon)
<1>1. BackendInv => TypeOK /\ RuleWindow /\ RulesDistinct /\ EventsDelivered
                    /\ WaitNeverOvershoots /\ WaitWithinHorizon
  BY HouseTypes DEF BackendInv, HouseInv, RuleInv, EventInv, CallInv
<1> QED BY <1>1, BackendInvariant, PTL

\* What the household's records say of one another, and of the run so far.
RecordsInv == OnTime /\ LogInv /\ RuntimeIsTaskTime /\ GarageSession

\* What is taken off a shelf is in none of them.
LEMMA RecordsKeep ==
  ASSUME BackendInv, RecordsInv, [HarnessNext]_harnessVars
  PROVE  RecordsInv'
<1>1. CASE [Next]_vars
  BY <1>1, OnTimeNext, RuntimeNext, GarageNext DEF BackendInv, HouseInv, RecordsInv
<1>2. CASE ShelfOnly
  <2>1. UNCHANGED <<scenario, taskVars, workflow, runtime, due>>
    BY <1>2 DEF ShelfOnly, outsideVars, homeVars
  <2>2. \A d \in Devices \cap {"garage", "washer", "dishwasher"} : dev'[d] = dev[d]
    <3>1. /\ dev = [e \in Devices |-> dev[e]]
          /\ \A d \in Supplies : d \notin {"garage", "washer", "dishwasher"}
      BY DEF BackendInv, HouseInv, BatchInv, DevShape, Supplies
    <3> QED BY <1>2, <3>1 DEF ShelfOnly
  <2>3. LogInv' /\ RuntimeIsTaskTime'
    BY <2>1 DEF RecordsInv, taskVars, LogInv, RuntimeIsTaskTime, Spent, TookFor, RunFor, Untasked
  <2>4. GarageSession'
    BY <2>1, <2>2 DEF RecordsInv, GarageSession
  <2>5. OnTime'
    BY <2>1, <2>2 DEF RecordsInv, OnTime, Machines, Counted, taskVars
  <2> QED BY <2>3, <2>4, <2>5 DEF RecordsInv
<1> QED BY <1>1, <1>2, BackendSteps

\* The household's own invariants hold in any run as well: its copies of a fact agree and
\* its deadlines are met, whatever the policy sends and wherever advance fails.
THEOREM HarnessKeepsHousehold ==
  HarnessSpec => [](/\ TaskIffDevice /\ TaskClock /\ NoOverdueDevice
                    /\ RuntimeIsTaskTime /\ GarageSession)
<1>1. HarnessInit => RecordsInv
  BY OnTimeInit, RuntimeInit, GarageInit DEF HarnessInit, RecordsInv
<1>2. BackendInv /\ RecordsInv => TaskIffDevice /\ TaskClock /\ NoOverdueDevice
  BY TasksAgree, ClocksAgree, DeadlinesAhead DEF BackendInv, HouseInv, RecordsInv
<1>3. BackendInv /\ RecordsInv /\ [HarnessNext]_harnessVars => RecordsInv'
  BY RecordsKeep
<1>4. RecordsInv => RuntimeIsTaskTime /\ GarageSession
  BY DEF RecordsInv
<1> QED BY <1>1, <1>2, <1>3, <1>4, BackendInvariant, PTL DEF HarnessSpec, harnessVars

\* A shelf that advance has left half consumed still agrees with its order.
LEMMA ShelfMatchesOrder ==
  ASSUME BackendInv, OrdersInv, ShelfOnly
  PROVE  OrdersInv'
<1>1. PICK d \in Supplies \cap Devices :
        /\ dev[d].level > Cfg.consumption_units
        /\ dev' = [dev EXCEPT ![d].level = @ - Cfg.consumption_units]
  BY DEF ShelfOnly
<1>2. workflow' = workflow /\ dev = [e \in Devices |-> dev[e]]
  BY DEF ShelfOnly, homeVars, BackendInv, HouseInv, BatchInv, DevShape
<1>3. PICK r, o, n : r = dev[d] /\ o = workflow.orders[d] /\ n = r.level - Cfg.consumption_units
  OBVIOUS
<1>4. /\ dev'[d] = [r EXCEPT !.level = n]
      /\ \A e \in Devices : e # d => dev'[e] = dev[e]
  BY <1>1, <1>2, <1>3
<1>5. OrderSound(r, o) /\ SupplySound(r)
  <2>1. PICK running \in BOOLEAN : running = (d \in DOMAIN tasks)
    <3>1. (d \in DOMAIN tasks) \in BOOLEAN
      OBVIOUS
    <3> QED BY <3>1
  <2>2. Sound(d, scenario, r, running, Counted(d))
    BY <1>3, <2>1 DEF BackendInv, HouseInv, HomeInv
  <2> QED BY <1>3, <2>2, SoundIs DEF OrdersInv
<1>6. r.level \in Nat /\ n \in Nat /\ n > 0 /\ n <= r.level
  BY <1>1, <1>3, <1>5, TimersPositive DEF SupplySound
<1>7. OrderSound([r EXCEPT !.level = n], o)
  BY <1>5, <1>6 DEF OrderSound, SupplySound
<1> QED BY <1>2, <1>3, <1>4, <1>7 DEF OrdersInv

\* Supplies and orders agree in any run, although advance may raise while one of the
\* shelves is consumed.
THEOREM HarnessMatchesOrders ==
  ASSUME Cfg.initial_supply <= 100
  PROVE  HarnessSpec => []SupplyMatchesOrder
<1>1. HarnessInit => OrdersInv
  BY OrdersInit DEF HarnessInit
<1>2. BackendInv /\ OrdersInv /\ [HarnessNext]_harnessVars => OrdersInv'
  BY BackendSteps, OrdersNext, ShelfMatchesOrder DEF BackendInv
<1>3. OrdersInv => SupplyMatchesOrder
  BY DEF OrdersInv, OrderSound, SupplyMatchesOrder
<1> QED BY <1>1, <1>2, <1>3, BackendInvariant, PTL DEF HarnessSpec, harnessVars

\* Under the harness, too, a command takes effect only where the state allows it,
\* and a rule that disappears is heard of.
THEOREM HarnessStepsAreLegal == HarnessSpec => AppliedLegal /\ NoSilentRetirement
<1>1. BackendInv /\ [HarnessNext]_harnessVars => [cost' # cost => CommandOk(Head(batch))]_vars
  BY BackendSteps, CostIsLegal DEF BackendInv, HouseInv, ShelfOnly
<1>2. BackendInv /\ [HarnessNext]_harnessVars =>
        [\A r \in rules \ rules' :
           \/ /\ phase = "execute"
              /\ \E i \in 1..Len(pending') : pending'[i].type = "rule_cancelled" /\ pending'[i].of = r.id
           \/ r.fire = step /\ r.release = 0 /\ Heard("rule_fired", r.id) /\ Heard("rule_retired", r.id)
           \/ r.release = step /\ Heard("rule_released", r.id)]_vars
  BY BackendSteps, RetirementIsHeard DEF BackendInv, HouseInv, ShelfOnly, ruleVars
<1> QED BY <1>1, <1>2, BackendInvariant, PTL
        DEF HarnessSpec, harnessVars, AppliedLegal, NoSilentRetirement

\* The run loop implements the book of timers: no decision, rejection or failure
\* makes a rule miss its step.
THEOREM HarnessKeepsTheBook == HarnessSpec => RulesKeepTime
<1>1. HarnessInit => Book!Init
  <2> SUFFICES ASSUME HarnessInit PROVE Book!Init
    OBVIOUS
  <2>1. step = 0 /\ rules = {}
    BY DEF HarnessInit, Init
  <2> QED BY <2>1 DEF Book!Init
<1>2. BackendInv /\ [HarnessNext]_harnessVars => [Book!Next]_<<step, {Entry(r) : r \in rules}>>
  <2> SUFFICES ASSUME BackendInv, [HarnessNext]_harnessVars
               PROVE  [Book!Next]_<<step, {Entry(r) : r \in rules}>>
    OBVIOUS
  <2>1. CASE [Next]_vars
    BY <2>1, BookSimulated DEF bookVars, BackendInv, HouseInv
  <2>2. CASE ShelfOnly
    <3>1. UNCHANGED <<phase, ruleState>>
      BY <2>2 DEF ShelfOnly, ruleVars, ruleState
    <3> QED BY <3>1, BookFrame DEF bookVars, BackendInv, HouseInv
  <2> QED BY <2>1, <2>2, BackendSteps
<1> QED BY <1>1, <1>2, BackendInvariant, PTL
        DEF HarnessSpec, harnessVars, RulesKeepTime, Book!Spec
=============================================================================
