--------------------------- MODULE ExecutorProofs ---------------------------
(***************************************************************************)
(* For every set of jobs and all limits: the bound on living processes,    *)
(* cleanup only after reaping, and the job pool as an abstraction.         *)
(***************************************************************************)
EXTENDS ExecutorProperties, FiniteSetTheorems, TLAPS

\* A future's life, and what it says about its process and its directory.
Coherent(j) ==
  /\ future[j] = "new" => leader[j] = "none" /\ j \notin forked /\ told[j] = "nothing"
  /\ future[j] = "queued" => leader[j] = "none" /\ j \notin forked
  /\ future[j] = "started" => leader[j] # "none"
  /\ future[j] \in {"queued", "started"} => told[j] = "nothing" /\ session[j] = "present"

CallerCoherent ==
  /\ caller # Idle /\ caller.at = "slot" => future[caller.job] = "queued"
  /\ caller # Idle /\ caller.at \in {"answer", "reading"} => future[caller.job] = "started"

\* The processes that count are among the slots, and the slots are few.
SlotsCover ==
  /\ Alive \cap Active \subseteq running
  /\ Cardinality(running) <= MaxWorkers

IInv ==
  /\ TypeOK
  /\ \A j \in Jobs : Coherent(j)
  /\ CallerCoherent
  /\ SlotsCover
  /\ ReapedBeforeCleanup

\* Taking a slot when one is free keeps the slots few, and giving one up does too.
LEMMA SlotCount ==
  ASSUME NEW S, S \subseteq Jobs
  PROVE  /\ IsFiniteSet(S) /\ Cardinality(S) \in Nat
         /\ \A j \in Jobs : Cardinality(S \cup {j}) <= Cardinality(S) + 1
         /\ \A T : T \subseteq S => Cardinality(T) <= Cardinality(S) /\ Cardinality(T) \in Nat
<1>1. IsFiniteSet(S) /\ Cardinality(S) \in Nat
  BY ExecutorConstants, FS_Subset, FS_CardinalityType
<1>2. \A j \in Jobs : Cardinality(S \cup {j}) <= Cardinality(S) + 1
  BY <1>1, FS_AddElement
<1>3. \A T : T \subseteq S => Cardinality(T) <= Cardinality(S) /\ Cardinality(T) \in Nat
  BY <1>1, FS_Subset, FS_CardinalityType
<1> QED  BY <1>1, <1>2, <1>3

\* The invariant holds initially.
LEMMA InitIInv == Init => IInv
<1> SUFFICES ASSUME Init PROVE IInv
  OBVIOUS
<1>1. Cardinality({}) = 0
  BY FS_EmptySet
<1> QED
  BY <1>1, ExecutorConstants
  DEF Init, IInv, TypeOK, Coherent, CallerCoherent, SlotsCover, ReapedBeforeCleanup, Alive,
      Groups, Waiting, Idle, Readable

\* The slots need be looked at only when a step takes or frees one.
LEMMA NextIInv == IInv /\ [Next]_vars => IInv'
<1> SUFFICES ASSUME IInv, [Next]_vars PROVE IInv'
  OBVIOUS
<1> USE DEF IInv, TypeOK, Waiting, Idle, Readable
<1>1. ASSUME NEW j \in Jobs, Worker(j) PROVE IInv'
  <2>1. CASE Fork(j)
    BY <2>1 DEF Fork, Coherent, CallerCoherent, SlotsCover, ReapedBeforeCleanup, Alive, Active, Groups
  <2>2. CASE Answer(j)
    <3>1. \A a \in Answers[j] : a \in Endings
      BY ExecutorConstants
    <3> QED
      BY <2>2, <3>1
      DEF Answer, Endings, Coherent, CallerCoherent, SlotsCover, ReapedBeforeCleanup, Alive, Active, Groups
  <2>6. CASE BeginAnswer(j) \/ CompleteAnswer(j)
    <3>1. \A a \in Answers[j] : a \in Endings
      BY ExecutorConstants
    <3> QED
      BY <2>6, <3>1
      DEF BeginAnswer, CompleteAnswer, Endings, Coherent, CallerCoherent, SlotsCover, ReapedBeforeCleanup,
          Alive, Active, Groups
  <2>3. CASE Exit(j)
    BY <2>3 DEF Exit, Coherent, CallerCoherent, SlotsCover, ReapedBeforeCleanup, Alive, Active, Groups
  <2>4. CASE Die(j)
    BY <2>4 DEF Die, Coherent, CallerCoherent, SlotsCover, ReapedBeforeCleanup, Alive, Active, Groups
  <2>5. CASE DescendantsEnd(j)
    BY <2>5 DEF DescendantsEnd, Coherent, CallerCoherent, SlotsCover, ReapedBeforeCleanup, Alive, Active, Groups
  <2> QED  BY <1>1, <2>1, <2>2, <2>3, <2>4, <2>5, <2>6 DEF Worker
<1>2. ASSUME NEW j \in Jobs, Submit(j) PROVE IInv'
  <2>1. Cardinality(running') <= MaxWorkers
    BY <1>2, SlotCount, ExecutorConstants DEF Submit, SlotsCover
  <2>2. (Alive \cap Active \subseteq running)'
    BY <1>2 DEF Submit, SlotsCover, Coherent, Alive, Active
  <2> QED
    BY <1>2, <2>1, <2>2 DEF Submit, Coherent, CallerCoherent, SlotsCover, ReapedBeforeCleanup, Alive, Groups
<1>3. ASSUME NEW j \in Jobs, Result(j) \/ Refresh(j) PROVE IInv'
  <2>1. Cardinality(running') <= MaxWorkers
    BY <1>3, SlotCount, ExecutorConstants DEF Result, Refresh, SlotsCover
  <2>2. (Alive \cap Active \subseteq running)'
    BY <1>3 DEF Result, Refresh, SlotsCover, Alive, Active
  <2> QED
    BY <1>3, <2>1, <2>2
    DEF Result, Refresh, Coherent, CallerCoherent, SlotsCover, ReapedBeforeCleanup, Alive, Active, Groups
<1>4. ASSUME NEW j \in Jobs, StartQueued(j) PROVE IInv'
  <2>1. Cardinality(running') <= MaxWorkers
    BY <1>4, SlotCount, ExecutorConstants DEF StartQueued, SlotsCover
  <2>2. (Alive \cap Active \subseteq running)'
    BY <1>4 DEF StartQueued, SlotsCover, Alive, Active
  <2>3. future[j] = "queued"
    BY <1>4 DEF StartQueued, CallerCoherent
  <2> QED
    BY <1>4, <2>1, <2>2, <2>3
    DEF StartQueued, Coherent, CallerCoherent, SlotsCover, ReapedBeforeCleanup, Alive, Groups
<1>5. ASSUME NEW j \in Jobs, QueueDeadline(j) PROVE IInv'
  <2>1. future[j] = "queued"
    BY <1>5 DEF QueueDeadline, CallerCoherent
  <2> QED
    BY <1>5, <2>1
    DEF QueueDeadline, Coherent, CallerCoherent, SlotsCover, ReapedBeforeCleanup, Alive, Active, Groups
<1>6. ASSUME NEW j \in Jobs, NEW r \in {"no_answer", "deadline", "value", "error"}, NEW survives \in BOOLEAN,
             Settle(j, r, survives), future[j] = "started"
      PROVE  IInv'
  <2>1. Cardinality(running') <= MaxWorkers
    BY <1>6, SlotCount, ExecutorConstants DEF Settle, SlotsCover
  <2>2. (Alive \cap Active \subseteq running)'
    BY <1>6 DEF Settle, SlotsCover, Alive, Active
  <2> QED
    BY <1>6, <2>1, <2>2
    DEF Settle, Coherent, CallerCoherent, SlotsCover, ReapedBeforeCleanup, Alive, Groups
<1>7. ASSUME NEW j \in Jobs, AnswerDeadline(j) \/ Receive(j) PROVE IInv'
  <2>1. future[j] = "started"
    BY <1>7 DEF AnswerDeadline, Receive, CallerCoherent
  <2>2. Unreaped(j) \in BOOLEAN /\ (j \in Stubborn \cap forked) \in BOOLEAN
    BY DEF Unreaped
  <2>3. CASE AnswerDeadline(j)
    <3>1. Settle(j, "deadline", Unreaped(j))
      BY <2>3 DEF AnswerDeadline
    <3> QED  BY <1>6, <2>1, <2>2, <3>1
  <2>4. CASE Receive(j)
    <3>1. PICK s \in {Unreaped(j), j \in Stubborn \cap forked} :
            \/ pipe[j] \in {"empty", "part"} /\ Ended(j) /\ Settle(j, "no_answer", s)
            \/ pipe[j] \in Readable /\ Settle(j, IF s THEN "error" ELSE pipe[j], s)
      BY <2>4, Zenon DEF Receive
    <3> HIDE DEF Readable
    <3>2. s \in BOOLEAN
      BY <2>2, Zenon
    <3>3. CASE Settle(j, "no_answer", s)
      BY <1>6, <2>1, <3>3, <3>2
    <3>4. CASE pipe[j] \in Readable /\ Settle(j, IF s THEN "error" ELSE pipe[j], s)
      <4>1. (IF s THEN "error" ELSE pipe[j]) \in {"no_answer", "deadline", "value", "error"}
        BY <3>4 DEF Readable
      <4> QED  BY <1>6, <2>1, <3>4, <3>2, <4>1
    <3> QED  BY <3>1, <3>3, <3>4
  <2> QED  BY <1>7, <2>3, <2>4
<1>8. ASSUME NEW j \in Jobs, ReceiveRaises(j) PROVE IInv'
  <2>1. Cardinality(running') <= MaxWorkers
    BY <1>8, SlotCount, ExecutorConstants DEF ReceiveRaises, SlotsCover
  <2>2. (Alive \cap Active \subseteq running)'
    BY <1>8 DEF ReceiveRaises, SlotsCover, Alive, Active
  <2> QED
    BY <1>8, <2>1, <2>2
    DEF ReceiveRaises, Coherent, CallerCoherent, SlotsCover, ReapedBeforeCleanup, Alive, Groups
<1>9. CASE Close
  BY <1>9 DEF Close, Unreaped, Coherent, CallerCoherent, SlotsCover, ReapedBeforeCleanup, Alive, Active, Groups
<1>10. CASE UNCHANGED vars
  BY <1>10 DEF vars, Coherent, CallerCoherent, SlotsCover, ReapedBeforeCleanup, Alive, Active, Groups
<1>11. ASSUME NEW j \in Jobs, Poll(j) PROVE IInv'
  BY <1>11 DEF Poll, Coherent, CallerCoherent, SlotsCover, ReapedBeforeCleanup, Alive, Active, Groups
<1> QED
  BY <1>1, <1>2, <1>3, <1>4, <1>5, <1>7, <1>8, <1>9, <1>10, <1>11 DEF Next, Proceed

\* The inductive invariant holds in every behaviour.
THEOREM ExecutorInvariant == Spec => []IInv
<1> QED  BY InitIInv, NextIInv, PTL DEF Spec

\* At most max_workers processes of uncollected jobs are alive.
THEOREM BoundedWorkers == Spec => []WorkersBounded
<1>1. IInv => WorkersBounded
  <2> SUFFICES ASSUME IInv PROVE WorkersBounded
    OBVIOUS
  <2>1. running \subseteq Jobs /\ Alive \cap Active \subseteq running /\ Cardinality(running) <= MaxWorkers
    BY DEF IInv, TypeOK, SlotsCover
  <2> QED  BY <2>1, SlotCount, ExecutorConstants DEF WorkersBounded
<1> QED  BY <1>1, ExecutorInvariant, PTL

\* The pool's own steps, seen through the executor's: each step is one of the
\* pool's or leaves the pool alone.
LEMMA StepsOfPool == IInv /\ IInv' /\ [Next]_vars => [Pool!PoolNext]_<<
    [j \in Jobs |-> IF future[j] \in {"queued", "started"} THEN "admitted"
                    ELSE IF future[j] = "closed" THEN "dropped" ELSE future[j]],
    {j \in Jobs : leader[j] # "none"}, told>>
<1> DEFINE phase == [j \in Jobs |-> IF future[j] \in {"queued", "started"} THEN "admitted"
                                    ELSE IF future[j] = "closed" THEN "dropped" ELSE future[j]]
           ran == {j \in Jobs : leader[j] # "none"}
<1> SUFFICES ASSUME IInv, IInv', [Next]_vars PROVE [Pool!PoolNext]_<<phase, ran, told>>
  OBVIOUS
<1> USE DEF IInv, TypeOK, Waiting, Idle, Readable
<1>1. ASSUME NEW j \in Jobs, Worker(j) PROVE UNCHANGED <<phase, ran, told>>
  <2>1. future' = future /\ told' = told
    BY <1>1 DEF Worker, Fork, Answer, BeginAnswer, CompleteAnswer, Exit, Die, DescendantsEnd
  <2>2. \A i \in Jobs : (leader'[i] = "none") <=> (leader[i] = "none")
    BY <1>1 DEF Worker, Fork, Answer, BeginAnswer, CompleteAnswer, Exit, Die, DescendantsEnd, Alive
  <2> QED  BY <2>1, <2>2
<1>2. ASSUME NEW j \in Jobs, Submit(j) PROVE Pool!PoolNext
  <2>1. Active = Pool!Admitted
    BY DEF Active, Pool!Admitted
  <2>2. phase[j] = "new" /\ phase' = [phase EXCEPT ![j] = "admitted"] /\ told' = told
    <3>1. future[j] = "new" /\ told' = told
      BY <1>2 DEF Submit
    <3>2. PICK f \in {"queued", "started"} : future' = [future EXCEPT ![j] = f]
      BY <1>2 DEF Submit
    <3>3. phase[j] = "new"
      BY <3>1
    <3>4. phase' = [phase EXCEPT ![j] = "admitted"]
      BY <3>2
    <3> QED  BY <3>1, <3>3, <3>4
  <2>3. ran' = ran \cup {} \/ ran' = ran \cup {j}
    BY <1>2 DEF Submit
  <2>4. Cardinality(Pool!Admitted) < MaxPending
    BY <1>2, <2>1 DEF Submit
  <2>5. Pool!Cardinality(Pool!Admitted) = Cardinality(Pool!Admitted)
    BY Zenon DEF Pool!Cardinality, Cardinality
  <2>6. Pool!Admit(j)
    BY <2>2, <2>3, <2>4, <2>5 DEF Pool!Admit
  <2> QED  BY <2>6 DEF Pool!PoolNext
<1>3. ASSUME NEW j \in Jobs, Result(j) \/ Refresh(j) \/ Poll(j) PROVE UNCHANGED <<phase, ran, told>>
  BY <1>3 DEF Result, Refresh, Poll
<1>4. ASSUME NEW j \in Jobs, StartQueued(j) PROVE Pool!PoolNext
  <2>1. future[j] = "queued" /\ leader[j] = "none"
    BY <1>4 DEF StartQueued, CallerCoherent, Coherent
  <2>2. phase[j] = "admitted" /\ phase' = phase /\ j \notin ran /\ ran' = ran \cup {j} /\ told' = told
    BY <1>4, <2>1 DEF StartQueued
  <2>3. Pool!Begin(j)
    BY <2>2 DEF Pool!Begin
  <2> QED  BY <2>3 DEF Pool!PoolNext
<1>5. ASSUME NEW j \in Jobs, NEW t \in Pool!Told \ {"nothing"}, future[j] \in {"queued", "started"},
             t = "queued" <=> j \notin ran, told' = [told EXCEPT ![j] = t],
             future' = [future EXCEPT ![j] = "settled"],
             \A i \in Jobs : (leader'[i] = "none") <=> (leader[i] = "none")
      PROVE  Pool!PoolNext
  <2>1. phase[j] = "admitted"
    BY <1>5
  <2>2. phase' = [phase EXCEPT ![j] = "settled"]
    BY <1>5
  <2>3. ran' = ran
    BY <1>5
  <2>4. Pool!Settle(j)
    BY <1>5, <2>1, <2>2, <2>3 DEF Pool!Settle
  <2> QED  BY <2>4 DEF Pool!PoolNext
<1>6. ASSUME NEW j \in Jobs, QueueDeadline(j) PROVE Pool!PoolNext
  <2>1. future[j] = "queued" /\ leader[j] = "none"
    BY <1>6 DEF QueueDeadline, CallerCoherent, Coherent
  <2> QED  BY <1>5, <1>6, <2>1 DEF QueueDeadline, Pool!Told
<1>7. ASSUME NEW j \in Jobs, AnswerDeadline(j) \/ Receive(j) \/ ReceiveRaises(j) PROVE Pool!PoolNext
  <2>1. future[j] = "started" /\ leader[j] # "none"
    BY <1>7 DEF AnswerDeadline, Receive, ReceiveRaises, CallerCoherent, Coherent
  <2>2. \A i \in Jobs : (leader'[i] = "none") <=> (leader[i] = "none")
    BY <1>7, <2>1 DEF AnswerDeadline, Receive, ReceiveRaises, Settle
  <2>3. future' = [future EXCEPT ![j] = "settled"]
    BY <1>7 DEF AnswerDeadline, Receive, ReceiveRaises, Settle
  <2>4. PICK t \in {"no_answer", "deadline", "value", "error", "raised"} : told' = [told EXCEPT ![j] = t]
    BY <1>7 DEF AnswerDeadline, Receive, ReceiveRaises, Settle
  <2> QED  BY <1>5, <2>1, <2>2, <2>3, <2>4 DEF Pool!Told
<1>8. CASE Close
  <2>1. phase' = [j \in Jobs |-> IF phase[j] = "admitted" THEN "dropped" ELSE phase[j]] /\ told' = told
    BY <1>8 DEF Close, Active
  <2>2. \A i \in Jobs : (leader'[i] = "none") <=> (leader[i] = "none")
    BY <1>8 DEF Close, Active, Coherent
  <2>3. Pool!DropAll
    BY <2>1, <2>2 DEF Pool!DropAll
  <2> QED  BY <2>3 DEF Pool!PoolNext
<1>9. CASE UNCHANGED vars
  BY <1>9 DEF vars
<1> QED
  BY <1>1, <1>2, <1>3, <1>4, <1>6, <1>7, <1>8, <1>9 DEF Next, Proceed

\* The executor implements the pool of jobs.
THEOREM ExecutorIsPool == Spec => ImplementsPool
<1>1. Init => Pool!PoolInit
  BY DEF Init, Pool!PoolInit
<1> QED
  BY <1>1, ExecutorInvariant, StepsOfPool, PTL DEF Spec, ImplementsPool, Pool!PoolSpec

\* No directory is removed under a living process.
THEOREM CleanupAfterReaping == Spec => []ReapedBeforeCleanup
<1>1. IInv => ReapedBeforeCleanup
  BY DEF IInv
<1> QED  BY <1>1, ExecutorInvariant, PTL

\* Every variable of the executor has its type, whatever the workers do.
THEOREM ExecutorIsTyped == Spec => []TypeOK
<1>1. IInv => TypeOK
  BY DEF IInv
<1> QED  BY <1>1, ExecutorInvariant, PTL

\* A slot is held by a job that was started, or that close() found started; and once
\* a caller waits for a slot the refresh has left no closed job with one, unless
\* its process could not be killed.
SlotsHeld ==
  /\ \A j \in running : future[j] \in {"started", "closed"}
  /\ \A j \in Jobs : future[j] = "closed" => told[j] = "nothing"
  /\ caller # Idle /\ caller.at = "slot" => running \subseteq Occupants

\* Initially no job holds a slot.
LEMMA SlotsHeldInit == Init => SlotsHeld
BY DEF Init, SlotsHeld

\* Every step keeps the account of held slots.
LEMMA SlotsHeldNext == IInv /\ SlotsHeld /\ [Next]_vars => SlotsHeld'
<1> SUFFICES ASSUME IInv, SlotsHeld, [Next]_vars PROVE SlotsHeld'
  OBVIOUS
<1> USE DEF SlotsHeld, Idle
<1>1. /\ TypeOK /\ CallerCoherent /\ ReapedBeforeCleanup
      /\ \A j \in Jobs : Coherent(j)
  BY DEF IInv
<1>2. ASSUME NEW j \in Jobs, Worker(j) PROVE SlotsHeld'
  <2>1. UNCHANGED <<future, running, told, caller, session>>
    BY <1>2 DEF Worker, Fork, Answer, BeginAnswer, CompleteAnswer, Exit, Die, DescendantsEnd
  <2> QED  BY <2>1 DEF Occupants
<1>3. ASSUME NEW j \in Jobs, Submit(j) PROVE SlotsHeld'
  BY <1>1, <1>3 DEF Submit, TypeOK
<1>4. ASSUME NEW j \in Jobs, Result(j) PROVE SlotsHeld'
  <2>1. CASE future[j] = "queued"
    <3>1. running' = running \cap Alive /\ UNCHANGED <<future, told, session>>
      BY <1>4, <2>1 DEF Result
    <3>2. \A i \in running \cap Alive : i \in Jobs /\ (future[i] = "closed" => session[i] = "present")
      BY <1>1 DEF TypeOK, ReapedBeforeCleanup, Groups
    <3>3. running' \subseteq Occupants'
      BY <3>1, <3>2 DEF Occupants
    <3> QED  BY <3>1, <3>3
  <2>2. CASE future[j] # "queued"
    <3>1. caller'.at = "answer" /\ UNCHANGED <<running, future, told>>
      BY <1>4, <2>2 DEF Result
    <3> QED  BY <3>1
  <2> QED  BY <2>1, <2>2
<1>5. ASSUME NEW j \in Jobs, Refresh(j) PROVE SlotsHeld'
  BY <1>5 DEF Refresh, Occupants
<1>6. ASSUME NEW j \in Jobs, StartQueued(j) PROVE SlotsHeld'
  BY <1>1, <1>6 DEF StartQueued, TypeOK
<1>7. ASSUME NEW j \in Jobs, QueueDeadline(j) PROVE SlotsHeld'
  <2>1. future[j] = "queued"
    BY <1>1, <1>7 DEF QueueDeadline, CallerCoherent
  <2> QED  BY <1>1, <1>7, <2>1 DEF QueueDeadline, TypeOK
<1>8. ASSUME NEW j \in Jobs, AnswerDeadline(j) \/ Receive(j) \/ ReceiveRaises(j) PROVE SlotsHeld'
  <2>1. future' = [future EXCEPT ![j] = "settled"] /\ running' = running \ {j} /\ caller' = Idle
    BY <1>8 DEF AnswerDeadline, Receive, ReceiveRaises, Settle
  <2>2. \A i \in Jobs \ {j} : told'[i] = told[i]
    BY <1>1, <1>8 DEF AnswerDeadline, Receive, ReceiveRaises, Settle, TypeOK
  <2> QED  BY <1>1, <2>1, <2>2 DEF TypeOK
<1>9. CASE Close
  BY <1>1, <1>9 DEF Close, Coherent, Active, TypeOK
<1>10. CASE UNCHANGED vars
  BY <1>10 DEF vars, Occupants
<1>11. ASSUME NEW j \in Jobs, Poll(j) PROVE SlotsHeld'
  BY <1>11 DEF Poll
<1> QED
  BY <1>2, <1>3, <1>4, <1>5, <1>6, <1>7, <1>8, <1>9, <1>10, <1>11 DEF Next, Proceed

\* A job is refused its turn only while every slot is held by a started job nobody
\* has collected, or by a process close() could not kill.
THEOREM NoJobStarves == Spec => StarvedOnlyWhenFull
<1>1. IInv /\ SlotsHeld /\ [Next]_vars =>
        [\A j \in Jobs : told[j] = "nothing" /\ told'[j] = "queued"
                            => Cardinality(Occupants) >= MaxWorkers]_vars
  <2> SUFFICES ASSUME IInv, SlotsHeld, Next, NEW j \in Jobs, told[j] = "nothing", told'[j] = "queued"
               PROVE  Cardinality(Occupants) >= MaxWorkers
    OBVIOUS
  <2>1. told \in [Jobs -> {"nothing", "no_answer", "deadline", "queued", "raised"} \cup Readable]
    BY DEF IInv, TypeOK
  <2>2. ASSUME NEW i \in Jobs, QueueDeadline(i) PROVE Cardinality(Occupants) >= MaxWorkers
    <3>1. running \subseteq Occupants /\ Cardinality(running) >= MaxWorkers
      BY <2>2 DEF QueueDeadline, SlotsHeld, Idle
    <3>2. Occupants \subseteq Jobs
      BY DEF Occupants
    <3>3. Cardinality(running) <= Cardinality(Occupants) /\ Cardinality(running) \in Nat
          /\ Cardinality(Occupants) \in Nat
      BY <3>1, <3>2, SlotCount
    <3> QED  BY <3>1, <3>3, ExecutorConstants
  <2>3. ASSUME NEW i \in Jobs, AnswerDeadline(i) \/ Receive(i) \/ ReceiveRaises(i) PROVE FALSE
    <3>1. \A t \in {"no_answer", "deadline", "value", "error", "raised"} :
            told' # [told EXCEPT ![i] = t]
      BY <2>1
    <3> QED
      BY <2>3, <3>1 DEF AnswerDeadline, Receive, ReceiveRaises, Settle, Readable
  <2>4. ASSUME NEW i \in Jobs, Submit(i) \/ Result(i) \/ Refresh(i) \/ StartQueued(i) \/ Poll(i) \/ Worker(i)
        PROVE FALSE
    BY <2>4 DEF Submit, Result, Refresh, StartQueued, Poll, Worker, Fork, Answer,
         BeginAnswer, CompleteAnswer, Exit, Die, DescendantsEnd
  <2>5. ~Close
    BY DEF Close
  <2> QED  BY <2>2, <2>3, <2>4, <2>5 DEF Next, Proceed
<1> QED  BY <1>1, SlotsHeldInit, SlotsHeldNext, ExecutorInvariant, PTL DEF Spec, StarvedOnlyWhenFull

=============================================================================
