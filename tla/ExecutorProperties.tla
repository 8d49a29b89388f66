------------------------ MODULE ExecutorProperties ------------------------
(***************************************************************************)
(* What the executor keeps to in every order of submitting, collecting and *)
(* closing, whatever the workers do.                                       *)
(***************************************************************************)
EXTENDS BoundedExecutor

\* Every variable has its type.
TypeOK ==
  /\ future \in [Jobs -> {"new", "queued", "started", "settled", "closed"}]
  /\ running \subseteq Jobs /\ forked \subseteq Jobs
  /\ leader \in [Jobs -> {"none", "working", "sending", "dead"}]
  /\ pipe \in [Jobs -> {"empty", "part", "unreadable"} \cup Readable]
  /\ session \in [Jobs -> {"none", "present", "removed"}]
  /\ told \in [Jobs -> {"nothing", "no_answer", "deadline", "queued", "raised"} \cup Readable]
  /\ caller \in Waiting

\* Never more than max_workers processes of uncollected jobs are alive, although
\* the slots are refreshed only by result() and close() leaves them taken; what
\* is above that has survived its kill or was abandoned when recv() raised.
WorkersBounded == Cardinality(Alive \cap Active) <= MaxWorkers

\* "timed out workers are terminated and reaped before cleanup": the directory of
\* a job is there as long as any process of its group is, except after an answer
\* that could not be read.
ReapedBeforeCleanup ==
  \A j \in Groups : session[j] = "present" \/ told[j] = "raised"

\* A job is refused its turn only while every slot is held by a started job
\* nobody has collected, be its worker alive or dead, or by a process close() could
\* not kill: the slots of collected jobs and of closed ones never starve the queue.
Occupants == {j \in Jobs : future[j] = "started" \/ (future[j] = "closed" /\ session[j] = "present")}
StarvedOnlyWhenFull ==
  [][\A j \in Jobs : told[j] = "nothing" /\ told'[j] = "queued"
                       => Cardinality(Occupants) >= MaxWorkers]_vars

\* recv() waits for the rest of an answer that somebody could still write.
Stalled(j) ==
  /\ caller = [at |-> "reading", job |-> j]
  /\ pipe[j] = "part" /\ ~Ended(j)

\* The deadline covers the wait for a slot and for the first bytes of the answer:
\* result() returns whatever the workers do, unless the answer it has begun to read
\* is never finished, its worker hanging in mid-send or dead there with a descendant
\* that keeps the pipe open.
ResultReturns ==
  \A j \in Jobs : caller # Idle /\ caller.job = j ~> caller = Idle \/ []Stalled(j)

\* The executor is a job pool: at most max_pending admitted at once, each run at
\* most once and settled at most once, and told the truth about.
Pool ==
  INSTANCE JobPool WITH
    phase <- [j \in Jobs |-> IF future[j] \in {"queued", "started"} THEN "admitted"
                             ELSE IF future[j] = "closed" THEN "dropped" ELSE future[j]],
    ran <- {j \in Jobs : leader[j] # "none"}
ImplementsPool == Pool!PoolSpec
=============================================================================
