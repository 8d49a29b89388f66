-------------------------- MODULE BoundedExecutor --------------------------
(***************************************************************************)
(* unified_compiler/executor.py: one caller thread that submits jobs,      *)
(* collects their results and closes the executor, against the processes   *)
(* of the workers, which answer, die or hang when they like.               *)
(***************************************************************************)
EXTENDS FiniteSets, Naturals

CONSTANTS
  Jobs,        \* the calls of submit
  MaxWorkers,  \* max_workers
  MaxPending,  \* max_pending
  Answers,     \* Answers[j]: how the worker of j may end, besides hanging
  Pieces,      \* the jobs whose answer takes more than one write
  Big,         \* those of them whose answer does not fit into the pipe
  Forking,     \* the jobs whose worker starts processes of its own
  Inheriting,  \* those of them whose processes hold the worker's end of the pipe
  Stubborn     \* the jobs whose process group survives SIGKILL or refuses it

Readable == {"value", "error"}
Endings  == Readable \cup {"unreadable", "death"}

ASSUME ExecutorConstants ==
  /\ IsFiniteSet(Jobs)
  /\ MaxWorkers \in Nat \ {0} /\ MaxPending \in Nat \ {0}
  /\ Answers \in [Jobs -> SUBSET Endings]
  /\ Pieces \subseteq Jobs /\ Big \subseteq Pieces
  /\ Forking \subseteq Jobs /\ Inheriting \subseteq Forking /\ Stubborn \subseteq Jobs

VARIABLES
  future,   \* queued or started while in _active; new before, settled or closed after
  running,  \* _running, the futures that hold a slot
  leader,   \* the process of each job
  forked,   \* the jobs with live descendants of the worker
  pipe,     \* what the caller's end of each pipe holds: an answer, or a part of one
  session,  \* the directory of each job
  told,     \* the result of each job
  caller    \* idle, or in result(): waiting for a slot or an answer, or reading one

vars == <<future, running, leader, forked, pipe, session, told, caller>>

Idle == [at |-> "idle"]

Init ==
  /\ future = [j \in Jobs |-> "new"]
  /\ running = {} /\ forked = {}
  /\ leader = [j \in Jobs |-> "none"]
  /\ pipe = [j \in Jobs |-> "empty"]
  /\ session = [j \in Jobs |-> "none"]
  /\ told = [j \in Jobs |-> "nothing"]
  /\ caller = Idle

Active  == {j \in Jobs : future[j] \in {"queued", "started"}}
Alive   == {j \in Jobs : leader[j] \in {"working", "sending"}}
Groups  == Alive \cup forked
Waiting == {Idle} \cup [at : {"slot", "answer", "reading"}, job : Jobs]

\* The caller sees the end of a pipe only when no process holds its other end.
Ended(j) == leader[j] = "dead" /\ j \notin Inheriting \cap forked

(***************************************************************************)
(* The workers                                                             *)
(***************************************************************************)
Fork(j) ==
  /\ leader[j] = "working" /\ j \in Forking
  /\ forked' = forked \cup {j}
  /\ UNCHANGED <<future, running, leader, pipe, session, told, caller>>

\* A small answer is one write, which the pipe takes whole.
Answer(j) ==
  /\ leader[j] = "working" /\ j \notin Pieces
  /\ \E a \in Answers[j] \ {"death"} : pipe' = [pipe EXCEPT ![j] = a]
  /\ leader' = [leader EXCEPT ![j] = "sending"]
  /\ UNCHANGED <<future, running, forked, session, told, caller>>

\* The length of a longer one is written first ...
BeginAnswer(j) ==
  /\ leader[j] = "working" /\ j \in Pieces
  /\ Answers[j] \ {"death"} # {}
  /\ pipe' = [pipe EXCEPT ![j] = "part"]
  /\ leader' = [leader EXCEPT ![j] = "sending"]
  /\ UNCHANGED <<future, running, forked, session, told, caller>>

\* ... and the rest when there is room, which a big one needs a reader to make.
CompleteAnswer(j) ==
  /\ leader[j] = "sending" /\ pipe[j] = "part"
  /\ j \in Big => caller = [at |-> "reading", job |-> j]
  /\ \E a \in Answers[j] \ {"death"} : pipe' = [pipe EXCEPT ![j] = a]
  /\ UNCHANGED <<future, running, leader, forked, session, told, caller>>

\* send() returns once the pipe has taken the answer, and may fail when its reader has gone.
Exit(j) ==
  /\ leader[j] = "sending"
  /\ pipe[j] # "part" \/ j \notin Active
  /\ leader' = [leader EXCEPT ![j] = "dead"]
  /\ UNCHANGED <<future, running, forked, pipe, session, told, caller>>

\* What the pipe has not taken is lost with the worker.
Die(j) ==
  /\ j \in Alive /\ "death" \in Answers[j]
  /\ leader' = [leader EXCEPT ![j] = "dead"]
  /\ UNCHANGED <<future, running, forked, pipe, session, told, caller>>

\* Descendants of a dead leader end by themselves, or not.
DescendantsEnd(j) ==
  /\ j \in forked \ Alive
  /\ forked' = forked \ {j}
  /\ UNCHANGED <<future, running, leader, pipe, session, told, caller>>

(***************************************************************************)
(* The caller                                                              *)
(***************************************************************************)
\* Mutant of Submit: running jobs are admitted beside max_pending queued ones.
SubmitMutant(j) ==
  LET started == Cardinality(running) < MaxWorkers IN
  /\ caller = Idle /\ future[j] = "new"
  /\ Cardinality({i \in Active : future[i] = "queued"}) < MaxPending
  /\ session' = [session EXCEPT ![j] = "present"]
  /\ future' = [future EXCEPT ![j] = IF started THEN "started" ELSE "queued"]
  /\ leader' = IF started THEN [leader EXCEPT ![j] = "working"] ELSE leader
  /\ running' = IF started THEN running \cup {j} ELSE running
  /\ UNCHANGED <<forked, pipe, told, caller>>

Submit(j) ==
  LET started == Cardinality(running) < MaxWorkers IN
  /\ caller = Idle /\ future[j] = "new"
  /\ Cardinality(Active) < MaxPending
  /\ session' = [session EXCEPT ![j] = "present"]
  /\ future' = [future EXCEPT ![j] = IF started THEN "started" ELSE "queued"]
  /\ leader' = IF started THEN [leader EXCEPT ![j] = "working"] ELSE leader
  /\ running' = IF started THEN running \cup {j} ELSE running
  /\ UNCHANGED <<forked, pipe, told, caller>>

\* Mutant of Result: slots are refreshed only after the first wait.
ResultMutant(j) ==
  /\ caller = Idle /\ j \in Active
  /\ caller' = [at |-> IF future[j] = "queued" THEN "slot" ELSE "answer", job |-> j]
  /\ UNCHANGED <<future, running, leader, forked, pipe, session, told>>

\* result() on a queued future refreshes the slots before it looks at them.
Result(j) ==
  /\ caller = Idle /\ j \in Active
  /\ caller' = [at |-> IF future[j] = "queued" THEN "slot" ELSE "answer", job |-> j]
  /\ running' = IF future[j] = "queued" THEN running \cap Alive ELSE running
  /\ UNCHANGED <<future, leader, forked, pipe, session, told>>

\* Mutant of Refresh: a worker that has answered is taken for gone.
RefreshMutant(j) ==
  /\ caller = [at |-> "slot", job |-> j]
  /\ Cardinality(running) >= MaxWorkers
  /\ running' = {r \in running : leader[r] = "working"}
  /\ UNCHANGED <<future, leader, forked, pipe, session, told, caller>>

Refresh(j) ==
  /\ caller = [at |-> "slot", job |-> j]
  /\ Cardinality(running) >= MaxWorkers
  /\ running' = running \cap Alive
  /\ UNCHANGED <<future, leader, forked, pipe, session, told, caller>>

StartQueued(j) ==
  /\ caller = [at |-> "slot", job |-> j]
  /\ Cardinality(running) < MaxWorkers
  /\ future' = [future EXCEPT ![j] = "started"]
  /\ leader' = [leader EXCEPT ![j] = "working"]
  /\ running' = running \cup {j}
  /\ caller' = [at |-> "answer", job |-> j]
  /\ UNCHANGED <<forked, pipe, session, told>>

QueueDeadline(j) ==
  /\ caller = [at |-> "slot", job |-> j]
  /\ Cardinality(running) >= MaxWorkers
  /\ future' = [future EXCEPT ![j] = "settled"]
  /\ told' = [told EXCEPT ![j] = "queued"]
  /\ session' = [session EXCEPT ![j] = "removed"]
  /\ caller' = Idle
  /\ UNCHANGED <<running, leader, forked, pipe>>

\* What _stop_and_reap cannot end.
Unreaped(j) == j \in Stubborn \cap Groups

\* Mutant of Settle: the directory goes whatever became of the group.
SettleMutant(j, result, survives) ==
  /\ told' = [told EXCEPT ![j] = result]
  /\ leader' = IF survives THEN leader ELSE [leader EXCEPT ![j] = "dead"]
  /\ forked' = IF survives THEN forked ELSE forked \ {j}
  /\ session' = [session EXCEPT ![j] = "removed"]
  /\ pipe' = [pipe EXCEPT ![j] = "empty"]
  /\ future' = [future EXCEPT ![j] = "settled"]
  /\ running' = running \ {j}
  /\ caller' = Idle

\* The future is forgotten, and its directory removed unless the group survives.
Settle(j, result, survives) ==
  /\ told' = [told EXCEPT ![j] = result]
  /\ leader' = IF survives THEN leader ELSE [leader EXCEPT ![j] = "dead"]
  /\ forked' = IF survives THEN forked ELSE forked \ {j}
  /\ session' = IF survives THEN session ELSE [session EXCEPT ![j] = "removed"]
  /\ pipe' = [pipe EXCEPT ![j] = "empty"]
  /\ future' = [future EXCEPT ![j] = "settled"]
  /\ running' = running \ {j}
  /\ caller' = Idle

\* poll() is satisfied by the first bytes, and by the end of the pipe.
Poll(j) ==
  /\ caller = [at |-> "answer", job |-> j]
  /\ pipe[j] # "empty" \/ Ended(j)
  /\ caller' = [at |-> "reading", job |-> j]
  /\ UNCHANGED <<future, running, leader, forked, pipe, session, told>>

\* Mutant of AnswerDeadline: a worker that is busy is waited for.
AnswerDeadlineLax(j) ==
  /\ caller = [at |-> "answer", job |-> j]
  /\ pipe[j] = "empty" /\ ~Ended(j) /\ leader[j] # "working"
  /\ Settle(j, "deadline", Unreaped(j))

AnswerDeadline(j) ==
  /\ caller = [at |-> "answer", job |-> j]
  /\ pipe[j] = "empty" /\ ~Ended(j)
  /\ Settle(j, "deadline", Unreaped(j))

\* Mutant of Receive: the end of the pipe is not told from an answer.
ReceiveMutant(j) ==
  /\ caller = [at |-> "reading", job |-> j]
  /\ pipe[j] \in Readable \/ Ended(j)
  /\ Settle(j, pipe[j], Unreaped(j))

\* recv() has no deadline: it ends with the whole answer or with the end of the
\* pipe. Once its answer is read the worker may exit before its group is stopped;
\* a value is withheld when the group survives.
Receive(j) ==
  /\ caller = [at |-> "reading", job |-> j]
  /\ \E survives \in {Unreaped(j), j \in Stubborn \cap forked} :
       \/ pipe[j] \in {"empty", "part"} /\ Ended(j) /\ Settle(j, "no_answer", survives)
       \/ pipe[j] \in Readable /\ Settle(j, IF survives THEN "error" ELSE pipe[j], survives)

\* recv() raises for an answer it cannot unpickle: nothing is reaped, and the
\* directory goes because no cleanup error was recorded.
ReceiveRaises(j) ==
  /\ caller = [at |-> "reading", job |-> j]
  /\ pipe[j] = "unreadable"
  /\ told' = [told EXCEPT ![j] = "raised"]
  /\ pipe' = [pipe EXCEPT ![j] = "empty"]
  /\ session' = [session EXCEPT ![j] = "removed"]
  /\ future' = [future EXCEPT ![j] = "settled"]
  /\ running' = running \ {j}
  /\ caller' = Idle
  /\ UNCHANGED <<leader, forked>>

\* close() reaps what was started; the slots stay taken until the next refresh.
Close ==
  LET kept   == {j \in Active : future[j] = "started" /\ Unreaped(j)}
      closed == Active \ kept
  IN
  /\ caller = Idle /\ Active # {}
  /\ future' = [j \in Jobs |-> IF j \in Active THEN "closed" ELSE future[j]]
  /\ leader' = [j \in Jobs |-> IF j \in closed /\ future[j] = "started" THEN "dead" ELSE leader[j]]
  /\ forked' = forked \ closed
  /\ session' = [j \in Jobs |-> IF j \in closed THEN "removed" ELSE session[j]]
  /\ pipe' = [j \in Jobs |-> IF j \in Active THEN "empty" ELSE pipe[j]]
  /\ UNCHANGED <<running, told, caller>>

Worker(j) ==
  \/ Fork(j) \/ Answer(j) \/ BeginAnswer(j) \/ CompleteAnswer(j)
  \/ Exit(j) \/ Die(j) \/ DescendantsEnd(j)

\* The steps result() is sure to take: its waits for a slot and for the first bytes
\* have a deadline, and what is there to read is read.
Proceed(j) ==
  \/ StartQueued(j) \/ QueueDeadline(j) \/ Poll(j)
  \/ AnswerDeadline(j) \/ Receive(j) \/ ReceiveRaises(j)

Next ==
  \/ Close
  \/ \E j \in Jobs : Submit(j) \/ Result(j) \/ Refresh(j) \/ Proceed(j) \/ Worker(j)

Spec == Init /\ [][Next]_vars /\ \A j \in Jobs : WF_vars(Proceed(j))
=============================================================================
