----------------------------- MODULE MCExecutor -----------------------------
(***************************************************************************)
(* Two slots for four jobs: a plain one, one with an answer too big for    *)
(* its pipe, one that answers in pieces and has descendants that keep the  *)
(* pipe and resist their kill, and one whose answer cannot be read back.   *)
(***************************************************************************)
EXTENDS ExecutorProperties

CONSTANTS plain, big, tree, odd

AllJobs    == {plain, big, tree, odd}
AllAnswers == [j \in AllJobs |->
                 CASE j = odd   -> {"unreadable"}
                   [] j = plain -> Readable
                   [] OTHER     -> {"value", "death"}]
PieceJobs  == {big, tree}
BigJobs    == {big}
TreeJobs   == {tree}
=============================================================================
