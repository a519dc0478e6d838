---------------------------- MODULE UserClosure ----------------------------
(***************************************************************************)
(* What a search for the users of a value promises its caller: starting    *)
(* from one value it grows a set along the data flow of an LLVM module,    *)
(* and reports only when nothing that must follow is missing.              *)
(***************************************************************************)
EXTENDS UserFlow

VARIABLES job,    \* the call of the search
          set,    \* the users found so far
          done    \* has the search returned?

vars == <<job, set, done>>

Init ==
  /\ job \in Jobs
  /\ set = Start(job)
  /\ done \in {FALSE, set = {}}

Grow ==
  /\ ~done
  /\ \E u \in set : \E v \in MayFollow(job, set, u) : set' = set \cup {v}
  /\ UNCHANGED <<job, done>>

Report ==
  /\ ~done
  /\ ClosedUnderMust(job, set)
  /\ done' = TRUE
  /\ UNCHANGED <<job, set>>

Next == Grow \/ Report

Spec == Init /\ [][Next]_vars
=============================================================================
