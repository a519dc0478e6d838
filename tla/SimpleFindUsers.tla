-------------------------- MODULE SimpleFindUsers --------------------------
(***************************************************************************)
(* Rustle::simpleFindUsers (detectors/near_core.cpp:8-35), the search that *)
(* div-before-mul, nep-interface, nft-approval-check, reentrancy,          *)
(* unhandled-promise, unregistered-receiver and unsaved-changes rest on.   *)
(*                                                                         *)
(* The recursion is a stack of frames, one per activation that got past    *)
(* the two early returns.  A frame knows its value, where in the body it   *)
(* is (the two statements of the argument loop at argument i, the store    *)
(* pointer, the loop over the users) and the users it has not visited.     *)
(* The order of a use list is the compiler's: any order is possible.       *)
(***************************************************************************)
EXTENDS UserFlow

VARIABLES job,     \* the call of the search: program, value and mode flags
          set,     \* the std::set the caller passed by reference
          stack    \* the activations of simpleFindUsers, innermost last

vars == <<job, set, stack>>

Phases == {"cross", "into", "pointer", "users"}

Frame == [value : Value, at : Phases, i : Nat \ {0}, left : SUBSET Value]

(* Seeded faults: the argument loop starts one early; a store does not     *)
(* follow its pointer.                                                     *)
EnterEarly(j, v) ==
  [value |-> v,
   at    |-> IF IsCall(j, v) THEN "cross" ELSE IF IsStore(j, v) THEN "pointer" ELSE "users",
   i     |-> 0,
   left  |-> Users(j, v)]

EnterPastPointer(j, v) ==
  [value |-> v, at |-> IF IsCall(j, v) THEN "cross" ELSE "users", i |-> 1, left |-> Users(j, v)]

(* The body starts at the argument loop of a call, at the pointer of a     *)
(* store, and at the users of anything else.                               *)
Enter(j, v) ==
  [value |-> v,
   at    |-> IF IsCall(j, v) THEN "cross" ELSE IF IsStore(j, v) THEN "pointer" ELSE "users",
   i     |-> 1,
   left  |-> Users(j, v)]

Top == stack[Len(stack)]

(* The stack with its innermost activation replaced by f.                  *)
Advance(f) == [stack EXCEPT ![Len(stack)] = f]

(* Seeded fault: the test whether v is already in the set is dropped.      *)
VisitAgain(v, f) ==
  IF IsLabel(job, v)
  THEN stack' = Advance(f) /\ UNCHANGED set
  ELSE stack' = Append(Advance(f), Enter(job, v)) /\ set' = set \cup {v}

(* A recursive call from the innermost activation, whose frame becomes f:  *)
(* the two early returns, or the value is inserted and its body started.   *)
Visit(v, f) ==
  IF IsLabel(job, v) \/ v \in set
  THEN /\ stack' = Advance(f)
       /\ UNCHANGED set
  ELSE /\ stack' = Append(Advance(f), Enter(job, v))
       /\ set' = set \cup {v}

NoVisit(f) == stack' = Advance(f) /\ UNCHANGED set

-----------------------------------------------------------------------------
Init ==
  /\ job \in Jobs
  /\ set = Start(job)
  /\ stack = IF set = {} THEN <<>> ELSE <<Enter(job, job.root)>>

MoreArgs(f) == f.i <= Len(job.ops[f.value])

(* Seeded fault: the flag disableCrossFunction is not consulted.           *)
CrossesAlways(f) ==
  IsDirect(job, f.value) /\ (job.restrict => job.ops[f.value][f.i] \in set)

(* Is the parameter of argument i followed into the called function?       *)
Crosses(f) ==
  /\ ~job.disable
  /\ IsDirect(job, f.value)
  /\ job.restrict => job.ops[f.value][f.i] \in set

(* The first statement of the argument loop.                               *)
CrossFunction ==
  /\ stack # <<>> /\ Top.at = "cross" /\ MoreArgs(Top)
  /\ LET next == [Top EXCEPT !.at = "into"]
     IN  IF Crosses(Top) THEN Visit(job.params[Top.value][Top.i], next) ELSE NoVisit(next)
  /\ UNCHANGED job

(* Seeded fault: whether the converted value is in the set is not tested.  *)
ConvertsAlways(f) == IsInto(job, f.value)

(* `xxx.into()' is a user of `xxx' when xxx is already in the set.         *)
Converts(f) == IsInto(job, f.value) /\ job.ops[f.value][2] \in set

(* The second statement of the argument loop.                              *)
ConvertInto ==
  /\ stack # <<>> /\ Top.at = "into"
  /\ LET next == [Top EXCEPT !.at = "cross", !.i = @ + 1]
     IN  IF Converts(Top) THEN Visit(job.ops[Top.value][1], next) ELSE NoVisit(next)
  /\ UNCHANGED job

ArgsDone ==
  /\ stack # <<>> /\ Top.at = "cross" /\ ~MoreArgs(Top)
  /\ NoVisit([Top EXCEPT !.at = "users"])
  /\ UNCHANGED job

StorePointer ==
  /\ stack # <<>> /\ Top.at = "pointer"
  /\ Visit(Pointer(job, Top.value), [Top EXCEPT !.at = "users"])
  /\ UNCHANGED job

(* Seeded fault: the iterator over the users is not advanced.              *)
VisitUserAgain ==
  /\ stack # <<>> /\ Top.at = "users"
  /\ \E u \in Top.left : Visit(u, Top)
  /\ UNCHANGED job

VisitUser ==
  /\ stack # <<>> /\ Top.at = "users"
  /\ \E u \in Top.left : Visit(u, [Top EXCEPT !.left = @ \ {u}])
  /\ UNCHANGED job

Return ==
  /\ stack # <<>> /\ Top.at = "users" /\ Top.left = {}
  /\ stack' = SubSeq(stack, 1, Len(stack) - 1)
  /\ UNCHANGED <<job, set>>

Next == CrossFunction \/ ConvertInto \/ ArgsDone \/ StorePointer \/ VisitUser \/ Return

(* The search is a sequential computation that is never interrupted.       *)
Spec == Init /\ [][Next]_vars /\ WF_vars(Next)

-----------------------------------------------------------------------------
TypeOK ==
  /\ IsJob(job)
  /\ set \subseteq Value
  /\ stack \in Seq(Frame)

Done == stack = <<>>

(* Nothing enters the set but what flows from the value asked about: every *)
(* set that holds the value and is closed under the flow holds the result, *)
(* whatever the order of the use lists (near_core.cpp:20-34).              *)
OnlyUsers ==
  \A S \in SUBSET Value :
    set \subseteq S \/ ~(Start(job) \subseteq S) \/ ~ClosedUnderMay(job, S)

(* When the search returns it has missed no user, no store pointer and, in *)
(* the unrestricted mode, no parameter of a called function, although an   *)
(* activation stops at every value another activation has inserted         *)
(* (near_core.cpp:15-18).                                                  *)
NothingMissing == Done => Start(job) \subseteq set /\ ClosedUnderMust(job, set)

(* A value has at most one activation, so that the recursion is never      *)
(* deeper than the function has values, whatever cycles the use lists have *)
(* (near_core.cpp:15-18).                                                  *)
OneActivation ==
  \A k, m \in 1..Len(stack) : stack[k].value = stack[m].value => k = m

(* The search returns, on cyclic programs too.                             *)
Termination == <>Done

(* The search implements the growth of a user closure.                     *)
Closure == INSTANCE UserClosure WITH done <- Done
ClosureSpec == Closure!Spec
=============================================================================
