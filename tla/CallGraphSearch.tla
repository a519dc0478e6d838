-------------------------- MODULE CallGraphSearch --------------------------
(***************************************************************************)
(* Rustle::isInstCallFuncRec and Rustle::isFuncCallFuncRec                 *)
(* (detectors/near_core.cpp:162-230): does an instruction, or a function,  *)
(* call a function whose name matches a regular expression?  transfer,     *)
(* yocto-attach and storage-gas ask.                                       *)
(*                                                                         *)
(* A query is a record                                                     *)
(*   callees  the functions a node of LLVM's call graph has edges to       *)
(*   match    the functions whose name the expression matches              *)
(*   llvm     the functions whose name contains "llvm"                     *)
(*   kind     "inst" for an instruction that calls the target, "func" for  *)
(*            the target itself, "other" for any other instruction           *)
(*   target   a function                                                   *)
(* The order of a node's edges is LLVM's: any order is possible.           *)
(***************************************************************************)
EXTENDS Naturals, Sequences

CONSTANTS Func,      \* the functions of the module
          Queries    \* the queries that are considered

IsQuery(q) ==
  /\ q.callees \in [Func -> SUBSET Func]
  /\ q.match \subseteq Func
  /\ q.llvm \subseteq Func
  /\ q.kind \in {"inst", "func", "other"}
  /\ q.target \in Func

QueriesAssumption == \A q \in Queries : IsQuery(q)

VARIABLES query,      \* the query
          stack,      \* the activations of the recursive search, innermost last
          callStack,  \* its parameter `callStack'
          answer      \* "none" until the query returns

vars == <<query, stack, callStack, answer>>

Frame == [node : Func, at : {"level", "below"}, left : SUBSET Func]

Enter(f) == [node |-> f, at |-> "level", left |-> query.callees[f]]

Top == stack[Len(stack)]

Advance(f) == [stack EXCEPT ![Len(stack)] = f]

(* The last element of a vector is removed.                                *)
PopBack(s) == SubSeq(s, 1, Len(s) - 1)

OnCallStack(f) == \E k \in 1..Len(callStack) : callStack[k] = f

-----------------------------------------------------------------------------
(* What is decided before the call graph is searched: an instruction that  *)
(* calls a matching function has been found, and what LLVM itself provides *)
(* is not searched.                                                        *)
Early(q) ==
  IF q.kind = "inst" /\ q.target \in q.match THEN "yes"
  ELSE IF q.kind = "other" \/ q.target \in q.llvm THEN "no" ELSE "none"

Init ==
  /\ query \in Queries
  /\ answer = Early(query)
  /\ stack = IF answer = "none" THEN <<Enter(query.target)>> ELSE <<>>
  /\ callStack = IF answer = "none" THEN <<query.target>> ELSE <<>>

(* A callee of the node matches: every activation returns true.            *)
FoundInLevel ==
  /\ stack # <<>> /\ Top.at = "level" /\ query.callees[Top.node] \cap query.match # {}
  /\ answer' = "yes"
  /\ stack' = <<>>
  /\ UNCHANGED <<query, callStack>>

NotInLevel ==
  /\ stack # <<>> /\ Top.at = "level" /\ query.callees[Top.node] \cap query.match = {}
  /\ stack' = Advance([Top EXCEPT !.at = "below"])
  /\ UNCHANGED <<query, callStack, answer>>

(* Seeded change: the callee is looked for on the call stack.              *)
SkippedUnlessOpen(f, c) == c = f \/ OnCallStack(c)

(* Is the search below callee c of node f skipped?  The code looks for the *)
(* node, not for the callee, on the call stack.                            *)
Skipped(f, c) == c = f \/ OnCallStack(f)

(* The next callee of the node: it is skipped, or searched in turn.        *)
NextCallee ==
  /\ stack # <<>> /\ Top.at = "below"
  /\ \E c \in Top.left :
       LET next == Advance([Top EXCEPT !.left = @ \ {c}])
       IN  IF Skipped(Top.node, c)
           THEN stack' = next /\ UNCHANGED callStack
           ELSE stack' = Append(next, Enter(c)) /\ callStack' = Append(callStack, c)
  /\ UNCHANGED <<query, answer>>

(* No callee is left: false is returned, and a caller pops its callee.     *)
NotBelow ==
  /\ stack # <<>> /\ Top.at = "below" /\ Top.left = {}
  /\ stack' = PopBack(stack)
  /\ callStack' = IF Len(stack) > 1 THEN PopBack(callStack) ELSE callStack
  /\ answer' = IF Len(stack) > 1 THEN answer ELSE "no"
  /\ UNCHANGED query

Next == FoundInLevel \/ NotInLevel \/ NextCallee \/ NotBelow

(* The search is a sequential computation that is never interrupted.       *)
Spec == Init /\ [][Next]_vars /\ WF_vars(Next)
-----------------------------------------------------------------------------
(* The state is well formed, and while the search runs its call stack      *)
(* names the activations (near_core.cpp:195-198).                          *)
TypeOK ==
  /\ IsQuery(query)
  /\ stack \in Seq(Frame)
  /\ callStack \in Seq(Func)
  /\ answer \in {"none", "yes", "no"}
  /\ answer = "none" => /\ Len(callStack) = Len(stack)
                        /\ \A k \in 1..Len(stack) : callStack[k] = stack[k].node

(* The target, where the query is about a call of it, or a callee of the   *)
(* target matches.                                                         *)
MatchesAtOneCall ==
  \/ query.kind = "inst" /\ query.target \in query.match
  \/ query.kind # "other" /\ query.target \notin query.llvm /\ query.callees[query.target] \cap query.match # {}

(* The query answers yes exactly for a match at the target or one call     *)
(* below it: near_core.cpp:192 finds the node it is at on the call stack   *)
(* whenever it gets there, so that no callee is ever searched.             *)
AnswersOneCall == answer # "none" => (answer = "yes" <=> MatchesAtOneCall)

(* The search of one node is the only activation (near_core.cpp:191-199).  *)
OneLevel == Len(stack) <= 1

(* Every query is answered, on recursive call graphs too.                  *)
Termination == <>(answer # "none")

(* The functions that can be reached from f by at least one call.          *)
Reachable(f) ==
  LET step[n \in Nat] ==
        IF n = 0 THEN query.callees[f]
        ELSE step[n - 1] \cup UNION {query.callees[g] : g \in step[n - 1]}
      grow[n \in Nat] == IF step[n] = step[n + 1] THEN step[n] ELSE grow[n + 1]
  IN  grow[0]

(* "check if F calls function with name matching regex recursively"        *)
(* (near_core.h:193): a function is answered yes exactly if a function     *)
(* that can be reached from it by calls matches.                           *)
AnswersRecursively ==
  answer # "none" /\ query.kind = "func" /\ query.target \notin query.llvm =>
    (answer = "yes" <=> Reachable(query.target) \cap query.match # {})
=============================================================================
