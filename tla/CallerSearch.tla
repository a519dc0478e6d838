---------------------------- MODULE CallerSearch ----------------------------
(***************************************************************************)
(* Rustle::findFunctionCallerRec (detectors/near_core.cpp:232-248): the    *)
(* functions that call a function, directly or through others, up to a     *)
(* depth.  storage-gas calls it with depth 2.                              *)
(*                                                                         *)
(* A search is a record: the callers of each function, the function and    *)
(* the depth.  The order of a use list is the compiler's: any is possible. *)
(***************************************************************************)
EXTENDS Naturals, Sequences, FiniteSets

CONSTANTS Func,        \* the functions of the module
          Searches     \* the searches that are considered

IsSearch(s) ==
  /\ s.callers \in [Func -> SUBSET Func]
  /\ s.root \in Func
  /\ s.depth \in Nat

VARIABLES search,    \* the search
          set,       \* the std::set the caller passed by reference
          stack      \* the activations that passed the depth test, innermost last

vars == <<search, set, stack>>

Frame == [fn : Func, left : SUBSET Func, depth : Nat \ {0}]

Top == stack[Len(stack)]

Advance(f) == [stack EXCEPT ![Len(stack)] = f]

(* The stack after a call for function f: a depth of 0 returns at once.    *)
Call(s, st, f, depth) ==
  IF depth > 0 THEN Append(st, [fn |-> f, left |-> s.callers[f], depth |-> depth]) ELSE st

-----------------------------------------------------------------------------
(* A search s begins with an empty set.                                    *)
Begin(s) ==
  /\ search' = s
  /\ set' = {}
  /\ stack' = Call(s, <<>>, s.root, s.depth)

Init ==
  /\ search \in Searches
  /\ set = {}
  /\ stack = Call(search, <<>>, search.root, search.depth)

(* The next use is a call: its function is inserted and searched in turn,  *)
(* unless an earlier use, at whatever depth, has inserted it.              *)
VisitCaller ==
  /\ stack # <<>>
  /\ \E c \in Top.left :
       LET next == Advance([Top EXCEPT !.left = @ \ {c}])
       IN  /\ set' = set \cup {c}
           /\ stack' = IF c \in set THEN next ELSE Call(search, next, c, Top.depth - 1)
  /\ UNCHANGED search

Return ==
  /\ stack # <<>> /\ Top.left = {}
  /\ stack' = SubSeq(stack, 1, Len(stack) - 1)
  /\ UNCHANGED <<search, set>>

Next == VisitCaller \/ Return

(* The search is a sequential computation that is never interrupted.       *)
Spec == Init /\ [][Next]_vars /\ WF_vars(Next)
-----------------------------------------------------------------------------
Done == stack = <<>>

(* The state is well formed, and the innermost activation has the depth    *)
(* its place on the stack leaves it (near_core.cpp:234, 244).              *)
TypeOK ==
  /\ IsSearch(search)
  /\ set \subseteq Func
  /\ stack \in Seq(Frame)
  /\ \A k \in 1..Len(stack) : stack[k].depth = search.depth - (k - 1)

(* The functions that call f by at most d calls.                           *)
CallersWithin(s, d) ==
  LET within[n \in Nat] ==
        IF n = 0 THEN {}
        ELSE s.callers[s.root] \cup UNION {s.callers[g] : g \in within[n - 1]}
  IN  within[d]

(* "find all caller of function F, recursively" (near_core.h:204), up to   *)
(* the depth of recursion.                                                 *)
AllCallersFound == Done => CallersWithin(search, search.depth) \subseteq set
=============================================================================
