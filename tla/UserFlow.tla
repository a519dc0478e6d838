----------------------------- MODULE UserFlow ------------------------------
(***************************************************************************)
(* The data flow of an LLVM module that a search for the users of a value  *)
(* follows: operands and users, the pointer a store writes through, the    *)
(* parameters of the function a call names, and `into' conversions.        *)
(*                                                                         *)
(* A program is a record                                                   *)
(*   kind    what each value is: "param", "inst", "call", "store", "label" *)
(*   ops     the operands of each value: arguments of a call, value and    *)
(*           pointer of a store                                            *)
(*   params  the formal parameters of the function a call names, <<>> for  *)
(*           an indirect call (getCalledFunction() is null)                *)
(*   into    the calls of core::convert::Into                              *)
(***************************************************************************)
EXTENDS Naturals, Sequences

CONSTANTS Value,     \* the values of the LLVM module
          Jobs       \* the calls of the search that are considered

Kinds == {"param", "inst", "call", "store", "label"}

IsProgram(p) ==
  /\ p.kind \in [Value -> Kinds]
  /\ p.ops \in [Value -> Seq(Value)]
  /\ p.params \in [Value -> Seq(Value)]
  /\ p.into \subseteq Value
  /\ \A v \in Value :
       /\ p.kind[v] = "store" => Len(p.ops[v]) = 2
       /\ p.params[v] # <<>> => p.kind[v] = "call" /\ Len(p.params[v]) = Len(p.ops[v])

(* One call of the search: the program, the value, the two mode flags.     *)
IsJob(j) ==
  /\ IsProgram(j)
  /\ j.root \in Value
  /\ j.restrict \in BOOLEAN
  /\ j.disable \in BOOLEAN

ASSUME JobsAssumption == \A j \in Jobs : IsJob(j)

-----------------------------------------------------------------------------
(* llvm::Value::users(): the values that have v as an operand.             *)
Users(p, v) == {u \in Value : \E k \in 1..Len(p.ops[u]) : p.ops[u][k] = v}

IsLabel(p, v) == p.kind[v] = "label"
IsCall(p, v)  == p.kind[v] = "call"
IsStore(p, v) == p.kind[v] = "store"
Pointer(p, s) == p.ops[s][2]

(* A call that names its function, so that its arguments have parameters.  *)
IsDirect(p, c) == IsCall(p, c) /\ p.params[c] # <<>>

(* `ret = x.into()' with the result slot first and x second.               *)
IsInto(p, c) == IsDirect(p, c) /\ c \in p.into /\ Len(p.ops[c]) >= 2

(* What must be in the set as soon as u is.                                *)
MustFollow(j, u) ==
  {v \in Value :
    /\ ~IsLabel(j, v)
    /\ \/ v \in Users(j, u)
       \/ IsStore(j, u) /\ v = Pointer(j, u)
       \/ /\ IsDirect(j, u) /\ ~j.disable /\ ~j.restrict
          /\ \E i \in 1..Len(j.ops[u]) : v = j.params[u][i]}

(* What may be added to the set S because u is in it.                      *)
MayFollow(j, S, u) ==
  MustFollow(j, u) \cup
  {v \in Value :
    /\ ~IsLabel(j, v)
    /\ \/ /\ IsDirect(j, u) /\ ~j.disable
          /\ \E i \in 1..Len(j.ops[u]) : j.ops[u][i] \in S /\ v = j.params[u][i]
       \/ IsInto(j, u) /\ j.ops[u][2] \in S /\ v = j.ops[u][1]}

(* The value the search starts from; a label has no users to look for.     *)
Start(j) == {j.root} \ {v \in Value : IsLabel(j, v)}

(* Nothing that may follow from S is missing from S.                       *)
ClosedUnderMay(j, S) == \A u \in S : MayFollow(j, S, u) \subseteq S

(* Nothing that must follow from S is missing from S.                      *)
ClosedUnderMust(j, S) == \A u \in S : MustFollow(j, u) \subseteq S
=============================================================================
