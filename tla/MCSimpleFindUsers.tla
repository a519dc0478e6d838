------------------------- MODULE MCSimpleFindUsers -------------------------
(***************************************************************************)
(* Small programs for SimpleFindUsers.  A function computes y, stores a    *)
(* value through a pointer and calls a function with two arguments; the    *)
(* operands range over what makes flows meet, cross into the callee, come  *)
(* back and form cycles.                                                   *)
(***************************************************************************)
EXTENDS SimpleFindUsers

CONSTANTS x, y, s, c, p, q,    \* the values
          Roots, Modes         \* where searches start, and in which modes

MCValue == {x, y, s, c, p, q}

KindOf(xKind) == [v \in MCValue |->
  CASE v = x -> xKind [] v = s -> "store" [] v = c -> "call"
    [] v \in {p, q} -> "param" [] OTHER -> "inst"]

MCOps == {[v \in MCValue |->
             CASE v = y -> <<oy>> [] v = s -> <<sv, sp>> [] v = c -> <<ca, cb>>
               [] OTHER -> <<>>] :
          oy \in {x, s, p}, sv \in {y, p}, sp \in {x, q}, ca \in {x, y}, cb \in {x, y, s}}

(* How c calls: indirectly, directly, or as an into conversion.            *)
MCCalls == {[direct |-> FALSE, conv |-> FALSE], [direct |-> TRUE, conv |-> FALSE],
            [direct |-> TRUE, conv |-> TRUE]}

Job(kind, ops, call, root, mode) ==
  [kind |-> kind, ops |-> ops,
   params |-> [v \in MCValue |-> IF v = c /\ call.direct THEN <<p, q>> ELSE <<>>],
   into |-> IF call.conv THEN {c} ELSE {},
   root |-> root, restrict |-> mode = "restrict", disable |-> mode = "disable"]

MCJobs ==
  {Job(KindOf("inst"), ops, call, root, mode) :
     ops \in MCOps, call \in MCCalls, root \in Roots, mode \in Modes}
  \cup {Job(KindOf("label"), CHOOSE ops \in MCOps : TRUE, call, x, mode) :
          call \in MCCalls, mode \in Modes}
=============================================================================
