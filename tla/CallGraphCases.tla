--------------------------- MODULE CallGraphCases ---------------------------
(***************************************************************************)
(* Every call graph over three functions and every matching set for        *)
(* CallGraphSearch.                                                        *)
(***************************************************************************)
CONSTANTS f, g, h,
          Matches     \* the sets of functions the expression may match

MCFunc == {f, g, h}

MCQueries ==
  [callees : [MCFunc -> SUBSET MCFunc], match : Matches,
   llvm : {{}, {f}, {g}}, kind : {"inst", "func", "other"}, target : {f}]
=============================================================================
