--------------------------- MODULE MCCallerSearch ---------------------------
(***************************************************************************)
(* Every call graph over three functions for CallerSearch.                 *)
(***************************************************************************)
EXTENDS CallerSearch

CONSTANTS f,          \* the function asked about
          Others,     \* the other functions
          Depths      \* the depths that are considered

MCFunc == {f} \cup Others

MCSearches == [callers : [MCFunc -> SUBSET MCFunc], root : {f}, depth : Depths]
=============================================================================
