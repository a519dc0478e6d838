----------------------------- MODULE StorageGas -----------------------------
(***************************************************************************)
(* The storage-gas detector (detectors/storage_gas.cpp:35-94): a function  *)
(* that inserts into a near_sdk collection must be accompanied by a look   *)
(* at env::storage_usage, in the function or in a caller at most two calls *)
(* away.  The scan of the module calls findFunctionCallerRec, whose steps  *)
(* are those of CallerSearch, and isFuncCallFuncRec, whose answer is the   *)
(* one CallGraphSearch is proved to give.                                  *)
(*                                                                         *)
(* A module is a record                                                    *)
(*   callees  the functions each function calls                            *)
(*   expands  the functions with an instruction of the contract's own code *)
(*            that calls insert or extend of a collection                  *)
(*   usage    the functions named env::storage_usage                       *)
(*   llvm     the functions whose name contains "llvm"                     *)
(***************************************************************************)
EXTENDS Naturals, Sequences, FiniteSets

CONSTANTS Func,        \* the functions of the module
          Modules      \* the modules that are considered

IsModule(m) ==
  /\ m.callees \in [Func -> SUBSET Func]
  /\ m.expands \subseteq Func
  /\ m.usage \subseteq Func
  /\ m.llvm \subseteq Func

ModulesAssumption == IsFiniteSet(Func) /\ Func # {} /\ \A m \in Modules : IsModule(m)

(* Seeded fault: one call too many.                                        *)
DeeperCallers == 3

(* storage_gas.cpp:75: only callers with limited depth are considered.     *)
CallerDepth == 2

CallersIn(m) == [f \in Func |-> {g \in Func : f \in m.callees[g]}]

SearchFor(m, f) == [callers |-> CallersIn(m), root |-> f, depth |-> CallerDepth]

VARIABLES module,                \* the module the pass runs on
          todo,                  \* the functions it has not scanned
          line,                  \* the function whose line is begun, as a set
          out,                   \* the finished lines of .storage-gas.tmp
          search, set, stack     \* findFunctionCallerRec

vars == <<module, todo, line, out, search, set, stack>>

Callers == INSTANCE CallerSearch
             WITH Searches <- {SearchFor(m, f) : m \in Modules, f \in Func}

(* isFuncCallFuncRec(f, CG, storage_usage).                                *)
LooksAtUsage(m, f) == f \notin m.llvm /\ m.callees[f] \cap m.usage # {}

-----------------------------------------------------------------------------
Init ==
  /\ module \in Modules
  /\ todo = Func
  /\ line = {}
  /\ out = {}
  /\ search = SearchFor(module, CHOOSE f \in Func : TRUE)
  /\ set = {}
  /\ stack = <<>>

Pass(f) == [fn |-> f, check |-> TRUE]
Warn(f) == [fn |-> f, check |-> FALSE]

(* No instruction of the function expands the storage.                     *)
SkipFunction(f) ==
  /\ line = {} /\ f \in todo /\ f \notin module.expands
  /\ todo' = todo \ {f}
  /\ UNCHANGED <<module, line, out, search, set, stack>>

(* The function looks at the storage usage itself.                         *)
PassFunction(f) ==
  /\ line = {} /\ f \in todo /\ f \in module.expands /\ LooksAtUsage(module, f)
  /\ todo' = todo \ {f}
  /\ out' = out \cup {Pass(f)}
  /\ UNCHANGED <<module, line, search, set, stack>>

(* Seeded fault: the set of callers is that of the last search.            *)
BeginCallersUncleared(f) ==
  /\ line = {} /\ f \in todo /\ f \in module.expands /\ ~LooksAtUsage(module, f)
  /\ todo' = todo \ {f}
  /\ line' = {f}
  /\ UNCHANGED <<module, out, search, set, stack>>

(* The name is written and the callers are searched.                       *)
BeginCallers(f) ==
  /\ line = {} /\ f \in todo /\ f \in module.expands /\ ~LooksAtUsage(module, f)
  /\ todo' = todo \ {f}
  /\ line' = {f}
  /\ Callers!Begin(SearchFor(module, f))
  /\ UNCHANGED <<module, out>>

SearchCallers ==
  /\ line # {}
  /\ Callers!Next
  /\ UNCHANGED <<module, todo, line, out>>

(* The rest of the line is written when the callers are known.             *)
JudgeCallers(f) ==
  /\ line = {f} /\ stack = <<>>
  /\ out' = out \cup {IF \E g \in set : LooksAtUsage(module, g) THEN Pass(f) ELSE Warn(f)}
  /\ line' = {}
  /\ UNCHANGED <<module, todo, search, set, stack>>

Next ==
  \/ \E f \in Func : SkipFunction(f) \/ PassFunction(f) \/ BeginCallers(f) \/ JudgeCallers(f)
  \/ SearchCallers

(* A pass runs to its end unless the process dies.                         *)
Spec == Init /\ [][Next]_vars /\ WF_vars(Next)
-----------------------------------------------------------------------------
Finished == todo = {} /\ line = {}

(* The state is well formed, and the search is for the line that is begun. *)
TypeOK ==
  /\ IsModule(module)
  /\ todo \subseteq Func
  /\ line \subseteq Func \ todo
  /\ out \subseteq [fn : Func \ (todo \cup line), check : BOOLEAN]
  /\ Callers!TypeOK
  /\ \A f \in line : search = SearchFor(module, f)
  /\ line = {} => stack = <<>>

(* A function is passed only for a look at the storage usage in itself or  *)
(* in a caller at most two calls away (storage_gas.cpp:71-81).             *)
PassJustified ==
  \A l \in out : l.check =>
    \E g \in {l.fn} \cup Callers!CallersWithin(SearchFor(module, l.fn), 2) :
      LooksAtUsage(module, g)

(* A warning is never given for a function that looks at the storage usage *)
(* itself or is called by one that does (storage_gas.cpp:71-85).           *)
WarningJustified ==
  \A l \in out : ~l.check =>
    \A g \in {l.fn} \cup CallersIn(module)[l.fn] : ~LooksAtUsage(module, g)

(* Every function that expands the storage gets exactly one line, whatever *)
(* is found of its callers (storage_gas.cpp:66-92).                        *)
OneLinePerExpansion ==
  Finished =>
    /\ {l.fn : l \in out} = module.expands
    /\ Cardinality(out) = Cardinality(module.expands)

(* The pass comes to its end.                                              *)
Termination == <>Finished
=============================================================================
