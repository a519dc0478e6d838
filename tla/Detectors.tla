----------------------------- MODULE Detectors ------------------------------
(***************************************************************************)
(* The LLVM detectors that are modelled step by step, of which make runs   *)
(* one at a time in a process of its own (rustle:201-215): storage-gas,    *)
(* the three that ask who may call a function, and the scans; and the      *)
(* search of the call graph, whose answer the others take as given.  They  *)
(* share no state; here the variables of those that do not run rest.       *)
(***************************************************************************)
EXTENDS Naturals, Sequences, FiniteSets

CONSTANTS GasFunc, GasModules,                           \* of StorageGas
          PrivilegeFunc, Indirect, PrivilegeModules,     \* of PrivilegeChecks
          ScanFunc, Special, MIN_INST_NUM_FOR_LOOP, Jobs, \* of Scans
          CallFunc, Queries                              \* of CallGraphSearch

VARIABLES process,                                           \* the one that runs
          module, out, pos,                                  \* of two of them
          todo, line, search, set, stack,                    \* of StorageGas
          pass, callbackFile, callbacks, yoctoOut, ownerOut, \* of PrivilegeChecks
          job, detector, bitcode, found, walk, traits, at,   \* of Scans
          query, nodes, callStack, answer                    \* of CallGraphSearch

Gas        == INSTANCE StorageGas WITH Func <- GasFunc, Modules <- GasModules
Privileges == INSTANCE PrivilegeChecks WITH Func <- PrivilegeFunc, Modules <- PrivilegeModules
Scan       == INSTANCE Scans WITH Func <- ScanFunc
CallGraph  == INSTANCE CallGraphSearch WITH Func <- CallFunc, stack <- nodes

ASSUME DetectorsAssumption ==
  /\ Gas!ModulesAssumption /\ Privileges!ModulesAssumption
  /\ Scan!JobsAssumption /\ CallGraph!QueriesAssumption

OfGas        == <<todo, line, search, set, stack>>
OfPrivileges == <<pass, callbackFile, callbacks, yoctoOut, ownerOut>>
OfScan       == <<job, detector, bitcode, found, walk, traits, at>>
OfCallGraph  == <<query, nodes, callStack, answer>>

vars == <<process, module, out, pos, OfGas, OfPrivileges, OfScan, OfCallGraph>>

Nothing == {}
-----------------------------------------------------------------------------
GasRests        == todo = Nothing /\ line = Nothing /\ search = Nothing /\ set = Nothing /\ stack = Nothing
PrivilegesRest  == /\ pass = "rest" /\ callbackFile = Nothing /\ callbacks = Nothing
                   /\ yoctoOut = Nothing /\ ownerOut = Nothing
ScanRests       == /\ job = [detector |-> "rest", bitcodes |-> <<>>] /\ detector = "rest" /\ bitcode = Nothing
                   /\ found = Nothing /\ walk = Nothing /\ traits = Nothing /\ at = "rest"
CallGraphRests  == query = Nothing /\ nodes = Nothing /\ callStack = Nothing /\ answer = "rest"

Init ==
  \/ process = "storage-gas" /\ Gas!Init /\ pos = Nothing /\ PrivilegesRest /\ ScanRests /\ CallGraphRests
  \/ process = "privileges" /\ Privileges!Init /\ out = Nothing /\ GasRests /\ ScanRests /\ CallGraphRests
  \/ process = "scan" /\ Scan!Init /\ module = Nothing /\ GasRests /\ PrivilegesRest /\ CallGraphRests
  \/ /\ process = "call-graph" /\ CallGraph!Init
     /\ module = Nothing /\ out = Nothing /\ pos = Nothing /\ GasRests /\ PrivilegesRest /\ ScanRests

Next ==
  /\ UNCHANGED process
  /\ \/ process = "storage-gas" /\ Gas!Next /\ UNCHANGED <<pos, OfPrivileges, OfScan, OfCallGraph>>
     \/ process = "privileges" /\ Privileges!Next /\ UNCHANGED <<out, OfGas, OfScan, OfCallGraph>>
     \/ process = "scan" /\ Scan!Next /\ UNCHANGED <<module, OfGas, OfPrivileges, OfCallGraph>>
     \/ /\ process = "call-graph" /\ CallGraph!Next
        /\ UNCHANGED <<module, out, pos, OfGas, OfPrivileges, OfScan>>

(* opt is not interrupted.                                                 *)
Spec == Init /\ [][Next]_vars /\ WF_vars(Next)
-----------------------------------------------------------------------------
(* The state of the process that runs is well formed.                      *)
TypeOK ==
  \/ process = "storage-gas" /\ Gas!TypeOK
  \/ process = "privileges" /\ Privileges!TypeOK
  \/ process = "scan" /\ Scan!TypeOK
  \/ process = "call-graph" /\ CallGraph!TypeOK

(* storage-gas passes a function only for a look at the storage usage that *)
(* is in reach, warns of none that has one close by, and has one line for  *)
(* every function that expands the storage, whatever is left in the set of *)
(* callers by the search before (storage_gas.cpp:66-92).                   *)
StorageGasReports ==
  process = "storage-gas" => Gas!PassJustified /\ Gas!WarningJustified /\ Gas!OneLinePerExpansion

(* yocto-attach reports what lacks the check and is no callback, and       *)
(* misses none before the first callback of the module; nft-owner-check    *)
(* has the verdict of the owner check in reach (yocto_attach.cpp:52-88,    *)
(* nft_owner_check.cpp:52-69).                                             *)
PrivilegeReports ==
  process = "privileges" =>
    Privileges!YoctoReportSound /\ Privileges!YoctoReportBeforeCallbacks /\ Privileges!OwnerVerdicts

(* Every scan reports what it looks for, and nothing else, wherever it     *)
(* leaves its loops, ext-call only of the traits that come first in their  *)
(* bitcodes (timestamp.cpp:40-60 and its like, ext_call_trait.cpp:54-57,   *)
(* upgrade_func.cpp:62, complex_loop.cpp:43-98, unsaved_changes.cpp:       *)
(* 67-126).                                                                *)
ScanReports ==
  process = "scan" =>
    /\ Scan!MatchesReported /\ Scan!ExtCallsReported
    /\ Scan!VerdictsOfOneFunction /\ Scan!LoopsCounted /\ Scan!UnsavedReported

(* reentrancy reports changes of state that are reached after a success,   *)
(* one in a function, and none is missed where no branch has a choice      *)
(* (reentrancy.cpp:77-130).                                                *)
ReentrancyReports ==
  process = "scan" => Scan!ReentrancyJustified /\ Scan!StraightReentrancyReported

(* A query of the call graph is answered yes exactly for a match at the    *)
(* target or one call below it: near_core.cpp:192 finds the node it is at  *)
(* on the call stack whenever it gets there, so that no callee is ever     *)
(* searched.                                                               *)
AnswersOneCall == process = "call-graph" => CallGraph!AnswersOneCall

(* Every process comes to an end, except for reentrancy's walk along a     *)
(* loop of branches, and every query is answered on recursive call graphs  *)
(* too (storage_gas.cpp:64-92, reentrancy.cpp:96-130,                      *)
(* near_core.cpp:188-200).                                                 *)
Termination ==
  /\ process = "storage-gas" => Gas!Termination
  /\ process = "privileges" => <>(pass = "end")
  /\ process = "scan" => Scan!Termination
  /\ process = "call-graph" => CallGraph!Termination
=============================================================================
