-------------------------- MODULE PrivilegeChecks --------------------------
(***************************************************************************)
(* The detectors that ask who may call a function: `callback' finds the    *)
(* functions that read a promise result, `yocto-attach' the privileged     *)
(* functions, callbacks excepted, without assert_one_yocto, and            *)
(* `nft-owner-check' whether the approval functions of an NFT are          *)
(* privileged.  Makefile:228 runs `callback' before `yocto-attach', which  *)
(* reads its file when the pass is constructed.                            *)
(*                                                                         *)
(* A module is a record                                                    *)
(*   order    its functions in the order of M.functions()                  *)
(*   body     the call instructions of each function: the function called, *)
(*            or Indirect, and whether the location is in a library        *)
(*   the sets of functions whose name says what they are: predecessor      *)
(*   (predecessor_account_id), eq (PartialEq of AccountId), yocto          *)
(*   (assert_one_yocto), result (promise_result and its like), approval    *)
(*   (nft_approve, nft_revoke, nft_revoke_all, no closure), llvm           *)
(***************************************************************************)
EXTENDS Naturals, Sequences, FiniteSets

CONSTANTS Func,        \* the functions of the module
          Indirect,    \* getCalledFunction() is null
          Modules      \* the modules that are considered

Call == [callee : Func \cup {Indirect}, lib : BOOLEAN]

IsModule(m) ==
  /\ m.order \in Seq(Func)
  /\ \A f \in Func : Cardinality({k \in 1..Len(m.order) : m.order[k] = f}) = 1
  /\ m.body \in [Func -> SUBSET Call]
  /\ {m.predecessor, m.eq, m.yocto, m.result, m.approval, m.llvm} \subseteq SUBSET Func

ModulesAssumption == Indirect \notin Func /\ \A m \in Modules : IsModule(m)

(* The functions f calls: from anywhere, and from the contract's own code. *)
Callees(m, f)    == {c.callee : c \in m.body[f]} \cap Func
OwnCallees(m, f) == {c.callee : c \in {d \in m.body[f] : ~d.lib}} \cap Func

(* isFuncPrivileged's default depth is 2 and it fails below depth 0, so    *)
(* that a function and two levels of callees are looked at.                *)
PrivilegeDepth == 3

(* isFuncPrivileged: a function that asks for the predecessor must compare *)
(* accounts itself; the callees that are asked about are the others.       *)
Privileged(m, f) ==
  LET within[n \in Nat] ==
        IF n = 0 THEN {}
        ELSE {g \in Func :
                \/ OwnCallees(m, g) \cap m.predecessor # {} /\ Callees(m, g) \cap m.eq # {}
                \/ (OwnCallees(m, g) \ m.predecessor) \cap within[n - 1] # {}}
  IN  f \in within[PrivilegeDepth]

(* isInstCallFuncRec for assert_one_yocto: the callee or one below it.     *)
ChecksYocto(m, f) ==
  \E g \in OwnCallees(m, f) :
    g \in m.yocto \/ (g \notin m.llvm /\ Callees(m, g) \cap m.yocto # {})

VARIABLES module,       \* the module the passes run on
          pass,         \* the pass that runs
          pos,          \* the function of m.order it is at
          callbackFile, \* the lines of .callback.tmp
          callbacks,    \* what yocto-attach has read of them
          yoctoOut,     \* the lines of .yocto-attach.tmp
          ownerOut      \* the lines of .nft-owner-check.tmp

vars == <<module, pass, pos, callbackFile, callbacks, yoctoOut, ownerOut>>

Passes == {"callback", "yocto-attach", "nft-owner-check", "end"}

Here == module.order[pos]
AtFunction(p) == pass = p /\ pos <= Len(module.order)
PassOver(p) == pass = p /\ pos > Len(module.order)
-----------------------------------------------------------------------------
Init ==
  /\ module \in Modules
  /\ pass = "callback" /\ pos = 1
  /\ callbackFile = {} /\ callbacks = {} /\ yoctoOut = {} /\ ownerOut = {}

Callback ==
  /\ AtFunction("callback")
  /\ callbackFile' = callbackFile \cup
       {f \in {Here} : OwnCallees(module, f) \cap module.result # {}}
  /\ pos' = pos + 1
  /\ UNCHANGED <<module, pass, callbacks, yoctoOut, ownerOut>>

(* Seeded fault: yocto-attach is run without what `callback' has written.  *)
BeginYoctoAttachUnread ==
  /\ PassOver("callback")
  /\ pass' = "yocto-attach" /\ pos' = 1
  /\ UNCHANGED <<module, callbackFile, callbacks, yoctoOut, ownerOut>>

BeginYoctoAttach ==
  /\ PassOver("callback")
  /\ pass' = "yocto-attach" /\ pos' = 1
  /\ callbacks' = callbackFile
  /\ UNCHANGED <<module, callbackFile, yoctoOut, ownerOut>>

(* A callback ends the run on the module.                                  *)
YoctoCallback ==
  /\ AtFunction("yocto-attach") /\ Here \in callbacks
  /\ pos' = Len(module.order) + 1
  /\ UNCHANGED <<module, pass, callbackFile, callbacks, yoctoOut, ownerOut>>

YoctoAttach ==
  /\ AtFunction("yocto-attach") /\ Here \notin callbacks
  /\ yoctoOut' = yoctoOut \cup
       {f \in {Here} : Privileged(module, f) /\ ~ChecksYocto(module, f)}
  /\ pos' = pos + 1
  /\ UNCHANGED <<module, pass, callbackFile, callbacks, ownerOut>>

BeginNftOwnerCheck ==
  /\ PassOver("yocto-attach")
  /\ pass' = "nft-owner-check" /\ pos' = 1
  /\ UNCHANGED <<module, callbackFile, callbacks, yoctoOut, ownerOut>>

NftOwnerCheck ==
  /\ AtFunction("nft-owner-check")
  /\ ownerOut' = ownerOut \cup
       {[fn |-> f, check |-> Privileged(module, f)] : f \in {Here} \cap module.approval}
  /\ pos' = pos + 1
  /\ UNCHANGED <<module, pass, callbackFile, callbacks, yoctoOut>>

End ==
  /\ PassOver("nft-owner-check")
  /\ pass' = "end"
  /\ UNCHANGED <<module, pos, callbackFile, callbacks, yoctoOut, ownerOut>>

Next ==
  \/ Callback \/ BeginYoctoAttach \/ YoctoCallback \/ YoctoAttach
  \/ BeginNftOwnerCheck \/ NftOwnerCheck \/ End

Spec == Init /\ [][Next]_vars
-----------------------------------------------------------------------------
(* The state is well formed, and yocto-attach has read only what           *)
(* `callback' wrote (Makefile:228, yocto_attach.cpp:37-43).                *)
TypeOK ==
  /\ IsModule(module)
  /\ pass \in Passes
  /\ pos \in 1..Len(module.order) + 1
  /\ callbackFile \subseteq Func
  /\ callbacks \subseteq callbackFile
  /\ yoctoOut \subseteq Func
  /\ ownerOut \subseteq [fn : module.approval, check : BOOLEAN]

(* A function asks for its predecessor and compares accounts, or reaches   *)
(* one that does by a chain of at most two of the contract's own calls.    *)
OwnerCheckInReach(m, f) ==
  LET asks(g) == OwnCallees(m, g) \cap m.predecessor # {} /\ Callees(m, g) \cap m.eq # {}
      next(g) == OwnCallees(m, g) \ m.predecessor
  IN  \/ asks(f)
      \/ \E g \in next(f) : asks(g) \/ \E h \in next(g) : asks(h)

(* What yocto-attach demands of a function that is not a callback.         *)
LacksYocto(f) == OwnerCheckInReach(module, f) /\ ~ChecksYocto(module, f)

IsCallback(f) == OwnCallees(module, f) \cap module.result # {}

AfterYocto == pass \in {"nft-owner-check", "end"}

(* yocto-attach reports no callback, no function out of reach of an owner  *)
(* check and none with assert_one_yocto (yocto_attach.cpp:52-88).          *)
YoctoReportSound ==
  \A f \in yoctoOut : ~IsCallback(f) /\ LacksYocto(f)

(* yocto-attach misses no function that precedes every callback of the     *)
(* module (yocto_attach.cpp:52-88).                                        *)
YoctoReportBeforeCallbacks ==
  AfterYocto =>
    \A k \in 1..Len(module.order) :
      LacksYocto(module.order[k]) /\ (\A n \in 1..k : ~IsCallback(module.order[n])) =>
        module.order[k] \in yoctoOut

(* The verdict on an approval function is that of the owner check in reach *)
(* and there is one for each (nft_owner_check.cpp:52-69).                  *)
OwnerVerdicts ==
  pass = "end" =>
    ownerOut = {[fn |-> f, check |-> OwnerCheckInReach(module, f)] : f \in module.approval}

(* "skip callback functions" (yocto_attach.cpp:57): every other function   *)
(* that lacks assert_one_yocto is reported.                                *)
OnlyCallbacksSkipped ==
  AfterYocto => \A f \in Func : ~IsCallback(f) /\ LacksYocto(f) => f \in yoctoOut
=============================================================================
