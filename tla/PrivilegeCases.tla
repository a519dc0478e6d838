--------------------------- MODULE PrivilegeCases ---------------------------
(***************************************************************************)
(* Contracts of four functions for PrivilegeChecks.  The SDK's functions   *)
(* are Func too: pred, eq, yocto and result have no body.                  *)
(***************************************************************************)
EXTENDS Sequences

CONSTANTS f, g, h, k, pred, eq, yocto, result, Indirect

MCFunc == {f, g, h, k, pred, eq, yocto, result}

To(callees) == {[callee |-> c, lib |-> FALSE] : c \in callees}
LibTo(callees) == {[callee |-> c, lib |-> TRUE] : c \in callees}

(* k is the last of a chain f, g, h, k and holds an owner check, or half of *)
(* one, or one in library code.                                             *)
MCBodies ==
  {[x \in MCFunc |->
      CASE x = f -> bf [] x = g -> bg [] x = h -> bh [] x = k -> bk [] OTHER -> {}] :
     bf \in {To({g}), To({g, yocto}), To({h, result}), To({g, Indirect})},
     bg \in {To({h}), To({h, yocto, f}), To({pred, eq}), To({k, result}), LibTo({h, yocto})},
     bh \in {To({k}), To({g, k}), To({pred}) \cup LibTo({eq}), To({pred, k})},
     bk \in {To({pred, eq}), To({pred, eq, yocto}), To({pred}), LibTo({pred, eq})}}

SDK == <<pred, eq, yocto, result>>

MCModules ==
  [order : {<<f, g, h, k>> \o SDK, SDK \o <<k, h, g, f>>}, body : MCBodies,
   predecessor : {{pred}}, eq : {{eq}}, yocto : {{yocto}}, result : {{result}},
   approval : {{f, k}}, llvm : {{}, {g}}]
=============================================================================
