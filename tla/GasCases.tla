------------------------------ MODULE GasCases ------------------------------
(***************************************************************************)
(* Contracts of four functions, which call each other up to three calls    *)
(* deep and recursively, and env::storage_usage.                           *)
(***************************************************************************)
CONSTANTS f, g, h, k, usage

MCFunc == {f, g, h, k, usage}

MCCallees ==
  {[x \in MCFunc |->
      CASE x = f -> cf [] x = g -> cg [] x = h -> ch [] x = k -> ck [] OTHER -> {}] :
     cf \in SUBSET {g}, cg \in SUBSET {f, h, usage}, ch \in SUBSET {f, g},
     ck \in SUBSET {h, usage}}

MCModules == [callees : MCCallees, expands : {{f}, {f, g}}, usage : {{usage}},
              llvm : {{}, {g}}]
=============================================================================
