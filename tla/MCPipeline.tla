----------------------------- MODULE MCPipeline -----------------------------
(***************************************************************************)
(* Lists with a name of every kind of rule, alone and behind another that  *)
(* shares a file with it, and arguments that name groups.                  *)
(***************************************************************************)
EXTENDS Pipeline

CONSTANT Named      \* the names of which Arguments are made

MCArguments == {<<d>> : d \in Named} \cup {<<d, e>> : d, e \in Named}

Single == {<<"ext-call", "ext-call">>, <<"lock-callback", "yocto-attach">>, <<"yocto-attach", "lock-callback">>,
           <<"round", "round">>, <<"incorrect-json-type", "unknown">>, <<"callback", "unused-ret">>,
           <<"nep-storage">>, <<"gas">>, <<"tautology">>, <<"unknown">>}

MCCompanions ==
  [q \in Single |-> {}] @@ <<"yocto-attach">> :> {<<"gas">>} @@ <<"ext-call">> :> {<<"tautology">>}
                         @@ <<"round">> :> {<<"round">>, <<"tautology">>}
=============================================================================
