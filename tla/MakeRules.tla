----------------------------- MODULE MakeRules ------------------------------
(***************************************************************************)
(* The rules of the Makefile (55-391): for each target the targets it is   *)
(* made after, the files in TMP_DIR its recipe removes, the file it reads  *)
(* and the file it writes.  A pass is an LLVM pass that opt runs on every  *)
(* bitcode; it appends to its file.  A script is a Python program; it      *)
(* replaces its file.                                                      *)
(***************************************************************************)
EXTENDS DetectorNames

Scripts ==
  {"tautology", "unused-ret", "inconsistency", "lock-callback", "non-callback-private",
   "non-private-callback", "incorrect-json-type", "public-interface", "dup-collection-id",
   "find-struct"}

Passes ==
  ((builtin_detectors \cup Interfaces) \ Scripts) \cup {"callback", "all-call", "ext-call-trait"}

HasRule(name) == name \in Passes \cup Scripts

SourceOnly == {"tautology", "inconsistency", "public-interface", "dup-collection-id"}

(* Seeded fault: the script runs with whatever callbacks are there.        *)
TargetsBare(name) ==
  CASE name = "ext-call"            -> <<"tg_ir", "ext-call-trait", name>>
    [] name = "unused-ret"          -> <<"tg_ir", "all-call", name>>
    [] name = "incorrect-json-type" -> <<"find-struct", name>>
    [] name \in SourceOnly          -> <<name>>
    [] OTHER                        -> <<"tg_ir", name>>

(* The targets make brings up to date for a detector, in order.            *)
Targets(name) ==
  CASE name = "ext-call"            -> <<"tg_ir", "ext-call-trait", name>>
    [] name = "yocto-attach"        -> <<"tg_ir", "callback", name>>
    [] name = "unused-ret"          -> <<"tg_ir", "all-call", name>>
    [] name \in {"lock-callback", "non-callback-private", "non-private-callback"} ->
                                       <<"tg_ir", "callback", name>>
    [] name = "incorrect-json-type" -> <<"find-struct", name>>
    [] name \in SourceOnly          -> <<name>>
    [] OTHER                        -> <<"tg_ir", name>>

(* The files a recipe removes: `ext-call-trait' removes the file of        *)
(* `ext-call', `round' removes none.                                       *)
Removes(target) ==
  CASE target = "ext-call-trait"                        -> {"ext-call"}
    [] target \in {"ext-call", "round", "find-struct"}  -> {}
    [] OTHER                                            -> {target}

(* The targets whose own file outlives them.                               *)
NeverRemoved == {"round", "ext-call-trait"}

(* The targets that read the file of another, and its form: an LLVM pass   *)
(* compares mangled names, a script demangles the file in place first.     *)
CallbackScripts == {"lock-callback", "non-callback-private", "non-private-callback"}

Input(target) ==
  CASE target \in CallbackScripts \cup {"yocto-attach"} -> {"callback"}
    [] target = "ext-call"                              -> {"ext-call-trait"}
    [] target = "unused-ret"                            -> {"all-call"}
    [] target = "incorrect-json-type"                   -> {"find-struct"}
    [] OTHER                                            -> {}

Demangles(target) == IF target \in CallbackScripts \cup {"unused-ret"} THEN Input(target) ELSE {}

InputForm(target) == IF target \in Scripts THEN "plain" ELSE "raw"
=============================================================================
