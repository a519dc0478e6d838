--------------------------- MODULE DetectorNames ---------------------------
(***************************************************************************)
(* The names a user may pass with -d: the detectors `rustle' knows         *)
(* (rustle:146) and the groups it replaces by lists of them (179-192).  A  *)
(* list is the sequence of the names between its commas.                   *)
(***************************************************************************)
EXTENDS Naturals, Sequences, SequencesExt, TLC

builtin_detectors ==
  {"div-before-mul", "ext-call", "inconsistency", "incorrect-json-type", "lock-callback",
   "non-callback-private", "non-private-callback", "prepaid-gas", "promise-result",
   "reentrancy", "round", "self-transfer", "tautology", "timestamp", "transfer",
   "unhandled-promise", "unsafe-math", "unused-ret", "upgrade-func", "yocto-attach",
   "complex-loop", "public-interface", "dup-collection-id", "storage-gas",
   "unregistered-receiver", "unsaved-changes", "unclaimed-storage-fee",
   "nft-approval-check", "nft-owner-check"}

Interfaces ==
  {"nep141-interface", "nep145-interface", "nep148-interface", "nep171-interface",
   "nep177-interface", "nep178-interface", "nep181-interface", "nep245-interface"}

MediumList ==
  <<"div-before-mul", "round", "lock-callback", "yocto-attach", "dup-collection-id",
    "unregistered-receiver">>

(* The groups, but for `all', the group of groups.                         *)
Groups == {"high", "medium", "low", "info", "nep-interface", "nep-ft", "nep-storage", "nep-nft"}

(* What a group name is replaced by.                                       *)
Expansion(group) ==
  CASE group = "all"    -> <<"high", "medium", "low", "info">>
    [] group = "high"   -> <<"unhandled-promise", "non-private-callback", "reentrancy", "unsafe-math",
                             "self-transfer", "incorrect-json-type", "unsaved-changes",
                             "nft-approval-check", "nft-owner-check">>
    [] group = "medium" -> MediumList
    [] group = "low"    -> <<"prepaid-gas", "non-callback-private", "unused-ret", "upgrade-func",
                             "tautology", "storage-gas", "unclaimed-storage-fee">>
    [] group = "info"   -> <<"inconsistency", "timestamp", "ext-call", "promise-result", "transfer",
                             "complex-loop", "public-interface">>
    [] group = "nep-interface" -> <<"nep141-interface", "nep145-interface", "nep148-interface",
                                    "nep171-interface", "nep177-interface", "nep178-interface",
                                    "nep181-interface", "nep245-interface">>
    [] group = "nep-ft"      -> <<"nep141-interface", "self-transfer", "unregistered-receiver">>
    [] group = "nep-storage" -> <<"nep145-interface", "unclaimed-storage-fee">>
    [] group = "nep-nft"     -> <<"nep171-interface", "nft-approval-check", "nft-owner-check">>

(* Seeded fault: `all' is replaced after the severities it stands for.     *)
SubstitutionsAllLate ==
  <<"high", "medium", "low", "info", "all", "nep-interface", "nep-ft", "nep-storage", "nep-nft">>

(* The order of the substitutions.                                         *)
Substitutions ==
  <<"all", "high", "medium", "low", "info", "nep-interface", "nep-ft", "nep-storage", "nep-nft">>

(* One substitution: the group's list stands for every name that is the    *)
(* group; what is put in is not looked at again.  sed's `\b' finds a group *)
(* at the hyphens within a name too (`all' in `all-call'), but within none *)
(* of UserNames.                                                           *)
Expanded(list, group) ==
  FlattenSeq([k \in 1..Len(list) |-> IF list[k] = group THEN Expansion(group) ELSE <<list[k]>>])

(* The list of the loop, input_detectors, for the argument of -d.          *)
Substituted(request) == FoldLeft(Expanded, request, Substitutions)

(* Names that are a part of a detector's name, so that the regular         *)
(* expression match of rustle:206 accepts them.  The Makefile has a rule   *)
(* for the first only.                                                     *)
Fragments == {"callback", "gas"}

(* The names a user passes, `unknown' for any that the test below refuses  *)
(* and that has no group between hyphens.                                  *)
UserNames == builtin_detectors \cup Interfaces \cup Groups \cup {"all"} \cup Fragments \cup {"unknown"}

(* The test of the driver's loop for a name that is made.                  *)
IsValid(name) == name \in builtin_detectors \cup Interfaces \cup Fragments
=============================================================================
