---------------------------- MODULE NftContracts ----------------------------
(***************************************************************************)
(* The three non-fungible tokens of src/examples, one at a time: the       *)
(* complete one of nep-interface and the two that detectors are tried on,  *)
(* each of which leaves out a check.                                       *)
(***************************************************************************)
EXTENDS NftApprovalCheck, NftOwnerCheck

ASSUME ContractsAssumption == IsFiniteSet(Token) /\ MaxApprovals > 0

VARIABLE contract    \* which of them it is

allvars == <<vars, contract>>

Examples == {"nft-approval-check", "nft-owner-check"}

(* No handler of these two makes tokens, nor of the first approvals: they  *)
(* start from tokens, one of them approved, that their storage holds.      *)
Stocked(owner, approved) ==
  /\ owner_by_id = owner
  /\ tokens_per_owner = [a \in Account |-> {t \in Token : owner[t] = a}]
  /\ approvals_by_id = [t \in Token |-> [a \in Account |-> IF a = approved THEN 1 ELSE 0]]
  /\ next_approval_id_by_id = [t \in Token |-> 2]
  /\ near = Cardinality(Token)
  /\ calls = [i \in Id |-> NoCall]
  /\ mover = NoOne
  /\ told = owner
  /\ leftover = FALSE

ContractInit ==
  \/ contract = "nep-interface" /\ Init
  \/ /\ contract \in Examples
     /\ \E owner \in [Token -> Account], approved \in Account : Stocked(owner, approved)

ContractNext ==
  /\ UNCHANGED contract
  /\ \/ contract = "nep-interface" /\ Next
     \/ contract = "nft-approval-check" /\ nac_Next
     \/ contract = "nft-owner-check" /\ noc_Next

ContractReceipts(i) ==
  /\ UNCHANGED contract
  /\ \/ contract = "nep-interface" /\ Receipts(i)
     \/ /\ contract = "nft-approval-check"
        /\ nac_nft_resolve_transfer(i) \/ \E b \in BOOLEAN : nft_on_transfer(i, b)

ContractSpec == ContractInit /\ [][ContractNext]_allvars /\ \A i \in Id : WF_allvars(ContractReceipts(i))
-----------------------------------------------------------------------------
(* What the owner decides is decided by others only in nft_transfer of     *)
(* nft-approval-check, where a token may leave on anyone's call, and in    *)
(* nft_revoke_all of nft-owner-check, where its approvals may go, but not  *)
(* the token (nft-approval-check/src/lib.rs:102-112, 276-281; nft-owner-   *)
(* check/src/lib.rs:171-189).                                              *)
OwnerDecidesElsewhere ==
  [][\A t \in Token :
       /\ Moves(t) => MoveAllowed(t) \/ (contract = "nft-approval-check" /\ calls' = calls)
       /\ Revokes(t) => \/ mover' = owner_by_id[t]
                        \/ contract = "nft-owner-check" /\ approvals_by_id'[t] = Unapproved]_allvars
=============================================================================
