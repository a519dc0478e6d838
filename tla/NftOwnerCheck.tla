--------------------------- MODULE NftOwnerCheck ---------------------------
(***************************************************************************)
(* src/examples/nft-owner-check: approval management of tokens that stay   *)
(* where they are; its nft_revoke_all does not ask whose call it is.       *)
(***************************************************************************)
EXTENDS NonFungibleToken

noc_nft_is_approved(t, a, given) ==
  /\ owner_by_id[t] # NoOne
  /\ approvals_by_id[t][a] # 0
  /\ given = 0 \/ given = approvals_by_id[t][a]

noc_nft_approve(s, t, a) ==
  /\ owner_by_id[t] = s
  /\ next_approval_id_by_id[t] <= MaxApprovals
  /\ approvals_by_id' = [approvals_by_id EXCEPT ![t] = [@ EXCEPT ![a] = next_approval_id_by_id[t]]]
  /\ next_approval_id_by_id' = [next_approval_id_by_id EXCEPT ![t] = @ + 1]
  /\ near' = IF approvals_by_id[t][a] = 0 THEN near + 1 ELSE near
  /\ mover' = NoOne
  /\ UNCHANGED <<tokens, calls, told, leftover>>

noc_nft_revoke(s, t, a) ==
  /\ owner_by_id[t] = s
  /\ noc_nft_is_approved(t, a, 0)
  /\ approvals_by_id' = [approvals_by_id EXCEPT ![t] = [@ EXCEPT ![a] = 0]]
  /\ near' = near - 1
  /\ mover' = s
  /\ UNCHANGED <<tokens, next_approval_id_by_id, calls, told, leftover>>

(* Whoever calls is paid for the approvals.                                *)
noc_nft_revoke_all(s, t) ==
  /\ approvals_by_id[t] # Unapproved
  /\ approvals_by_id' = [approvals_by_id EXCEPT ![t] = Unapproved]
  /\ near' = near - Cardinality(Approved(approvals_by_id[t]))
  /\ mover' = s
  /\ UNCHANGED <<tokens, next_approval_id_by_id, calls, told, leftover>>

noc_Next ==
  \E s \in Account, t \in Token :
    noc_nft_revoke_all(s, t) \/ \E a \in Account : noc_nft_approve(s, t, a) \/ noc_nft_revoke(s, t, a)
=============================================================================
