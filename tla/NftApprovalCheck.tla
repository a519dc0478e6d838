-------------------------- MODULE NftApprovalCheck --------------------------
(***************************************************************************)
(* src/examples/nft-approval-check: the core of the token again, without   *)
(* approval management; its nft_transfer asks nobody, its nft_transfer_    *)
(* call does.                                                              *)
(***************************************************************************)
EXTENDS NonFungibleToken

nac_internal_transfer_unguarded(t, from, to) ==
  /\ tokens_per_owner[from] # {}
  /\ owner_by_id' = [owner_by_id EXCEPT ![t] = to]
  /\ tokens_per_owner' = [tokens_per_owner EXCEPT ![from] = @ \ {t}, ![to] = @ \cup {t}]

nac_internal_transfer_unsafe(s, r, t, given) ==
  /\ owner_by_id[t] \notin {NoOne, r}
  /\ approvals_by_id' = [approvals_by_id EXCEPT ![t] = Unapproved]
  /\ nac_internal_transfer_unguarded(t, owner_by_id[t], r)
  /\ NftTransfer(t, owner_by_id[t], r)

nac_internal_transfer(s, r, t, given) ==
  /\ Authorised(s, t, given)
  /\ nac_internal_transfer_unsafe(s, r, t, given)

nac_nft_transfer(s, r, t, given) ==
  /\ nac_internal_transfer_unsafe(s, r, t, given)
  /\ mover' = s
  /\ UNCHANGED <<next_approval_id_by_id, near, calls, leftover>>

nac_nft_transfer_call(i, s, r, t, given) ==
  /\ calls[i] = NoCall
  /\ nac_internal_transfer(s, r, t, given)
  /\ calls' = [calls EXCEPT ![i] =
       [stage |-> "receiver", previous_owner |-> owner_by_id[t], receiver |-> r, token |-> t,
        approvals |-> approvals_by_id[t], must_revert |-> TRUE]]
  /\ mover' = s
  /\ UNCHANGED <<next_approval_id_by_id, near, leftover>>

(* Kept, or returned with the approvals of before, if there were any.      *)
nac_nft_resolve_transfer(i) ==
  LET c == calls[i]
      returns == c.must_revert /\ owner_by_id[c.token] = c.receiver
      theirs == approvals_by_id[c.token]
  IN  /\ c.stage = "resolve"
      /\ calls' = [calls EXCEPT ![i] = NoCall]
      /\ mover' = NoOne
      /\ IF ~returns
         THEN UNCHANGED <<tokens, approvals, told, leftover>>
         ELSE /\ nac_internal_transfer_unguarded(c.token, c.receiver, c.previous_owner)
              /\ leftover' = (leftover \/ (c.approvals = Unapproved /\ theirs # Unapproved))
              /\ near' = Balance(leftover', near - Cardinality(Approved(theirs)))
              /\ approvals_by_id' =
                   [approvals_by_id EXCEPT ![c.token] = IF c.approvals = Unapproved THEN @ ELSE c.approvals]
              /\ NftTransfer(c.token, c.receiver, c.previous_owner)
              /\ UNCHANGED next_approval_id_by_id

nac_Next ==
  \/ \E s, r \in Account, t \in Token, given \in ApprovalId :
       \/ nac_nft_transfer(s, r, t, given)
       \/ \E i \in Id : nac_nft_transfer_call(i, s, r, t, given)
  \/ \E i \in Id : nac_nft_resolve_transfer(i) \/ \E b \in BOOLEAN : nft_on_transfer(i, b)
=============================================================================
