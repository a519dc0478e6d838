-------------------------- MODULE NonFungibleToken --------------------------
(***************************************************************************)
(* The NEP-171 token of src/examples/nep-interface with enumeration and    *)
(* approval management: the struct NonFungibleToken, its handlers and the  *)
(* receipts of a transfer call.  A handler that panics changes nothing, so *)
(* that what it requires is its guard.  nft_transfer_call moves the token  *)
(* at once and hands its approvals to the callback nft_resolve_transfer,   *)
(* which may restore them later (core_impl.rs:422-433).                    *)
(*                                                                         *)
(* No function of the code removes a token, and the metadata of a token    *)
(* is never read again: both are left out.  Every approval costs the same  *)
(* deposit, the unit of near.                                              *)
(***************************************************************************)
EXTENDS Integers, FiniteSets

CONSTANTS Account,       \* the accounts of the chain
          Token,         \* the ids that tokens may have
          Id,            \* bound: transfer calls in flight at a time
          MaxApprovals,  \* bound: approval ids given out for a token
          NoOne          \* is no account

ASSUME NFTAssumption ==
  /\ IsFiniteSet(Account)
  /\ NoOne \notin Account
  /\ MaxApprovals \in Nat

VARIABLES owner_by_id,             \* NoOne: there is no such token
          tokens_per_owner,        \* {}: no key
          approvals_by_id,         \* the approval id of an account, 0: not approved
          next_approval_id_by_id,  \* 1 without key
          near,                    \* deposits for approvals less what was paid back
          calls,                   \* the transfer calls in flight
          mover,                   \* history: whose call moved a token or revoked in the last step, if one did
          told,                    \* history: the owners that follow from the events
          leftover                 \* history: did a receiver's approvals outlive a return?

tokens == <<owner_by_id, tokens_per_owner>>
approvals == <<approvals_by_id, next_approval_id_by_id, near>>
vars == <<tokens, approvals, calls, mover, told, leftover>>

ApprovalId == 0..MaxApprovals
Unapproved == [a \in Account |-> 0]
Approved(f) == {a \in Account : f[a] # 0}

(* Once approvals are left that were paid back, they are paid for again    *)
(* and again, without bound: the account's balance is followed up to then. *)
Balance(left, n) == IF left THEN 0 ELSE n

NoCall == [stage |-> "none"]
Call == [stage : {"receiver", "resolve"}, previous_owner : Account, receiver : Account,
         token : Token, approvals : [Account -> ApprovalId], must_revert : BOOLEAN]

-----------------------------------------------------------------------------
(* The view: may the account transfer the token?  given 0: no approval id. *)
nft_is_approved(t, a, given) ==
  /\ owner_by_id[t] # NoOne
  /\ approvals_by_id[t][a] # 0
  /\ given = 0 \/ given = approvals_by_id[t][a]

Authorised(s, t, given) ==
  \/ s = owner_by_id[t]
  \/ approvals_by_id[t][s] # 0 /\ (given = 0 \/ given = approvals_by_id[t][s])

(* Seeded fault: the owner's set keeps the token.                          *)
internal_transfer_unguardedListed(t, from, to) ==
  /\ tokens_per_owner[from] # {}
  /\ owner_by_id' = [owner_by_id EXCEPT ![t] = to]
  /\ tokens_per_owner' = [tokens_per_owner EXCEPT ![to] = @ \cup {t}]

(* The owner's set must exist; it is removed with its last token.          *)
internal_transfer_unguarded(t, from, to) ==
  /\ tokens_per_owner[from] # {}
  /\ owner_by_id' = [owner_by_id EXCEPT ![t] = to]
  /\ tokens_per_owner' = [tokens_per_owner EXCEPT ![from] = @ \ {t}, ![to] = @ \cup {t}]

(* The events, as one who follows them reads them.                         *)
NftMint(t, a) == told' = [told EXCEPT ![t] = a]
NftTransfer(t, from, to) == told' = [told EXCEPT ![t] = IF @ = from THEN to ELSE NoOne]

(* Seeded fault: the sender's approval is not looked for.                  *)
internal_transferUnasked(s, r, t, given) ==
  /\ owner_by_id[t] # NoOne
  /\ owner_by_id[t] # r
  /\ approvals_by_id' = [approvals_by_id EXCEPT ![t] = Unapproved]
  /\ internal_transfer_unguarded(t, owner_by_id[t], r)
  /\ NftTransfer(t, owner_by_id[t], r)

(* The approvals are cleared, and what was paid for them stays.            *)
internal_transfer(s, r, t, given) ==
  /\ owner_by_id[t] # NoOne
  /\ Authorised(s, t, given)
  /\ owner_by_id[t] # r
  /\ approvals_by_id' = [approvals_by_id EXCEPT ![t] = Unapproved]
  /\ internal_transfer_unguarded(t, owner_by_id[t], r)
  /\ NftTransfer(t, owner_by_id[t], r)

-----------------------------------------------------------------------------
(* new() measures the storage of a token by writing one into each map and  *)
(* taking it back: all maps are empty in the end.                          *)
Init ==
  /\ owner_by_id = [t \in Token |-> NoOne]
  /\ tokens_per_owner = [a \in Account |-> {}]
  /\ approvals_by_id = [t \in Token |-> Unapproved]
  /\ next_approval_id_by_id = [t \in Token |-> 1]
  /\ near = 0
  /\ calls = [i \in Id |-> NoCall]
  /\ mover = NoOne
  /\ told = [t \in Token |-> NoOne]
  /\ leftover = FALSE

(* Called by the contract that embeds the token.                           *)
internal_mint(t, a) ==
  /\ owner_by_id[t] = NoOne
  /\ owner_by_id' = [owner_by_id EXCEPT ![t] = a]
  /\ tokens_per_owner' = [tokens_per_owner EXCEPT ![a] = @ \cup {t}]
  /\ NftMint(t, a)
  /\ mover' = NoOne
  /\ UNCHANGED <<approvals, calls, leftover>>

nft_transfer(s, r, t, given) ==
  /\ internal_transfer(s, r, t, given)
  /\ mover' = s
  /\ UNCHANGED <<next_approval_id_by_id, near, calls, leftover>>

nft_transfer_call(i, s, r, t, given) ==
  /\ calls[i] = NoCall
  /\ internal_transfer(s, r, t, given)
  /\ calls' = [calls EXCEPT ![i] =
       [stage |-> "receiver", previous_owner |-> owner_by_id[t], receiver |-> r, token |-> t,
        approvals |-> approvals_by_id[t], must_revert |-> TRUE]]
  /\ mover' = s
  /\ UNCHANGED <<next_approval_id_by_id, near, leftover>>

(* The receiver's nft_on_transfer ends; the token goes back if it answers  *)
(* yes, fails or answers something else.                                   *)
nft_on_transfer(i, must_revert) ==
  /\ calls[i].stage = "receiver"
  /\ calls' = [calls EXCEPT ![i].stage = "resolve", ![i].must_revert = must_revert]
  /\ mover' = NoOne
  /\ UNCHANGED <<tokens, approvals, told, leftover>>

(* The token is the receiver's no more, or is to stay.                     *)
nft_resolve_transferKept(i) ==
  LET c == calls[i]
  IN  /\ c.stage = "resolve"
      /\ ~c.must_revert \/ owner_by_id[c.token] # c.receiver
      /\ calls' = [calls EXCEPT ![i] = NoCall]
      /\ mover' = NoOne
      /\ UNCHANGED <<tokens, approvals, told, leftover>>

(* Seeded fault: no event tells of the return.                             *)
nft_resolve_transferRevertedUntold(i) ==
  LET c == calls[i]
      theirs == approvals_by_id[c.token]
  IN  /\ c.stage = "resolve"
      /\ c.must_revert /\ owner_by_id[c.token] = c.receiver
      /\ internal_transfer_unguarded(c.token, c.receiver, c.previous_owner)
      /\ approvals_by_id' =
           [approvals_by_id EXCEPT ![c.token] = IF c.approvals = Unapproved THEN @ ELSE c.approvals]
      /\ leftover' = (leftover \/ (c.approvals = Unapproved /\ theirs # Unapproved))
      /\ near' = Balance(leftover', near - Cardinality(Approved(theirs)))
      /\ calls' = [calls EXCEPT ![i] = NoCall]
      /\ mover' = NoOne
      /\ UNCHANGED <<next_approval_id_by_id, told>>

(* The receiver is paid for the approvals it gave.  They are replaced by   *)
(* the previous owner's if there were any, and stay if there were none.    *)
nft_resolve_transferReverted(i) ==
  LET c == calls[i]
      theirs == approvals_by_id[c.token]
  IN  /\ c.stage = "resolve"
      /\ c.must_revert /\ owner_by_id[c.token] = c.receiver
      /\ internal_transfer_unguarded(c.token, c.receiver, c.previous_owner)
      /\ approvals_by_id' =
           [approvals_by_id EXCEPT ![c.token] = IF c.approvals = Unapproved THEN @ ELSE c.approvals]
      /\ leftover' = (leftover \/ (c.approvals = Unapproved /\ theirs # Unapproved))
      /\ near' = Balance(leftover', near - Cardinality(Approved(theirs)))
      /\ NftTransfer(c.token, c.receiver, c.previous_owner)
      /\ calls' = [calls EXCEPT ![i] = NoCall]
      /\ mover' = NoOne
      /\ UNCHANGED next_approval_id_by_id

-----------------------------------------------------------------------------
(* Seeded fault: the next approval id stays.                               *)
nft_approveAgain(s, t, a) ==
  /\ owner_by_id[t] # NoOne
  /\ s = owner_by_id[t]
  /\ next_approval_id_by_id[t] <= MaxApprovals
  /\ approvals_by_id' = [approvals_by_id EXCEPT ![t] = [@ EXCEPT ![a] = next_approval_id_by_id[t]]]
  /\ near' = Balance(leftover, IF approvals_by_id[t][a] = 0 THEN near + 1 ELSE near)
  /\ mover' = NoOne
  /\ UNCHANGED <<tokens, next_approval_id_by_id, calls, told, leftover>>

(* Seeded fault: whoever calls approves, of a token that may not be there. *)
nft_approveAnyone(s, t, a) ==
  /\ next_approval_id_by_id[t] <= MaxApprovals
  /\ approvals_by_id' = [approvals_by_id EXCEPT ![t] = [@ EXCEPT ![a] = next_approval_id_by_id[t]]]
  /\ next_approval_id_by_id' = [next_approval_id_by_id EXCEPT ![t] = @ + 1]
  /\ near' = Balance(leftover, IF approvals_by_id[t][a] = 0 THEN near + 1 ELSE near)
  /\ mover' = NoOne
  /\ UNCHANGED <<tokens, calls, told, leftover>>

(* Seeded fault: nothing is asked for an approval.                         *)
nft_approveFree(s, t, a) ==
  /\ owner_by_id[t] # NoOne
  /\ s = owner_by_id[t]
  /\ next_approval_id_by_id[t] <= MaxApprovals
  /\ approvals_by_id' = [approvals_by_id EXCEPT ![t] = [@ EXCEPT ![a] = next_approval_id_by_id[t]]]
  /\ next_approval_id_by_id' = [next_approval_id_by_id EXCEPT ![t] = @ + 1]
  /\ mover' = NoOne
  /\ UNCHANGED <<tokens, near, calls, told, leftover>>

(* An account that is approved already gets a new id without paying.       *)
nft_approve(s, t, a) ==
  /\ owner_by_id[t] # NoOne
  /\ s = owner_by_id[t]
  /\ next_approval_id_by_id[t] <= MaxApprovals
  /\ approvals_by_id' = [approvals_by_id EXCEPT ![t] = [@ EXCEPT ![a] = next_approval_id_by_id[t]]]
  /\ next_approval_id_by_id' = [next_approval_id_by_id EXCEPT ![t] = @ + 1]
  /\ near' = Balance(leftover, IF approvals_by_id[t][a] = 0 THEN near + 1 ELSE near)
  /\ mover' = NoOne
  /\ UNCHANGED <<tokens, calls, told, leftover>>

nft_revoke(s, t, a) ==
  /\ owner_by_id[t] # NoOne
  /\ s = owner_by_id[t]
  /\ approvals_by_id[t][a] # 0
  /\ approvals_by_id' = [approvals_by_id EXCEPT ![t] = [@ EXCEPT ![a] = 0]]
  /\ near' = Balance(leftover, near - 1)
  /\ mover' = s
  /\ UNCHANGED <<tokens, next_approval_id_by_id, calls, told, leftover>>

nft_revoke_all(s, t) ==
  /\ owner_by_id[t] # NoOne
  /\ s = owner_by_id[t]
  /\ approvals_by_id' = [approvals_by_id EXCEPT ![t] = Unapproved]
  /\ near' = Balance(leftover, near - Cardinality(Approved(approvals_by_id[t])))
  /\ mover' = s
  /\ UNCHANGED <<tokens, next_approval_id_by_id, calls, told, leftover>>

-----------------------------------------------------------------------------
Handlers ==
  \/ \E t \in Token, a \in Account : internal_mint(t, a)
  \/ \E s, r \in Account, t \in Token, given \in ApprovalId :
       \/ nft_transfer(s, r, t, given)
       \/ \E i \in Id : nft_transfer_call(i, s, r, t, given)
  \/ \E s \in Account, t \in Token :
       \/ \E a \in Account : nft_approve(s, t, a) \/ nft_revoke(s, t, a)
       \/ nft_revoke_all(s, t)

Receipts(i) ==
  \/ \E must_revert \in BOOLEAN : nft_on_transfer(i, must_revert)
  \/ nft_resolve_transferKept(i)
  \/ nft_resolve_transferReverted(i)

Next == Handlers \/ \E i \in Id : Receipts(i)

(* A receipt is executed some time after it was made.                      *)
Fairness == \A i \in Id : WF_vars(Receipts(i))

Spec == Init /\ [][Next]_vars /\ Fairness
-----------------------------------------------------------------------------
(* The maps are well formed, and a token that is not there is approved to  *)
(* nobody (core_impl.rs:31-50, approval_impl.rs:33-36).                    *)
TypeOK ==
  /\ owner_by_id \in [Token -> Account \cup {NoOne}]
  /\ tokens_per_owner \in [Account -> SUBSET Token]
  /\ approvals_by_id \in [Token -> [Account -> ApprovalId]]
  /\ next_approval_id_by_id \in [Token -> 1..MaxApprovals + 1]
  /\ near \in Int
  /\ calls \in [Id -> Call \cup {NoCall}]
  /\ mover \in Account \cup {NoOne}
  /\ told \in [Token -> Account \cup {NoOne}]
  /\ leftover \in BOOLEAN
  /\ \A t \in Token : owner_by_id[t] = NoOne => approvals_by_id[t] = Unapproved

(* The two maps of owners are inverse to each other, so that enumeration   *)
(* lists what nft_token says, and the transfer in a callback always finds  *)
(* the set it takes the token from (core_impl.rs:161-191, 499).            *)
OwnersListed == \A t \in Token, a \in Account : t \in tokens_per_owner[a] <=> owner_by_id[t] = a

(* The approvals that hold and those that wait in a transfer call for their *)
(* return.                                                                 *)
Given(t) ==
  {<<a, approvals_by_id[t][a]>> : a \in Approved(approvals_by_id[t])} \cup
  UNION {{<<a, calls[i].approvals[a]>> : a \in Approved(calls[i].approvals)} :
           i \in {j \in Id : calls[j] # NoCall /\ calls[j].token = t}}

(* An approval id stands for one decision of an owner: it was handed out,  *)
(* no other account has it, and the next one is new even when approvals of *)
(* an earlier owner come back (approval_impl.rs:43-53, core_impl.rs:508-   *)
(* 510).                                                                   *)
ApprovalIdsUnique ==
  \A t \in Token : \A g, h \in Given(t) :
    g[2] < next_approval_id_by_id[t] /\ (g[2] = h[2] => g[1] = h[1])

(* A token changes hands by its owner's call, by that of an account that   *)
(* nft_is_approved knows, or back to the previous owner in a callback.     *)
MoveAllowed(t) ==
  \/ mover' = owner_by_id[t]
  \/ mover' # NoOne /\ nft_is_approved(t, mover', 0)
  \/ \E i \in Id : /\ calls[i] # NoCall /\ calls'[i] = NoCall
                  /\ calls[i].token = t /\ calls[i].must_revert
                  /\ calls[i].previous_owner = owner_by_id'[t]
                  /\ calls[i].receiver = owner_by_id[t]

Moves(t) == owner_by_id[t] # NoOne /\ owner_by_id'[t] # owner_by_id[t]
Revokes(t) ==
  owner_by_id'[t] = owner_by_id[t] /\ \E a \in Account : approvals_by_id[t][a] # 0 /\ approvals_by_id'[t][a] = 0

(* What happens to a token that is there is decided by its owner, by those *)
(* the token is approved to, or by the end of a transfer call, and an      *)
(* approval ends only with the owner's call or the token's move            *)
(* (core_impl.rs:216-242, 484-499; approval_impl.rs:79-127, 129-164).      *)
OwnerDecides ==
  [][\A t \in Token : (Moves(t) => MoveAllowed(t)) /\ (Revokes(t) => mover' = owner_by_id[t])]_vars

(* Whoever follows the events knows the owners, through tokens that are    *)
(* returned as well (core_impl.rs:251, 317-322, 512).                      *)
EventsTellOwners == told = owner_by_id

(* The deposits that the contract still has pay for all approvals, those   *)
(* included that a callback may restore, unless a receiver's approvals     *)
(* were paid back and left (utils.rs:11-49, core_impl.rs:504-511).         *)
DepositsCoverApprovals ==
  ~leftover => near >= Cardinality(UNION {{t} \X Given(t) : t \in Token})

(* "reset approvals to what previous owner had set before call to          *)
(* nft_transfer_call" (core_impl.rs:501-503): after a return the approvals *)
(* are those of the previous owner.                                        *)
ReturnsRestoreApprovals ==
  [][\A i \in Id :
       calls[i] # NoCall /\ calls'[i] = NoCall /\ owner_by_id' # owner_by_id
         => approvals_by_id'[calls[i].token] = calls[i].approvals]_vars
=============================================================================
