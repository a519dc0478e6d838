----------------------- MODULE NonFungibleToken_proofs -----------------------
(***************************************************************************)
(* Theorems about the non-fungible tokens of src/examples, for any finite  *)
(* set of accounts, any tokens and any number of transfer calls in flight: *)
(* the maps of owners stay inverse to each other, the events tell the      *)
(* owners, approval ids stay unique, the deposits pay for all approvals,   *)
(* and only owners and those they approve decide, but for the checks that  *)
(* the two examples leave out.                                             *)
(***************************************************************************)
EXTENDS NftContracts, FiniteSetTheorems, TLAPS

(* What is said of the owners: both maps, and what the events tell.        *)
Owners ==
  /\ owner_by_id \in [Token -> Account \cup {NoOne}]
  /\ tokens_per_owner \in [Account -> SUBSET Token]
  /\ told \in [Token -> Account \cup {NoOne}]
  /\ OwnersListed
  /\ EventsTellOwners

ApprovalTypes ==
  /\ approvals_by_id \in [Token -> [Account -> ApprovalId]]
  /\ next_approval_id_by_id \in [Token -> 1..MaxApprovals + 1]
  /\ calls \in [Id -> Call \cup {NoCall}]
  /\ \A i \in Id : calls[i] # NoCall => calls[i].previous_owner # calls[i].receiver

(* The account has the approval id, or had it when a transfer call began.  *)
Holds(t, a, n) ==
  /\ n # 0
  /\ \/ approvals_by_id[t][a] = n
     \/ \E i \in Id : calls[i] # NoCall /\ calls[i].token = t /\ calls[i].approvals[a] = n

Ids ==
  \A t \in Token, a, b \in Account, n \in ApprovalId :
    Holds(t, a, n) => n < next_approval_id_by_id[t] /\ (Holds(t, b, n) => a = b)

Rest ==
  /\ near \in Int
  /\ mover \in Account \cup {NoOne}
  /\ leftover \in BOOLEAN
  /\ \A t \in Token : owner_by_id[t] = NoOne => approvals_by_id[t] = Unapproved

IInv == Owners /\ ApprovalTypes /\ Ids /\ Rest

-----------------------------------------------------------------------------
(* The callback data of a transfer call.                                   *)
LEMMA CallFields ==
  ASSUME ApprovalTypes, NEW i \in Id, calls[i] # NoCall
  PROVE  /\ calls[i] \in Call
         /\ calls[i].stage \in {"receiver", "resolve"}
         /\ calls[i].previous_owner \in Account /\ calls[i].receiver \in Account
         /\ calls[i].token \in Token /\ calls[i].approvals \in [Account -> ApprovalId]
         /\ calls[i].previous_owner # calls[i].receiver
BY DEF ApprovalTypes, Call

LEMMA StagedIsCall ==
  ASSUME NEW i \in Id, calls[i].stage \in {"receiver", "resolve"}
  PROVE  calls[i] # NoCall
BY DEF NoCall

(* A set of pairs is as good as the predicate.                             *)
LEMMA GivenHolds ==
  ASSUME ApprovalTypes, NEW t \in Token, NEW g \in Given(t)
  PROVE  g[1] \in Account /\ g[2] \in ApprovalId /\ Holds(t, g[1], g[2])
<1>1. CASE \E a \in Approved(approvals_by_id[t]) : g = <<a, approvals_by_id[t][a]>>
  BY <1>1 DEF Holds, Approved, ApprovalTypes
<1>2. CASE \E i \in Id : /\ calls[i] # NoCall /\ calls[i].token = t
                        /\ \E a \in Approved(calls[i].approvals) : g = <<a, calls[i].approvals[a]>>
  BY <1>2, CallFields DEF Holds, Approved
<1> QED
  BY <1>1, <1>2 DEF Given

LEMMA IdsUnique == ASSUME ApprovalTypes, Ids PROVE ApprovalIdsUnique
BY GivenHolds DEF Ids, ApprovalIdsUnique

LEMMA ApprovedNumber ==
  ASSUME NEW f PROVE Cardinality(Approved(f)) \in Nat
BY FS_Subset, FS_CardinalityType, NFTAssumption DEF Approved

-----------------------------------------------------------------------------
(* Every way in which a token changes hands keeps the maps.                *)
LEMMA TransferKeepsOwners ==
  ASSUME Owners, NEW t \in Token, NEW from \in Account, NEW to \in Account,
         owner_by_id[t] = from,
         internal_transfer_unguarded(t, from, to), NftTransfer(t, from, to)
  PROVE  Owners'
<1>1. /\ owner_by_id' = [owner_by_id EXCEPT ![t] = to]
      /\ tokens_per_owner' = [tokens_per_owner EXCEPT ![from] = @ \ {t}, ![to] = @ \cup {t}]
      /\ told' = [told EXCEPT ![t] = IF @ = from THEN to ELSE NoOne]
  BY DEF internal_transfer_unguarded, NftTransfer
<1>2. told = owner_by_id
  BY DEF Owners, EventsTellOwners
<1>3. owner_by_id' \in [Token -> Account \cup {NoOne}] /\ told' = owner_by_id'
  BY <1>1, <1>2 DEF Owners
<1>4. ASSUME NEW a \in Account
      PROVE  tokens_per_owner'[a] =
               IF a = to THEN (IF a = from THEN tokens_per_owner[a] \ {t} ELSE tokens_per_owner[a]) \cup {t}
               ELSE IF a = from THEN tokens_per_owner[a] \ {t} ELSE tokens_per_owner[a]
  BY <1>1 DEF Owners
<1>5. tokens_per_owner' \in [Account -> SUBSET Token]
  BY <1>1 DEF Owners
<1>6. ASSUME NEW u \in Token, NEW a \in Account
      PROVE  u \in tokens_per_owner'[a] <=> owner_by_id'[u] = a
  <2>1. u \in tokens_per_owner[a] <=> owner_by_id[u] = a
    BY DEF Owners, OwnersListed
  <2>2. owner_by_id'[u] = IF u = t THEN to ELSE owner_by_id[u]
    BY <1>1 DEF Owners
  <2> QED
    BY <1>4, <2>1, <2>2
<1> QED
  BY <1>3, <1>5, <1>6 DEF Owners, OwnersListed, EventsTellOwners

LEMMA MintKeepsOwners ==
  ASSUME Owners, NEW t \in Token, NEW a \in Account, internal_mint(t, a)
  PROVE  Owners'
<1>1. /\ owner_by_id[t] = NoOne
      /\ owner_by_id' = [owner_by_id EXCEPT ![t] = a]
      /\ tokens_per_owner' = [tokens_per_owner EXCEPT ![a] = @ \cup {t}]
      /\ told' = [told EXCEPT ![t] = a]
  BY DEF internal_mint, NftMint
<1>2. owner_by_id' \in [Token -> Account \cup {NoOne}] /\ told' = owner_by_id'
  BY <1>1 DEF Owners, EventsTellOwners
<1>3. tokens_per_owner' \in [Account -> SUBSET Token]
  BY <1>1 DEF Owners
<1>4. ASSUME NEW u \in Token, NEW b \in Account
      PROVE  u \in tokens_per_owner'[b] <=> owner_by_id'[u] = b
  <2>1. u \in tokens_per_owner[b] <=> owner_by_id[u] = b
    BY DEF Owners, OwnersListed
  <2>2. tokens_per_owner'[b] = IF b = a THEN tokens_per_owner[b] \cup {t} ELSE tokens_per_owner[b]
    BY <1>1 DEF Owners
  <2>3. owner_by_id'[u] = IF u = t THEN a ELSE owner_by_id[u]
    BY <1>1 DEF Owners
  <2> QED
    BY <1>1, <2>1, <2>2, <2>3, NFTAssumption
<1> QED
  BY <1>2, <1>3, <1>4 DEF Owners, OwnersListed, EventsTellOwners

LEMMA OwnersStay == ASSUME Owners, UNCHANGED <<tokens, told>> PROVE Owners'
BY DEF Owners, OwnersListed, EventsTellOwners, tokens

(* A token with an owner that is an account.                               *)
LEMMA OwnedByAccount ==
  ASSUME Owners, NEW t \in Token, owner_by_id[t] # NoOne PROVE owner_by_id[t] \in Account
BY DEF Owners

-----------------------------------------------------------------------------
(* Steps that hand out no id keep what is known of the ids.                *)
LEMMA NoNewIds ==
  ASSUME ApprovalTypes, Ids, UNCHANGED next_approval_id_by_id,
         \A t \in Token, a \in Account, n \in ApprovalId : Holds(t, a, n)' => Holds(t, a, n)
  PROVE  Ids'
<1> SUFFICES ASSUME NEW t \in Token, NEW a \in Account, NEW b \in Account, NEW n \in ApprovalId,
                    Holds(t, a, n)'
             PROVE  n < next_approval_id_by_id[t]' /\ (Holds(t, b, n)' => a = b)
  BY DEF Ids
<1> QED
  BY DEF Ids

LEMMA Unapproving == Unapproved \in [Account -> ApprovalId] /\ \A a \in Account : Unapproved[a] = 0
BY NFTAssumption DEF Unapproved, ApprovalId

(* A token moves on somebody's call, of this function or that.             *)
Moved(t, to) ==
  /\ owner_by_id[t] \notin {NoOne, to}
  /\ internal_transfer_unguarded(t, owner_by_id[t], to)
  /\ NftTransfer(t, owner_by_id[t], to)
  /\ approvals_by_id' = [approvals_by_id EXCEPT ![t] = Unapproved]

LEMMA MovedStep ==
  ASSUME IInv, NEW t \in Token, NEW to \in Account, Moved(t, to),
         UNCHANGED <<next_approval_id_by_id, near, calls, leftover>>, mover' \in Account
  PROVE  IInv'
<1>1. Owners'
  BY OwnedByAccount, TransferKeepsOwners DEF IInv, Moved
<1>2. ApprovalTypes'
  BY Unapproving DEF IInv, Moved, ApprovalTypes
<1>3. Ids'
  <2> SUFFICES ASSUME NEW u \in Token, NEW a \in Account, NEW n \in ApprovalId, Holds(u, a, n)'
               PROVE  Holds(u, a, n)
    BY NoNewIds DEF IInv
  <2>1. approvals_by_id'[u] = IF u = t THEN Unapproved ELSE approvals_by_id[u]
    BY DEF IInv, Moved, ApprovalTypes
  <2> QED
    BY <2>1, Unapproving DEF Holds
<1>4. Rest'
  <2>1. \A u \in Token : owner_by_id'[u] = NoOne => approvals_by_id'[u] = Unapproved
    BY DEF IInv, Rest, Moved, internal_transfer_unguarded, ApprovalTypes, Owners
  <2> QED
    BY <2>1 DEF IInv, Rest
<1> QED
  BY <1>1, <1>2, <1>3, <1>4 DEF IInv

(* As above, and the approvals go to the callback.                         *)
LEMMA MovedCallStep ==
  ASSUME IInv, NEW i \in Id, NEW t \in Token, NEW to \in Account, Moved(t, to), calls[i] = NoCall,
         calls' = [calls EXCEPT ![i] =
           [stage |-> "receiver", previous_owner |-> owner_by_id[t], receiver |-> to, token |-> t,
            approvals |-> approvals_by_id[t], must_revert |-> TRUE]],
         UNCHANGED <<next_approval_id_by_id, near, leftover>>, mover' \in Account
  PROVE  IInv'
<1> DEFINE c == [stage |-> "receiver", previous_owner |-> owner_by_id[t], receiver |-> to, token |-> t,
                 approvals |-> approvals_by_id[t], must_revert |-> TRUE]
<1>1. Owners'
  BY OwnedByAccount, TransferKeepsOwners DEF IInv, Moved
<1>2. c \in Call
  BY OwnedByAccount DEF IInv, Moved, ApprovalTypes, Call
<1>3. ApprovalTypes'
  BY <1>2, Unapproving DEF IInv, Moved, ApprovalTypes
<1>4. Ids'
  <2> SUFFICES ASSUME NEW u \in Token, NEW a \in Account, NEW n \in ApprovalId, Holds(u, a, n)'
               PROVE  Holds(u, a, n)
    BY NoNewIds DEF IInv
  <2>1. approvals_by_id'[u] = IF u = t THEN Unapproved ELSE approvals_by_id[u]
    BY DEF IInv, Moved, ApprovalTypes
  <2>2. n # 0
    BY DEF Holds
  <2>3. CASE approvals_by_id'[u][a] = n
    BY <2>1, <2>2, <2>3, Unapproving DEF Holds
  <2>4. CASE \E j \in Id : calls'[j] # NoCall /\ calls'[j].token = u /\ calls'[j].approvals[a] = n
    <3>1. PICK j \in Id : calls'[j] # NoCall /\ calls'[j].token = u /\ calls'[j].approvals[a] = n
      BY <2>4
    <3>2. calls'[j] = IF j = i THEN c ELSE calls[j]
      BY DEF IInv, ApprovalTypes
    <3> QED
      BY <2>2, <3>1, <3>2 DEF Holds
  <2> QED
    BY <2>3, <2>4 DEF Holds
<1>5. Rest'
  <2>1. \A u \in Token : owner_by_id'[u] = NoOne => approvals_by_id'[u] = Unapproved
    BY DEF IInv, Rest, Moved, internal_transfer_unguarded, ApprovalTypes, Owners
  <2> QED
    BY <2>1 DEF IInv, Rest
<1> QED
  BY <1>1, <1>3, <1>4, <1>5 DEF IInv

LEMMA MintStep ==
  ASSUME IInv, NEW t \in Token, NEW a \in Account, internal_mint(t, a) PROVE IInv'
<1>1. Owners'
  BY MintKeepsOwners DEF IInv
<1>2. UNCHANGED <<approvals_by_id, next_approval_id_by_id, near, calls, leftover>> /\ mover' = NoOne
  BY DEF internal_mint, approvals
<1>3. ApprovalTypes' /\ Ids'
  BY <1>2 DEF IInv, ApprovalTypes, Ids, Holds
<1>4. \A u \in Token : owner_by_id'[u] = NoOne => owner_by_id[u] = NoOne
  BY DEF IInv, Owners, internal_mint
<1> QED
  BY <1>1, <1>2, <1>3, <1>4 DEF IInv, Rest

(* The receipts of a call that leave the token where it is.                *)
LEMMA OnTransferStep ==
  ASSUME IInv, NEW i \in Id, NEW b \in BOOLEAN, nft_on_transfer(i, b) PROVE IInv'
<1> DEFINE c == [calls[i] EXCEPT !.stage = "resolve", !.must_revert = b]
<1>1. UNCHANGED <<owner_by_id, tokens_per_owner, told, approvals_by_id, next_approval_id_by_id, near, leftover>>
      /\ mover' = NoOne
  BY DEF nft_on_transfer, tokens, approvals
<1>2. calls[i] \in Call /\ calls[i] # NoCall
  BY CallFields, StagedIsCall DEF nft_on_transfer, IInv
<1>3. calls' = [calls EXCEPT ![i] = c]
  BY <1>2 DEF nft_on_transfer, IInv, ApprovalTypes, Call
<1>4. /\ c \in Call /\ c.token = calls[i].token /\ c.approvals = calls[i].approvals
      /\ c.previous_owner = calls[i].previous_owner /\ c.receiver = calls[i].receiver
  BY <1>2 DEF Call
<1> HIDE DEF c
<1>5. Owners'
  BY <1>1, OwnersStay DEF IInv, tokens
<1>6. ApprovalTypes'
  BY <1>1, <1>2, <1>3, <1>4 DEF IInv, ApprovalTypes
<1>7. Ids'
  <2>1. ASSUME NEW j \in Id, calls'[j] # NoCall
        PROVE  calls[j] # NoCall /\ calls'[j].token = calls[j].token /\ calls'[j].approvals = calls[j].approvals
    BY <1>2, <1>3, <1>4, <2>1 DEF IInv, ApprovalTypes
  <2> QED
    BY <1>1, <2>1, NoNewIds DEF IInv, Holds
<1> QED
  BY <1>1, <1>5, <1>6, <1>7 DEF IInv, Rest

LEMMA KeptStep ==
  ASSUME IInv, NEW i \in Id, calls' = [calls EXCEPT ![i] = NoCall], mover' = NoOne,
         UNCHANGED <<tokens, approvals, told, leftover>>
  PROVE  IInv'
<1>1. UNCHANGED <<owner_by_id, tokens_per_owner, told, approvals_by_id, next_approval_id_by_id, near, leftover>>
  BY DEF tokens, approvals
<1>2. Owners'
  BY OwnersStay DEF IInv
<1>3. ApprovalTypes'
  BY <1>1 DEF IInv, ApprovalTypes
<1>4. Ids'
  <2>1. ASSUME NEW j \in Id, calls'[j] # NoCall PROVE calls'[j] = calls[j]
    BY <2>1 DEF IInv, ApprovalTypes
  <2> QED
    BY <1>1, <2>1, NoNewIds DEF IInv, Holds
<1> QED
  BY <1>1, <1>2, <1>3, <1>4 DEF IInv, Rest

(* A return: the previous owner's approvals come back, if there were any.  *)
Returned(i) ==
  LET c == calls[i]
      theirs == approvals_by_id[c.token]
  IN  /\ c.stage = "resolve"
      /\ c.must_revert /\ owner_by_id[c.token] = c.receiver
      /\ internal_transfer_unguarded(c.token, c.receiver, c.previous_owner)
      /\ NftTransfer(c.token, c.receiver, c.previous_owner)
      /\ approvals_by_id' =
           [approvals_by_id EXCEPT ![c.token] = IF c.approvals = Unapproved THEN @ ELSE c.approvals]
      /\ leftover' = (leftover \/ (c.approvals = Unapproved /\ theirs # Unapproved))
      /\ near' = Balance(leftover', near - Cardinality(Approved(theirs)))
      /\ calls' = [calls EXCEPT ![i] = NoCall]
      /\ mover' = NoOne
      /\ UNCHANGED next_approval_id_by_id

LEMMA ReturnedStep == ASSUME IInv, NEW i \in Id, Returned(i) PROVE IInv'
<1> DEFINE c == calls[i]
<1>1. c # NoCall /\ c \in Call /\ c.token \in Token /\ c.receiver \in Account
      /\ c.previous_owner \in Account /\ c.approvals \in [Account -> ApprovalId]
  BY CallFields, StagedIsCall DEF Returned, IInv
<1>2. /\ owner_by_id[c.token] = c.receiver
      /\ internal_transfer_unguarded(c.token, c.receiver, c.previous_owner)
      /\ NftTransfer(c.token, c.receiver, c.previous_owner)
      /\ approvals_by_id' =
           [approvals_by_id EXCEPT ![c.token] = IF c.approvals = Unapproved THEN @ ELSE c.approvals]
      /\ leftover' = (leftover \/ (c.approvals = Unapproved /\ approvals_by_id[c.token] # Unapproved))
      /\ near' = Balance(leftover', near - Cardinality(Approved(approvals_by_id[c.token])))
      /\ calls' = [calls EXCEPT ![i] = NoCall]
      /\ mover' = NoOne
      /\ UNCHANGED next_approval_id_by_id
  BY DEF Returned
<1>3. Owners'
  BY <1>1, <1>2, TransferKeepsOwners DEF IInv
<1>4. ASSUME NEW j \in Id, calls'[j] # NoCall PROVE calls'[j] = calls[j]
  BY <1>2, <1>4 DEF IInv, ApprovalTypes
<1>5. ApprovalTypes'
  BY <1>1, <1>2 DEF IInv, ApprovalTypes
<1>6. Ids'
  <2> SUFFICES ASSUME NEW u \in Token, NEW a \in Account, NEW n \in ApprovalId, Holds(u, a, n)'
               PROVE  Holds(u, a, n)
    BY <1>2, NoNewIds DEF IInv
  <2>1. approvals_by_id'[u] \in {approvals_by_id[u], c.approvals}
        /\ (u # c.token => approvals_by_id'[u] = approvals_by_id[u])
    BY <1>1, <1>2 DEF IInv, ApprovalTypes
  <2> QED
    BY <1>1, <1>4, <2>1 DEF Holds
<1>7. Rest'
  <2>1. near' \in Int
    BY <1>2, ApprovedNumber DEF IInv, Rest, Balance
  <2>2. leftover' \in BOOLEAN
    BY <1>2 DEF IInv, Rest
  <2>3. \A u \in Token : owner_by_id'[u] = NoOne => approvals_by_id'[u] = Unapproved
    BY <1>1, <1>2, NFTAssumption DEF IInv, Rest, Owners, ApprovalTypes, internal_transfer_unguarded
  <2> QED
    BY <1>2, <2>1, <2>2, <2>3 DEF Rest
<1> QED
  BY <1>3, <1>5, <1>6, <1>7 DEF IInv

-----------------------------------------------------------------------------
(* The owner's calls about approvals, of these functions or those of the   *)
(* example that copies them.                                               *)
LEMMA ApproveStep ==
  ASSUME IInv, NEW t \in Token, NEW a \in Account, owner_by_id[t] # NoOne,
         next_approval_id_by_id[t] <= MaxApprovals,
         approvals_by_id' = [approvals_by_id EXCEPT ![t] = [@ EXCEPT ![a] = next_approval_id_by_id[t]]],
         next_approval_id_by_id' = [next_approval_id_by_id EXCEPT ![t] = @ + 1],
         near' \in Int, mover' = NoOne,
         UNCHANGED <<tokens, calls, told, leftover>>
  PROVE  IInv'
<1> DEFINE n == next_approval_id_by_id[t]
<1>1. n \in 1..MaxApprovals /\ n \in ApprovalId /\ n + 1 \in 1..MaxApprovals + 1
  BY NFTAssumption DEF IInv, ApprovalTypes, ApprovalId
<1>2. ASSUME NEW u \in Token, NEW b \in Account
      PROVE  approvals_by_id'[u][b] = IF u = t /\ b = a THEN n ELSE approvals_by_id[u][b]
  BY DEF IInv, ApprovalTypes
<1>3. \A u \in Token : next_approval_id_by_id'[u] = IF u = t THEN n + 1 ELSE next_approval_id_by_id[u]
  BY DEF IInv, ApprovalTypes
<1>4. Owners'
  BY OwnersStay DEF IInv
<1>5. ApprovalTypes'
  BY <1>1 DEF IInv, ApprovalTypes
<1>6. Ids'
  <2>1. ASSUME NEW u \in Token, NEW b \in Account, NEW k \in ApprovalId, Holds(u, b, k)'
        PROVE  Holds(u, b, k) \/ (u = t /\ b = a /\ k = n)
    BY <1>2, <2>1 DEF Holds
  <2> SUFFICES ASSUME NEW u \in Token, NEW b \in Account, NEW d \in Account, NEW k \in ApprovalId,
                      Holds(u, b, k)'
               PROVE  k < next_approval_id_by_id'[u] /\ (Holds(u, d, k)' => b = d)
    BY DEF Ids
  <2>2. \A x \in Account : Holds(u, x, k) => k < next_approval_id_by_id[u]
    BY DEF IInv, Ids
  <2>3. Holds(u, b, k) /\ Holds(u, d, k) => b = d
    BY DEF IInv, Ids
  <2>4. k \in Int /\ n \in Int /\ next_approval_id_by_id[u] \in Int
    BY <1>1 DEF IInv, ApprovalTypes, ApprovalId
  <2>5. k < next_approval_id_by_id'[u]
    BY <1>3, <2>1, <2>2, <2>4
  <2>6. Holds(u, d, k)' => b = d
    BY <2>1, <2>2, <2>3, <2>4
  <2> QED
    BY <2>5, <2>6
<1>7. Rest'
  BY <1>1 DEF IInv, Rest, tokens, ApprovalTypes
<1> QED
  BY <1>4, <1>5, <1>6, <1>7 DEF IInv

(* Approvals of a token that is there end, one or all of them.             *)
LEMMA RevokeStep ==
  ASSUME IInv, NEW t \in Token, NEW f \in [Account -> ApprovalId],
         \A a \in Account : f[a] \in {0, approvals_by_id[t][a]},
         owner_by_id[t] # NoOne \/ f = Unapproved,
         approvals_by_id' = [approvals_by_id EXCEPT ![t] = f],
         near' \in Int, mover' \in Account,
         UNCHANGED <<tokens, next_approval_id_by_id, calls, told, leftover>>
  PROVE  IInv'
<1>1. Owners'
  BY OwnersStay DEF IInv
<1>2. ApprovalTypes'
  BY DEF IInv, ApprovalTypes
<1>3. Ids'
  <2>1. \A u \in Token, a \in Account : approvals_by_id'[u][a] \in {0, approvals_by_id[u][a]}
    BY DEF IInv, ApprovalTypes
  <2> QED
    BY <2>1, NoNewIds DEF IInv, Holds
<1>4. Rest'
  BY DEF IInv, Rest, tokens, ApprovalTypes
<1> QED
  BY <1>1, <1>2, <1>3, <1>4 DEF IInv

LEMMA RevokeOneStep ==
  ASSUME IInv, NEW s \in Account, NEW t \in Token, NEW a \in Account, owner_by_id[t] # NoOne,
         approvals_by_id' = [approvals_by_id EXCEPT ![t] = [@ EXCEPT ![a] = 0]],
         near' \in Int, mover' = s,
         UNCHANGED <<tokens, next_approval_id_by_id, calls, told, leftover>>
  PROVE  IInv'
<1> DEFINE f == [approvals_by_id[t] EXCEPT ![a] = 0]
<1>1. f \in [Account -> ApprovalId] /\ \A b \in Account : f[b] \in {0, approvals_by_id[t][b]}
  BY NFTAssumption DEF IInv, ApprovalTypes, ApprovalId
<1>2. approvals_by_id' = [approvals_by_id EXCEPT ![t] = f]
  BY DEF IInv, ApprovalTypes
<1> HIDE DEF f
<1> QED
  BY <1>1, <1>2, RevokeStep

LEMMA RevokeAllStep ==
  ASSUME IInv, NEW s \in Account, NEW t \in Token,
         approvals_by_id' = [approvals_by_id EXCEPT ![t] = Unapproved],
         near' \in Int, mover' = s,
         UNCHANGED <<tokens, next_approval_id_by_id, calls, told, leftover>>
  PROVE  IInv'
<1>1. PICK f \in [Account -> ApprovalId] : f = Unapproved
  BY Unapproving
<1>2. \A a \in Account : f[a] \in {0, approvals_by_id[t][a]}
  BY <1>1, Unapproving
<1> QED
  BY <1>1, <1>2, RevokeStep

-----------------------------------------------------------------------------
(* The actions, as what the lemmas above speak of.                         *)
LEMMA Handlings ==
  ASSUME IInv, Handlers PROVE IInv'
<1> USE NFTAssumption
<1>1. ASSUME NEW t \in Token, NEW a \in Account, internal_mint(t, a) PROVE IInv'
  BY <1>1, MintStep
<1>2. ASSUME NEW s \in Account, NEW r \in Account, NEW t \in Token, NEW given \in ApprovalId,
             nft_transfer(s, r, t, given)
      PROVE  IInv'
  <2>1. Moved(t, r) /\ mover' \in Account /\ UNCHANGED <<next_approval_id_by_id, near, calls, leftover>>
    BY <1>2 DEF nft_transfer, internal_transfer, Moved
  <2> QED
    BY <2>1, MovedStep
<1>3. ASSUME NEW s \in Account, NEW r \in Account, NEW t \in Token, NEW given \in ApprovalId, NEW i \in Id,
             nft_transfer_call(i, s, r, t, given)
      PROVE  IInv'
  <2>1. Moved(t, r) /\ mover' \in Account /\ UNCHANGED <<next_approval_id_by_id, near, leftover>>
    BY <1>3 DEF nft_transfer_call, internal_transfer, Moved
  <2> QED
    BY <1>3, <2>1, MovedCallStep DEF nft_transfer_call
<1>4. ASSUME NEW s \in Account, NEW t \in Token, NEW a \in Account, nft_approve(s, t, a) PROVE IInv'
  <2>1. near' \in Int
    BY <1>4 DEF nft_approve, Balance, IInv, Rest
  <2> QED
    BY <1>4, <2>1, ApproveStep DEF nft_approve
<1>5. ASSUME NEW s \in Account, NEW t \in Token, NEW a \in Account, nft_revoke(s, t, a) PROVE IInv'
  <2>1. near' \in Int
    BY <1>5 DEF nft_revoke, Balance, IInv, Rest
  <2> QED
    BY <1>5, <2>1, RevokeOneStep DEF nft_revoke
<1>6. ASSUME NEW s \in Account, NEW t \in Token, nft_revoke_all(s, t) PROVE IInv'
  <2>1. near' \in Int
    BY <1>6, ApprovedNumber DEF nft_revoke_all, Balance, IInv, Rest
  <2> QED
    BY <1>6, <2>1, RevokeAllStep DEF nft_revoke_all
<1> QED
  BY <1>1, <1>2, <1>3, <1>4, <1>5, <1>6 DEF Handlers

LEMMA Receiving ==
  ASSUME IInv, NEW i \in Id, Receipts(i) PROVE IInv'
<1>1. ASSUME NEW b \in BOOLEAN, nft_on_transfer(i, b) PROVE IInv'
  BY <1>1, OnTransferStep
<1>2. ASSUME nft_resolve_transferKept(i) PROVE IInv'
  BY <1>2, KeptStep DEF nft_resolve_transferKept
<1>3. ASSUME nft_resolve_transferReverted(i) PROVE IInv'
  <2>1. Returned(i)
    BY <1>3 DEF nft_resolve_transferReverted, Returned
  <2> QED
    BY <2>1, ReturnedStep
<1> QED
  BY <1>1, <1>2, <1>3 DEF Receipts

LEMMA ApprovalCheckSteps == ASSUME IInv, nac_Next PROVE IInv'
<1>1. ASSUME NEW s \in Account, NEW r \in Account, NEW t \in Token, NEW given \in ApprovalId,
             nac_internal_transfer_unsafe(s, r, t, given)
      PROVE  Moved(t, r)
  BY <1>1 DEF nac_internal_transfer_unsafe, nac_internal_transfer_unguarded, internal_transfer_unguarded, Moved
<1>2. ASSUME NEW s \in Account, NEW r \in Account, NEW t \in Token, NEW given \in ApprovalId,
             nac_nft_transfer(s, r, t, given)
      PROVE  IInv'
  BY <1>1, <1>2, MovedStep DEF nac_nft_transfer
<1>3. ASSUME NEW s \in Account, NEW r \in Account, NEW t \in Token, NEW given \in ApprovalId, NEW i \in Id,
             nac_nft_transfer_call(i, s, r, t, given)
      PROVE  IInv'
  BY <1>1, <1>3, MovedCallStep DEF nac_nft_transfer_call, nac_internal_transfer
<1>4. ASSUME NEW i \in Id, nac_nft_resolve_transfer(i) PROVE IInv'
  <2>1. CASE calls[i].must_revert /\ owner_by_id[calls[i].token] = calls[i].receiver
    <3>1. Returned(i)
      BY <1>4, <2>1 DEF nac_nft_resolve_transfer, Returned, nac_internal_transfer_unguarded,
                        internal_transfer_unguarded
    <3> QED
      BY <3>1, ReturnedStep
  <2>2. CASE ~(calls[i].must_revert /\ owner_by_id[calls[i].token] = calls[i].receiver)
    BY <1>4, <2>2, KeptStep DEF nac_nft_resolve_transfer
  <2> QED
    BY <2>1, <2>2
<1>5. ASSUME NEW i \in Id, NEW b \in BOOLEAN, nft_on_transfer(i, b) PROVE IInv'
  BY <1>5, OnTransferStep
<1> QED
  BY <1>2, <1>3, <1>4, <1>5 DEF nac_Next

LEMMA OwnerCheckSteps == ASSUME IInv, noc_Next PROVE IInv'
<1> USE NFTAssumption
<1>1. ASSUME NEW s \in Account, NEW t \in Token, NEW a \in Account, noc_nft_approve(s, t, a) PROVE IInv'
  <2>1. near' \in Int
    BY <1>1 DEF noc_nft_approve, IInv, Rest
  <2> QED
    BY <1>1, <2>1, ApproveStep DEF noc_nft_approve
<1>2. ASSUME NEW s \in Account, NEW t \in Token, NEW a \in Account, noc_nft_revoke(s, t, a) PROVE IInv'
  <2>1. near' \in Int
    BY <1>2 DEF noc_nft_revoke, IInv, Rest
  <2> QED
    BY <1>2, <2>1, RevokeOneStep DEF noc_nft_revoke
<1>3. ASSUME NEW s \in Account, NEW t \in Token, noc_nft_revoke_all(s, t) PROVE IInv'
  <2>1. near' \in Int
    BY <1>3, ApprovedNumber DEF noc_nft_revoke_all, IInv, Rest
  <2> QED
    BY <1>3, <2>1, RevokeAllStep DEF noc_nft_revoke_all
<1> QED
  BY <1>1, <1>2, <1>3 DEF noc_Next

-----------------------------------------------------------------------------
LEMMA InitInv == Init => IInv
<1> SUFFICES ASSUME Init PROVE IInv
  OBVIOUS
<1>1. Owners
  BY NFTAssumption DEF Init, Owners, OwnersListed, EventsTellOwners
<1>2. ApprovalTypes
  BY Unapproving, NFTAssumption DEF Init, ApprovalTypes
<1>3. \A t \in Token, a \in Account, n \in ApprovalId : ~Holds(t, a, n)
  BY Unapproving DEF Init, Holds
<1>4. Rest
  <2>1. \A t \in Token : approvals_by_id[t] = Unapproved
    BY DEF Init
  <2>2. near \in Int /\ mover = NoOne
    BY DEF Init
  <2>3. leftover \in BOOLEAN
    BY DEF Init
  <2> QED
    BY <2>1, <2>2, <2>3 DEF Rest
<1> QED
  BY <1>1, <1>2, <1>3, <1>4 DEF IInv, Ids

(* Where the examples start, approval ids may have been given out already. *)
LEMMA StockedInv ==
  ASSUME NEW owner \in [Token -> Account], NEW approved \in Account,
         Stocked(owner, approved)
  PROVE  IInv
<1> USE NFTAssumption, ContractsAssumption DEF Stocked
<1>1. Owners
  BY DEF Owners, OwnersListed, EventsTellOwners
<1>2. ApprovalTypes
  BY DEF ApprovalTypes, ApprovalId
<1>3. \A t \in Token, a \in Account, n \in ApprovalId : Holds(t, a, n) => n = 1 /\ a = approved
  BY DEF Holds
<1>4. Ids
  BY <1>3 DEF Ids
<1>5. Rest
  <2>1. \A t \in Token : owner_by_id[t] # NoOne
    OBVIOUS
  <2>2. near \in Int /\ mover = NoOne
    BY FS_CardinalityType
  <2>3. leftover \in BOOLEAN
    OBVIOUS
  <2> QED
    BY <2>1, <2>2, <2>3 DEF Rest
<1> QED
  BY <1>1, <1>2, <1>4, <1>5 DEF IInv

LEMMA ContractStep == IInv /\ [ContractNext]_allvars => IInv'
<1> SUFFICES ASSUME IInv, [ContractNext]_allvars PROVE IInv'
  OBVIOUS
<1>1. CASE Next
  BY <1>1, Handlings, Receiving DEF Next
<1>2. CASE nac_Next
  BY <1>2, ApprovalCheckSteps
<1>3. CASE noc_Next
  BY <1>3, OwnerCheckSteps
<1>4. CASE UNCHANGED allvars
  BY <1>4 DEF allvars, vars, tokens, approvals, IInv, Owners, OwnersListed, EventsTellOwners,
              ApprovalTypes, Ids, Holds, Rest
<1> QED
  BY <1>1, <1>2, <1>3, <1>4 DEF ContractNext

(* The owners of NonFungibleToken on its own.                              *)
LEMMA TokenStep == IInv /\ [Next]_vars => IInv'
<1> SUFFICES ASSUME IInv, [Next]_vars PROVE IInv'
  OBVIOUS
<1>1. CASE Next
  BY <1>1, Handlings, Receiving DEF Next
<1>2. CASE UNCHANGED vars
  BY <1>2 DEF vars, tokens, approvals, IInv, Owners, OwnersListed, EventsTellOwners,
              ApprovalTypes, Ids, Holds, Rest
<1> QED
  BY <1>1, <1>2

LEMMA IInvImplies ==
  IInv => TypeOK /\ OwnersListed /\ EventsTellOwners /\ ApprovalIdsUnique
BY IdsUnique DEF IInv, Owners, ApprovalTypes, Rest, TypeOK

LEMMA ContractInitInv == ContractInit => IInv
BY InitInv, StockedInv DEF ContractInit

(* In every reachable state of the three contracts the maps are well       *)
(* formed, and a token that is not there is approved to nobody             *)
(* (core_impl.rs:31-50).                                                   *)
THEOREM TypeCorrect == ContractSpec => []TypeOK
BY ContractInitInv, ContractStep, IInvImplies, PTL DEF ContractSpec

(* owner_by_id and tokens_per_owner are inverse to each other, whatever    *)
(* calls return tokens in between (core_impl.rs:161-191, 499).             *)
THEOREM OwnersAreListed == ContractSpec => []OwnersListed
BY ContractInitInv, ContractStep, IInvImplies, PTL DEF ContractSpec

(* The events tell the owners (core_impl.rs:251, 317-322, 512).            *)
THEOREM EventsTell == ContractSpec => []EventsTellOwners
BY ContractInitInv, ContractStep, IInvImplies, PTL DEF ContractSpec

(* No approval id stands for two accounts, nor comes again, though those   *)
(* of a returned token come back (approval_impl.rs:43-53).                 *)
THEOREM IdsStayUnique == ContractSpec => []ApprovalIdsUnique
BY ContractInitInv, ContractStep, IInvImplies, PTL DEF ContractSpec

-----------------------------------------------------------------------------
(* Who decides, action by action.                                          *)
Decides(t) == (Moves(t) => MoveAllowed(t)) /\ (Revokes(t) => mover' = owner_by_id[t])

LEMMA StillDecides ==
  ASSUME UNCHANGED <<owner_by_id, approvals_by_id>>, NEW t \in Token PROVE Decides(t)
BY DEF Decides, Moves, Revokes

LEMMA MovedTouches ==
  ASSUME IInv, NEW t \in Token, NEW to \in Account, Moved(t, to), NEW u \in Token
  PROVE  ~Revokes(u) /\ (Moves(u) => u = t)
<1>1. owner_by_id' = [owner_by_id EXCEPT ![t] = to] /\ approvals_by_id' = [approvals_by_id EXCEPT ![t] = Unapproved]
      /\ owner_by_id[t] # to
  BY DEF Moved, internal_transfer_unguarded
<1> QED
  BY <1>1 DEF IInv, Owners, ApprovalTypes, Revokes, Moves

LEMMA AuthorisedMayMove ==
  ASSUME IInv, NEW s \in Account, NEW t \in Token, NEW given \in ApprovalId,
         owner_by_id[t] # NoOne, Authorised(s, t, given), mover' = s
  PROVE  MoveAllowed(t)
BY NFTAssumption DEF Authorised, MoveAllowed, nft_is_approved

LEMMA MintDecides ==
  ASSUME IInv, NEW t \in Token, NEW a \in Account, internal_mint(t, a), NEW u \in Token PROVE Decides(u)
<1>1. owner_by_id' = [owner_by_id EXCEPT ![t] = a] /\ owner_by_id[t] = NoOne /\ UNCHANGED approvals_by_id
  BY DEF internal_mint, approvals
<1> QED
  BY <1>1 DEF IInv, Owners, Decides, Moves, Revokes

LEMMA ReturnDecides ==
  ASSUME IInv, NEW i \in Id, Returned(i), NEW u \in Token PROVE Decides(u)
<1> DEFINE c == calls[i]
<1>1. c # NoCall /\ c.token \in Token /\ c.previous_owner # c.receiver
  BY CallFields, StagedIsCall DEF Returned, IInv
<1>2. /\ owner_by_id[c.token] = c.receiver /\ c.must_revert
      /\ owner_by_id' = [owner_by_id EXCEPT ![c.token] = c.previous_owner]
      /\ approvals_by_id' =
           [approvals_by_id EXCEPT ![c.token] = IF c.approvals = Unapproved THEN @ ELSE c.approvals]
      /\ calls' = [calls EXCEPT ![i] = NoCall]
  BY DEF Returned, internal_transfer_unguarded
<1>3. owner_by_id'[c.token] = c.previous_owner /\ calls'[i] = NoCall
  BY <1>1, <1>2 DEF IInv, Owners, ApprovalTypes
<1>4. CASE u = c.token
  BY <1>1, <1>2, <1>3, <1>4 DEF Decides, Moves, Revokes, MoveAllowed
<1>5. CASE u # c.token
  BY <1>1, <1>2, <1>5 DEF IInv, Owners, ApprovalTypes, Decides, Moves, Revokes
<1> QED
  BY <1>4, <1>5

(* A call about approvals moves nothing; it is the owner's when it ends    *)
(* some.                                                                   *)
LEMMA ApproveDecides ==
  ASSUME IInv, NEW t \in Token, NEW a \in Account, UNCHANGED tokens,
         approvals_by_id' = [approvals_by_id EXCEPT ![t] = [@ EXCEPT ![a] = next_approval_id_by_id[t]]],
         NEW u \in Token
  PROVE  Decides(u)
<1>1. next_approval_id_by_id[t] # 0
  BY DEF IInv, ApprovalTypes
<1>2. \A b \in Account : approvals_by_id[u][b] # 0 => approvals_by_id'[u][b] # 0
  BY <1>1 DEF IInv, ApprovalTypes
<1> QED
  BY <1>2 DEF Decides, Moves, Revokes, tokens

LEMMA OwnersCallDecides ==
  ASSUME IInv, NEW t \in Token, NEW f, UNCHANGED tokens, mover' = owner_by_id[t],
         approvals_by_id' = [approvals_by_id EXCEPT ![t] = f],
         NEW u \in Token
  PROVE  Decides(u)
BY DEF IInv, ApprovalTypes, Decides, Moves, Revokes, tokens

LEMMA HandlersDecide ==
  ASSUME IInv, Handlers, NEW u \in Token PROVE Decides(u)
<1>1. ASSUME NEW t \in Token, NEW a \in Account, internal_mint(t, a) PROVE Decides(u)
  BY <1>1, MintDecides
<1>2. ASSUME NEW s \in Account, NEW r \in Account, NEW t \in Token, NEW given \in ApprovalId,
             internal_transfer(s, r, t, given), mover' = s
      PROVE  Decides(u)
  <2>1. Moved(t, r) /\ owner_by_id[t] # NoOne /\ Authorised(s, t, given)
    BY <1>2 DEF internal_transfer, Moved
  <2> QED
    BY <1>2, <2>1, MovedTouches, AuthorisedMayMove DEF Decides
<1>3. ASSUME NEW s \in Account, NEW t \in Token, NEW a \in Account, nft_approve(s, t, a) PROVE Decides(u)
  BY <1>3, ApproveDecides DEF nft_approve
<1>4. ASSUME NEW s \in Account, NEW t \in Token, NEW a \in Account, nft_revoke(s, t, a) PROVE Decides(u)
  BY <1>4, OwnersCallDecides DEF nft_revoke
<1>5. ASSUME NEW s \in Account, NEW t \in Token, nft_revoke_all(s, t) PROVE Decides(u)
  BY <1>5, OwnersCallDecides DEF nft_revoke_all
<1> QED
  BY <1>1, <1>2, <1>3, <1>4, <1>5 DEF Handlers, nft_transfer, nft_transfer_call

LEMMA ReceiptsDecide ==
  ASSUME IInv, NEW i \in Id, Receipts(i), NEW u \in Token PROVE Decides(u)
<1>1. ASSUME NEW b \in BOOLEAN, nft_on_transfer(i, b) PROVE Decides(u)
  BY <1>1, StillDecides DEF nft_on_transfer, tokens, approvals
<1>2. ASSUME nft_resolve_transferKept(i) PROVE Decides(u)
  BY <1>2, StillDecides DEF nft_resolve_transferKept, tokens, approvals
<1>3. ASSUME nft_resolve_transferReverted(i) PROVE Decides(u)
  <2>1. Returned(i)
    BY <1>3 DEF nft_resolve_transferReverted, Returned
  <2> QED
    BY <2>1, ReturnDecides
<1> QED
  BY <1>1, <1>2, <1>3 DEF Receipts

(* The complete token of nep-interface: nobody else moves a token or ends  *)
(* an approval (core_impl.rs:216-242, 484-499, approval_impl.rs:79-127).   *)
THEOREM OnlyOwnersDecide == Spec => OwnerDecides
<1>1. ASSUME IInv, [Next]_vars
      PROVE  [\A t \in Token : (Moves(t) => MoveAllowed(t)) /\ (Revokes(t) => mover' = owner_by_id[t])]_vars
  BY <1>1, HandlersDecide, ReceiptsDecide DEF Next, Decides
<1> QED
  BY <1>1, InitInv, TokenStep, PTL DEF Spec, OwnerDecides

LEMMA ApprovalCheckDecides ==
  ASSUME IInv, nac_Next, NEW u \in Token PROVE Decides(u) \/ (~Revokes(u) /\ calls' = calls)
<1>1. ASSUME NEW s \in Account, NEW r \in Account, NEW t \in Token, NEW given \in ApprovalId,
             nac_internal_transfer_unsafe(s, r, t, given)
      PROVE  Moved(t, r) /\ owner_by_id[t] # NoOne
  BY <1>1 DEF nac_internal_transfer_unsafe, nac_internal_transfer_unguarded, internal_transfer_unguarded, Moved
<1>2. ASSUME NEW s \in Account, NEW r \in Account, NEW t \in Token, NEW given \in ApprovalId,
             nac_nft_transfer(s, r, t, given)
      PROVE  ~Revokes(u) /\ calls' = calls
  BY <1>1, <1>2, MovedTouches DEF nac_nft_transfer
<1>3. ASSUME NEW s \in Account, NEW r \in Account, NEW t \in Token, NEW given \in ApprovalId, NEW i \in Id,
             nac_nft_transfer_call(i, s, r, t, given)
      PROVE  Decides(u)
  <2>1. Moved(t, r) /\ owner_by_id[t] # NoOne /\ Authorised(s, t, given) /\ mover' = s
    BY <1>1, <1>3 DEF nac_nft_transfer_call, nac_internal_transfer
  <2> QED
    BY <2>1, MovedTouches, AuthorisedMayMove DEF Decides
<1>4. ASSUME NEW i \in Id, nac_nft_resolve_transfer(i) PROVE Decides(u)
  <2>1. CASE calls[i].must_revert /\ owner_by_id[calls[i].token] = calls[i].receiver
    <3>1. Returned(i)
      BY <1>4, <2>1 DEF nac_nft_resolve_transfer, Returned, nac_internal_transfer_unguarded,
                        internal_transfer_unguarded
    <3> QED
      BY <3>1, ReturnDecides
  <2>2. CASE ~(calls[i].must_revert /\ owner_by_id[calls[i].token] = calls[i].receiver)
    BY <1>4, <2>2, StillDecides DEF nac_nft_resolve_transfer, tokens, approvals
  <2> QED
    BY <2>1, <2>2
<1>5. ASSUME NEW i \in Id, NEW b \in BOOLEAN, nft_on_transfer(i, b) PROVE Decides(u)
  BY <1>5, StillDecides DEF nft_on_transfer, tokens, approvals
<1> QED
  BY <1>2, <1>3, <1>4, <1>5 DEF nac_Next

LEMMA OwnerCheckDecides ==
  ASSUME IInv, noc_Next, NEW u \in Token
  PROVE  Decides(u) \/ (~Moves(u) /\ (Revokes(u) => approvals_by_id'[u] = Unapproved))
<1>1. ASSUME NEW s \in Account, NEW t \in Token, NEW a \in Account, noc_nft_approve(s, t, a) PROVE Decides(u)
  BY <1>1, ApproveDecides DEF noc_nft_approve
<1>2. ASSUME NEW s \in Account, NEW t \in Token, NEW a \in Account, noc_nft_revoke(s, t, a) PROVE Decides(u)
  BY <1>2, OwnersCallDecides DEF noc_nft_revoke
<1>3. ASSUME NEW s \in Account, NEW t \in Token, noc_nft_revoke_all(s, t)
      PROVE  ~Moves(u) /\ (Revokes(u) => approvals_by_id'[u] = Unapproved)
  <2>1. UNCHANGED tokens /\ approvals_by_id' = [approvals_by_id EXCEPT ![t] = Unapproved]
    BY <1>3 DEF noc_nft_revoke_all
  <2> QED
    BY <2>1 DEF IInv, ApprovalTypes, Moves, Revokes, tokens
<1> QED
  BY <1>1, <1>2, <1>3 DEF noc_Next

(* Of the three contracts only nft-approval-check moves a token on         *)
(* anyone's call, by nft_transfer alone, and only nft-owner-check ends     *)
(* approvals on anyone's call, and then all of a token's (nft-approval-    *)
(* check/src/lib.rs:102-112, 276-281; nft-owner-check/src/lib.rs:171-189). *)
THEOREM OnlyOwnersDecideElsewhere == ContractSpec => OwnerDecidesElsewhere
<1> DEFINE Allowed(t) ==
      /\ Moves(t) => MoveAllowed(t) \/ (contract = "nft-approval-check" /\ calls' = calls)
      /\ Revokes(t) => \/ mover' = owner_by_id[t]
                       \/ contract = "nft-owner-check" /\ approvals_by_id'[t] = Unapproved
<1>1. ASSUME IInv, ContractNext, NEW t \in Token PROVE Allowed(t)
  <2>1. CASE Next
    BY <1>1, <2>1, HandlersDecide, ReceiptsDecide DEF Next, Decides
  <2>2. CASE contract = "nft-approval-check" /\ nac_Next
    BY <1>1, <2>2, ApprovalCheckDecides DEF Decides
  <2>3. CASE contract = "nft-owner-check" /\ noc_Next
    BY <1>1, <2>3, OwnerCheckDecides DEF Decides
  <2> QED
    BY <1>1, <2>1, <2>2, <2>3 DEF ContractNext
<1>2. IInv /\ [ContractNext]_allvars => [\A t \in Token : Allowed(t)]_allvars
  BY <1>1
<1> QED
  BY <1>2, ContractInitInv, ContractStep, PTL DEF ContractSpec, OwnerDecidesElsewhere

-----------------------------------------------------------------------------
(* The deposits.  An approval that waits in a call for its return is       *)
(* neither in the map nor in another call: what is paid back for the map's *)
(* approvals of a token is never what another place still has.             *)
Waits(i, t, a, n) ==
  n # 0 /\ calls[i] # NoCall /\ calls[i].token = t /\ calls[i].approvals[a] = n

Apart ==
  \A t \in Token, a \in Account, n \in ApprovalId, i \in Id :
    Waits(i, t, a, n) => approvals_by_id[t][a] # n /\ \A j \in Id : Waits(j, t, a, n) => i = j

LEMMA HoldsOrWaits ==
  \A t, a, n : Holds(t, a, n) <=> n # 0 /\ (approvals_by_id[t][a] = n \/ \E i \in Id : Waits(i, t, a, n))
BY DEF Holds, Waits

(* Calls end or go on, and approvals end.                                  *)
LEMMA ApartStays ==
  ASSUME Apart,
         \A i \in Id : calls'[i] # NoCall => /\ calls[i] # NoCall /\ calls'[i].token = calls[i].token
                                            /\ calls'[i].approvals = calls[i].approvals,
         \A t \in Token, a \in Account : approvals_by_id'[t][a] \in {0, approvals_by_id[t][a]}
  PROVE  Apart'
<1>1. \A t \in Token, a \in Account, n \in ApprovalId, i \in Id : Waits(i, t, a, n)' => Waits(i, t, a, n) /\ n # 0
  BY DEF Waits
<1> QED
  BY <1>1 DEF Apart

LEMMA ApartMovedCall ==
  ASSUME IInv, Apart, NEW i \in Id, NEW t \in Token, NEW c, calls[i] = NoCall,
         c # NoCall, c.token = t, c.approvals = approvals_by_id[t],
         calls' = [calls EXCEPT ![i] = c],
         approvals_by_id' = [approvals_by_id EXCEPT ![t] = Unapproved]
  PROVE  Apart'
<1>1. ASSUME NEW u \in Token, NEW a \in Account, NEW n \in ApprovalId, NEW j \in Id, Waits(j, u, a, n)'
      PROVE  /\ n # 0
             /\ IF j = i THEN u = t /\ approvals_by_id[t][a] = n ELSE Waits(j, u, a, n)
  BY <1>1 DEF IInv, ApprovalTypes, Waits
<1>2. \A u \in Token, a \in Account : approvals_by_id'[u][a] = IF u = t THEN 0 ELSE approvals_by_id[u][a]
  BY Unapproving DEF IInv, ApprovalTypes
<1>3. ASSUME NEW u \in Token, NEW a \in Account, NEW n \in ApprovalId, NEW j \in Id, Waits(j, u, a, n)'
      PROVE  approvals_by_id'[u][a] # n
  BY <1>1, <1>2, <1>3 DEF Apart
<1>4. ASSUME NEW u \in Token, NEW a \in Account, NEW n \in ApprovalId, NEW j \in Id, NEW k \in Id,
             Waits(j, u, a, n)', Waits(k, u, a, n)'
      PROVE  j = k
  BY <1>1, <1>4 DEF Apart
<1> QED
  BY <1>3, <1>4 DEF Apart

LEMMA ApartApprove ==
  ASSUME IInv, Apart, NEW t \in Token, NEW a \in Account,
         approvals_by_id' = [approvals_by_id EXCEPT ![t] = [@ EXCEPT ![a] = next_approval_id_by_id[t]]],
         UNCHANGED calls
  PROVE  Apart'
<1>1. ASSUME NEW u \in Token, NEW b \in Account
      PROVE  approvals_by_id'[u][b] =
               IF u = t /\ b = a THEN next_approval_id_by_id[t] ELSE approvals_by_id[u][b]
  BY DEF IInv, ApprovalTypes
<1>2. \A u \in Token, b \in Account, n \in ApprovalId, j \in Id : Waits(j, u, b, n)' <=> Waits(j, u, b, n)
  BY DEF Waits
<1>3. ASSUME NEW b \in Account, NEW n \in ApprovalId, NEW j \in Id, Waits(j, t, b, n)
      PROVE  n # next_approval_id_by_id[t]
  <2>1. n < next_approval_id_by_id[t]
    BY <1>3, HoldsOrWaits DEF IInv, Ids, Waits
  <2> QED
    BY <2>1 DEF IInv, ApprovalTypes, ApprovalId
<1> QED
  BY <1>1, <1>2, <1>3 DEF Apart

LEMMA ApartReturned ==
  ASSUME IInv, Apart, NEW i \in Id, Returned(i) PROVE Apart'
<1> DEFINE c == calls[i]
<1>1. c # NoCall /\ c.token \in Token /\ c.approvals \in [Account -> ApprovalId]
  BY CallFields, StagedIsCall DEF Returned, IInv
<1>2. /\ approvals_by_id' =
           [approvals_by_id EXCEPT ![c.token] = IF c.approvals = Unapproved THEN @ ELSE c.approvals]
      /\ calls' = [calls EXCEPT ![i] = NoCall]
  BY DEF Returned
<1>3. ASSUME NEW u \in Token, NEW a \in Account, NEW n \in ApprovalId, NEW j \in Id, Waits(j, u, a, n)'
      PROVE  Waits(j, u, a, n) /\ j # i
  BY <1>2, <1>3 DEF IInv, ApprovalTypes, Waits
<1>4. ASSUME NEW u \in Token, NEW a \in Account, NEW n \in ApprovalId, n # 0, approvals_by_id'[u][a] = n
      PROVE  approvals_by_id[u][a] = n \/ Waits(i, u, a, n)
  BY <1>1, <1>2, <1>4 DEF IInv, ApprovalTypes, Waits
<1>5. ASSUME NEW u \in Token, NEW a \in Account, NEW n \in ApprovalId, NEW j \in Id, Waits(j, u, a, n)'
      PROVE  approvals_by_id'[u][a] # n
  <2>1. Waits(j, u, a, n) /\ j # i /\ n # 0
    BY <1>3, <1>5 DEF Waits
  <2>2. approvals_by_id[u][a] # n /\ ~Waits(i, u, a, n)
    BY <2>1 DEF Apart
  <2> QED
    BY <1>4, <2>1, <2>2
<1> QED
  BY <1>3, <1>5 DEF Apart

-----------------------------------------------------------------------------
AllGiven == UNION {{t} \X Given(t) : t \in Token}

LEMMA HoldsGiven ==
  ASSUME ApprovalTypes, NEW t \in Token, NEW a \in Account, NEW n \in ApprovalId, Holds(t, a, n)
  PROVE  <<a, n>> \in Given(t)
<1>1. CASE approvals_by_id[t][a] = n
  BY <1>1 DEF Holds, Given, Approved
<1>2. CASE \E i \in Id : calls[i] # NoCall /\ calls[i].token = t /\ calls[i].approvals[a] = n
  <2>1. PICK i \in Id : calls[i] # NoCall /\ calls[i].token = t /\ calls[i].approvals[a] = n
    BY <1>2
  <2>2. <<a, n>> \in {<<b, calls[i].approvals[b]>> : b \in Approved(calls[i].approvals)}
    BY <2>1 DEF Holds, Approved
  <2> QED
    BY <2>1, <2>2 DEF Given
<1> QED
  BY <1>1, <1>2 DEF Holds

(* It is what the accounts hold.                                           *)
GivenExactly ==
  /\ AllGiven \subseteq Token \X (Account \X ApprovalId)
  /\ \A t \in Token, a \in Account, n \in ApprovalId : <<t, <<a, n>>>> \in AllGiven <=> Holds(t, a, n)

LEMMA AllGivenHold == ApprovalTypes => GivenExactly
<1> SUFFICES ASSUME ApprovalTypes PROVE GivenExactly
  OBVIOUS
<1>1. ASSUME NEW t \in Token, NEW g \in Given(t)
      PROVE  g \in Account \X ApprovalId /\ g = <<g[1], g[2]>> /\ Holds(t, g[1], g[2])
  <2>1. g[1] \in Account /\ g[2] \in ApprovalId /\ Holds(t, g[1], g[2])
    BY GivenHolds
  <2>2. \E a, n : g = <<a, n>>
    BY DEF Given
  <2> QED
    BY <2>1, <2>2
<1>2. AllGiven \subseteq Token \X (Account \X ApprovalId)
  BY <1>1 DEF AllGiven
<1>3. ASSUME NEW t \in Token, NEW a \in Account, NEW n \in ApprovalId, <<t, <<a, n>>>> \in AllGiven
      PROVE  Holds(t, a, n)
  <2>1. <<a, n>> \in Given(t)
    BY <1>3 DEF AllGiven
  <2> QED
    BY <1>1, <2>1
<1>4. ASSUME NEW t \in Token, NEW a \in Account, NEW n \in ApprovalId, Holds(t, a, n)
      PROVE  <<t, <<a, n>>>> \in AllGiven
  BY <1>4, HoldsGiven DEF AllGiven
<1> QED
  BY <1>2, <1>3, <1>4 DEF GivenExactly

LEMMA AllGivenHoldNext == ApprovalTypes' => GivenExactly'
BY AllGivenHold, PTL

LEMMA AllGivenFinite ==
  ASSUME ApprovalTypes PROVE IsFiniteSet(AllGiven) /\ Cardinality(AllGiven) \in Nat
<1>1. IsFiniteSet(ApprovalId)
  BY FS_Interval, NFTAssumption DEF ApprovalId
<1>2. IsFiniteSet(Account \X ApprovalId)
  BY <1>1, FS_Product, NFTAssumption
<1>3. IsFiniteSet(Token \X (Account \X ApprovalId))
  BY <1>2, FS_Product, ContractsAssumption
<1> QED
  BY <1>3, AllGivenHold, FS_Subset, FS_CardinalityType DEF GivenExactly

(* The approvals of the accounts R end, and what was paid for them goes.   *)
LEMMA PaidBack ==
  ASSUME IInv, IInv', DepositsCoverApprovals, ~leftover' => ~leftover,
         NEW t \in Token, NEW R \in SUBSET Approved(approvals_by_id[t]),
         \A u \in Token, a \in Account, n \in ApprovalId :
           Holds(u, a, n)' => Holds(u, a, n) /\ ~(u = t /\ a \in R /\ n = approvals_by_id[t][a]),
         ~leftover' => near' = near - Cardinality(R)
  PROVE  DepositsCoverApprovals'
<1> DEFINE q == [a \in R |-> <<t, <<a, approvals_by_id[t][a]>>>>]
           Q == {q[a] : a \in R}
           P == AllGiven
           N == AllGiven'
<1>1. IsFiniteSet(P) /\ Cardinality(P) \in Nat /\ P \subseteq Token \X (Account \X ApprovalId)
      /\ \A u \in Token, a \in Account, n \in ApprovalId : <<u, <<a, n>>>> \in P <=> Holds(u, a, n)
  BY AllGivenFinite, AllGivenHold DEF IInv, GivenExactly
<1>2. /\ N \subseteq Token \X (Account \X ApprovalId)
      /\ \A u \in Token, a \in Account, n \in ApprovalId : <<u, <<a, n>>>> \in N <=> Holds(u, a, n)'
  <2>1. ApprovalTypes'
    BY DEF IInv
  <2> QED
    BY <2>1, AllGivenHoldNext DEF GivenExactly
<1>3. R \subseteq Account /\ IsFiniteSet(R) /\ Cardinality(R) \in Nat
  BY NFTAssumption, FS_Subset, FS_CardinalityType DEF Approved
<1>4. \A a \in R : /\ approvals_by_id[t][a] \in ApprovalId /\ Holds(t, a, approvals_by_id[t][a])
                   /\ q[a] = <<t, <<a, approvals_by_id[t][a]>>>>
  BY <1>3 DEF Holds, Approved, IInv, ApprovalTypes
<1>5. Q \in SUBSET P
  BY <1>1, <1>3, <1>4
<1>6. ASSUME NEW x \in N PROVE x \in P \ Q
  <2>1. PICK u \in Token, a \in Account, n \in ApprovalId : x = <<u, <<a, n>>>>
    BY <1>2
  <2>2. Holds(u, a, n) /\ ~(u = t /\ a \in R /\ n = approvals_by_id[t][a])
    BY <1>2, <2>1
  <2>3. x \notin Q
    BY <1>4, <2>1, <2>2
  <2> QED
    BY <1>1, <2>1, <2>2, <2>3
<1>7. IsFiniteSet(Q) /\ Cardinality(Q) = Cardinality(R)
  <2>1. q \in Bijection(R, Q)
    BY <1>4 DEF Bijection, Injection, Surjection, IsInjective
  <2>2. ExistsBijection(R, Q)
    BY <2>1 DEF ExistsBijection
  <2> QED
    BY <1>3, <2>2, FS_Bijection
<1> HIDE DEF P, N, Q, q
<1>8. P \cap Q = Q /\ N \in SUBSET (P \ Q)
  BY <1>5, <1>6
<1>9. IsFiniteSet(P \ Q) /\ Cardinality(P \ Q) = Cardinality(P) - Cardinality(R)
  <2>1. IsFiniteSet(P)
    BY <1>1
  <2>2. IsFiniteSet(P \ Q) /\ Cardinality(P \ Q) = Cardinality(P) - Cardinality(P \cap Q)
    BY <2>1, FS_Difference
  <2> QED
    BY <1>7, <1>8, <2>2
<1>10. Cardinality(N) <= Cardinality(P \ Q) /\ Cardinality(N) \in Nat
  BY <1>8, <1>9, FS_Subset, FS_CardinalityType
<1>11. ~leftover => near >= Cardinality(P)
  BY DEF DepositsCoverApprovals, AllGiven, P
<1>12. ~leftover' => near' >= Cardinality(N)
  BY <1>1, <1>3, <1>9, <1>10, <1>11 DEF IInv, Rest
<1> QED
  BY <1>12 DEF DepositsCoverApprovals, AllGiven, N

(* Nothing is paid, and no approval is new.                                *)
LEMMA NothingPaid ==
  ASSUME IInv, IInv', DepositsCoverApprovals, UNCHANGED <<leftover, near>>,
         \A u \in Token, a \in Account, n \in ApprovalId : Holds(u, a, n)' => Holds(u, a, n)
  PROVE  DepositsCoverApprovals'
<1> DEFINE P == AllGiven
           N == AllGiven'
<1>1. IsFiniteSet(P) /\ Cardinality(P) \in Nat
      /\ \A u \in Token, a \in Account, n \in ApprovalId : <<u, <<a, n>>>> \in P <=> Holds(u, a, n)
  BY AllGivenFinite, AllGivenHold DEF IInv, GivenExactly
<1>2. /\ N \subseteq Token \X (Account \X ApprovalId)
      /\ \A u \in Token, a \in Account, n \in ApprovalId : <<u, <<a, n>>>> \in N <=> Holds(u, a, n)'
  <2>1. ApprovalTypes'
    BY DEF IInv
  <2> QED
    BY <2>1, AllGivenHoldNext DEF GivenExactly
<1>3. N \in SUBSET P
  BY <1>1, <1>2
<1>4. ~leftover => near >= Cardinality(P)
  BY DEF DepositsCoverApprovals, AllGiven
<1> HIDE DEF P, N
<1>5. Cardinality(N) <= Cardinality(P) /\ Cardinality(N) \in Nat
  BY <1>1, <1>3, FS_Subset, FS_CardinalityType
<1>6. ~leftover' => near' >= Cardinality(N)
  BY <1>1, <1>4, <1>5 DEF IInv, Rest
<1> QED
  BY <1>6 DEF DepositsCoverApprovals, AllGiven, N

-----------------------------------------------------------------------------
(* The actions.                                                            *)
PInv == Apart /\ DepositsCoverApprovals

(* Approvals end in the map, or calls end, and nobody is paid.             *)
LEMMA QuietStep ==
  ASSUME IInv, IInv', PInv, UNCHANGED <<near, leftover>>,
         \A i \in Id : calls'[i] # NoCall => /\ calls[i] # NoCall /\ calls'[i].token = calls[i].token
                                            /\ calls'[i].approvals = calls[i].approvals,
         \A t \in Token, a \in Account : approvals_by_id'[t][a] \in {0, approvals_by_id[t][a]}
  PROVE  PInv'
<1>1. Apart'
  BY ApartStays DEF PInv
<1>2. ASSUME NEW t \in Token, NEW a \in Account, NEW n \in ApprovalId, Holds(t, a, n)' PROVE Holds(t, a, n)
  BY <1>2 DEF Holds
<1>3. DepositsCoverApprovals'
  BY <1>2, NothingPaid DEF PInv
<1> QED
  BY <1>1, <1>3 DEF PInv

LEMMA MovedPaid ==
  ASSUME IInv, IInv', PInv, NEW t \in Token, NEW to \in Account, Moved(t, to),
         UNCHANGED <<near, calls, leftover>>
  PROVE  PInv'
<1>1. \A u \in Token, a \in Account : approvals_by_id'[u][a] \in {0, approvals_by_id[u][a]}
  BY Unapproving DEF IInv, ApprovalTypes, Moved
<1> QED
  BY <1>1, QuietStep

LEMMA MovedCallPaid ==
  ASSUME IInv, IInv', PInv, NEW i \in Id, NEW t \in Token, NEW to \in Account, Moved(t, to), calls[i] = NoCall,
         calls' = [calls EXCEPT ![i] =
           [stage |-> "receiver", previous_owner |-> owner_by_id[t], receiver |-> to, token |-> t,
            approvals |-> approvals_by_id[t], must_revert |-> TRUE]],
         UNCHANGED <<near, leftover>>
  PROVE  PInv'
<1> DEFINE c == [stage |-> "receiver", previous_owner |-> owner_by_id[t], receiver |-> to, token |-> t,
                 approvals |-> approvals_by_id[t], must_revert |-> TRUE]
<1>1. c # NoCall /\ c.token = t /\ c.approvals = approvals_by_id[t]
  BY DEF NoCall
<1>2. calls' = [calls EXCEPT ![i] = c]
  OBVIOUS
<1>3. approvals_by_id' = [approvals_by_id EXCEPT ![t] = Unapproved]
  BY DEF Moved
<1> HIDE DEF c
<1>4. Apart'
  BY <1>1, <1>2, <1>3, ApartMovedCall DEF PInv
<1>5. ASSUME NEW u \in Token, NEW a \in Account, NEW n \in ApprovalId, Holds(u, a, n)' PROVE Holds(u, a, n)
  <2>1. approvals_by_id'[u][a] = IF u = t THEN 0 ELSE approvals_by_id[u][a]
    BY <1>3, Unapproving DEF IInv, ApprovalTypes
  <2>2. \A j \in Id : calls'[j] = IF j = i THEN c ELSE calls[j]
    BY <1>2 DEF IInv, ApprovalTypes
  <2> QED
    BY <1>1, <1>5, <2>1, <2>2 DEF Holds
<1>6. DepositsCoverApprovals'
  BY <1>5, NothingPaid DEF PInv
<1> QED
  BY <1>4, <1>6 DEF PInv

LEMMA OneMore ==
  ASSUME NEW S, NEW x, IsFiniteSet(S)
  PROVE  /\ Cardinality(S) \in Nat /\ Cardinality(S \cup {x}) \in Nat
         /\ IsFiniteSet(S \cup {x}) /\ Cardinality(S \cup {x}) <= Cardinality(S) + 1
<1>1. Cardinality(S) \in Nat
  BY FS_CardinalityType
<1>2. IsFiniteSet(S \cup {x})
      /\ Cardinality(S \cup {x}) = IF x \in S THEN Cardinality(S) ELSE Cardinality(S) + 1
  BY FS_AddElement
<1>3. Cardinality(S \cup {x}) \in Nat
  BY <1>2, FS_CardinalityType
<1> QED
  BY <1>1, <1>2, <1>3

(* A new id is paid for if there was none, and takes the place of the old  *)
(* one if there was: no call has kept that.                                *)
LEMMA ApprovePaid ==
  ASSUME IInv, IInv', PInv, NEW t \in Token, NEW a \in Account,
         approvals_by_id' = [approvals_by_id EXCEPT ![t] = [@ EXCEPT ![a] = next_approval_id_by_id[t]]],
         ~leftover => near' = IF approvals_by_id[t][a] = 0 THEN near + 1 ELSE near,
         UNCHANGED <<calls, leftover>>
  PROVE  PInv'
<1> DEFINE new == next_approval_id_by_id[t]
           old == approvals_by_id[t][a]
           P == AllGiven
           N == AllGiven'
           e == <<t, <<a, old>>>>
           x == <<t, <<a, new>>>>
<1>1. Apart'
  BY ApartApprove DEF PInv
<1>2. \A u \in Token, b \in Account : approvals_by_id'[u][b] = IF u = t /\ b = a THEN new ELSE approvals_by_id[u][b]
  BY DEF IInv, ApprovalTypes
<1>3. old \in ApprovalId /\ new \in Nat \ {0}
  BY DEF IInv, ApprovalTypes
<1>4. IsFiniteSet(P) /\ Cardinality(P) \in Nat
      /\ \A u \in Token, b \in Account, n \in ApprovalId : <<u, <<b, n>>>> \in P <=> Holds(u, b, n)
  BY AllGivenFinite, AllGivenHold DEF IInv, GivenExactly
<1>5. /\ N \subseteq Token \X (Account \X ApprovalId)
      /\ \A u \in Token, b \in Account, n \in ApprovalId : <<u, <<b, n>>>> \in N <=> Holds(u, b, n)'
  <2>1. ApprovalTypes'
    BY DEF IInv
  <2> QED
    BY <2>1, AllGivenHoldNext DEF GivenExactly
<1>6. \A u \in Token, b \in Account, n \in ApprovalId, i \in Id : Waits(i, u, b, n)' <=> Waits(i, u, b, n)
  BY DEF Waits
<1>7. ASSUME NEW u \in Token, NEW b \in Account, NEW n \in ApprovalId, Holds(u, b, n)'
      PROVE  Holds(u, b, n) \/ (u = t /\ b = a /\ n = new)
  BY <1>2, <1>7 DEF Holds
<1>8. PICK k \in ApprovalId : k = old
  BY <1>3
<1>9. old # 0 => e \in P /\ e \notin N
  <2> SUFFICES ASSUME k # 0 PROVE e \in P /\ e \notin N
    BY <1>8
  <2>1. Holds(t, a, k)
    BY <1>8 DEF Holds
  <2>2. k < new
    BY <2>1 DEF IInv, Ids
  <2>3. approvals_by_id'[t][a] # k
    BY <1>2, <1>3, <2>2 DEF ApprovalId
  <2>4. \A i \in Id : ~Waits(i, t, a, k)
    BY <1>8 DEF PInv, Apart
  <2>5. ~Holds(t, a, k)'
    BY <1>6, <2>3, <2>4 DEF Holds, Waits
  <2> QED
    BY <1>4, <1>5, <1>8, <2>1, <2>5
<1>10. ASSUME NEW y \in N PROVE y \in P \cup {x}
  <2>1. PICK u \in Token, b \in Account, n \in ApprovalId : y = <<u, <<b, n>>>>
    BY <1>5
  <2> QED
    BY <1>4, <1>5, <1>7, <2>1
<1>11. ~leftover => near >= Cardinality(P)
  BY DEF PInv, DepositsCoverApprovals, AllGiven
<1> HIDE DEF P, N, e, x, old
<1>12. CASE old = 0
  <2>1. IsFiniteSet(P)
    BY <1>4
  <2>2. IsFiniteSet(P \cup {x}) /\ Cardinality(P \cup {x}) <= Cardinality(P) + 1
    BY <2>1, OneMore
  <2>3. N \in SUBSET (P \cup {x})
    BY <1>10
  <2>4. Cardinality(N) <= Cardinality(P \cup {x}) /\ Cardinality(N) \in Nat /\ Cardinality(P \cup {x}) \in Nat
    BY <2>2, <2>3, FS_Subset, FS_CardinalityType
  <2>5. ~leftover => near' = near + 1
    BY <1>12 DEF old
  <2>6. ~leftover' => near' >= Cardinality(N)
    BY <1>4, <1>11, <2>2, <2>4, <2>5 DEF IInv, Rest
  <2>7. DepositsCoverApprovals'
    BY <2>6 DEF DepositsCoverApprovals, AllGiven, N
  <2> QED
    BY <1>1, <2>7 DEF PInv
<1>13. CASE old # 0
  <2>1. e \in P /\ e \notin N
    BY <1>9, <1>13
  <2>2. IsFiniteSet(P)
    BY <1>4
  <2>3. IsFiniteSet(P \ {e}) /\ Cardinality(P \ {e}) = Cardinality(P) - 1
    BY <2>1, <2>2, FS_RemoveElement
  <2> DEFINE M == P \ {e}
  <2>4. IsFiniteSet(M) /\ Cardinality(M) = Cardinality(P) - 1
    BY <2>3
  <2>5. N \in SUBSET (M \cup {x})
    BY <1>10, <2>1
  <2> HIDE DEF M
  <2>6. IsFiniteSet(M \cup {x}) /\ Cardinality(M \cup {x}) <= Cardinality(P)
    <3>1. IsFiniteSet(M)
      BY <2>4
    <3>2. IsFiniteSet(M \cup {x}) /\ Cardinality(M \cup {x}) <= Cardinality(M) + 1 /\ Cardinality(M \cup {x}) \in Nat
      BY <3>1, OneMore
    <3> QED
      BY <1>4, <2>4, <3>2
  <2>7. Cardinality(N) <= Cardinality(M \cup {x}) /\ Cardinality(N) \in Nat /\ Cardinality(M \cup {x}) \in Nat
    BY <2>5, <2>6, FS_Subset, FS_CardinalityType
  <2>8. ~leftover => near' = near
    BY <1>13 DEF old
  <2>9. ~leftover' => near' >= Cardinality(N)
    BY <1>4, <1>11, <2>6, <2>7, <2>8 DEF IInv, Rest
  <2>10. DepositsCoverApprovals'
    BY <2>9 DEF DepositsCoverApprovals, AllGiven, N
  <2> QED
    BY <1>1, <2>10 DEF PInv
<1> QED
  BY <1>12, <1>13

LEMMA RevokeOnePaid ==
  ASSUME IInv, IInv', PInv, NEW t \in Token, NEW a \in Account, approvals_by_id[t][a] # 0,
         approvals_by_id' = [approvals_by_id EXCEPT ![t] = [@ EXCEPT ![a] = 0]],
         ~leftover => near' = near - 1,
         UNCHANGED <<calls, leftover>>
  PROVE  PInv'
<1>1. \A u \in Token, b \in Account : approvals_by_id'[u][b] = IF u = t /\ b = a THEN 0 ELSE approvals_by_id[u][b]
  BY DEF IInv, ApprovalTypes
<1>2. Apart'
  BY <1>1, ApartStays DEF PInv
<1>3. ASSUME NEW u \in Token, NEW b \in Account, NEW n \in ApprovalId, Holds(u, b, n)'
      PROVE  Holds(u, b, n) /\ ~(u = t /\ b \in {a} /\ n = approvals_by_id[t][b])
  <2>1. Holds(u, b, n)
    BY <1>1, <1>3 DEF Holds
  <2>2. n # 0 /\ (approvals_by_id'[u][b] = n \/ \E i \in Id : Waits(i, u, b, n))
    BY <1>3 DEF Holds, Waits
  <2>3. CASE u = t /\ b = a /\ n = approvals_by_id[t][a]
    BY <1>1, <2>2, <2>3 DEF PInv, Apart
  <2> QED
    BY <2>1, <2>3
<1>4. {a} \in SUBSET Approved(approvals_by_id[t])
  BY DEF Approved
<1>5. ~leftover' => near' = near - Cardinality({a})
  BY FS_Singleton
<1>6. DepositsCoverApprovals'
  BY <1>3, <1>4, <1>5, PaidBack DEF PInv
<1> QED
  BY <1>2, <1>6 DEF PInv

LEMMA RevokeAllPaid ==
  ASSUME IInv, IInv', PInv, NEW t \in Token,
         approvals_by_id' = [approvals_by_id EXCEPT ![t] = Unapproved],
         ~leftover => near' = near - Cardinality(Approved(approvals_by_id[t])),
         UNCHANGED <<calls, leftover>>
  PROVE  PInv'
<1>1. \A u \in Token, b \in Account : approvals_by_id'[u][b] = IF u = t THEN 0 ELSE approvals_by_id[u][b]
  BY Unapproving DEF IInv, ApprovalTypes
<1>2. Apart'
  BY <1>1, ApartStays DEF PInv
<1>3. PICK R \in SUBSET Approved(approvals_by_id[t]) : R = Approved(approvals_by_id[t])
  OBVIOUS
<1>4. ASSUME NEW u \in Token, NEW b \in Account, NEW n \in ApprovalId, Holds(u, b, n)'
      PROVE  Holds(u, b, n) /\ ~(u = t /\ b \in R /\ n = approvals_by_id[t][b])
  <2>1. Holds(u, b, n)
    BY <1>1, <1>4 DEF Holds
  <2>2. n # 0 /\ (approvals_by_id'[u][b] = n \/ \E i \in Id : Waits(i, u, b, n))
    BY <1>4 DEF Holds, Waits
  <2>3. CASE u = t /\ n = approvals_by_id[t][b]
    BY <1>1, <2>2, <2>3 DEF PInv, Apart
  <2> QED
    BY <2>1, <2>3
<1>5. ~leftover' => near' = near - Cardinality(R)
  BY <1>3
<1>6. DepositsCoverApprovals'
  BY <1>4, <1>5, PaidBack DEF PInv
<1> QED
  BY <1>2, <1>6 DEF PInv

(* The receiver is paid for its approvals; those of the previous owner     *)
(* take their place.  Where the receiver had some and the previous owner   *)
(* none, nothing is said any more.                                         *)
LEMMA ReturnedPaid ==
  ASSUME IInv, IInv', PInv, NEW i \in Id, Returned(i) PROVE PInv'
<1>1. Apart'
  BY ApartReturned DEF PInv
<1>2. PICK t \in Token, f \in [Account -> ApprovalId] :
        /\ calls[i] # NoCall /\ calls[i].token = t /\ calls[i].approvals = f
        /\ approvals_by_id' = [approvals_by_id EXCEPT ![t] = IF f = Unapproved THEN @ ELSE f]
        /\ leftover' = (leftover \/ (f = Unapproved /\ approvals_by_id[t] # Unapproved))
        /\ near' = Balance(leftover', near - Cardinality(Approved(approvals_by_id[t])))
        /\ calls' = [calls EXCEPT ![i] = NoCall]
  BY CallFields, StagedIsCall DEF Returned, IInv
<1>3. ASSUME NEW j \in Id, NEW u \in Token, NEW b \in Account, NEW n \in ApprovalId, Waits(j, u, b, n)'
      PROVE  Waits(j, u, b, n) /\ j # i
  BY <1>2, <1>3 DEF IInv, ApprovalTypes, Waits
<1>4. \A u \in Token : approvals_by_id'[u] = IF u = t /\ f # Unapproved THEN f ELSE approvals_by_id[u]
  BY <1>2 DEF IInv, ApprovalTypes
<1>5. PICK R \in SUBSET Approved(approvals_by_id[t]) : R = Approved(approvals_by_id[t])
  OBVIOUS
<1>6. ~leftover' => ~leftover /\ (f = Unapproved => approvals_by_id[t] = Unapproved)
  BY <1>2
<1>7. ~leftover' => near' = near - Cardinality(R)
  BY <1>2, <1>5 DEF Balance
<1>8. CASE leftover'
  <2>1. DepositsCoverApprovals'
    BY <1>8 DEF DepositsCoverApprovals
  <2> QED
    BY <1>1, <2>1 DEF PInv
<1>9. CASE ~leftover'
  <2>1. ASSUME NEW u \in Token, NEW b \in Account, NEW n \in ApprovalId, Holds(u, b, n)'
        PROVE  Holds(u, b, n) /\ ~(u = t /\ b \in R /\ n = approvals_by_id[t][b])
    <3>1. n # 0 /\ (approvals_by_id'[u][b] = n \/ \E j \in Id : j # i /\ Waits(j, u, b, n))
      BY <1>3, <2>1, HoldsOrWaits DEF Holds, Waits
    <3>2. CASE approvals_by_id'[u][b] = n /\ u = t /\ f # Unapproved
      <4>1. Waits(i, u, b, n)
        BY <1>2, <1>4, <3>1, <3>2 DEF Waits
      <4>2. approvals_by_id[u][b] # n
        BY <4>1 DEF PInv, Apart
      <4> QED
        BY <3>1, <3>2, <4>1, <4>2, HoldsOrWaits
    <3>3. CASE approvals_by_id'[u][b] = n /\ ~(u = t /\ f # Unapproved)
      <4>1. approvals_by_id[u][b] = n
        BY <1>4, <3>3
      <4>2. u # t
        BY <1>6, <1>9, <3>1, <3>3, <4>1, Unapproving
      <4> QED
        BY <3>1, <4>1, <4>2 DEF Holds
    <3>4. CASE \E j \in Id : j # i /\ Waits(j, u, b, n)
      BY <3>1, <3>4, HoldsOrWaits DEF PInv, Apart
    <3> QED
      BY <3>1, <3>2, <3>3, <3>4
  <2>2. DepositsCoverApprovals'
    BY <1>6, <1>7, <2>1, PaidBack DEF PInv
  <2> QED
    BY <1>1, <2>2 DEF PInv
<1> QED
  BY <1>8, <1>9

LEMMA HandlersPaid ==
  ASSUME IInv, IInv', PInv, Handlers PROVE PInv'
<1>1. ASSUME NEW t \in Token, NEW a \in Account, internal_mint(t, a) PROVE PInv'
  <2>1. UNCHANGED <<approvals_by_id, near, calls, leftover>>
    BY <1>1 DEF internal_mint, approvals
  <2> QED
    BY <2>1, QuietStep
<1>2. ASSUME NEW s \in Account, NEW r \in Account, NEW t \in Token, NEW given \in ApprovalId,
             nft_transfer(s, r, t, given)
      PROVE  PInv'
  <2>1. Moved(t, r) /\ UNCHANGED <<near, calls, leftover>>
    BY <1>2 DEF nft_transfer, internal_transfer, Moved
  <2> QED
    BY <2>1, MovedPaid
<1>3. ASSUME NEW s \in Account, NEW r \in Account, NEW t \in Token, NEW given \in ApprovalId, NEW i \in Id,
             nft_transfer_call(i, s, r, t, given)
      PROVE  PInv'
  <2>1. Moved(t, r)
    BY <1>3 DEF nft_transfer_call, internal_transfer, Moved
  <2> QED
    BY <1>3, <2>1, MovedCallPaid DEF nft_transfer_call
<1>4. ASSUME NEW s \in Account, NEW t \in Token, NEW a \in Account, nft_approve(s, t, a) PROVE PInv'
  <2>1. ~leftover => near' = IF approvals_by_id[t][a] = 0 THEN near + 1 ELSE near
    BY <1>4 DEF nft_approve, Balance
  <2> QED
    BY <1>4, <2>1, ApprovePaid DEF nft_approve
<1>5. ASSUME NEW s \in Account, NEW t \in Token, NEW a \in Account, nft_revoke(s, t, a) PROVE PInv'
  <2>1. ~leftover => near' = near - 1
    BY <1>5 DEF nft_revoke, Balance
  <2> QED
    BY <1>5, <2>1, RevokeOnePaid DEF nft_revoke
<1>6. ASSUME NEW s \in Account, NEW t \in Token, nft_revoke_all(s, t) PROVE PInv'
  <2>1. ~leftover => near' = near - Cardinality(Approved(approvals_by_id[t]))
    BY <1>6 DEF nft_revoke_all, Balance
  <2> QED
    BY <1>6, <2>1, RevokeAllPaid DEF nft_revoke_all
<1> QED
  BY <1>1, <1>2, <1>3, <1>4, <1>5, <1>6 DEF Handlers

LEMMA OnTransferPaid ==
  ASSUME IInv, IInv', PInv, NEW i \in Id, NEW b \in BOOLEAN, nft_on_transfer(i, b) PROVE PInv'
<1>1. UNCHANGED <<approvals_by_id, near, leftover>>
      /\ calls' = [calls EXCEPT ![i].stage = "resolve", ![i].must_revert = b]
  BY DEF nft_on_transfer, approvals
<1>2. calls[i] \in Call /\ calls[i] # NoCall
  BY CallFields, StagedIsCall DEF nft_on_transfer, IInv
<1>3. ASSUME NEW j \in Id, calls'[j] # NoCall
      PROVE  calls[j] # NoCall /\ calls'[j].token = calls[j].token /\ calls'[j].approvals = calls[j].approvals
  BY <1>1, <1>2, <1>3 DEF IInv, ApprovalTypes, Call
<1> QED
  BY <1>1, <1>3, QuietStep

LEMMA KeptPaid ==
  ASSUME IInv, IInv', PInv, NEW i \in Id, calls' = [calls EXCEPT ![i] = NoCall], UNCHANGED <<approvals, leftover>>
  PROVE  PInv'
<1>1. UNCHANGED <<approvals_by_id, near, leftover>>
  BY DEF approvals
<1>2. \A j \in Id : calls'[j] # NoCall => calls'[j] = calls[j]
  BY DEF IInv, ApprovalTypes
<1> QED
  BY <1>1, <1>2, QuietStep

LEMMA ReceiptsPaid ==
  ASSUME IInv, IInv', PInv, NEW i \in Id, Receipts(i) PROVE PInv'
<1>1. ASSUME nft_resolve_transferKept(i) PROVE PInv'
  BY <1>1, KeptPaid DEF nft_resolve_transferKept
<1>2. ASSUME nft_resolve_transferReverted(i) PROVE PInv'
  <2>1. Returned(i)
    BY <1>2 DEF nft_resolve_transferReverted, Returned
  <2> QED
    BY <2>1, ReturnedPaid
<1> QED
  BY <1>1, <1>2, OnTransferPaid DEF Receipts

LEMMA ApprovalCheckPaid == ASSUME IInv, IInv', PInv, nac_Next PROVE PInv'
<1>1. ASSUME NEW s \in Account, NEW r \in Account, NEW t \in Token, NEW given \in ApprovalId,
             nac_internal_transfer_unsafe(s, r, t, given)
      PROVE  Moved(t, r)
  BY <1>1 DEF nac_internal_transfer_unsafe, nac_internal_transfer_unguarded, internal_transfer_unguarded, Moved
<1>2. ASSUME NEW s \in Account, NEW r \in Account, NEW t \in Token, NEW given \in ApprovalId,
             nac_nft_transfer(s, r, t, given)
      PROVE  PInv'
  BY <1>1, <1>2, MovedPaid DEF nac_nft_transfer
<1>3. ASSUME NEW s \in Account, NEW r \in Account, NEW t \in Token, NEW given \in ApprovalId, NEW i \in Id,
             nac_nft_transfer_call(i, s, r, t, given)
      PROVE  PInv'
  BY <1>1, <1>3, MovedCallPaid DEF nac_nft_transfer_call, nac_internal_transfer
<1>4. ASSUME NEW i \in Id, nac_nft_resolve_transfer(i) PROVE PInv'
  <2>1. CASE calls[i].must_revert /\ owner_by_id[calls[i].token] = calls[i].receiver
    <3>1. Returned(i)
      BY <1>4, <2>1 DEF nac_nft_resolve_transfer, Returned, nac_internal_transfer_unguarded,
                        internal_transfer_unguarded
    <3> QED
      BY <3>1, ReturnedPaid
  <2>2. CASE ~(calls[i].must_revert /\ owner_by_id[calls[i].token] = calls[i].receiver)
    BY <1>4, <2>2, KeptPaid DEF nac_nft_resolve_transfer
  <2> QED
    BY <2>1, <2>2
<1> QED
  BY <1>2, <1>3, <1>4, OnTransferPaid DEF nac_Next

LEMMA OwnerCheckPaid == ASSUME IInv, IInv', PInv, noc_Next PROVE PInv'
<1>1. ASSUME NEW s \in Account, NEW t \in Token, NEW a \in Account, noc_nft_approve(s, t, a) PROVE PInv'
  BY <1>1, ApprovePaid DEF noc_nft_approve
<1>2. ASSUME NEW s \in Account, NEW t \in Token, NEW a \in Account, noc_nft_revoke(s, t, a) PROVE PInv'
  BY <1>2, RevokeOnePaid DEF noc_nft_revoke, noc_nft_is_approved
<1>3. ASSUME NEW s \in Account, NEW t \in Token, noc_nft_revoke_all(s, t) PROVE PInv'
  BY <1>3, RevokeAllPaid DEF noc_nft_revoke_all
<1> QED
  BY <1>1, <1>2, <1>3 DEF noc_Next

LEMMA ContractPaid == IInv /\ IInv' /\ PInv /\ [ContractNext]_allvars => PInv'
<1> SUFFICES ASSUME IInv, IInv', PInv, [ContractNext]_allvars PROVE PInv'
  OBVIOUS
<1>1. CASE Next
  BY <1>1, HandlersPaid, ReceiptsPaid DEF Next
<1>2. CASE nac_Next
  BY <1>2, ApprovalCheckPaid
<1>3. CASE noc_Next
  BY <1>3, OwnerCheckPaid
<1>4. CASE UNCHANGED allvars
  <2>1. UNCHANGED <<approvals_by_id, near, calls, leftover>>
    BY <1>4 DEF allvars, vars, tokens, approvals
  <2> QED
    BY <2>1, QuietStep
<1> QED
  BY <1>1, <1>2, <1>3, <1>4 DEF ContractNext

(* At first nobody is approved, or, in the examples, one account for each  *)
(* token, whose deposits are there.                                        *)
LEMMA ContractInitPaid == ContractInit => PInv
<1> SUFFICES ASSUME ContractInit PROVE PInv
  OBVIOUS
<1>1. calls = [i \in Id |-> NoCall]
  BY DEF ContractInit, Init, Stocked
<1>2. Apart
  BY <1>1 DEF Apart, Waits
<1>3. IInv
  BY ContractInitInv
<1>4. /\ IsFiniteSet(AllGiven) /\ AllGiven \subseteq Token \X (Account \X ApprovalId)
      /\ \A u \in Token, b \in Account, n \in ApprovalId : <<u, <<b, n>>>> \in AllGiven <=> Holds(u, b, n)
  BY <1>3, AllGivenFinite, AllGivenHold DEF IInv, GivenExactly
<1>5. CASE Init
  <2>1. \A t \in Token, a \in Account, n \in ApprovalId : ~Holds(t, a, n)
    BY <1>1, <1>5, Unapproving DEF Init, Holds
  <2>2. AllGiven = {}
    BY <1>4, <2>1
  <2>3. near >= Cardinality(AllGiven)
    BY <1>5, <2>2, FS_EmptySet DEF Init
  <2> QED
    BY <1>2, <2>3 DEF PInv, DepositsCoverApprovals, AllGiven
<1>6. ASSUME NEW owner \in [Token -> Account], NEW approved \in Account, Stocked(owner, approved) PROVE PInv
  <2> DEFINE q == [t \in Token |-> <<t, <<approved, 1>>>>]
             Q == {q[t] : t \in Token}
  <2>1. \A t \in Token, a \in Account, n \in ApprovalId : Holds(t, a, n) => a = approved /\ n = 1
    BY <1>1, <1>6 DEF Stocked, Holds
  <2>2. AllGiven \subseteq Q
    <3>1. ASSUME NEW x \in AllGiven PROVE x \in Q
      <4>1. PICK u \in Token, b \in Account, n \in ApprovalId : x = <<u, <<b, n>>>>
        BY <1>4
      <4>2. b = approved /\ n = 1
        BY <1>4, <2>1, <4>1
      <4> QED
        BY <4>1, <4>2
    <3> QED
      BY <3>1
  <2>3. q \in Bijection(Token, Q)
    BY DEF Bijection, Injection, Surjection, IsInjective
  <2>4. IsFiniteSet(Q) /\ Cardinality(Q) = Cardinality(Token)
    BY <2>3, FS_Bijection, ContractsAssumption DEF ExistsBijection
  <2> HIDE DEF Q
  <2>5. Cardinality(AllGiven) <= Cardinality(Q)
    BY <2>2, <2>4, FS_Subset
  <2>6. near = Cardinality(Token) /\ near \in Int /\ Cardinality(AllGiven) \in Nat
    BY <1>3, <1>4, <1>6, FS_CardinalityType DEF Stocked, IInv, Rest
  <2>7. near >= Cardinality(AllGiven)
    BY <2>4, <2>5, <2>6
  <2> QED
    BY <1>2, <2>7 DEF PInv, DepositsCoverApprovals, AllGiven
<1> QED
  BY <1>5, <1>6 DEF ContractInit

(* In every reachable state of the three contracts the deposits that are   *)
(* left pay for every approval that holds or waits for its return, unless  *)
(* a receiver's approvals were paid back and left (utils.rs:11-49,         *)
(* core_impl.rs:504-511).                                                  *)
THEOREM DepositsSuffice == ContractSpec => []DepositsCoverApprovals
<1>1. PInv => DepositsCoverApprovals
  BY DEF PInv
<1> QED
  BY <1>1, ContractInitInv, ContractStep, ContractInitPaid, ContractPaid, PTL DEF ContractSpec
=============================================================================
