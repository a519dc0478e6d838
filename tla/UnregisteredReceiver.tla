------------------------ MODULE UnregisteredReceiver ------------------------
(***************************************************************************)
(* src/examples/unregistered-receiver: ft_transfer gives an account to a   *)
(* receiver that has none, ft_transfer_call does not.  The callback it     *)
(* asks for is a method that it does not have.                             *)
(***************************************************************************)
EXTENDS FungibleToken, HolderMap

ur_CanWithdraw(t, a, n) == a \in t.accounts /\ n <= t.balance[a] /\ n <= t.total_supply
ur_internal_withdraw(t, a, n) == Less(t, a, n)

ur_CanDeposit_unsafe(t, a, n) == t.balance[a] + n <= MAX /\ t.total_supply + n <= MAX
ur_internal_deposit_unsafe(t, a, n) == More(t, a, n)

(* Seeded fault: the receiver's account is not asked for.                  *)
ur_CanDeposit_safeAny(t, a, n) == t.balance[a] + n <= MAX /\ t.total_supply + n <= MAX

ur_CanDeposit_safe(t, a, n) == a \in t.accounts /\ t.balance[a] + n <= MAX /\ t.total_supply + n <= MAX

ur_internal_deposit_safe(t, a, n) == More(t, a, n)

ur_CanTransfer_unsafe(t, s, r, n) ==
  /\ s # r
  /\ n > 0
  /\ ur_CanWithdraw(t, s, n)
  /\ ur_CanDeposit_unsafe(ur_internal_withdraw(t, s, n), r, n)

ur_CanTransfer_safe(t, s, r, n) ==
  /\ s # r
  /\ n > 0
  /\ ur_CanWithdraw(t, s, n)
  /\ ur_CanDeposit_safe(ur_internal_withdraw(t, s, n), r, n)

ur_internal_transfer_unsafe(t, s, r, n) == ur_internal_deposit_unsafe(ur_internal_withdraw(t, s, n), r, n)
ur_internal_transfer_safe(t, s, r, n) == ur_internal_deposit_safe(ur_internal_withdraw(t, s, n), r, n)

ur_ft_transfer(s, r, n) ==
  /\ ur_CanTransfer_unsafe(token, s, r, n)
  /\ token' = ur_internal_transfer_unsafe(token, s, r, n)
  /\ told' = FtTransfer(told, s, r, n)
  /\ UNCHANGED <<near, calls, closed, minted>>

ur_ft_transfer_call(i, s, r, n, gas) ==
  /\ gas
  /\ ur_CanTransfer_safe(token, s, r, n)
  /\ token' = ur_internal_transfer_safe(token, s, r, n)
  /\ told' = FtTransfer(told, s, r, n)
  /\ Calling(i, s, r, n)
  /\ UNCHANGED <<near, closed, minted>>

ur_Next ==
  \E s, r \in Account, n \in Amount :
    ur_ft_transfer(s, r, n) \/ \E i \in Id, gas \in BOOLEAN : ur_ft_transfer_call(i, s, r, n, gas)
=============================================================================
