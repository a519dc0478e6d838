----------------------------- MODULE PrepaidGas -----------------------------
(***************************************************************************)
(* src/examples/prepaid-gas: a token whose transfer calls do not look at   *)
(* the prepaid gas.  The callback it asks for is a method that it does not *)
(* have.                                                                   *)
(***************************************************************************)
EXTENDS FungibleToken, HolderMap

pg_CanWithdraw(t, a, n) == a \in t.accounts /\ n <= t.balance[a] /\ n <= t.total_supply
pg_internal_withdraw(t, a, n) == Less(t, a, n)

(* For an account without key, insert returns None, and unwrap panics.     *)
pg_CanDeposit(t, a, n) == a \in t.accounts /\ t.balance[a] + n <= MAX /\ t.total_supply + n <= MAX
pg_internal_deposit(t, a, n) == More(t, a, n)

pg_CanTransfer(t, s, r, n) ==
  /\ s # r
  /\ n > 0
  /\ pg_CanWithdraw(t, s, n)
  /\ pg_CanDeposit(pg_internal_withdraw(t, s, n), r, n)

pg_internal_transfer(t, s, r, n) == pg_internal_deposit(pg_internal_withdraw(t, s, n), r, n)

pg_ft_transfer(s, r, n) ==
  /\ pg_CanTransfer(token, s, r, n)
  /\ token' = pg_internal_transfer(token, s, r, n)
  /\ told' = FtTransfer(told, s, r, n)
  /\ UNCHANGED <<near, calls, closed, minted>>

(* With prepaid gas of just GAS_FOR_FT_TRANSFER_CALL the receiver has no   *)
(* static gas, but its share of what the call leaves unused.               *)
pg_ft_transfer_call(i, s, r, n) ==
  /\ pg_CanTransfer(token, s, r, n)
  /\ token' = pg_internal_transfer(token, s, r, n)
  /\ told' = FtTransfer(told, s, r, n)
  /\ Calling(i, s, r, n)
  /\ UNCHANGED <<near, closed, minted>>

pg_Next ==
  \E s, r \in Account, n \in Amount :
    pg_ft_transfer(s, r, n) \/ \E i \in Id : pg_ft_transfer_call(i, s, r, n)
=============================================================================
