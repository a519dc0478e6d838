---------------------------- MODULE SelfTransfer ----------------------------
(***************************************************************************)
(* src/examples/self-transfer: a token whose transfers do not look whether *)
(* sender and receiver are the same.  The callback it asks for after a     *)
(* transfer call is a method that it does not have.                        *)
(***************************************************************************)
EXTENDS FungibleToken, HolderMap

st_CanWithdraw(t, a, n) == a \in t.accounts /\ n <= t.balance[a] /\ n <= t.total_supply
st_internal_withdraw(t, a, n) == Less(t, a, n)

(* For an account without key, insert returns None, and unwrap panics.     *)
st_CanDeposit(t, a, n) == a \in t.accounts /\ t.balance[a] + n <= MAX /\ t.total_supply + n <= MAX
st_internal_deposit(t, a, n) == More(t, a, n)

st_CanTransfer(t, s, r, n) ==
  /\ n > 0
  /\ st_CanWithdraw(t, s, n)
  /\ st_CanDeposit(st_internal_withdraw(t, s, n), r, n)

st_internal_transfer(t, s, r, n) == st_internal_deposit(st_internal_withdraw(t, s, n), r, n)

st_ft_transfer(s, r, n) ==
  /\ st_CanTransfer(token, s, r, n)
  /\ token' = st_internal_transfer(token, s, r, n)
  /\ told' = FtTransfer(told, s, r, n)
  /\ UNCHANGED <<near, calls, closed, minted>>

st_ft_transfer_call(i, s, r, n, gas) ==
  /\ gas
  /\ st_CanTransfer(token, s, r, n)
  /\ token' = st_internal_transfer(token, s, r, n)
  /\ told' = FtTransfer(told, s, r, n)
  /\ Calling(i, s, r, n)
  /\ UNCHANGED <<near, closed, minted>>

st_Next ==
  \E s, r \in Account, n \in Amount :
    st_ft_transfer(s, r, n) \/ \E i \in Id, gas \in BOOLEAN : st_ft_transfer_call(i, s, r, n, gas)
=============================================================================
