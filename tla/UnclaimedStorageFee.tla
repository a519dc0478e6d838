------------------------ MODULE UnclaimedStorageFee ------------------------
(***************************************************************************)
(* src/examples/unclaimed-storage-fee: storage management of accounts that *)
(* may have tokens, whose storage_unregister does not look at the balance  *)
(* nor at force.  account_storage_usage is 0, so that nothing is needed to *)
(* register and nothing but the attached yocto is paid back.               *)
(***************************************************************************)
EXTENDS FungibleToken

usf_storage_balance_bounds == 0

usf_storage_deposit(a, attached) ==
  /\ IF a \in token.accounts
     THEN /\ near' = near + attached - attached
          /\ UNCHANGED token
     ELSE /\ attached >= usf_storage_balance_bounds
          /\ token' = [token EXCEPT !.accounts = @ \cup {a}]
          /\ near' = near + attached - (attached - usf_storage_balance_bounds)
  /\ UNCHANGED <<calls, told, closed, minted>>

usf_storage_unregister(a) ==
  /\ a \in token.accounts
  /\ token' = Removed(token, a)
  /\ near' = near + 1 - (usf_storage_balance_bounds + 1)
  /\ closed' = [closed EXCEPT ![a] = @ + token.balance[a]]
  /\ UNCHANGED <<calls, told, minted>>

usf_Next ==
  \/ \E a \in Account, attached \in 0..1 : usf_storage_deposit(a, attached)
  \/ \E a \in Account : usf_storage_unregister(a)
=============================================================================
