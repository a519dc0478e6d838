----------------------------- MODULE HolderMap -----------------------------
(***************************************************************************)
(* The example contracts self-transfer, prepaid-gas and unregistered-      *)
(* receiver keep an account only while it has tokens: the same helpers in  *)
(* each of them insert a positive balance and remove the account           *)
(* otherwise.  t is the struct Contract of these examples.                 *)
(***************************************************************************)
EXTENDS Integers

Stored(t, a, n) ==
  [t EXCEPT !.accounts = IF n > 0 THEN @ \cup {a} ELSE @ \ {a},
            !.balance[a] = n]

Less(t, a, n) == [Stored(t, a, t.balance[a] - n) EXCEPT !.total_supply = @ - n]
More(t, a, n) == [Stored(t, a, t.balance[a] + n) EXCEPT !.total_supply = @ + n]
=============================================================================
