---------------------------- MODULE TokenLedger ----------------------------
(***************************************************************************)
(* What a fungible token promises, whatever calls are in flight: tokens    *)
(* are moved from an account to another one or destroyed, by steps that    *)
(* touch no third account, and the supply changes with the tokens that     *)
(* come to be or cease to be and with no others.                           *)
(***************************************************************************)
EXTENDS Integers

CONSTANTS Account

VARIABLES balance, supply

vars == <<balance, supply>>

Init == balance \in [Account -> Nat] /\ supply \in Nat

(* What an account has less after the step.                                *)
Paid(a) == balance[a] - balance'[a]

Mint(a) ==
  /\ Paid(a) < 0
  /\ balance' = [balance EXCEPT ![a] = @ - Paid(a)]
  /\ supply' = supply - Paid(a)

Burn(a) ==
  /\ Paid(a) \in 1..balance[a]
  /\ balance' = [balance EXCEPT ![a] = @ - Paid(a)]
  /\ supply' = supply - Paid(a)

Move(a, b) ==
  /\ a # b
  /\ Paid(a) \in 1..balance[a]
  /\ balance' = [balance EXCEPT ![a] = @ - Paid(a), ![b] = @ + Paid(a)]
  /\ UNCHANGED supply

Next ==
  \/ \E a \in Account : Mint(a) \/ Burn(a)
  \/ \E a, b \in Account : Move(a, b)

Spec == Init /\ [][Next]_vars
=============================================================================
