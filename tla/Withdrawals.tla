---------------------------- MODULE Withdrawals ----------------------------
(***************************************************************************)
(* The withdrawals of the examples reentrancy, promise-result, public-     *)
(* interface, transfer, inconsistency, unhandled-promise and lock-         *)
(* callback.  Each checks a balance, asks another contract to pay, and     *)
(* lets the answer decide in a receipt of its own, with other withdrawals  *)
(* in between; they differ in when the balance is changed and in what the  *)
(* callback does.  A handler that panics changes nothing.                  *)
(*                                                                         *)
(* lock-callback keeps orders by id; one order is followed, whose amount   *)
(* is the balance and which is gone at 0.                                  *)
(***************************************************************************)
EXTENDS Integers, FiniteSets, FiniteSetsExt

CONSTANTS Id,        \* bound: withdrawals in flight at a time
          Deposit,   \* the balance they start from
          MaxPaid    \* bound: nothing is asked for that could exceed it

ASSUME WithdrawalAssumption == IsFiniteSet(Id) /\ Deposit \in Nat /\ MaxPaid \in Nat

VARIABLES contract,  \* which of them it is
          balance,   \* what the contract owes its depositor
          calls,     \* the withdrawals in flight
          paid,      \* history: what the depositor was paid
          seen       \* history: what happened that not every contract is made for

vars == <<contract, balance, calls, paid, seen>>

(* Those that take the amount off the balance at once and put it back if   *)
(* the other contract fails.                                               *)
Restoring == {"promise-result", "public-interface", "transfer", "inconsistency"}

Contracts == Restoring \cup {"reentrancy", "unhandled-promise", "lock-callback"}

Amount == 0..MaxPaid
NoCall == [stage |-> "none"]
Call == [stage : {"asked", "failed", "succeeded"}, amount : Amount, original : 0..Deposit, returnable : BOOLEAN]

InFlight == {i \in Id : calls[i] # NoCall}
Asked == {i \in Id : calls[i].stage = "asked"}
SumOf(I) == LET amount == [i \in I |-> calls[i].amount]
            IN  MapThenSumSet(LAMBDA i : amount[i], I)

-----------------------------------------------------------------------------
Init ==
  /\ contract \in Contracts
  /\ balance = Deposit
  /\ calls = [i \in Id |-> NoCall]
  /\ paid = 0
  /\ seen = {}

(* The promise, and then the callback, are receipts to come.  The receiver *)
(* of an ft_transfer_call may return a part of what it gets.               *)
Ask(i, n, returnable) ==
  /\ calls[i] = NoCall
  /\ paid + SumOf(Asked) + n <= MaxPaid
  /\ calls' = [calls EXCEPT ![i] =
       [stage |-> "asked", amount |-> n, original |-> balance, returnable |-> returnable]]
  /\ seen' = seen \cup (IF InFlight = {} THEN {} ELSE {"overlap"})
               \cup (IF contract = "lock-callback" /\ n < balance THEN {"partial"} ELSE {})
  /\ UNCHANGED <<contract, paid>>

sub_balance(n) == balance >= n /\ balance' = balance - n

(* Withdrawals that take the amount off the balance first.                 *)
withdraw_promise_result(i, n) == contract = "promise-result" /\ sub_balance(n) /\ Ask(i, n, FALSE)
withdraw_public_interface(i, n) == contract = "public-interface" /\ sub_balance(n) /\ Ask(i, n, FALSE)
withdraw_nep141(i, n) == contract = "transfer" /\ sub_balance(n) /\ Ask(i, n, FALSE)
withdraw_native(i, n) == contract = "transfer" /\ sub_balance(n) /\ Ask(i, n, FALSE)
withdraw_inconsistency(i, n) == contract = "inconsistency" /\ sub_balance(n) /\ Ask(i, n, FALSE)
withdraw_call(i, n) == contract = "inconsistency" /\ sub_balance(n) /\ Ask(i, n, TRUE)

(* The same without a callback, whether the promise is returned or not.    *)
withdraw_without_promise(i, n) == contract = "unhandled-promise" /\ sub_balance(n) /\ Ask(i, n, FALSE)
withdraw_with_promise(i, n) == contract = "unhandled-promise" /\ sub_balance(n) /\ Ask(i, n, FALSE)

(* reentrancy only looks at the balance.                                   *)
withdraw_reentrancy(i, n) ==
  /\ contract = "reentrancy"
  /\ balance >= n
  /\ Ask(i, n, TRUE)
  /\ UNCHANGED balance

(* lock-callback takes the order away and puts back what is left of it.    *)
process_redeem(i, n) == contract = "lock-callback" /\ balance > 0 /\ sub_balance(n) /\ Ask(i, n, FALSE)

-----------------------------------------------------------------------------
(* The other contract pays, all of it unless the receiver of an            *)
(* ft_transfer_call returns a part, which no callback looks at.            *)
pay(i, used) ==
  /\ calls[i].stage = "asked"
  /\ used <= calls[i].amount
  /\ used = calls[i].amount \/ calls[i].returnable
  /\ paid' = paid + used
  /\ calls' = [calls EXCEPT ![i] = IF contract = "unhandled-promise" THEN NoCall ELSE [@ EXCEPT !.stage = "succeeded"]]
  /\ seen' = seen \cup (IF used < calls[i].amount THEN {"return"} ELSE {})
  /\ UNCHANGED <<contract, balance>>

(* The other contract fails.  unhandled-promise never hears of it.         *)
fail(i) ==
  /\ calls[i].stage = "asked"
  /\ calls' = [calls EXCEPT ![i] = IF contract = "unhandled-promise" THEN NoCall ELSE [@ EXCEPT !.stage = "failed"]]
  /\ seen' = seen \cup {"failure"}
  /\ UNCHANGED <<contract, balance, paid>>

-----------------------------------------------------------------------------
(* The callback has its answer; the receipt is used up.                    *)
Answered(i) ==
  /\ calls[i].stage \in {"failed", "succeeded"}
  /\ calls' = [calls EXCEPT ![i] = NoCall]
  /\ UNCHANGED <<contract, paid, seen>>

(* Seeded fault: the amount is put back whatever the answer is.            *)
RestoredAlways(i) == balance + calls[i].amount

(* Seeded fault: nothing is put back.                                      *)
RestoredNever(i) == balance

Restored(i) == IF calls[i].stage = "failed" THEN balance + calls[i].amount ELSE balance

callback_withdraw_promise_result(i) == contract = "promise-result" /\ Answered(i) /\ balance' = Restored(i)
callback_withdraw_public_interface(i) == contract = "public-interface" /\ Answered(i) /\ balance' = Restored(i)
callback_withdraw_transfer(i) == contract = "transfer" /\ Answered(i) /\ balance' = Restored(i)
callback_withdraw_inconsistency(i) == contract = "inconsistency" /\ Answered(i) /\ balance' = Restored(i)

(* Seeded fault: the subtraction does not panic.                           *)
callback_withdraw_reentrancyWraps(i) ==
  /\ contract = "reentrancy"
  /\ Answered(i)
  /\ balance' = IF calls[i].stage = "succeeded" THEN balance - calls[i].amount ELSE balance

(* A subtraction that would overflow panics.                               *)
callback_withdraw_reentrancy(i) ==
  /\ contract = "reentrancy"
  /\ Answered(i)
  /\ balance' = IF calls[i].stage = "succeeded" /\ calls[i].amount <= balance
                THEN balance - calls[i].amount
                ELSE balance

(* The order is put back as it was; where there is one, the assertion      *)
(* fails.                                                                  *)
callback_redeem(i) ==
  /\ contract = "lock-callback"
  /\ Answered(i)
  /\ balance' = IF calls[i].stage = "failed" /\ balance = 0 THEN calls[i].original ELSE balance

withdraw(i, n) ==
  \/ withdraw_promise_result(i, n) \/ withdraw_public_interface(i, n)
  \/ withdraw_nep141(i, n) \/ withdraw_native(i, n)
  \/ withdraw_inconsistency(i, n) \/ withdraw_call(i, n)
  \/ withdraw_without_promise(i, n) \/ withdraw_with_promise(i, n)
  \/ withdraw_reentrancy(i, n) \/ process_redeem(i, n)

Receipts(i) ==
  \/ \E used \in Amount : pay(i, used)
  \/ fail(i)
  \/ callback_withdraw_promise_result(i) \/ callback_withdraw_public_interface(i)
  \/ callback_withdraw_transfer(i) \/ callback_withdraw_inconsistency(i)
  \/ callback_withdraw_reentrancy(i) \/ callback_redeem(i)

Next == \E i \in Id : (\E n \in Amount : withdraw(i, n)) \/ Receipts(i)

Spec == Init /\ [][Next]_vars
-----------------------------------------------------------------------------
(* The state is well formed, and no order of answers brings the balance    *)
(* below nothing or above what it was (reentrancy/src/lib.rs:68-74, lock-  *)
(* callback/src/lib.rs:79-97).                                             *)
TypeOK ==
  /\ contract \in Contracts
  /\ balance \in 0..Deposit
  /\ calls \in [Id -> Call \cup {NoCall}]
  /\ paid \in Amount
  /\ seen \subseteq {"overlap", "partial", "failure", "return"}

(* What the contract will still pay once the callbacks have run.           *)
Owed ==
  IF contract = "reentrancy"
  THEN balance - SumOf({i \in InFlight : calls[i].stage = "succeeded"})
  ELSE balance

(* What is paid and what is still owed are no more than the deposit.       *)
(* reentrancy, where the balance changes in the callback, and lock-        *)
(* callback, where the callback restores what an earlier call saw, keep it *)
(* only while no two withdrawals overlap (reentrancy/src/lib.rs:57-75,     *)
(* lock-callback/src/lib.rs:66, 82-95, promise-result/src/lib.rs:31-54).   *)
NeverOverpaid ==
  contract \notin {"reentrancy", "lock-callback"} \/ "overlap" \notin seen => paid + Owed <= Deposit

(* Nothing of the deposit is lost: it is owed, asked for or paid.  Not so  *)
(* when a failure is not heard of (unhandled-promise), when the callback   *)
(* of a partial redeem finds the rest of the order (lock-callback), and    *)
(* when the receiver of an ft_transfer_call returned a part (unhandled-    *)
(* promise/src/lib.rs:45-59, lock-callback/src/lib.rs:82-85,               *)
(* inconsistency/src/lib.rs:52-77).                                        *)
MayForfeit ==
  \/ contract = "unhandled-promise" /\ "failure" \in seen
  \/ contract = "lock-callback" /\ {"partial", "failure"} \subseteq seen
  \/ "return" \in seen

NeverForfeited ==
  ~MayForfeit => balance + paid + SumOf({i \in InFlight : calls[i].stage # "succeeded"}) >= Deposit
=============================================================================
