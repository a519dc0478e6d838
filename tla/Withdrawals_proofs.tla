-------------------------- MODULE Withdrawals_proofs --------------------------
(***************************************************************************)
(* Theorems about the withdrawals of src/examples, for any deposit and any *)
(* number of withdrawals in flight: no order of answers pays more than the *)
(* deposit, or loses a part of it, but where the properties say so.        *)
(*                                                                         *)
(* The invariant accounts for the deposit: what is owed, what is in flight *)
(* and what was paid, contract by contract, since they differ in when a    *)
(* withdrawal leaves the balance.                                          *)
(***************************************************************************)
EXTENDS Withdrawals, SumTheorems

Succeeded == {i \in Id : calls[i].stage = "succeeded"}
Pending == {i \in InFlight : calls[i].stage # "succeeded"}

(* What is asked for stays within what may be paid.                        *)
Capped == paid + SumOf(Asked) <= MaxPaid

(* The contracts that take the amount off the balance first: it is owed,   *)
(* pending or paid, and nothing is lost but in a failure that is not heard *)
(* of or a part that a receiver returned.                                  *)
Early == contract \notin {"reentrancy", "lock-callback"}

Taken ==
  Early =>
    /\ paid + balance + SumOf(Pending) <= Deposit
    /\ ~MayForfeit => paid + balance + SumOf(Pending) >= Deposit

(* Withdrawals that did not overlap: one is in flight at most.             *)
Alone == \A i, j \in InFlight : i = j

(* reentrancy, whose balance is behind by what has succeeded.              *)
Behind ==
  contract = "reentrancy" =>
    /\ ~MayForfeit => paid + balance - SumOf(Succeeded) >= Deposit
    /\ "overlap" \notin seen =>
         /\ Alone
         /\ \A i \in InFlight : calls[i].amount <= balance
         /\ paid + balance - SumOf(Succeeded) <= Deposit

(* lock-callback, whose order is away while it is redeemed.                *)
Away ==
  contract = "lock-callback" =>
    /\ "overlap" \notin seen =>
         /\ Alone
         /\ paid + balance <= Deposit
         /\ \A i \in Pending : /\ calls[i].original = balance + calls[i].amount
                               /\ paid + calls[i].original <= Deposit
    /\ "failure" \notin seen => \A i \in InFlight : calls[i].stage # "failed"
    /\ "partial" \notin seen =>
         \A i \in Pending : /\ balance = 0 /\ calls[i].amount = calls[i].original
                             /\ \A j \in Pending : i = j
    /\ ~MayForfeit => paid + balance + SumOf(Pending) >= Deposit

IInv == TypeOK /\ Capped /\ Taken /\ Behind /\ Away

-----------------------------------------------------------------------------
(* The sums, when one of the withdrawals changes.                          *)
Total(c, X) == SumOver([k \in X |-> c[k].amount], X)

LEMMA Bounds == IsFiniteSet(Id) /\ Deposit \in Nat /\ MaxPaid \in Nat /\ Amount = 0..MaxPaid
BY WithdrawalAssumption DEF Amount

LEMMA SumIsTotal ==
  /\ SumOf(Asked) = Total(calls, Asked)
  /\ SumOf(Pending) = Total(calls, Pending)
  /\ SumOf(Succeeded) = Total(calls, Succeeded)
BY DEF SumOf, Total, SumOver

LEMMA SumIsTotalAfter ==
  /\ SumOf(Asked)' = Total(calls', Asked')
  /\ SumOf(Pending)' = Total(calls', Pending')
  /\ SumOf(Succeeded)' = Total(calls', Succeeded')
BY DEF SumOf, Total, SumOver, MapThenSumSet, MapThenFoldSet

(* The properties' own sums.                                               *)
LEMMA SumsOfProperties ==
  /\ SumOf({i \in InFlight : calls[i].stage # "succeeded"}) = SumOf(Pending)
  /\ TypeOK => {i \in InFlight : calls[i].stage = "succeeded"} = Succeeded
BY DEF Pending, Succeeded, InFlight, TypeOK, Call, NoCall

LEMMA TotalNat ==
  ASSUME NEW c, NEW X \in SUBSET Id, \A k \in X : c[k].amount \in Nat
  PROVE  Total(c, X) \in Nat
<1> DEFINE f == [k \in X |-> c[k].amount]
<1>1. IsFiniteSet(X) /\ \A k \in X : f[k] \in Nat
  BY Bounds, FS_Subset
<1> HIDE DEF f
<1>2. SumOver(f, X) \in Nat
  BY <1>1, SumNat
<1> QED
  BY <1>2 DEF Total, f

LEMMA TotalWithout ==
  ASSUME NEW c, NEW X \in SUBSET Id, \A k \in X : c[k].amount \in Nat, NEW i \in X
  PROVE  Total(c, X) = c[i].amount + Total(c, X \ {i})
<1> DEFINE Y == X \ {i}
           f == [k \in X |-> c[k].amount]
           g == [k \in Y |-> c[k].amount]
<1>1. IsFiniteSet(X) /\ IsFiniteSet(Y)
  BY Bounds, FS_Subset
<1>2. (\A k \in X : f[k] \in Int) /\ f[i] = c[i].amount /\ \A k \in Y : f[k] = g[k]
  OBVIOUS
<1> HIDE DEF f, g
<1>3. SumOver(f, X) = f[i] + SumOver(f, Y)
  BY <1>1, <1>2, SumRemove
<1>4. SumOver(f, Y) = SumOver(g, Y)
  <2> HIDE DEF Y
  <2> QED
    BY <1>1, <1>2, SumEqual
<1> QED
  BY <1>2, <1>3, <1>4 DEF Total, f, g

LEMMA TotalSame ==
  ASSUME NEW c, NEW d, NEW X \in SUBSET Id, \A k \in X : c[k].amount = d[k].amount
  PROVE  Total(c, X) = Total(d, X)
<1> DEFINE f == [k \in X |-> c[k].amount]
           g == [k \in X |-> d[k].amount]
<1>1. IsFiniteSet(X) /\ \A k \in X : f[k] = g[k]
  BY Bounds, FS_Subset
<1> HIDE DEF f, g
<1>2. SumOver(f, X) = SumOver(g, X)
  BY <1>1, SumEqual
<1> QED
  BY <1>2 DEF Total, f, g

(* i alone changes, and enters the set, leaves it, or neither.             *)
Changed(c, d, i, X, Y) ==
  Total(d, Y) = Total(c, X) + (IF i \in Y THEN d[i].amount ELSE 0) - (IF i \in X THEN c[i].amount ELSE 0)

LEMMA TotalChange ==
  ASSUME NEW c, NEW d, NEW i \in Id, NEW X \in SUBSET Id, NEW Y \in SUBSET Id,
         \A k \in X : c[k].amount \in Nat, \A k \in Y : d[k].amount \in Nat,
         X \ {i} = Y \ {i}, \A k \in Id \ {i} : c[k] = d[k]
  PROVE  Changed(c, d, i, X, Y)
<1> DEFINE Z == X \ {i}
<1>1. Z \in SUBSET Id /\ Z = Y \ {i} /\ \A k \in Z : c[k].amount = d[k].amount /\ c[k].amount \in Nat
  OBVIOUS
<1>2. Total(c, X) = Total(c, Z) + (IF i \in X THEN c[i].amount ELSE 0)
  <2>1. CASE i \in X
    BY <2>1, TotalWithout, TotalNat, <1>1
  <2>2. CASE i \notin X
    <3>1. Z = X
      BY <2>2
    <3>2. Total(c, X) \in Nat
      BY TotalNat
    <3> HIDE DEF Z
    <3> QED
      BY <2>2, <3>1, <3>2
  <2> QED
    BY <2>1, <2>2
<1>3. Total(d, Y) = Total(d, Z) + (IF i \in Y THEN d[i].amount ELSE 0)
  <2>1. CASE i \in Y
    BY <2>1, TotalWithout, TotalNat, <1>1
  <2>2. CASE i \notin Y
    <3>1. Z = Y
      BY <1>1, <2>2
    <3>2. Total(d, Y) \in Nat
      BY TotalNat
    <3> HIDE DEF Z
    <3> QED
      BY <2>2, <3>1, <3>2
  <2> QED
    BY <2>1, <2>2
<1>4. Total(c, Z) = Total(d, Z) /\ Total(c, Z) \in Nat
  <2> HIDE DEF Z
  <2> QED
    BY <1>1, TotalSame, TotalNat
<1> QED
  BY <1>2, <1>3, <1>4 DEF Changed

(* What call i adds to a sum, when it is in one of these stages.           *)
Part(c, stages) == IF c.stage \in stages THEN c.amount ELSE 0

LEMMA CallType ==
  ASSUME TypeOK
  PROVE  /\ \A i \in Id : calls[i] = NoCall \/ calls[i] \in Call
         /\ \A i \in Id : calls[i] \in Call => calls[i].amount \in Nat
         /\ NoCall \notin Call
BY Bounds DEF TypeOK, Call, NoCall

LEMMA SumsAreNat == TypeOK => SumOf(Pending) \in Nat /\ SumOf(Succeeded) \in Nat
<1>1. SUFFICES ASSUME TypeOK PROVE SumOf(Pending) \in Nat /\ SumOf(Succeeded) \in Nat
  OBVIOUS
<1> DEFINE X == Pending
           Y == Succeeded
<1>2. X \in SUBSET Id /\ \A k \in X : calls[k].amount \in Nat
  BY <1>1, CallType DEF Pending, InFlight, NoCall
<1>3. Y \in SUBSET Id /\ \A k \in Y : calls[k].amount \in Nat
  BY <1>1, CallType DEF Succeeded, NoCall
<1> HIDE DEF X, Y
<1>4. Total(calls, X) \in Nat /\ Total(calls, Y) \in Nat
  BY <1>2, <1>3, TotalNat
<1> QED
  BY <1>4, SumIsTotal DEF X, Y

(* How the sums change with one call.                                      *)
LEMMA SumsChange ==
  ASSUME TypeOK, NEW i \in Id, NEW c \in Call \cup {NoCall}, calls' = [calls EXCEPT ![i] = c]
  PROVE  /\ SumOf(Asked)' = SumOf(Asked) + Part(c, {"asked"}) - Part(calls[i], {"asked"})
         /\ SumOf(Pending)' = SumOf(Pending) + Part(c, {"asked", "failed"}) - Part(calls[i], {"asked", "failed"})
         /\ SumOf(Succeeded)' = SumOf(Succeeded) + Part(c, {"succeeded"}) - Part(calls[i], {"succeeded"})
         /\ SumOf(Asked) \in Nat /\ SumOf(Pending) \in Nat /\ SumOf(Succeeded) \in Nat
<1> DEFINE In(d, stages) == {k \in Id : d[k].stage \in stages}
<1>1. calls \in [Id -> Call \cup {NoCall}] /\ calls' \in [Id -> Call \cup {NoCall}]
  BY DEF TypeOK
<1>2. ASSUME NEW x \in Call \cup {NoCall}
      PROVE  /\ x.stage \in {"asked", "failed", "succeeded"} => x.amount \in Nat
             /\ x.stage \in {"asked", "failed"} <=> (x # NoCall /\ x.stage # "succeeded")
  BY Bounds DEF Call, NoCall
<1> DEFINE old == calls
           now == calls'
<1>21. ASSUME NEW k \in Id
       PROVE  /\ old[k].stage \in {"asked", "failed", "succeeded"} => old[k].amount \in Nat
              /\ now[k].stage \in {"asked", "failed", "succeeded"} => now[k].amount \in Nat
              /\ old[k].stage \in {"asked", "failed"} <=> (old[k] # NoCall /\ old[k].stage # "succeeded")
              /\ now[k].stage \in {"asked", "failed"} <=> (now[k] # NoCall /\ now[k].stage # "succeeded")
  <2>1. old[k] \in Call \cup {NoCall} /\ now[k] \in Call \cup {NoCall}
    BY <1>1
  <2> HIDE DEF old, now
  <2> QED
    BY <1>2, <2>1
<1>3. /\ Asked = In(calls, {"asked"}) /\ Asked' = In(calls', {"asked"})
      /\ Succeeded = In(calls, {"succeeded"}) /\ Succeeded' = In(calls', {"succeeded"})
  BY DEF Asked, Succeeded
<1>4. Pending = In(calls, {"asked", "failed"}) /\ Pending' = In(calls', {"asked", "failed"})
  BY <1>21 DEF Pending, InFlight
<1>5. ASSUME NEW stages \in SUBSET {"asked", "failed", "succeeded"}
      PROVE  /\ Total(calls', In(calls', stages)) =
                  Total(calls, In(calls, stages)) + Part(c, stages) - Part(calls[i], stages)
             /\ Total(calls, In(calls, stages)) \in Nat
  <2> DEFINE X == In(calls, stages)
             Y == In(calls', stages)
  <2>1. X \in SUBSET Id /\ Y \in SUBSET Id /\ (\A k \in X : old[k].amount \in Nat)
        /\ \A k \in Y : now[k].amount \in Nat
    BY <1>21
  <2>2. X \ {i} = Y \ {i} /\ \A k \in Id \ {i} : old[k] = now[k]
    BY <1>1
  <2>3. /\ (IF i \in Y THEN now[i].amount ELSE 0) = Part(c, stages)
        /\ (IF i \in X THEN old[i].amount ELSE 0) = Part(old[i], stages)
    BY <1>1 DEF Part
  <2> HIDE DEF X, Y, In, old, now
  <2>4. Changed(old, now, i, X, Y)
    BY <2>1, <2>2, TotalChange
  <2>5. Total(old, X) \in Nat
    BY <2>1, TotalNat
  <2>6. Total(now, Y) = Total(old, X) + Part(c, stages) - Part(old[i], stages)
    BY <2>3, <2>4 DEF Changed
  <2> QED
    BY <2>5, <2>6 DEF X, Y, old, now
<1> HIDE DEF In
<1>6. ASSUME NEW s \in {{"asked"}, {"asked", "failed"}, {"succeeded"}} PROVE s \in SUBSET {"asked", "failed", "succeeded"}
  OBVIOUS
<1>7. /\ Total(calls', Asked') = Total(calls, Asked) + Part(c, {"asked"}) - Part(calls[i], {"asked"})
      /\ Total(calls, Asked) \in Nat
  BY <1>3, <1>5, <1>6
<1>8. /\ Total(calls', Pending') =
           Total(calls, Pending) + Part(c, {"asked", "failed"}) - Part(calls[i], {"asked", "failed"})
      /\ Total(calls, Pending) \in Nat
  BY <1>4, <1>5, <1>6
<1>9. /\ Total(calls', Succeeded') = Total(calls, Succeeded) + Part(c, {"succeeded"}) - Part(calls[i], {"succeeded"})
      /\ Total(calls, Succeeded) \in Nat
  BY <1>3, <1>5, <1>6
<1> QED
  BY <1>7, <1>8, <1>9, SumIsTotal, SumIsTotalAfter

-----------------------------------------------------------------------------
(* What has happened stays so, and with it what may be forfeited.          *)
LEMMA SeenGrows ==
  ASSUME UNCHANGED contract, seen \subseteq seen'
  PROVE  ~MayForfeit' => ~MayForfeit
BY DEF MayForfeit

(* A withdrawal begins: what the three kinds of contract have in common.   *)
LEMMA AskResult ==
  ASSUME IInv, NEW i \in Id, NEW n \in Amount, NEW returnable \in BOOLEAN, Ask(i, n, returnable),
         balance' \in 0..Deposit
  PROVE  /\ TypeOK' /\ Capped' /\ UNCHANGED <<contract, paid>> /\ seen \subseteq seen'
         /\ SumOf(Pending)' = SumOf(Pending) + n /\ SumOf(Succeeded)' = SumOf(Succeeded)
         /\ SumOf(Pending) \in Nat /\ SumOf(Succeeded) \in Nat
         /\ calls[i] = NoCall
         /\ \A k \in Id \ {i} : calls'[k] = calls[k]
         /\ calls'[i].stage = "asked" /\ calls'[i].amount = n /\ calls'[i].original = balance
         /\ calls'[i] # NoCall
<1> DEFINE c == [stage |-> "asked", amount |-> n, original |-> balance, returnable |-> returnable]
<1>1. TypeOK /\ Capped
  BY DEF IInv
<1>2. c \in Call /\ c # NoCall
  BY <1>1 DEF TypeOK, Call, NoCall
<1>3. c.stage = "asked" /\ c.amount = n /\ c.original = balance
  OBVIOUS
<1>4. calls' = [calls EXCEPT ![i] = c] /\ calls[i] = NoCall /\ UNCHANGED <<contract, paid>>
      /\ paid + SumOf(Asked) + n <= MaxPaid
  BY DEF Ask
<1> HIDE DEF c
<1>5. Part(c, {"asked"}) = n /\ Part(c, {"asked", "failed"}) = n /\ Part(c, {"succeeded"}) = 0
  BY <1>3 DEF Part
<1>6. /\ Part(calls[i], {"asked"}) = 0 /\ Part(calls[i], {"asked", "failed"}) = 0
      /\ Part(calls[i], {"succeeded"}) = 0
  BY <1>4 DEF Part, NoCall
<1>71. /\ SumOf(Asked)' = SumOf(Asked) + Part(c, {"asked"}) - Part(calls[i], {"asked"})
       /\ SumOf(Pending)' = SumOf(Pending) + Part(c, {"asked", "failed"}) - Part(calls[i], {"asked", "failed"})
       /\ SumOf(Succeeded)' = SumOf(Succeeded) + Part(c, {"succeeded"}) - Part(calls[i], {"succeeded"})
       /\ SumOf(Asked) \in Nat /\ SumOf(Pending) \in Nat /\ SumOf(Succeeded) \in Nat
  BY <1>1, <1>2, <1>4, SumsChange
<1>7. /\ SumOf(Asked)' = SumOf(Asked) + n /\ SumOf(Pending)' = SumOf(Pending) + n
      /\ SumOf(Succeeded)' = SumOf(Succeeded)
      /\ SumOf(Asked) \in Nat /\ SumOf(Pending) \in Nat /\ SumOf(Succeeded) \in Nat
  BY <1>5, <1>6, <1>71, Bounds
<1>8. seen \subseteq seen' /\ seen' \subseteq {"overlap", "partial", "failure", "return"}
  BY <1>1 DEF Ask, TypeOK
<1>9. calls' \in [Id -> Call \cup {NoCall}]
  BY <1>1, <1>2, <1>4 DEF TypeOK
<1>10. TypeOK' /\ Capped'
  BY <1>1, <1>4, <1>7, <1>8, <1>9, Bounds DEF TypeOK, Capped
<1>11. (\A k \in Id \ {i} : calls'[k] = calls[k]) /\ calls'[i] = c
  BY <1>1, <1>4 DEF TypeOK
<1> QED
  BY <1>2, <1>3, <1>4, <1>7, <1>8, <1>10, <1>11

LEMMA AskEarly ==
  ASSUME IInv, NEW i \in Id, NEW n \in Amount, NEW returnable \in BOOLEAN, Ask(i, n, returnable),
         Early, sub_balance(n)
  PROVE  IInv'
<1>1. balance' = balance - n /\ balance' \in 0..Deposit /\ balance \in Int /\ n \in Nat /\ paid \in Nat
  BY Bounds DEF sub_balance, IInv, TypeOK
<1>2. /\ TypeOK' /\ Capped' /\ UNCHANGED <<contract, paid>> /\ seen \subseteq seen'
      /\ SumOf(Pending)' = SumOf(Pending) + n /\ SumOf(Pending) \in Nat
  BY <1>1, AskResult
<1>3. Taken'
  BY <1>1, <1>2, SeenGrows, Bounds DEF IInv, Taken, Early
<1> QED
  BY <1>2, <1>3 DEF IInv, Early, Behind, Away

LEMMA AskReentrancy ==
  ASSUME IInv, NEW i \in Id, NEW n \in Amount, NEW returnable \in BOOLEAN, Ask(i, n, returnable),
         contract = "reentrancy", balance >= n, UNCHANGED balance
  PROVE  IInv'
<1>1. balance' \in 0..Deposit /\ n \in Nat /\ paid \in Nat
  BY Bounds DEF IInv, TypeOK
<1>2. /\ TypeOK' /\ Capped' /\ UNCHANGED <<contract, paid>> /\ seen \subseteq seen'
      /\ SumOf(Succeeded)' = SumOf(Succeeded) /\ SumOf(Succeeded) \in Nat
      /\ \A k \in Id \ {i} : calls'[k] = calls[k]
      /\ calls'[i].amount = n
  BY <1>1, AskResult
<1>3. ASSUME "overlap" \notin seen'
      PROVE  Alone' /\ \A k \in InFlight' : k = i
  BY <1>2, <1>3 DEF Ask, InFlight, Alone
<1>4. Behind'
  BY <1>1, <1>2, <1>3, SeenGrows, Bounds DEF IInv, Behind, TypeOK
<1> QED
  BY <1>2, <1>4 DEF IInv, Early, Taken, Away

LEMMA AskRedeem ==
  ASSUME IInv, NEW i \in Id, NEW n \in Amount, NEW returnable \in BOOLEAN, Ask(i, n, returnable),
         contract = "lock-callback", balance > 0, sub_balance(n)
  PROVE  IInv'
<1>1. balance' = balance - n /\ balance' \in 0..Deposit /\ balance \in Int /\ n \in Nat /\ paid \in Nat
      /\ balance >= n
  BY Bounds DEF sub_balance, IInv, TypeOK
<1>2. /\ TypeOK' /\ Capped' /\ UNCHANGED <<contract, paid>> /\ seen \subseteq seen'
      /\ SumOf(Pending)' = SumOf(Pending) + n /\ SumOf(Pending) \in Nat
      /\ \A k \in Id \ {i} : calls'[k] = calls[k]
      /\ calls'[i].stage = "asked" /\ calls'[i].amount = n /\ calls'[i].original = balance
      /\ calls'[i] # NoCall
  BY <1>1, AskResult
<1>3. ASSUME "overlap" \notin seen' PROVE Alone' /\ \A k \in InFlight' : k = i
  BY <1>2, <1>3 DEF Ask, InFlight, Alone
<1>4. ASSUME "overlap" \notin seen'
      PROVE  /\ Alone' /\ paid' + balance' <= Deposit
             /\ \A k \in Pending' : /\ calls'[k].original = balance' + calls'[k].amount
                                    /\ paid' + calls'[k].original <= Deposit
  <2>1. paid + balance <= Deposit
    BY <1>2, <1>4 DEF IInv, Away
  <2>2. \A k \in Pending' : k = i
    BY <1>3, <1>4 DEF Pending
  <2> QED
    BY <1>1, <1>2, <1>3, <1>4, <2>1, <2>2, Bounds
<1>5. "failure" \notin seen' => \A k \in InFlight' : calls'[k].stage # "failed"
  BY <1>2 DEF IInv, Away, InFlight
<1>6. ASSUME "partial" \notin seen'
      PROVE  \A k \in Pending' : /\ balance' = 0 /\ calls'[k].amount = calls'[k].original
                                 /\ \A j \in Pending' : k = j
  <2>1. n = balance
    BY <1>1, <1>6 DEF Ask
  <2>2. \A k \in Pending : balance = 0
    BY <1>2, <1>6 DEF IInv, Away
  <2>3. Pending = {}
    BY <2>2
  <2>4. \A k \in Pending' : k = i
    BY <1>2, <2>3 DEF Pending, InFlight
  <2> QED
    BY <1>1, <1>2, <2>1, <2>4
<1>7. ~MayForfeit' => paid' + balance' + SumOf(Pending)' >= Deposit
  BY <1>1, <1>2, SeenGrows, Bounds DEF IInv, Away
<1>8. Away'
  BY <1>4, <1>5, <1>6, <1>7 DEF Away
<1> QED
  BY <1>2, <1>8 DEF IInv, Early, Taken, Behind

-----------------------------------------------------------------------------
(* An answer: the call gets another stage or goes.                         *)
LEMMA AnswerResult ==
  ASSUME IInv, NEW i \in Id, calls[i] # NoCall, NEW c \in Call \cup {NoCall},
         c # NoCall => c.amount = calls[i].amount /\ c.original = calls[i].original,
         calls' = [calls EXCEPT ![i] = c]
  PROVE  /\ calls' \in [Id -> Call \cup {NoCall}] /\ calls'[i] = c
         /\ \A k \in Id \ {i} : calls'[k] = calls[k]
         /\ SumOf(Asked)' = SumOf(Asked) + Part(c, {"asked"}) - Part(calls[i], {"asked"})
         /\ SumOf(Pending)' = SumOf(Pending) + Part(c, {"asked", "failed"}) - Part(calls[i], {"asked", "failed"})
         /\ SumOf(Succeeded)' = SumOf(Succeeded) + Part(c, {"succeeded"}) - Part(calls[i], {"succeeded"})
         /\ SumOf(Asked) \in Nat /\ SumOf(Pending) \in Nat /\ SumOf(Succeeded) \in Nat
         /\ SumOf(Pending)' \in Nat /\ SumOf(Asked)' \in Nat
         /\ calls[i].amount \in Nat /\ InFlight' \subseteq InFlight
         /\ Alone => Alone' /\ \A k \in InFlight' : k = i
         /\ \A k \in InFlight' : calls'[k].amount = calls[k].amount /\ calls'[k].original = calls[k].original
<1>1. TypeOK
  BY DEF IInv
<1>2. calls' \in [Id -> Call \cup {NoCall}] /\ calls'[i] = c /\ \A k \in Id \ {i} : calls'[k] = calls[k]
  BY <1>1 DEF TypeOK
<1>3. /\ SumOf(Asked)' = SumOf(Asked) + Part(c, {"asked"}) - Part(calls[i], {"asked"})
      /\ SumOf(Pending)' = SumOf(Pending) + Part(c, {"asked", "failed"}) - Part(calls[i], {"asked", "failed"})
      /\ SumOf(Succeeded)' = SumOf(Succeeded) + Part(c, {"succeeded"}) - Part(calls[i], {"succeeded"})
      /\ SumOf(Asked) \in Nat /\ SumOf(Pending) \in Nat /\ SumOf(Succeeded) \in Nat
  BY <1>1, SumsChange
<1>4. SumOf(Pending)' \in Nat /\ SumOf(Asked)' \in Nat
  <2> DEFINE d == calls'
             X == Pending'
             Y == Asked'
  <2>1. \A x \in Call : x.amount \in Nat
    BY Bounds DEF Call
  <2>2. X \in SUBSET Id /\ \A k \in X : d[k].amount \in Nat
    BY <1>2, <2>1 DEF Pending, InFlight
  <2>3. Y \in SUBSET Id /\ \A k \in Y : d[k].amount \in Nat
    BY <1>2, <2>1 DEF Asked, NoCall
  <2>4. SumOf(Pending)' = Total(d, X) /\ SumOf(Asked)' = Total(d, Y)
    BY SumIsTotalAfter
  <2> HIDE DEF d, X, Y
  <2> QED
    BY <2>2, <2>3, <2>4, TotalNat
<1>5. calls[i].amount \in Nat
  BY <1>1, CallType DEF TypeOK
<1>6. InFlight' \subseteq InFlight /\ i \in InFlight
  BY <1>2 DEF InFlight
<1>7. Alone => Alone' /\ \A k \in InFlight' : k = i
  BY <1>6 DEF Alone
<1>8. \A k \in InFlight' : calls'[k].amount = calls[k].amount /\ calls'[k].original = calls[k].original
  BY <1>2 DEF InFlight
<1> QED
  BY <1>2, <1>3, <1>4, <1>5, <1>6, <1>7, <1>8

LEMMA PayStep ==
  ASSUME IInv, NEW i \in Id, NEW used \in Amount, pay(i, used)
  PROVE  IInv'
<1> DEFINE n == calls[i].amount
           d == [calls[i] EXCEPT !.stage = "succeeded"]
           c == IF contract = "unhandled-promise" THEN NoCall ELSE d
           s == IF contract = "unhandled-promise" THEN 0 ELSE n
<1>1. /\ calls[i].stage = "asked" /\ used <= n /\ paid' = paid + used
      /\ calls' = [calls EXCEPT ![i] = c]
      /\ seen' = seen \cup (IF used < n THEN {"return"} ELSE {})
      /\ UNCHANGED <<contract, balance>>
  BY DEF pay
<1>2. calls[i] \in Call /\ calls[i] # NoCall /\ TypeOK
  BY <1>1, CallType DEF IInv, NoCall
<1>3. d \in Call /\ d.stage = "succeeded" /\ d.amount = n /\ d.original = calls[i].original
  BY <1>2 DEF Call
<1> HIDE DEF d
<1>4. c \in Call \cup {NoCall} /\ (c # NoCall => c.amount = n /\ c.original = calls[i].original)
  BY <1>3
<1>5. /\ Part(c, {"asked"}) = 0 /\ Part(c, {"asked", "failed"}) = 0 /\ Part(c, {"succeeded"}) = s
      /\ Part(calls[i], {"asked"}) = n /\ Part(calls[i], {"asked", "failed"}) = n
      /\ Part(calls[i], {"succeeded"}) = 0
  BY <1>1, <1>3 DEF Part, NoCall
<1>6. c # NoCall => c.stage = "succeeded"
  BY <1>3
<1> HIDE DEF c
<1>7. /\ calls' \in [Id -> Call \cup {NoCall}] /\ calls'[i] = c
      /\ \A k \in Id \ {i} : calls'[k] = calls[k]
      /\ SumOf(Asked)' = SumOf(Asked) + Part(c, {"asked"}) - Part(calls[i], {"asked"})
      /\ SumOf(Pending)' = SumOf(Pending) + Part(c, {"asked", "failed"}) - Part(calls[i], {"asked", "failed"})
      /\ SumOf(Succeeded)' = SumOf(Succeeded) + Part(c, {"succeeded"}) - Part(calls[i], {"succeeded"})
      /\ SumOf(Asked) \in Nat /\ SumOf(Pending) \in Nat /\ SumOf(Succeeded) \in Nat
      /\ SumOf(Pending)' \in Nat /\ SumOf(Asked)' \in Nat /\ n \in Nat /\ InFlight' \subseteq InFlight
      /\ Alone => Alone' /\ \A k \in InFlight' : k = i
      /\ \A k \in InFlight' : calls'[k].amount = calls[k].amount /\ calls'[k].original = calls[k].original
  BY <1>1, <1>2, <1>4, AnswerResult
<1>8. /\ SumOf(Asked)' = SumOf(Asked) - n /\ SumOf(Pending)' = SumOf(Pending) - n
      /\ SumOf(Succeeded)' = SumOf(Succeeded) + s /\ s \in Nat /\ used \in Nat /\ paid \in Nat /\ balance \in Nat
  BY <1>2, <1>5, <1>7, Bounds DEF TypeOK
<1>9. (~MayForfeit' => ~MayForfeit /\ used = n) /\ seen \subseteq seen'
  BY <1>1, <1>7, <1>8, SeenGrows DEF MayForfeit
<1>10. Pending' = Pending \ {i}
  BY <1>6, <1>7 DEF Pending, InFlight
<1>11. TypeOK' /\ Capped'
  <2>1. seen' \subseteq {"overlap", "partial", "failure", "return"}
    BY <1>1, <1>2 DEF TypeOK
  <2>2. paid' + SumOf(Asked)' <= MaxPaid /\ paid' <= MaxPaid
    <3>1. paid + SumOf(Asked) <= MaxPaid /\ SumOf(Asked)' \in Nat
      BY <1>7 DEF IInv, Capped
    <3> QED
      BY <1>1, <1>7, <1>8, <3>1, Bounds
  <2> QED
    BY <1>1, <1>2, <1>7, <1>8, <2>1, <2>2, Bounds DEF TypeOK, Capped
<1>12. Taken'
  <2>1. SUFFICES ASSUME Early PROVE Taken'
    BY <1>1 DEF Taken, Early
  <2>2. /\ paid + balance + SumOf(Pending) <= Deposit
        /\ ~MayForfeit => paid + balance + SumOf(Pending) >= Deposit
    BY <2>1 DEF IInv, Taken
  <2>3. /\ paid' + balance' + SumOf(Pending)' <= Deposit
        /\ ~MayForfeit' => paid' + balance' + SumOf(Pending)' >= Deposit
    <3> HIDE DEF n, s
    <3> QED
      BY <1>1, <1>7, <1>8, <1>9, <2>2, Bounds
  <2> QED
    BY <2>3 DEF Taken
<1>13. Behind'
  <2>1. SUFFICES ASSUME contract = "reentrancy" PROVE Behind'
    BY <1>1 DEF Behind
  <2>2. s = n
    BY <2>1
  <2>3. ~MayForfeit' => paid' + balance' - SumOf(Succeeded)' >= Deposit
    <3>1. ~MayForfeit => paid + balance - SumOf(Succeeded) >= Deposit
      BY <2>1 DEF IInv, Behind
    <3> HIDE DEF n, s
    <3> QED
      BY <1>1, <1>7, <1>8, <1>9, <2>2, <3>1, Bounds
  <2>4. ASSUME "overlap" \notin seen'
        PROVE  /\ Alone' /\ \A k \in InFlight' : calls'[k].amount <= balance'
               /\ paid' + balance' - SumOf(Succeeded)' <= Deposit
    <3>1. /\ Alone /\ \A k \in InFlight : calls[k].amount <= balance
          /\ paid + balance - SumOf(Succeeded) <= Deposit
      BY <1>9, <2>1, <2>4 DEF IInv, Behind
    <3>2. \A k \in InFlight' : calls'[k].amount <= balance'
      BY <1>1, <1>7, <3>1
    <3> HIDE DEF n, s
    <3> QED
      BY <1>1, <1>7, <1>8, <2>2, <3>1, <3>2, Bounds
  <2> QED
    BY <2>3, <2>4 DEF Behind
<1>14. Away'
  <2>1. SUFFICES ASSUME contract = "lock-callback" PROVE Away'
    BY <1>1 DEF Away
  <2>2. ASSUME "overlap" \notin seen'
        PROVE  /\ Alone' /\ paid' + balance' <= Deposit /\ Pending' = {}
    <3>1. /\ Alone /\ calls[i].original = balance + n /\ paid + calls[i].original <= Deposit
      BY <1>1, <1>2, <1>9, <2>1, <2>2 DEF IInv, Away, Pending, InFlight
    <3>2. \A k \in Pending : k = i
      BY <1>2, <3>1 DEF Alone, Pending, InFlight
    <3>3. Pending' = {}
      BY <1>10, <3>2
    <3> HIDE DEF n, s
    <3> QED
      BY <1>1, <1>7, <1>8, <3>1, <3>3, Bounds
  <2>3. "failure" \notin seen' => \A k \in InFlight' : calls'[k].stage # "failed"
    BY <1>6, <1>7, <1>9, <2>1 DEF IInv, Away, InFlight
  <2>4. ASSUME "partial" \notin seen'
        PROVE  \A k \in Pending' : /\ balance' = 0 /\ calls'[k].amount = calls'[k].original
                                   /\ \A j \in Pending' : k = j
    <3>1. \A k \in Pending : /\ balance = 0 /\ calls[k].amount = calls[k].original
                             /\ \A j \in Pending : k = j
      BY <1>9, <2>1, <2>4 DEF IInv, Away
    <3> QED
      BY <1>1, <1>7, <1>10, <3>1 DEF Pending, InFlight
  <2>5. ~MayForfeit' => paid' + balance' + SumOf(Pending)' >= Deposit
    <3>1. ~MayForfeit => paid + balance + SumOf(Pending) >= Deposit
      BY <2>1 DEF IInv, Away
    <3> HIDE DEF n, s
    <3> QED
      BY <1>1, <1>7, <1>8, <1>9, <3>1, Bounds
  <2> QED
    BY <2>2, <2>3, <2>4, <2>5 DEF Away
<1> QED
  BY <1>11, <1>12, <1>13, <1>14 DEF IInv

LEMMA FailStep ==
  ASSUME IInv, NEW i \in Id, fail(i)
  PROVE  IInv'
<1> DEFINE n == calls[i].amount
           d == [calls[i] EXCEPT !.stage = "failed"]
           c == IF contract = "unhandled-promise" THEN NoCall ELSE d
           p == IF contract = "unhandled-promise" THEN 0 ELSE n
<1>1. /\ calls[i].stage = "asked"
      /\ calls' = [calls EXCEPT ![i] = c]
      /\ seen' = seen \cup {"failure"}
      /\ UNCHANGED <<contract, balance, paid>>
  BY DEF fail
<1>2. calls[i] \in Call /\ calls[i] # NoCall /\ TypeOK
  BY <1>1, CallType DEF IInv, NoCall
<1>3. d \in Call /\ d.stage = "failed" /\ d.amount = n /\ d.original = calls[i].original
  BY <1>2 DEF Call
<1> HIDE DEF d
<1>4. c \in Call \cup {NoCall} /\ (c # NoCall => c.amount = n /\ c.original = calls[i].original)
  BY <1>3
<1>5. /\ Part(c, {"asked"}) = 0 /\ Part(c, {"asked", "failed"}) = p /\ Part(c, {"succeeded"}) = 0
      /\ Part(calls[i], {"asked"}) = n /\ Part(calls[i], {"asked", "failed"}) = n
      /\ Part(calls[i], {"succeeded"}) = 0
  BY <1>1, <1>3 DEF Part, NoCall
<1> HIDE DEF c
<1>7. /\ calls' \in [Id -> Call \cup {NoCall}] /\ calls'[i] = c
      /\ \A k \in Id \ {i} : calls'[k] = calls[k]
      /\ SumOf(Asked)' = SumOf(Asked) + Part(c, {"asked"}) - Part(calls[i], {"asked"})
      /\ SumOf(Pending)' = SumOf(Pending) + Part(c, {"asked", "failed"}) - Part(calls[i], {"asked", "failed"})
      /\ SumOf(Succeeded)' = SumOf(Succeeded) + Part(c, {"succeeded"}) - Part(calls[i], {"succeeded"})
      /\ SumOf(Asked) \in Nat /\ SumOf(Pending) \in Nat /\ SumOf(Succeeded) \in Nat
      /\ SumOf(Pending)' \in Nat /\ SumOf(Asked)' \in Nat /\ n \in Nat /\ InFlight' \subseteq InFlight
      /\ Alone => Alone' /\ \A k \in InFlight' : k = i
      /\ \A k \in InFlight' : calls'[k].amount = calls[k].amount /\ calls'[k].original = calls[k].original
  BY <1>1, <1>2, <1>4, AnswerResult
<1>8. /\ SumOf(Asked)' = SumOf(Asked) - n /\ SumOf(Pending)' = SumOf(Pending) + p - n
      /\ SumOf(Succeeded)' = SumOf(Succeeded) /\ p \in Nat /\ paid \in Nat /\ balance \in Nat
  BY <1>2, <1>5, <1>7, Bounds DEF TypeOK
<1>9. /\ ~MayForfeit' => ~MayForfeit /\ contract # "unhandled-promise"
                          /\ (contract = "lock-callback" => "partial" \notin seen)
      /\ seen \subseteq seen'
  BY <1>1 DEF MayForfeit
<1>10. Pending' \subseteq Pending
  BY <1>1, <1>2, <1>7 DEF Pending, InFlight
<1>11. TypeOK' /\ Capped'
  <2>1. seen' \subseteq {"overlap", "partial", "failure", "return"}
    BY <1>1, <1>2 DEF TypeOK
  <2>2. paid' + SumOf(Asked)' <= MaxPaid
    <3>1. paid + SumOf(Asked) <= MaxPaid
      BY DEF IInv, Capped
    <3> QED
      BY <1>1, <1>7, <1>8, <3>1, Bounds
  <2> QED
    BY <1>1, <1>2, <1>7, <2>1, <2>2 DEF TypeOK, Capped
<1>12. Taken'
  <2>1. SUFFICES ASSUME Early PROVE Taken'
    BY <1>1 DEF Taken, Early
  <2>2. /\ paid + balance + SumOf(Pending) <= Deposit
        /\ ~MayForfeit => paid + balance + SumOf(Pending) >= Deposit
    BY <2>1 DEF IInv, Taken
  <2>3. paid' + balance' + SumOf(Pending)' <= Deposit
    BY <1>1, <1>7, <1>8, <2>2, Bounds
  <2>4. ~MayForfeit' => paid' + balance' + SumOf(Pending)' >= Deposit
    BY <1>1, <1>7, <1>8, <1>9, <2>2, Bounds
  <2> QED
    BY <2>3, <2>4 DEF Taken
<1>13. Behind'
  <2>1. SUFFICES ASSUME contract = "reentrancy" PROVE Behind'
    BY <1>1 DEF Behind
  <2>2. ~MayForfeit' => paid' + balance' - SumOf(Succeeded)' >= Deposit
    BY <1>1, <1>8, <1>9, <2>1 DEF IInv, Behind
  <2>3. ASSUME "overlap" \notin seen'
        PROVE  /\ Alone' /\ \A k \in InFlight' : calls'[k].amount <= balance'
               /\ paid' + balance' - SumOf(Succeeded)' <= Deposit
    <3>1. /\ Alone /\ \A k \in InFlight : calls[k].amount <= balance
          /\ paid + balance - SumOf(Succeeded) <= Deposit
      BY <1>9, <2>1, <2>3 DEF IInv, Behind
    <3> QED
      BY <1>1, <1>7, <1>8, <3>1
  <2> QED
    BY <2>2, <2>3 DEF Behind
<1>14. Away'
  <2>1. SUFFICES ASSUME contract = "lock-callback" PROVE Away'
    BY <1>1 DEF Away
  <2>2. ASSUME "overlap" \notin seen'
        PROVE  /\ Alone' /\ paid' + balance' <= Deposit
               /\ \A k \in Pending' : /\ calls'[k].original = balance' + calls'[k].amount
                                      /\ paid' + calls'[k].original <= Deposit
    <3>1. /\ Alone /\ paid + balance <= Deposit
          /\ \A k \in Pending : /\ calls[k].original = balance + calls[k].amount
                                /\ paid + calls[k].original <= Deposit
      BY <1>9, <2>1, <2>2 DEF IInv, Away
    <3>2. \A k \in Pending' : calls'[k].amount = calls[k].amount /\ calls'[k].original = calls[k].original
      BY <1>7 DEF Pending
    <3> QED
      BY <1>1, <1>7, <1>10, <3>1, <3>2
  <2>3. "failure" \in seen'
    BY <1>1
  <2>4. ASSUME "partial" \notin seen'
        PROVE  \A k \in Pending' : /\ balance' = 0 /\ calls'[k].amount = calls'[k].original
                                   /\ \A j \in Pending' : k = j
    <3>1. \A k \in Pending : /\ balance = 0 /\ calls[k].amount = calls[k].original
                             /\ \A j \in Pending : k = j
      BY <1>9, <2>1, <2>4 DEF IInv, Away
    <3>2. \A k \in Pending' : calls'[k].amount = calls[k].amount /\ calls'[k].original = calls[k].original
      BY <1>7 DEF Pending
    <3> QED
      BY <1>1, <1>10, <3>1, <3>2
  <2>5. ~MayForfeit' => paid' + balance' + SumOf(Pending)' >= Deposit
    <3>1. ~MayForfeit => paid + balance + SumOf(Pending) >= Deposit
      BY <2>1 DEF IInv, Away
    <3>2. p = n
      BY <2>1
    <3> HIDE DEF n, p
    <3> QED
      BY <1>1, <1>7, <1>8, <1>9, <3>1, <3>2, Bounds
  <2> QED
    BY <2>2, <2>3, <2>4, <2>5 DEF Away
<1> QED
  BY <1>11, <1>12, <1>13, <1>14 DEF IInv

-----------------------------------------------------------------------------
(* The callbacks: the call is over.                                        *)
LEMMA AnsweredResult ==
  ASSUME IInv, NEW i \in Id, Answered(i)
  PROVE  /\ UNCHANGED <<contract, paid, seen>> /\ i \in InFlight /\ calls[i] \in Call
         /\ calls' \in [Id -> Call \cup {NoCall}] /\ Capped'
         /\ InFlight' = InFlight \ {i} /\ Pending' = Pending \ {i}
         /\ \A k \in Id \ {i} : calls'[k] = calls[k]
         /\ SumOf(Pending)' = SumOf(Pending) - (IF calls[i].stage = "failed" THEN calls[i].amount ELSE 0)
         /\ SumOf(Succeeded)' = SumOf(Succeeded) - (IF calls[i].stage = "succeeded" THEN calls[i].amount ELSE 0)
         /\ SumOf(Pending) \in Nat /\ SumOf(Succeeded) \in Nat /\ SumOf(Pending)' \in Nat
         /\ calls[i].amount \in Nat /\ MayForfeit' = MayForfeit
<1>1. /\ calls[i].stage \in {"failed", "succeeded"} /\ calls' = [calls EXCEPT ![i] = NoCall]
      /\ UNCHANGED <<contract, paid, seen>>
  BY DEF Answered
<1>2. calls[i] \in Call /\ calls[i] # NoCall /\ TypeOK
  BY <1>1, CallType DEF IInv, NoCall
<1>3. /\ calls' \in [Id -> Call \cup {NoCall}] /\ calls'[i] = NoCall
      /\ \A k \in Id \ {i} : calls'[k] = calls[k]
      /\ SumOf(Asked)' = SumOf(Asked) + Part(NoCall, {"asked"}) - Part(calls[i], {"asked"})
      /\ SumOf(Pending)' = SumOf(Pending) + Part(NoCall, {"asked", "failed"}) - Part(calls[i], {"asked", "failed"})
      /\ SumOf(Succeeded)' = SumOf(Succeeded) + Part(NoCall, {"succeeded"}) - Part(calls[i], {"succeeded"})
      /\ SumOf(Asked) \in Nat /\ SumOf(Pending) \in Nat /\ SumOf(Succeeded) \in Nat
      /\ SumOf(Pending)' \in Nat /\ calls[i].amount \in Nat
  BY <1>1, <1>2, AnswerResult
<1>4. /\ Part(NoCall, {"asked"}) = 0 /\ Part(NoCall, {"asked", "failed"}) = 0 /\ Part(NoCall, {"succeeded"}) = 0
      /\ Part(calls[i], {"asked"}) = 0
      /\ Part(calls[i], {"asked", "failed"}) = (IF calls[i].stage = "failed" THEN calls[i].amount ELSE 0)
      /\ Part(calls[i], {"succeeded"}) = (IF calls[i].stage = "succeeded" THEN calls[i].amount ELSE 0)
  BY <1>1 DEF Part, NoCall
<1>5. InFlight' = InFlight \ {i} /\ i \in InFlight
  BY <1>2, <1>3 DEF InFlight
<1>6. Pending' = Pending \ {i}
  BY <1>3, <1>5 DEF Pending, InFlight
<1>7. SumOf(Asked)' = SumOf(Asked)
  BY <1>3, <1>4
<1>8. Capped' /\ MayForfeit' = MayForfeit
  BY <1>1, <1>7 DEF IInv, Capped, MayForfeit
<1>9. SumOf(Pending)' = SumOf(Pending) - (IF calls[i].stage = "failed" THEN calls[i].amount ELSE 0)
  BY <1>3, <1>4
<1>10. SumOf(Succeeded)' = SumOf(Succeeded) - (IF calls[i].stage = "succeeded" THEN calls[i].amount ELSE 0)
  BY <1>3, <1>4
<1> QED
  BY <1>1, <1>2, <1>3, <1>5, <1>6, <1>8, <1>9, <1>10

LEMMA RestoredStep ==
  ASSUME IInv, NEW i \in Id, contract \in Restoring, Answered(i), balance' = Restored(i)
  PROVE  IInv'
<1> DEFINE n == IF calls[i].stage = "failed" THEN calls[i].amount ELSE 0
<1>1. Early
  BY DEF Early, Restoring
<1>2. /\ UNCHANGED <<contract, paid, seen>> /\ calls' \in [Id -> Call \cup {NoCall}] /\ Capped'
      /\ SumOf(Pending)' = SumOf(Pending) - n /\ SumOf(Pending) \in Nat /\ SumOf(Pending)' \in Nat
      /\ n \in Nat /\ MayForfeit' = MayForfeit
  BY AnsweredResult
<1>3. TypeOK /\ balance \in Nat /\ paid \in Nat
  BY Bounds DEF IInv, TypeOK
<1>4. balance' = balance + n
  BY <1>3 DEF Restored
<1>5. /\ paid + balance + SumOf(Pending) <= Deposit
      /\ ~MayForfeit => paid + balance + SumOf(Pending) >= Deposit
  BY <1>1 DEF IInv, Taken
<1> HIDE DEF n
<1>6. paid' + balance' + SumOf(Pending)' = paid + balance + SumOf(Pending)
  BY <1>2, <1>3, <1>4
<1>7. balance' \in 0..Deposit
  BY <1>2, <1>3, <1>4, <1>5, <1>6, Bounds
<1>8. TypeOK'
  BY <1>2, <1>3, <1>7 DEF TypeOK
<1>9. Taken'
  BY <1>2, <1>5, <1>6 DEF Taken
<1> QED
  BY <1>1, <1>2, <1>8, <1>9 DEF IInv, Early, Behind, Away

LEMMA ReentrancyCallbackStep ==
  ASSUME IInv, NEW i \in Id, callback_withdraw_reentrancy(i)
  PROVE  IInv'
<1> DEFINE n == calls[i].amount
<1>1. contract = "reentrancy" /\ Answered(i)
      /\ balance' = IF calls[i].stage = "succeeded" /\ n <= balance THEN balance - n ELSE balance
  BY DEF callback_withdraw_reentrancy
<1>2. /\ UNCHANGED <<contract, paid, seen>> /\ calls' \in [Id -> Call \cup {NoCall}] /\ Capped'
      /\ SumOf(Succeeded)' = SumOf(Succeeded) - (IF calls[i].stage = "succeeded" THEN n ELSE 0)
      /\ SumOf(Succeeded) \in Nat /\ n \in Nat /\ MayForfeit' = MayForfeit
      /\ InFlight' = InFlight \ {i} /\ i \in InFlight
  BY <1>1, AnsweredResult
<1>3. TypeOK /\ balance \in 0..Deposit /\ paid \in Nat
  BY Bounds DEF IInv, TypeOK
<1> HIDE DEF n
<1>4. balance' \in 0..Deposit
  BY <1>1, <1>2, <1>3, Bounds
<1>5. ~MayForfeit => paid + balance - SumOf(Succeeded) >= Deposit
  BY <1>1 DEF IInv, Behind
<1>6. ~MayForfeit' => paid' + balance' - SumOf(Succeeded)' >= Deposit
  BY <1>1, <1>2, <1>3, <1>5, Bounds
<1>7. ASSUME "overlap" \notin seen'
      PROVE  /\ Alone' /\ \A k \in InFlight' : calls'[k].amount <= balance'
             /\ paid' + balance' - SumOf(Succeeded)' <= Deposit
  <2>1. Alone /\ n <= balance /\ paid + balance - SumOf(Succeeded) <= Deposit
    BY <1>1, <1>2, <1>7 DEF IInv, Behind, n
  <2>2. InFlight' = {}
    BY <1>2, <2>1 DEF Alone
  <2>3. paid' + balance' - SumOf(Succeeded)' = paid + balance - SumOf(Succeeded)
    BY <1>1, <1>2, <1>3, <2>1
  <2> QED
    BY <2>1, <2>2, <2>3 DEF Alone
<1>8. Behind'
  BY <1>6, <1>7 DEF Behind
<1>9. TypeOK'
  BY <1>2, <1>3, <1>4 DEF TypeOK
<1> QED
  BY <1>1, <1>2, <1>8, <1>9 DEF IInv, Taken, Early, Away

LEMMA RedeemCallbackStep ==
  ASSUME IInv, NEW i \in Id, callback_redeem(i)
  PROVE  IInv'
<1> DEFINE n == calls[i].amount
           f == calls[i].stage = "failed"
<1>1. contract = "lock-callback" /\ Answered(i)
      /\ balance' = IF f /\ balance = 0 THEN calls[i].original ELSE balance
  BY DEF callback_redeem
<1>2. /\ UNCHANGED <<contract, paid, seen>> /\ calls' \in [Id -> Call \cup {NoCall}] /\ Capped'
      /\ SumOf(Pending)' = SumOf(Pending) - (IF f THEN n ELSE 0)
      /\ SumOf(Pending) \in Nat /\ n \in Nat /\ MayForfeit' = MayForfeit
      /\ InFlight' = InFlight \ {i} /\ Pending' = Pending \ {i} /\ i \in InFlight /\ calls[i] \in Call
      /\ \A k \in Id \ {i} : calls'[k] = calls[k]
  BY <1>1, AnsweredResult
<1>3. TypeOK /\ balance \in 0..Deposit /\ paid \in Nat /\ calls[i].original \in 0..Deposit
  BY <1>2, Bounds DEF IInv, TypeOK, Call
<1>4. f => i \in Pending
  BY <1>2 DEF Pending
<1>5. f => "failure" \in seen
  BY <1>1, <1>2 DEF IInv, Away
<1> HIDE DEF n, f
<1>6. balance' \in 0..Deposit
  BY <1>1, <1>3
<1>7. ASSUME "overlap" \notin seen'
      PROVE  /\ Alone' /\ paid' + balance' <= Deposit /\ Pending' = {}
  <2>1. /\ Alone /\ paid + balance <= Deposit
        /\ f => paid + calls[i].original <= Deposit
    BY <1>1, <1>2, <1>4, <1>7 DEF IInv, Away
  <2>2. InFlight' = {}
    BY <1>2, <2>1 DEF Alone
  <2>3. Pending' = {} /\ Alone'
    BY <2>2 DEF Pending, Alone
  <2> QED
    BY <1>1, <1>2, <2>1, <2>3
<1>8. "failure" \notin seen' => \A k \in InFlight' : calls'[k].stage # "failed"
  BY <1>1, <1>2 DEF IInv, Away, InFlight
<1>9. "partial" \notin seen => \A k \in Pending : /\ balance = 0 /\ calls[k].amount = calls[k].original
                                                  /\ \A j \in Pending : k = j
  BY <1>1 DEF IInv, Away
<1>10. ASSUME "partial" \notin seen'
       PROVE  \A k \in Pending' : /\ balance' = 0 /\ calls'[k].amount = calls'[k].original
                                  /\ \A j \in Pending' : k = j
  <2>1. CASE f
    <3>1. Pending' = {}
      BY <1>2, <1>4, <1>9, <1>10, <2>1
    <3> QED
      BY <3>1
  <2>2. CASE ~f
    BY <1>1, <1>2, <1>9, <1>10, <2>2 DEF Pending, InFlight
  <2> QED
    BY <2>1, <2>2
<1>11. ~MayForfeit' => paid' + balance' + SumOf(Pending)' >= Deposit
  <2>1. SUFFICES ASSUME ~MayForfeit PROVE paid' + balance' + SumOf(Pending)' >= Deposit
    BY <1>2
  <2>2. paid + balance + SumOf(Pending) >= Deposit
    BY <1>1, <2>1 DEF IInv, Away
  <2>3. f => balance = 0 /\ n = calls[i].original
    BY <1>1, <1>4, <1>5, <1>9, <2>1 DEF MayForfeit, n
  <2>4. paid' + balance' + SumOf(Pending)' = paid + balance + SumOf(Pending)
    BY <1>1, <1>2, <1>3, <2>3
  <2> QED
    BY <2>2, <2>4
<1>12. Away'
  BY <1>7, <1>8, <1>10, <1>11 DEF Away
<1>13. TypeOK'
  BY <1>2, <1>3, <1>6 DEF TypeOK
<1> QED
  BY <1>1, <1>2, <1>12, <1>13 DEF IInv, Taken, Early, Behind

-----------------------------------------------------------------------------
(* Every step.                                                             *)
LEMMA WithdrawStep ==
  ASSUME IInv, NEW i \in Id, NEW n \in Amount, withdraw(i, n)
  PROVE  IInv'
<1>1. ASSUME Early, sub_balance(n), NEW returnable \in BOOLEAN, Ask(i, n, returnable) PROVE IInv'
  BY <1>1, AskEarly
<1>2. CASE withdraw_reentrancy(i, n)
  BY <1>2, AskReentrancy DEF withdraw_reentrancy
<1>3. CASE process_redeem(i, n)
  BY <1>3, AskRedeem DEF process_redeem
<1>4. CASE \/ withdraw_promise_result(i, n) \/ withdraw_public_interface(i, n)
           \/ withdraw_nep141(i, n) \/ withdraw_native(i, n)
           \/ withdraw_inconsistency(i, n) \/ withdraw_call(i, n)
           \/ withdraw_without_promise(i, n) \/ withdraw_with_promise(i, n)
  <2>1. Early /\ sub_balance(n) /\ \E returnable \in BOOLEAN : Ask(i, n, returnable)
    BY <1>4 DEF Early, withdraw_promise_result, withdraw_public_interface, withdraw_nep141, withdraw_native,
                withdraw_inconsistency, withdraw_call, withdraw_without_promise, withdraw_with_promise
  <2> QED
    BY <1>1, <2>1
<1> QED
  BY <1>2, <1>3, <1>4 DEF withdraw

LEMMA ReceiptStep ==
  ASSUME IInv, NEW i \in Id, Receipts(i)
  PROVE  IInv'
<1>1. CASE \E used \in Amount : pay(i, used)
  BY <1>1, PayStep
<1>2. CASE fail(i)
  BY <1>2, FailStep
<1>3. CASE \/ callback_withdraw_promise_result(i) \/ callback_withdraw_public_interface(i)
           \/ callback_withdraw_transfer(i) \/ callback_withdraw_inconsistency(i)
  BY <1>3, RestoredStep
  DEF Restoring, callback_withdraw_promise_result, callback_withdraw_public_interface,
      callback_withdraw_transfer, callback_withdraw_inconsistency
<1>4. CASE callback_withdraw_reentrancy(i)
  BY <1>4, ReentrancyCallbackStep
<1>5. CASE callback_redeem(i)
  BY <1>5, RedeemCallbackStep
<1> QED
  BY <1>1, <1>2, <1>3, <1>4, <1>5 DEF Receipts

LEMMA StutterStep == ASSUME IInv, UNCHANGED vars PROVE IInv'
<1>1. UNCHANGED <<contract, balance, calls, paid, seen>>
  BY DEF vars
<1>2. SumOf(Asked)' = SumOf(Asked) /\ SumOf(Pending)' = SumOf(Pending) /\ SumOf(Succeeded)' = SumOf(Succeeded)
  BY <1>1, SumIsTotal, SumIsTotalAfter DEF Asked, Pending, InFlight, Succeeded
<1> QED
  BY <1>1, <1>2 DEF IInv, TypeOK, Capped, Taken, Early, Behind, Alone, Away, MayForfeit, InFlight, Pending

LEMMA NextStep == IInv /\ [Next]_vars => IInv'
BY WithdrawStep, ReceiptStep, StutterStep DEF Next

LEMMA InitInv == Init => IInv
<1>1. SUFFICES ASSUME Init PROVE IInv
  OBVIOUS
<1>2. Asked = {} /\ Pending = {} /\ Succeeded = {} /\ InFlight = {}
  BY <1>1 DEF Init, Asked, Pending, Succeeded, InFlight, NoCall
<1>3. SumOf(Asked) = 0 /\ SumOf(Pending) = 0 /\ SumOf(Succeeded) = 0
  BY <1>2, SumIsTotal, SumEmpty DEF Total
<1>4. TypeOK
  BY <1>1, Bounds DEF Init, TypeOK
<1> QED
  BY <1>1, <1>2, <1>3, <1>4, Bounds DEF IInv, Init, Capped, Taken, Behind, Alone, Away

-----------------------------------------------------------------------------
(* The state is well formed: the balance neither goes below nothing nor    *)
(* above the deposit in any order of answers (reentrancy/src/lib.rs:68-74, *)
(* lock-callback/src/lib.rs:79-97).                                        *)
THEOREM Typing == Spec => []TypeOK
<1>1. IInv => TypeOK
  BY DEF IInv
<1> QED
  BY <1>1, InitInv, NextStep, PTL DEF Spec

(* What is paid and what is still owed are no more than the deposit; of    *)
(* reentrancy and lock-callback while no two withdrawals overlap           *)
(* (reentrancy/src/lib.rs:57-75, lock-callback/src/lib.rs:66, 82-95).      *)
THEOREM NotOverpaid == Spec => []NeverOverpaid
<1>1. IInv => NeverOverpaid
  <2>1. SUFFICES ASSUME IInv, contract \notin {"reentrancy", "lock-callback"} \/ "overlap" \notin seen
                 PROVE  paid + Owed <= Deposit
    BY DEF NeverOverpaid
  <2>2. TypeOK /\ balance \in Nat /\ paid \in Nat
    BY <2>1, Bounds DEF IInv, TypeOK
  <2>3. CASE contract = "reentrancy"
    <3>1. Owed = balance - SumOf(Succeeded)
      BY <2>2, <2>3, SumsOfProperties DEF Owed
    <3>2. paid + balance - SumOf(Succeeded) <= Deposit /\ SumOf(Succeeded) \in Nat
      BY <2>1, <2>2, <2>3, SumsAreNat DEF IInv, Behind
    <3> QED
      BY <2>2, <3>1, <3>2
  <2>4. CASE contract = "lock-callback"
    BY <2>1, <2>2, <2>4 DEF IInv, Away, Owed
  <2>5. CASE contract \notin {"reentrancy", "lock-callback"}
    <3>1. paid + balance + SumOf(Pending) <= Deposit /\ Owed = balance
      BY <2>1, <2>5 DEF IInv, Taken, Early, Owed
    <3>2. SumOf(Pending) \in Nat
      BY <2>2, SumsAreNat
    <3> QED
      BY <2>2, <3>1, <3>2, Bounds
  <2> QED
    BY <2>3, <2>4, <2>5
<1> QED
  BY <1>1, InitInv, NextStep, PTL DEF Spec

(* Nothing of the deposit is lost, except where a failure is not heard of, *)
(* an order was redeemed in part, or a receiver returned a part (unhandled-*)
(* promise/src/lib.rs:45-59, lock-callback/src/lib.rs:82-85,               *)
(* inconsistency/src/lib.rs:52-77).                                        *)
THEOREM NotForfeited == Spec => []NeverForfeited
<1>1. IInv => NeverForfeited
  <2>1. SUFFICES ASSUME IInv, ~MayForfeit
                 PROVE  balance + paid + SumOf(Pending) >= Deposit
    BY SumsOfProperties DEF NeverForfeited
  <2>2. TypeOK /\ balance \in Nat /\ paid \in Nat
    BY <2>1, Bounds DEF IInv, TypeOK
  <2>3. SumOf(Pending) \in Nat /\ SumOf(Succeeded) \in Nat
    BY <2>2, SumsAreNat
  <2>4. CASE contract = "reentrancy"
    BY <2>1, <2>2, <2>3, <2>4, Bounds DEF IInv, Behind
  <2>5. CASE contract = "lock-callback"
    BY <2>1, <2>2, <2>3, <2>5, Bounds DEF IInv, Away
  <2>6. CASE contract \notin {"reentrancy", "lock-callback"}
    BY <2>1, <2>2, <2>3, <2>6, Bounds DEF IInv, Taken, Early
  <2> QED
    BY <2>4, <2>5, <2>6
<1> QED
  BY <1>1, InitInv, NextStep, PTL DEF Spec
=============================================================================
