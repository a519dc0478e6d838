------------------------ MODULE TokenContracts_proofs ------------------------
(***************************************************************************)
(* Theorems about the fungible tokens of src/examples, for any finite set  *)
(* of accounts, any bounds of amounts and any number of transfer calls in  *)
(* flight: each of the five implements the ledger, the events tell the     *)
(* balances, the minimum is held for every account, and accounts come to   *)
(* be only where the code says so.                                         *)
(*                                                                         *)
(* Every step of the ledger changes the supply as it changes the sum of    *)
(* the balances, so that the supply is that sum and an amount.             *)
(***************************************************************************)
EXTENDS TokenContracts, SumTheorems

Struct == [accounts : SUBSET Account, balance : [Account -> Amount], total_supply : Int]

(* A struct of which no account without key has tokens.                    *)
Keyed(x) ==
  /\ x \in Struct
  /\ x.total_supply <= MAX
  /\ \A a \in Account \ x.accounts : x.balance[a] = 0

Calls ==
  /\ calls \in [Id -> Call \cup {NoCall}]
  /\ contract = "nep-interface" =>
       \A i \in Id : calls[i] # NoCall => calls[i].sender # calls[i].receiver

Told ==
  /\ told \in [Account -> Int]
  /\ closed \in [Account -> Nat]
  /\ EventsTellBalances

Held == near \in Int /\ DepositsHeld

IInv == Keyed(token) /\ Calls /\ Told /\ Held

-----------------------------------------------------------------------------
(* The helpers: each leaves a well-formed struct that differs as it says.  *)
LEMMA Bounds == MAX \in Nat /\ MinStorage \in Nat /\ MaxMinted \in Nat /\ IsFiniteSet(Account) /\ Amount = 0..MAX
BY TokenAssumption DEF Amount

LEMMA WithdrawResult ==
  ASSUME NEW x \in Struct, Keyed(x), NEW a \in Account, NEW n \in Amount, CanWithdraw(x, a, n)
  PROVE  LET w == internal_withdraw(x, a, n)
         IN  /\ Keyed(w) /\ w.accounts = x.accounts /\ w.total_supply = x.total_supply - n
             /\ w.balance = [x.balance EXCEPT ![a] = @ - n]
<1> DEFINE b == [x.balance EXCEPT ![a] = @ - n]
<1>1. b \in [Account -> Amount] /\ \A c \in Account \ x.accounts : b[c] = 0
  BY Bounds DEF CanWithdraw, Keyed, Struct
<1>2. internal_withdraw(x, a, n) =
        [accounts |-> x.accounts, balance |-> b, total_supply |-> x.total_supply - n]
  <2> DEFINE y == [x EXCEPT !.balance[a] = @ - n]
  <2>1. y = [accounts |-> x.accounts, balance |-> b, total_supply |-> x.total_supply]
    BY DEF Struct
  <2>2. [y EXCEPT !.total_supply = @ - n] =
          [accounts |-> x.accounts, balance |-> b, total_supply |-> x.total_supply - n]
    <3> HIDE DEF y
    <3> QED
      BY <2>1
  <2> QED
    BY <2>1, <2>2 DEF internal_withdraw
<1>3. x.total_supply - n \in Int /\ x.total_supply - n <= MAX
  BY Bounds DEF Struct, Keyed
<1> HIDE DEF b
<1>4. Keyed(internal_withdraw(x, a, n))
  BY <1>1, <1>2, <1>3 DEF Struct, Keyed
<1> QED
  BY <1>2, <1>4 DEF b

LEMMA DepositResult ==
  ASSUME NEW x \in Struct, Keyed(x), NEW a \in Account, NEW n \in Amount, CanDeposit(x, a, n)
  PROVE  LET d == internal_deposit(x, a, n)
         IN  /\ Keyed(d) /\ d.accounts = x.accounts /\ d.total_supply = x.total_supply + n
             /\ d.balance = [x.balance EXCEPT ![a] = @ + n]
<1> DEFINE b == [x.balance EXCEPT ![a] = @ + n]
<1>1. b \in [Account -> Amount] /\ \A c \in Account \ x.accounts : b[c] = 0
  BY Bounds DEF CanDeposit, Keyed, Struct
<1>2. internal_deposit(x, a, n) =
        [accounts |-> x.accounts, balance |-> b, total_supply |-> x.total_supply + n]
  <2> DEFINE y == [x EXCEPT !.balance[a] = @ + n]
  <2>1. y = [accounts |-> x.accounts, balance |-> b, total_supply |-> x.total_supply]
    BY DEF Struct
  <2>2. [y EXCEPT !.total_supply = @ + n] =
          [accounts |-> x.accounts, balance |-> b, total_supply |-> x.total_supply + n]
    <3> HIDE DEF y
    <3> QED
      BY <2>1
  <2> QED
    BY <2>1, <2>2 DEF internal_deposit
<1>3. x.total_supply + n \in Int /\ x.total_supply + n <= MAX
  BY Bounds DEF Struct, CanDeposit
<1> HIDE DEF b
<1>4. Keyed(internal_deposit(x, a, n))
  BY <1>1, <1>2, <1>3 DEF Struct, Keyed
<1> QED
  BY <1>2, <1>4 DEF b

(* The helpers of the examples, whose map forgets accounts without tokens. *)
LEMMA StoredResult ==
  ASSUME NEW x \in Struct, NEW a \in Account, NEW k \in Amount
  PROVE  Stored(x, a, k) =
           [accounts |-> IF k > 0 THEN x.accounts \cup {a} ELSE x.accounts \ {a},
            balance |-> [x.balance EXCEPT ![a] = k], total_supply |-> x.total_supply]
<1> DEFINE s == IF k > 0 THEN x.accounts \cup {a} ELSE x.accounts \ {a}
           y == [x EXCEPT !.accounts = s]
<1>1. y = [accounts |-> s, balance |-> x.balance, total_supply |-> x.total_supply]
  BY DEF Struct
<1>2. [y EXCEPT !.balance[a] = k] =
        [accounts |-> s, balance |-> [x.balance EXCEPT ![a] = k], total_supply |-> x.total_supply]
  <2> HIDE DEF y, s
  <2> QED
    BY <1>1
<1> QED
  BY <1>2 DEF Stored

LEMMA LessResult ==
  ASSUME NEW x \in Struct, Keyed(x), NEW a \in Account, NEW n \in Amount, n <= x.balance[a]
  PROVE  LET w == Less(x, a, n)
         IN  /\ Keyed(w) /\ w.accounts \subseteq x.accounts \cup {a} /\ x.accounts \subseteq w.accounts \cup {a}
             /\ (a \in x.accounts => w.accounts \subseteq x.accounts)
             /\ w.total_supply = x.total_supply - n
             /\ w.balance = [x.balance EXCEPT ![a] = @ - n]
<1> DEFINE k == x.balance[a] - n
           b == [x.balance EXCEPT ![a] = k]
           s == IF k > 0 THEN x.accounts \cup {a} ELSE x.accounts \ {a}
<1>1. k \in Amount /\ x.total_supply - n \in Int /\ x.total_supply - n <= MAX
  BY Bounds DEF Struct, Keyed
<1>2. b \in [Account -> Amount] /\ s \in SUBSET Account /\ \A c \in Account \ s : b[c] = 0
  BY <1>1, Bounds DEF Keyed, Struct
<1>3. Less(x, a, n) = [accounts |-> s, balance |-> b, total_supply |-> x.total_supply - n]
  <2> DEFINE y == Stored(x, a, k)
  <2>1. y = [accounts |-> s, balance |-> b, total_supply |-> x.total_supply]
    BY <1>1, StoredResult
  <2>2. [y EXCEPT !.total_supply = @ - n] =
          [accounts |-> s, balance |-> b, total_supply |-> x.total_supply - n]
    <3> HIDE DEF y, s, b
    <3> QED
      BY <2>1
  <2> QED
    BY <2>1, <2>2 DEF Less
<1> HIDE DEF b, s
<1>4. Keyed(Less(x, a, n))
  BY <1>1, <1>2, <1>3 DEF Keyed, Struct
<1> QED
  BY <1>3, <1>4 DEF b, s

LEMMA MoreResult ==
  ASSUME NEW x \in Struct, Keyed(x), NEW a \in Account, NEW n \in Amount, x.balance[a] + n <= MAX,
         x.total_supply + n <= MAX
  PROVE  LET w == More(x, a, n)
         IN  /\ Keyed(w) /\ w.accounts \subseteq x.accounts \cup {a}
             /\ w.total_supply = x.total_supply + n
             /\ w.balance = [x.balance EXCEPT ![a] = @ + n]
<1> DEFINE k == x.balance[a] + n
           b == [x.balance EXCEPT ![a] = k]
           s == IF k > 0 THEN x.accounts \cup {a} ELSE x.accounts \ {a}
<1>1. k \in Amount /\ x.total_supply + n \in Int
  BY Bounds DEF Struct
<1>2. b \in [Account -> Amount] /\ s \in SUBSET Account /\ \A c \in Account \ s : b[c] = 0
  BY <1>1, Bounds DEF Keyed, Struct
<1>3. More(x, a, n) = [accounts |-> s, balance |-> b, total_supply |-> x.total_supply + n]
  <2> DEFINE y == Stored(x, a, k)
  <2>1. y = [accounts |-> s, balance |-> b, total_supply |-> x.total_supply]
    BY <1>1, StoredResult
  <2>2. [y EXCEPT !.total_supply = @ + n] =
          [accounts |-> s, balance |-> b, total_supply |-> x.total_supply + n]
    <3> HIDE DEF y, s, b
    <3> QED
      BY <2>1
  <2> QED
    BY <2>1, <2>2 DEF More
<1> HIDE DEF b, s
<1>4. Keyed(More(x, a, n))
  BY <1>1, <1>2, <1>3 DEF Keyed, Struct
<1> QED
  BY <1>3, <1>4 DEF b, s

(* A transfer of a positive amount, with the helpers of each contract.     *)
Transferred(x, y, s, r, n) ==
  /\ Keyed(y)
  /\ n \in 1..x.balance[s]
  /\ y.balance = [x.balance EXCEPT ![s] = @ - n, ![r] = @ + n]
  /\ y.total_supply = x.total_supply

LEMMA TransferResult ==
  ASSUME NEW x \in Struct, Keyed(x), NEW s \in Account, NEW r \in Account, NEW n \in Amount,
         CanTransfer(x, s, r, n)
  PROVE  LET y == internal_transfer(x, s, r, n)
         IN  Transferred(x, y, s, r, n) /\ y.accounts = x.accounts /\ s # r
<1> DEFINE w == internal_withdraw(x, s, n)
           y == internal_deposit(w, r, n)
<1>1. s # r /\ n > 0 /\ CanWithdraw(x, s, n) /\ CanDeposit(w, r, n)
  BY DEF CanTransfer
<1>2. Keyed(w) /\ w.accounts = x.accounts /\ w.total_supply = x.total_supply - n
      /\ w.balance = [x.balance EXCEPT ![s] = @ - n]
  BY <1>1, WithdrawResult
<1>3. w \in Struct
  BY <1>2 DEF Keyed
<1> HIDE DEF w
<1>4. Keyed(y) /\ y.accounts = w.accounts /\ y.total_supply = w.total_supply + n
      /\ y.balance = [w.balance EXCEPT ![r] = @ + n]
  BY <1>1, <1>2, <1>3, DepositResult
<1>5. internal_transfer(x, s, r, n) = y
  BY DEF internal_transfer, w
<1> HIDE DEF y
<1>6. y.balance = [x.balance EXCEPT ![s] = @ - n, ![r] = @ + n]
  BY <1>2, <1>4
<1>7. y.total_supply = x.total_supply /\ n \in 1..x.balance[s]
  BY <1>1, <1>2, <1>4, Bounds DEF CanWithdraw, Struct
<1> QED
  BY <1>1, <1>2, <1>4, <1>5, <1>6, <1>7 DEF Transferred

(* The same of the examples, whose transfer is a Less and then a More.     *)
LEMMA HolderTransferResult ==
  ASSUME NEW x \in Struct, Keyed(x), NEW s \in Account, NEW r \in Account, NEW n \in Amount,
         n > 0, s \in x.accounts, n <= x.balance[s], Less(x, s, n).balance[r] + n <= MAX
  PROVE  LET y == More(Less(x, s, n), r, n)
         IN  /\ Transferred(x, y, s, r, n)
             /\ y.accounts \subseteq x.accounts \cup {r}
             /\ r \in Less(x, s, n).accounts => y.accounts \subseteq x.accounts
<1> DEFINE w == Less(x, s, n)
           y == More(w, r, n)
<1>1. Keyed(w) /\ w.accounts \subseteq x.accounts /\ w.total_supply = x.total_supply - n
      /\ w.balance = [x.balance EXCEPT ![s] = @ - n]
  BY LessResult
<1>2. w \in Struct /\ w.balance[r] + n <= MAX
  BY <1>1 DEF Keyed
<1> HIDE DEF w
<1>3. Keyed(y) /\ y.accounts \subseteq w.accounts \cup {r} /\ y.total_supply = w.total_supply + n
      /\ y.balance = [w.balance EXCEPT ![r] = @ + n]
  <2>1. w \in Struct /\ Keyed(w) /\ w.balance[r] + n <= MAX /\ w.total_supply + n <= MAX
    BY <1>1, <1>2, Bounds DEF Keyed, Struct
  <2> QED
    BY <2>1, MoreResult, SMTT(30)
<1> HIDE DEF y
<1>4. y.balance = [x.balance EXCEPT ![s] = @ - n, ![r] = @ + n]
  BY <1>1, <1>3
<1>5. y.total_supply = x.total_supply /\ n \in 1..x.balance[s]
  BY <1>1, <1>3, Bounds DEF Struct
<1>6. Transferred(x, y, s, r, n)
  BY <1>3, <1>4, <1>5 DEF Transferred
<1> QED
  BY <1>1, <1>3, <1>6 DEF w, y

-----------------------------------------------------------------------------
(* The bodies of the action properties.                                    *)
LedgerStep == [Ledger!Next]_(Ledger!vars)

Joins ==
  \A a \in token'.accounts \ token.accounts :
    \/ contract = "nep-interface" /\ near' = near + MinStorage
    \/ contract = "unregistered-receiver" /\ calls' = calls
    \/ contract = "unclaimed-storage-fee"

(* A step of the ledger changes the supply as it changes the sum of the    *)
(* balances.                                                               *)
LEMMA SupplySum == SupplyIsSum <=> token.total_supply = SumOver(token.balance, Account)
BY DEF SupplyIsSum, SumOver, MapThenSumSet, MapThenFoldSet

LEMMA LedgerSum ==
  ASSUME Keyed(token), Keyed(token)', SupplyIsSum, LedgerStep
  PROVE  SupplyIsSum'
<1> DEFINE b == token.balance
           c == token'.balance
<1>1. b \in [Account -> Int] /\ c \in [Account -> Int] /\ token.total_supply \in Int
  BY Bounds DEF Keyed, Struct
<1>2. token.total_supply = SumOver(b, Account)
  BY SupplySum
<1>3. SUFFICES token'.total_supply = SumOver(c, Account)
  BY DEF SupplyIsSum, SumOver, MapThenSumSet, MapThenFoldSet
<1>4. CASE UNCHANGED Ledger!vars
  BY <1>2, <1>4 DEF Ledger!vars
<1>5. ASSUME NEW a \in Account, Ledger!Mint(a) \/ Ledger!Burn(a)
      PROVE  token'.total_supply = SumOver(c, Account)
  <2>1. /\ c = [b EXCEPT ![a] = @ - (b[a] - c[a])]
        /\ token'.total_supply = token.total_supply - (b[a] - c[a])
    BY <1>5 DEF Ledger!Mint, Ledger!Burn, Ledger!Paid
  <2> HIDE DEF b, c
  <2>2. \A x \in Account \ {a} : b[x] = c[x]
    BY <1>1, <2>1
  <2>3. SumOver(c, Account) = SumOver(b, Account) + c[a] - b[a]
    BY <1>1, <2>2, Bounds, SumChange
  <2> QED
    BY <1>1, <1>2, <2>1, <2>3
<1>6. ASSUME NEW s \in Account, NEW r \in Account, Ledger!Move(s, r)
      PROVE  token'.total_supply = SumOver(c, Account)
  <2> DEFINE n == b[s] - c[s]
             d == [b EXCEPT ![s] = @ - n]
  <2>1. s # r /\ c = [b EXCEPT ![s] = @ - n, ![r] = @ + n] /\ token'.total_supply = token.total_supply
    BY <1>6 DEF Ledger!Move, Ledger!Paid
  <2> HIDE DEF b, c
  <2>2. n \in Int /\ d \in [Account -> Int] /\ d[s] = b[s] - n /\ c[r] = d[r] + n
    BY <1>1, <2>1
  <2>3. (\A x \in Account \ {s} : b[x] = d[x]) /\ \A x \in Account \ {r} : d[x] = c[x]
    BY <1>1, <2>1
  <2> HIDE DEF d, n
  <2>4. \A x \in Account : b[x] \in Int /\ d[x] \in Int /\ c[x] \in Int
    BY <1>1, <2>2
  <2>5. SumOver(d, Account) = SumOver(b, Account) + d[s] - b[s]
    BY <2>3, <2>4, Bounds, SumChange
  <2>6. SumOver(c, Account) = SumOver(d, Account) + c[r] - d[r]
    BY <2>3, <2>4, Bounds, SumChange
  <2>7. SumOver(b, Account) \in Int /\ b[s] \in Int /\ d[r] \in Int
    BY <2>4, Bounds, SumInt
  <2>8. SumOver(c, Account) = SumOver(b, Account)
    BY <2>2, <2>5, <2>6, <2>7
  <2> QED
    BY <1>2, <2>1, <2>8
<1> QED
  BY <1>4, <1>5, <1>6 DEF LedgerStep, Ledger!Next

(* What a step on the tokens has to keep.                                  *)
LEMMA TransferTold ==
  ASSUME IInv, NEW s \in Account, NEW r \in Account, NEW n, Transferred(token, token', s, r, n),
         told' = FtTransfer(told, s, r, n), UNCHANGED closed
  PROVE  Keyed(token)' /\ Told'
<1>1. n \in Int /\ token.balance \in [Account -> Int] /\ told \in [Account -> Int]
  BY Bounds DEF IInv, Keyed, Struct, Told, Transferred
<1>2. token'.balance = [token.balance EXCEPT ![s] = @ - n, ![r] = @ + n]
      /\ told' = [told EXCEPT ![s] = @ - n, ![r] = @ + n]
  BY DEF Transferred, FtTransfer
<1>3. told' \in [Account -> Int]
  BY <1>1, <1>2
<1>4. ASSUME NEW a \in Account PROVE told'[a] = token'.balance[a] + closed'[a]
  <2>1. told[a] = token.balance[a] + closed[a] /\ closed[a] \in Int
    BY DEF IInv, Told, EventsTellBalances
  <2> QED
    BY <1>1, <1>2, <2>1
<1> QED
  BY <1>3, <1>4 DEF Transferred, IInv, Told, EventsTellBalances, Keyed, Struct

LEMMA TransferLedger ==
  ASSUME IInv, NEW s \in Account, NEW r \in Account, NEW n, Transferred(token, token', s, r, n)
  PROVE  LedgerStep
<1>1. n \in Int /\ n > 0 /\ n <= token.balance[s] /\ token.balance \in [Account -> Int]
  BY Bounds DEF IInv, Keyed, Struct, Transferred
<1>2. token'.balance = [token.balance EXCEPT ![s] = @ - n, ![r] = @ + n]
      /\ token'.total_supply = token.total_supply
  BY DEF Transferred
<1>3. CASE s = r
  <2>1. token'.balance = token.balance
    BY <1>1, <1>2, <1>3
  <2> QED
    BY <1>2, <2>1 DEF LedgerStep, Ledger!vars
<1>4. CASE s # r
  <2>1. Ledger!Paid(s) = n
    BY <1>1, <1>2, <1>4 DEF Ledger!Paid
  <2>2. Ledger!Move(s, r)
    BY <1>1, <1>2, <1>4, <2>1 DEF Ledger!Move
  <2> QED
    BY <2>2 DEF LedgerStep, Ledger!Next
<1> QED
  BY <1>3, <1>4

LEMMA CallingCalls ==
  ASSUME IInv, NEW i \in Id, NEW s \in Account, NEW r \in Account, NEW n \in Amount, n > 0,
         Calling(i, s, r, n), UNCHANGED contract,
         contract = "nep-interface" => s # r
  PROVE  Calls'
<1> DEFINE c == [stage |-> "receiver", sender |-> s, receiver |-> r, amount |-> n, answer |-> None]
<1>1. c \in Call
  BY Bounds DEF Call, Answers
<1>2. calls' = [calls EXCEPT ![i] = c]
  BY DEF Calling
<1>3. c.sender = s /\ c.receiver = r
  OBVIOUS
<1> HIDE DEF c
<1> QED
  BY <1>1, <1>2, <1>3 DEF IInv, Calls

LEMMA SameCalls == ASSUME IInv, UNCHANGED <<calls, contract>> PROVE Calls'
BY DEF IInv, Calls

LEMMA SameHeld ==
  ASSUME IInv, UNCHANGED <<near, contract>>, contract = "nep-interface" => token'.accounts = token.accounts
  PROVE  Held'
BY DEF IInv, Held, DepositsHeld, DepositsBacked

(* Steps that leave the struct alone.                                      *)
LEMMA SameToken ==
  ASSUME IInv, UNCHANGED <<token, told, closed, near, contract>>, Calls'
  PROVE  IInv' /\ LedgerStep /\ Joins
<1>1. Held' /\ Keyed(token)' /\ Told'
  BY SameHeld DEF IInv, Keyed, Told, EventsTellBalances
<1> QED
  BY <1>1 DEF IInv, LedgerStep, Joins, Ledger!vars

(* A transfer of nep-interface, by itself or as the first step of a call.  *)
LEMMA TokenTransferStep ==
  ASSUME IInv, contract = "nep-interface", NEW s \in Account, NEW r \in Account, NEW n \in Amount,
         CanTransfer(token, s, r, n), token' = internal_transfer(token, s, r, n),
         told' = FtTransfer(told, s, r, n), UNCHANGED <<near, closed, contract>>, Calls'
  PROVE  IInv' /\ LedgerStep /\ Joins
<1>1. token \in Struct /\ Keyed(token)
  BY DEF IInv, Keyed
<1>2. Transferred(token, token', s, r, n) /\ token'.accounts = token.accounts
  BY <1>1, TransferResult
<1>3. Keyed(token)' /\ Told' /\ LedgerStep
  BY <1>2, TransferTold, TransferLedger
<1>4. Held' /\ Joins
  BY <1>2, SameHeld DEF Joins
<1> QED
  BY <1>3, <1>4 DEF IInv

(* A transfer of one of the three examples; accounts may join only in      *)
(* ft_transfer of unregistered-receiver.                                   *)
LEMMA HolderTransferStep ==
  ASSUME IInv, contract \in Holders, NEW s \in Account, NEW r \in Account, NEW n \in Amount,
         n > 0, s \in token.accounts, n <= token.balance[s], Less(token, s, n).balance[r] + n <= MAX,
         \/ r \in Less(token, s, n).accounts
         \/ contract = "unregistered-receiver" /\ calls' = calls,
         token' = More(Less(token, s, n), r, n),
         told' = FtTransfer(told, s, r, n), UNCHANGED <<near, closed, contract>>, Calls'
  PROVE  IInv' /\ LedgerStep /\ Joins
<1>1. token \in Struct /\ Keyed(token) /\ contract # "nep-interface"
  BY DEF IInv, Keyed, Holders
<1>2. Transferred(token, token', s, r, n)
      /\ (r \in Less(token, s, n).accounts => token'.accounts \subseteq token.accounts)
  BY <1>1, HolderTransferResult
<1>3. Keyed(token)' /\ Told' /\ LedgerStep
  BY <1>2, TransferTold, TransferLedger
<1>4. Held'
  BY <1>1, SameHeld
<1>5. Joins
  BY <1>2 DEF Joins
<1> QED
  BY <1>3, <1>4, <1>5 DEF IInv

-----------------------------------------------------------------------------
LEMMA MintStep ==
  ASSUME IInv, contract = "nep-interface", UNCHANGED contract, NEW a \in Account, NEW n \in 1..MaxMinted,
         Mint(a, n)
  PROVE  IInv' /\ LedgerStep /\ Joins
<1>1. /\ CanDeposit(token, a, n) /\ token' = internal_deposit(token, a, n)
      /\ told' = [told EXCEPT ![a] = @ + n] /\ UNCHANGED <<near, calls, closed>>
  BY DEF Mint, FtMint
<1>2. token \in Struct /\ Keyed(token) /\ told \in [Account -> Int]
  BY DEF IInv, Keyed, Told
<1>3. n \in Amount
  BY <1>1, <1>2, Bounds DEF CanDeposit, Struct
<1>4. Keyed(token)' /\ token'.accounts = token.accounts /\ token'.total_supply = token.total_supply + n
      /\ token'.balance = [token.balance EXCEPT ![a] = @ + n]
  BY <1>1, <1>2, <1>3, DepositResult
<1>5. token.balance \in [Account -> Int] /\ n \in Int /\ n > 0 /\ token.total_supply \in Int
  BY <1>2, <1>3, Bounds DEF Struct
<1>6. Told'
  <2>1. told' \in [Account -> Int]
    BY <1>1, <1>2, <1>5
  <2>2. ASSUME NEW b \in Account PROVE told'[b] = token'.balance[b] + closed'[b]
    <3>1. told[b] = token.balance[b] + closed[b] /\ closed[b] \in Int
      BY DEF IInv, Told, EventsTellBalances
    <3> QED
      BY <1>1, <1>2, <1>4, <1>5, <3>1
  <2> QED
    BY <1>1, <2>1, <2>2 DEF IInv, Told, EventsTellBalances
<1>7. LedgerStep
  <2>1. Ledger!Paid(a) = -n
    BY <1>4, <1>5 DEF Ledger!Paid
  <2>2. Ledger!Mint(a)
    BY <1>4, <1>5, <2>1 DEF Ledger!Mint
  <2> QED
    BY <2>2 DEF LedgerStep, Ledger!Next
<1>8. Calls' /\ Held' /\ Joins
  BY <1>1, <1>4, SameCalls, SameHeld DEF Joins
<1> QED
  BY <1>4, <1>6, <1>7, <1>8 DEF IInv

(* What the callback takes from the receiver.                              *)
LEMMA RefundBounded ==
  ASSUME NEW x \in Struct, NEW c \in Call
  PROVE  Refund(x, c) \in 0..x.balance[c.receiver] /\ Refund(x, c) \in Amount
<1>1. c.amount \in Amount /\ c.answer \in Answers /\ c.receiver \in Account
  BY DEF Call
<1>2. Unused(c) \in Amount
  <2>1. CASE c.answer = None
    BY <1>1, <2>1 DEF Unused
  <2>2. CASE c.answer # None
    <3>1. PICK n \in Amount : c.answer = {n}
      BY <1>1, <2>2 DEF Answers
    <3>2. (CHOOSE k \in c.answer : TRUE) = n
      BY <3>1
    <3> QED
      BY <1>1, <2>2, <3>2, Bounds DEF Unused, Smaller
  <2> QED
    BY <2>1, <2>2
<1>3. x.balance[c.receiver] \in Amount
  BY <1>1 DEF Struct
<1> QED
  BY <1>2, <1>3, Bounds DEF Refund, Smaller

(* A refund to a sender who has an account is a transfer, or nothing; the  *)
(* refund of one who has none is burnt.                                    *)
LEMMA RefundResult ==
  ASSUME NEW x \in Struct, Keyed(x), NEW c \in Call, c.sender # c.receiver, CanResolve(x, c)
  PROVE  LET y == internal_ft_resolve_transfer(x, c)
             n == Refund(x, c)
         IN  /\ Keyed(y) /\ y.accounts = x.accounts
             /\ c.sender \in x.accounts =>
                  /\ y.balance = [x.balance EXCEPT ![c.receiver] = @ - n, ![c.sender] = @ + n]
                  /\ y.total_supply = x.total_supply
             /\ c.sender \notin x.accounts =>
                  /\ y.balance = [x.balance EXCEPT ![c.receiver] = @ - n]
                  /\ y.total_supply = x.total_supply - n
<1> DEFINE n == Refund(x, c)
           paid == [x.balance EXCEPT ![c.receiver] = @ - n]
           both == [paid EXCEPT ![c.sender] = @ + n]
<1>1. n \in 0..x.balance[c.receiver] /\ n \in Amount
  BY RefundBounded
<1>2. c.sender \in Account /\ c.receiver \in Account
  BY DEF Call
<1>3. paid \in [Account -> Amount]
  BY <1>1, <1>2, Bounds DEF Struct
<1>4. \A a \in Account \ x.accounts : paid[a] = 0
  <2>1. ASSUME NEW a \in Account \ x.accounts PROVE x.balance[a] = 0
    BY DEF Keyed
  <2> QED
    BY <1>1, <1>2, <2>1 DEF Struct
<1>5. CASE c.sender \in x.accounts
  <2>1. paid[c.sender] = x.balance[c.sender] /\ x.balance[c.sender] + n <= MAX
    BY <1>2, <1>5 DEF CanResolve, Struct
  <2>2. both \in [Account -> Amount] /\ \A a \in Account \ x.accounts : both[a] = 0
    <3> HIDE DEF paid, n
    <3> QED
      BY <1>1, <1>2, <1>3, <1>4, <1>5, <2>1, Bounds DEF Struct
  <2>3. internal_ft_resolve_transfer(x, c) =
          [accounts |-> x.accounts, balance |-> both, total_supply |-> x.total_supply]
    <3>1. internal_ft_resolve_transfer(x, c) = [x EXCEPT !.balance = both]
      BY <1>5 DEF internal_ft_resolve_transfer
    <3> HIDE DEF both
    <3> QED
      BY <3>1 DEF Struct
  <2>4. both = [x.balance EXCEPT ![c.receiver] = @ - n, ![c.sender] = @ + n]
    OBVIOUS
  <2> HIDE DEF both, n
  <2>5. Keyed(internal_ft_resolve_transfer(x, c))
    BY <2>2, <2>3 DEF Keyed, Struct
  <2> QED
    BY <1>5, <2>3, <2>4, <2>5 DEF n
<1>6. CASE c.sender \notin x.accounts
  <2> DEFINE y == [x EXCEPT !.balance = paid]
  <2>1. y = [accounts |-> x.accounts, balance |-> paid, total_supply |-> x.total_supply]
    <3> HIDE DEF paid
    <3> QED
      BY DEF Struct
  <2>2. [y EXCEPT !.total_supply = @ - n] =
          [accounts |-> x.accounts, balance |-> paid, total_supply |-> x.total_supply - n]
    <3> HIDE DEF y, paid, n
    <3> QED
      BY <2>1
  <2>3. internal_ft_resolve_transfer(x, c) =
          [accounts |-> x.accounts, balance |-> paid, total_supply |-> x.total_supply - n]
    BY <1>6, <2>1, <2>2 DEF internal_ft_resolve_transfer
  <2>4. x.total_supply - n \in Int /\ x.total_supply - n <= MAX
    BY <1>1, Bounds DEF Struct, Keyed
  <2>5. Keyed(internal_ft_resolve_transfer(x, c))
    <3> HIDE DEF paid, n
    <3> QED
      BY <1>3, <1>4, <2>3, <2>4 DEF Keyed, Struct
  <2> QED
    BY <1>6, <2>3, <2>5
<1> QED
  BY <1>5, <1>6

LEMMA CallFields ==
  ASSUME IInv, NEW i \in Id, calls[i].stage \in {"receiver", "resolve"}
  PROVE  /\ calls[i] \in Call /\ calls[i] # NoCall
         /\ calls[i].sender \in Account /\ calls[i].receiver \in Account
         /\ contract = "nep-interface" => calls[i].sender # calls[i].receiver
BY DEF IInv, Calls, Call, NoCall

LEMMA EndedCall ==
  ASSUME IInv, NEW i \in Id, calls' = [calls EXCEPT ![i] = NoCall], UNCHANGED contract PROVE Calls'
BY DEF IInv, Calls

LEMMA ResolveStep ==
  ASSUME IInv, contract = "nep-interface", UNCHANGED contract, NEW i \in Id, ft_resolve_transfer(i)
  PROVE  IInv' /\ LedgerStep /\ Joins
<1> DEFINE c == calls[i]
           s == c.sender
           r == c.receiver
           n == Refund(token, c)
<1>1. c \in Call /\ s \in Account /\ r \in Account /\ s # r
  BY CallFields DEF ft_resolve_transfer
<1>2. /\ CanResolve(token, c) /\ token' = internal_ft_resolve_transfer(token, c)
      /\ told' = IF s \in token.accounts THEN FtTransfer(told, r, s, n) ELSE FtBurn(told, r, n)
      /\ calls' = [calls EXCEPT ![i] = NoCall] /\ UNCHANGED <<near, closed>>
  BY DEF ft_resolve_transfer
<1>3. token \in Struct /\ Keyed(token) /\ told \in [Account -> Int]
  BY DEF IInv, Keyed, Told
<1>4. n \in 0..token.balance[r] /\ n \in Int
  BY <1>1, <1>3, RefundBounded, Bounds
<1>5. /\ Keyed(token)' /\ token'.accounts = token.accounts
      /\ s \in token.accounts =>
           /\ token'.balance = [token.balance EXCEPT ![r] = @ - n, ![s] = @ + n]
           /\ token'.total_supply = token.total_supply
      /\ s \notin token.accounts =>
           /\ token'.balance = [token.balance EXCEPT ![r] = @ - n]
           /\ token'.total_supply = token.total_supply - n
  BY <1>1, <1>2, <1>3, RefundResult
<1>6. Calls' /\ Held' /\ Joins
  BY <1>2, <1>5, EndedCall, SameHeld DEF Joins
<1>7. token.balance \in [Account -> Int] /\ token.total_supply \in Int
  BY <1>3, Bounds DEF Struct
<1> HIDE DEF n, s, r, c
<1>8. Told'
  <2>1. told' \in [Account -> Int]
    BY <1>1, <1>2, <1>3, <1>4 DEF FtTransfer, FtBurn
  <2>2. ASSUME NEW a \in Account PROVE told'[a] = token'.balance[a] + closed'[a]
    <3>1. told[a] = token.balance[a] + closed[a] /\ closed[a] \in Int
      BY DEF IInv, Told, EventsTellBalances
    <3>2. CASE s \in token.accounts
      BY <1>1, <1>2, <1>3, <1>4, <1>5, <1>7, <3>1, <3>2 DEF FtTransfer
    <3>3. CASE s \notin token.accounts
      BY <1>1, <1>2, <1>3, <1>4, <1>5, <1>7, <3>1, <3>3 DEF FtBurn
    <3> QED
      BY <3>2, <3>3
  <2> QED
    BY <1>2, <2>1, <2>2 DEF IInv, Told, EventsTellBalances
<1>9. LedgerStep
  <2>1. CASE n = 0
    <3>1. token'.balance = token.balance /\ token'.total_supply = token.total_supply
      BY <1>1, <1>5, <1>7, <2>1
    <3> QED
      BY <3>1 DEF LedgerStep, Ledger!vars
  <2>2. CASE n # 0 /\ s \in token.accounts
    <3>1. Ledger!Paid(r) = n
      BY <1>1, <1>4, <1>5, <1>7, <2>2 DEF Ledger!Paid
    <3>2. Ledger!Move(r, s)
      BY <1>1, <1>4, <1>5, <1>7, <2>2, <3>1 DEF Ledger!Move
    <3> QED
      BY <1>1, <3>2 DEF LedgerStep, Ledger!Next
  <2>3. CASE n # 0 /\ s \notin token.accounts
    <3>1. Ledger!Paid(r) = n
      BY <1>1, <1>4, <1>5, <1>7, <2>3 DEF Ledger!Paid
    <3>2. Ledger!Burn(r)
      BY <1>1, <1>4, <1>5, <1>7, <2>3, <3>1 DEF Ledger!Burn
    <3> QED
      BY <1>1, <3>2 DEF LedgerStep, Ledger!Next
  <2> QED
    BY <2>1, <2>2, <2>3
<1> QED
  BY <1>5, <1>6, <1>8, <1>9 DEF IInv

LEMMA OnTransferStep ==
  ASSUME IInv, UNCHANGED contract, NEW i \in Id, NEW answer \in Answers, ft_on_transfer(i, answer)
  PROVE  IInv' /\ LedgerStep /\ Joins
<1> DEFINE y == [calls[i] EXCEPT !.stage = "resolve"]
           c == [y EXCEPT !.answer = answer]
<1>1. calls[i] \in Call /\ calls[i] # NoCall
  BY CallFields DEF ft_on_transfer
<1>2. y \in Call /\ y.sender = calls[i].sender /\ y.receiver = calls[i].receiver
  BY <1>1 DEF Call
<1>3. c \in Call /\ c.sender = calls[i].sender /\ c.receiver = calls[i].receiver
  <2> HIDE DEF y
  <2> QED
    BY <1>2 DEF Call
<1>4. calls' = [calls EXCEPT ![i] = c]
  BY <1>1 DEF ft_on_transfer, IInv, Calls
<1> HIDE DEF c
<1>5. Calls'
  BY <1>1, <1>3, <1>4 DEF IInv, Calls
<1> QED
  BY <1>5, SameToken DEF ft_on_transfer

(* Deposits: one minimum more for a new account.                           *)
LEMMA OneMore == \A m, k \in Int : m * (k + 1) = m * k + m /\ m * (k - 1) = m * k - m
OBVIOUS

LEMMA Registered ==
  ASSUME IInv, NEW a \in Account, token' = [token EXCEPT !.accounts = @ \cup {a}],
         UNCHANGED <<told, closed>>
  PROVE  /\ Keyed(token)' /\ Told' /\ LedgerStep
         /\ token'.accounts = token.accounts \cup {a}
<1>1. token \in Struct /\ \A b \in Account \ token.accounts : token.balance[b] = 0
  BY DEF IInv, Keyed
<1>2. token' = [accounts |-> token.accounts \cup {a}, balance |-> token.balance,
                total_supply |-> token.total_supply]
  BY <1>1 DEF Struct
<1>3. token' \in Struct
  BY <1>1, <1>2 DEF Struct
<1> QED
  BY <1>1, <1>2, <1>3 DEF IInv, Keyed, Told, EventsTellBalances, LedgerStep, Ledger!vars

LEMMA AccountsFinite ==
  ASSUME IInv PROVE IsFiniteSet(token.accounts) /\ Cardinality(token.accounts) \in Nat
BY Bounds, FS_Subset, FS_CardinalityType DEF IInv, Keyed, Struct

LEMMA DepositStep ==
  ASSUME IInv, contract = "nep-interface", UNCHANGED contract, NEW a \in Account, NEW attached \in Nat,
         storage_deposit(a, attached)
  PROVE  IInv' /\ LedgerStep /\ Joins
<1>1. UNCHANGED <<calls, told, closed>> /\ Calls'
  BY SameCalls DEF storage_deposit
<1>2. near \in Int /\ near = MinStorage * Cardinality(token.accounts)
  BY DEF IInv, Held, DepositsHeld, DepositsBacked
<1>3. CASE a \in token.accounts
  <2>1. UNCHANGED <<token, near>>
    BY <1>2, <1>3 DEF storage_deposit
  <2> QED
    BY <1>1, <2>1, SameToken
<1>4. CASE a \notin token.accounts
  <2>1. token' = [token EXCEPT !.accounts = @ \cup {a}] /\ near' = near + MinStorage
    BY <1>2, <1>4, Bounds DEF storage_deposit, internal_register_account
  <2>2. Keyed(token)' /\ Told' /\ LedgerStep /\ token'.accounts = token.accounts \cup {a}
    BY <1>1, <2>1, Registered
  <2>3. Cardinality(token'.accounts) = Cardinality(token.accounts) + 1
    BY <1>4, <2>2, AccountsFinite, FS_AddElement
  <2>4. near' = MinStorage * Cardinality(token'.accounts)
    BY <1>2, <2>1, <2>3, AccountsFinite, OneMore, Bounds
  <2>5. Held'
    BY <1>2, <2>1, <2>4, Bounds DEF Held, DepositsHeld, DepositsBacked
  <2> QED
    BY <1>1, <2>1, <2>2, <2>5 DEF IInv, Joins
<1> QED
  BY <1>3, <1>4

(* An account goes, with the tokens it has.                                *)
LEMMA RemovedResult ==
  ASSUME IInv, NEW a \in Account, a \in token.accounts, token' = Removed(token, a),
         UNCHANGED told, closed' = [closed EXCEPT ![a] = @ + token.balance[a]]
  PROVE  Keyed(token)' /\ Told' /\ LedgerStep /\ token'.accounts = token.accounts \ {a}
<1>1. /\ token \in Struct /\ token.total_supply <= MAX
      /\ \A b \in Account \ token.accounts : token.balance[b] = 0
  BY DEF IInv, Keyed
<1>2. token' = [accounts |-> token.accounts \ {a}, balance |-> [token.balance EXCEPT ![a] = 0],
                total_supply |-> token.total_supply - token.balance[a]]
  BY DEF Removed
<1>3. token.balance \in [Account -> Int] /\ token.total_supply \in Int /\ token.balance[a] \in 0..MAX
  BY <1>1, Bounds DEF Struct
<1>4. Keyed(token)'
  <2>1. token.total_supply - token.balance[a] <= MAX
    BY <1>1, <1>3, Bounds
  <2> QED
    BY <1>1, <1>2, <1>3, <2>1, Bounds DEF Struct, Keyed
<1>5. Told'
  <2>1. closed' \in [Account -> Nat]
    BY <1>3, Bounds DEF IInv, Told
  <2>2. ASSUME NEW b \in Account PROVE told'[b] = token'.balance[b] + closed'[b]
    BY <1>2, <1>3 DEF IInv, Told, EventsTellBalances
  <2> QED
    BY <2>1, <2>2 DEF IInv, Told, EventsTellBalances
<1>6. LedgerStep
  <2>1. token'.balance = [token.balance EXCEPT ![a] = 0]
        /\ token'.total_supply = token.total_supply - token.balance[a]
    BY <1>2
  <2>2. CASE token.balance[a] = 0
    <3>1. token'.balance = token.balance /\ token'.total_supply = token.total_supply
      BY <1>3, <2>1, <2>2
    <3> QED
      BY <3>1 DEF LedgerStep, Ledger!vars
  <2>3. CASE token.balance[a] # 0
    <3>1. Ledger!Paid(a) = token.balance[a]
      BY <1>3, <2>1 DEF Ledger!Paid
    <3>2. Ledger!Burn(a)
      BY <1>3, <2>1, <2>3, <3>1 DEF Ledger!Burn
    <3> QED
      BY <3>2 DEF LedgerStep, Ledger!Next
  <2> QED
    BY <2>2, <2>3
<1> QED
  BY <1>2, <1>4, <1>5, <1>6

LEMMA UnregisterStep ==
  ASSUME IInv, contract = "nep-interface", UNCHANGED contract, NEW a \in Account, NEW force \in BOOLEAN,
         internal_storage_unregister(a, force)
  PROVE  IInv' /\ LedgerStep /\ Joins
<1>1. /\ a \in token.accounts /\ token' = Removed(token, a)
      /\ near' = near + 1 - (MinStorage + 1) /\ closed' = [closed EXCEPT ![a] = @ + token.balance[a]]
      /\ UNCHANGED <<calls, told>>
  BY DEF internal_storage_unregister
<1>2. Keyed(token)' /\ Told' /\ LedgerStep /\ token'.accounts = token.accounts \ {a}
  BY <1>1, RemovedResult
<1>3. near \in Int /\ near = MinStorage * Cardinality(token.accounts)
  BY DEF IInv, Held, DepositsHeld, DepositsBacked
<1>4. Cardinality(token'.accounts) = Cardinality(token.accounts) - 1
  BY <1>1, <1>2, AccountsFinite, FS_RemoveElement
<1>5. near' = near - MinStorage
  BY <1>1, <1>3, Bounds
<1>6. near' = MinStorage * Cardinality(token'.accounts)
  BY <1>3, <1>4, <1>5, AccountsFinite, OneMore, Bounds
<1>7. Held'
  BY <1>3, <1>5, <1>6, Bounds DEF Held, DepositsHeld, DepositsBacked
<1>8. Calls' /\ Joins
  BY <1>1, <1>2, SameCalls DEF Joins
<1> QED
  BY <1>2, <1>7, <1>8 DEF IInv

-----------------------------------------------------------------------------
(* The contracts, one after the other.                                     *)
LEMMA NepInterfaceStep ==
  ASSUME IInv, contract = "nep-interface", UNCHANGED contract, Next
  PROVE  IInv' /\ LedgerStep /\ Joins
<1>1. ASSUME NEW a \in Account, NEW n \in 1..MaxMinted, Mint(a, n) PROVE IInv' /\ LedgerStep /\ Joins
  BY <1>1, MintStep
<1>2. ASSUME NEW s \in Account, NEW r \in Account, NEW n \in Amount, ft_transfer(s, r, n)
      PROVE  IInv' /\ LedgerStep /\ Joins
  <2>1. Calls'
    BY <1>2, SameCalls DEF ft_transfer
  <2> QED
    BY <1>2, <2>1, TokenTransferStep DEF ft_transfer
<1>3. ASSUME NEW s \in Account, NEW r \in Account, NEW n \in Amount, NEW i \in Id, NEW gas \in BOOLEAN,
             ft_transfer_call(i, s, r, n, gas)
      PROVE  IInv' /\ LedgerStep /\ Joins
  <2>1. Calls'
    BY <1>3, CallingCalls DEF ft_transfer_call, CanTransfer
  <2> QED
    BY <1>3, <2>1, TokenTransferStep DEF ft_transfer_call
<1>4. ASSUME NEW a \in Account, NEW attached \in 0..MinStorage + 1, storage_deposit(a, attached)
      PROVE  IInv' /\ LedgerStep /\ Joins
  <2>1. attached \in Nat
    BY Bounds
  <2> QED
    BY <1>4, <2>1, DepositStep
<1>5. ASSUME NEW a \in Account, NEW force \in BOOLEAN, internal_storage_unregister(a, force)
      PROVE  IInv' /\ LedgerStep /\ Joins
  BY <1>5, UnregisterStep
<1>6. ASSUME NEW i \in Id, Receipts(i) PROVE IInv' /\ LedgerStep /\ Joins
  BY <1>6, OnTransferStep, ResolveStep DEF Receipts
<1> QED
  BY <1>1, <1>2, <1>3, <1>4, <1>5, <1>6 DEF Next, Handlers

LEMMA SelfTransferStep ==
  ASSUME IInv, contract = "self-transfer", UNCHANGED contract, st_Next
  PROVE  IInv' /\ LedgerStep /\ Joins
<1> USE DEF st_CanTransfer, st_CanWithdraw, st_CanDeposit, st_internal_withdraw, st_internal_deposit,
            st_internal_transfer, Holders
<1>1. ASSUME NEW s \in Account, NEW r \in Account, NEW n \in Amount, st_ft_transfer(s, r, n)
      PROVE  IInv' /\ LedgerStep /\ Joins
  <2>1. Calls'
    BY <1>1, SameCalls DEF st_ft_transfer
  <2> QED
    BY <1>1, <2>1, HolderTransferStep DEF st_ft_transfer
<1>2. ASSUME NEW s \in Account, NEW r \in Account, NEW n \in Amount, NEW i \in Id, NEW gas \in BOOLEAN,
             st_ft_transfer_call(i, s, r, n, gas)
      PROVE  IInv' /\ LedgerStep /\ Joins
  <2>1. Calls'
    BY <1>2, CallingCalls DEF st_ft_transfer_call
  <2> QED
    BY <1>2, <2>1, HolderTransferStep DEF st_ft_transfer_call
<1> QED
  BY <1>1, <1>2 DEF st_Next

LEMMA PrepaidGasStep ==
  ASSUME IInv, contract = "prepaid-gas", UNCHANGED contract, pg_Next
  PROVE  IInv' /\ LedgerStep /\ Joins
<1> USE DEF pg_CanTransfer, pg_CanWithdraw, pg_CanDeposit, pg_internal_withdraw, pg_internal_deposit,
            pg_internal_transfer, Holders
<1>1. ASSUME NEW s \in Account, NEW r \in Account, NEW n \in Amount, pg_ft_transfer(s, r, n)
      PROVE  IInv' /\ LedgerStep /\ Joins
  <2>1. Calls'
    BY <1>1, SameCalls DEF pg_ft_transfer
  <2> QED
    BY <1>1, <2>1, HolderTransferStep DEF pg_ft_transfer
<1>2. ASSUME NEW s \in Account, NEW r \in Account, NEW n \in Amount, NEW i \in Id,
             pg_ft_transfer_call(i, s, r, n)
      PROVE  IInv' /\ LedgerStep /\ Joins
  <2>1. Calls'
    BY <1>2, CallingCalls DEF pg_ft_transfer_call
  <2> QED
    BY <1>2, <2>1, HolderTransferStep DEF pg_ft_transfer_call
<1> QED
  BY <1>1, <1>2 DEF pg_Next

LEMMA UnregisteredReceiverStep ==
  ASSUME IInv, contract = "unregistered-receiver", UNCHANGED contract, ur_Next
  PROVE  IInv' /\ LedgerStep /\ Joins
<1> USE DEF ur_CanWithdraw, ur_internal_withdraw, Holders
<1>1. ASSUME NEW s \in Account, NEW r \in Account, NEW n \in Amount, ur_ft_transfer(s, r, n)
      PROVE  IInv' /\ LedgerStep /\ Joins
  <2>1. Calls' /\ calls' = calls
    BY <1>1, SameCalls DEF ur_ft_transfer
  <2> QED
    BY <1>1, <2>1, HolderTransferStep
      DEF ur_ft_transfer, ur_CanTransfer_unsafe, ur_CanDeposit_unsafe, ur_internal_transfer_unsafe,
          ur_internal_deposit_unsafe
<1>2. ASSUME NEW s \in Account, NEW r \in Account, NEW n \in Amount, NEW i \in Id, NEW gas \in BOOLEAN,
             ur_ft_transfer_call(i, s, r, n, gas)
      PROVE  IInv' /\ LedgerStep /\ Joins
  <2>1. Calls'
    BY <1>2, CallingCalls DEF ur_ft_transfer_call, ur_CanTransfer_safe
  <2> QED
    BY <1>2, <2>1, HolderTransferStep
      DEF ur_ft_transfer_call, ur_CanTransfer_safe, ur_CanDeposit_safe, ur_internal_transfer_safe,
          ur_internal_deposit_safe
<1> QED
  BY <1>1, <1>2 DEF ur_Next

(* The minimum of unclaimed-storage-fee is nothing.                        *)
LEMMA UnclaimedStorageFeeStep ==
  ASSUME IInv, contract = "unclaimed-storage-fee", UNCHANGED contract, usf_Next
  PROVE  IInv' /\ LedgerStep /\ Joins
<1>1. near = 0
  BY DEF IInv, Held, DepositsHeld
<1>2. ASSUME NEW a \in Account, NEW attached \in 0..1, usf_storage_deposit(a, attached)
      PROVE  IInv' /\ LedgerStep /\ Joins
  <2>1. UNCHANGED <<calls, told, closed>> /\ Calls' /\ near' = 0
    BY <1>1, <1>2, SameCalls DEF usf_storage_deposit, usf_storage_balance_bounds
  <2>2. CASE a \in token.accounts
    BY <1>1, <1>2, <2>1, <2>2, SameToken DEF usf_storage_deposit
  <2>3. CASE a \notin token.accounts
    <3>1. token' = [token EXCEPT !.accounts = @ \cup {a}]
      BY <1>2, <2>3 DEF usf_storage_deposit
    <3>2. Keyed(token)' /\ Told' /\ LedgerStep
      BY <2>1, <3>1, Registered
    <3> QED
      BY <2>1, <3>2 DEF IInv, Held, DepositsHeld, Joins
  <2> QED
    BY <2>2, <2>3
<1>3. ASSUME NEW a \in Account, usf_storage_unregister(a) PROVE IInv' /\ LedgerStep /\ Joins
  <2>1. /\ a \in token.accounts /\ token' = Removed(token, a) /\ near' = 0
        /\ closed' = [closed EXCEPT ![a] = @ + token.balance[a]] /\ UNCHANGED <<calls, told>>
    BY <1>1, <1>3 DEF usf_storage_unregister, usf_storage_balance_bounds
  <2>2. Keyed(token)' /\ Told' /\ LedgerStep
    BY <2>1, RemovedResult
  <2> QED
    BY <2>1, <2>2, SameCalls DEF IInv, Held, DepositsHeld, Joins
<1> QED
  BY <1>2, <1>3 DEF usf_Next

LEMMA ExampleReceiptsStep ==
  ASSUME IInv, contract \in Holders, UNCHANGED contract, NEW i \in Id, ExampleReceipts(i)
  PROVE  IInv' /\ LedgerStep /\ Joins
<1>1. ASSUME NEW answer \in {{0}, None}, ft_on_transfer(i, answer) PROVE IInv' /\ LedgerStep /\ Joins
  <2>1. answer \in Answers
    BY Bounds DEF Answers
  <2> QED
    BY <1>1, <2>1, OnTransferStep
<1>2. ASSUME MissingResolver(i) PROVE IInv' /\ LedgerStep /\ Joins
  BY <1>2, EndedCall, SameToken DEF MissingResolver
<1> QED
  BY <1>1, <1>2 DEF ExampleReceipts

LEMMA ContractStep ==
  ASSUME IInv, ContractNext PROVE IInv' /\ LedgerStep /\ Joins
BY NepInterfaceStep, SelfTransferStep, PrepaidGasStep, UnregisteredReceiverStep, UnclaimedStorageFeeStep,
   ExampleReceiptsStep
DEF ContractNext

LEMMA StutterStep ==
  ASSUME IInv, UNCHANGED allvars PROVE IInv' /\ LedgerStep
BY SameCalls, SameToken DEF allvars, vars

LEMMA ContractInitInv == ContractInit => IInv /\ Ledger!Init
<1>1. ASSUME contract = "nep-interface", Init PROVE IInv
  <2>1. Keyed(token)
    BY <1>1, Bounds DEF Init, new, Keyed, Struct
  <2>2. Calls /\ Told
    BY <1>1 DEF Init, new, Calls, Told, EventsTellBalances
  <2>3. Held
    BY <1>1, Bounds, FS_EmptySet DEF Init, new, Held, DepositsHeld, DepositsBacked
  <2> QED
    BY <2>1, <2>2, <2>3 DEF IInv
<1>2. ASSUME contract # "nep-interface", NEW b \in Stocks, Stocked(b) PROVE IInv
  <2>1. b \in [Account -> Amount] /\ Sum(b) = MAX
    BY <1>2, Bounds DEF Stocks
  <2>2. Keyed(token)
    <3>1. token = [accounts |-> {a \in Account : b[a] > 0}, balance |-> b, total_supply |-> MAX]
      BY <1>2, <2>1 DEF Stocked
    <3>2. \A a \in Account \ {a \in Account : b[a] > 0} : b[a] = 0
      BY <2>1, Bounds
    <3> QED
      BY <2>1, <3>1, <3>2, Bounds DEF Keyed, Struct
  <2>3. Calls /\ Told
    BY <1>2, <2>1, Bounds DEF Stocked, Calls, Told, EventsTellBalances
  <2>4. Held
    BY <1>2 DEF Stocked, Held, DepositsHeld
  <2> QED
    BY <2>2, <2>3, <2>4 DEF IInv
<1>3. ContractInit => token.balance \in [Account -> Nat] /\ token.total_supply \in Nat
  <2>1. ASSUME Init PROVE token.balance \in [Account -> Nat] /\ token.total_supply \in Nat
    BY <2>1 DEF Init, new
  <2>2. ASSUME NEW b \in Stocks, Stocked(b)
        PROVE  token.balance \in [Account -> Nat] /\ token.total_supply \in Nat
    <3>1. b \in [Account -> Amount] /\ Sum(b) \in Nat
      BY Bounds DEF Stocks
    <3> QED
      BY <2>2, <3>1, Bounds DEF Stocked
  <2> QED
    BY <2>1, <2>2 DEF ContractInit
<1> QED
  BY <1>1, <1>2, <1>3 DEF ContractInit, Holders, Ledger!Init

-----------------------------------------------------------------------------
(* The events tell the balances of each of the five, but for what went     *)
(* with a closed account (events.rs:31-93, storage_impl.rs:16-21).         *)
THEOREM EventsTell == ContractSpec => []EventsTellBalances
<1>1. IInv => EventsTellBalances
  BY DEF IInv, Told
<1>2. IInv /\ [ContractNext]_allvars => IInv'
  BY ContractStep, StutterStep
<1> QED
  BY <1>1, <1>2, ContractInitInv, PTL DEF ContractSpec

LEMMA SupplyInit == ContractInit => SupplyIsSum
<1>1. ASSUME Init PROVE SupplyIsSum
  <2>1. token.balance = [a \in Account |-> 0] /\ token.total_supply = 0
    BY <1>1 DEF Init, new
  <2>2. SumOver(token.balance, Account) = 0
    BY <2>1, Bounds, SumZero
  <2> QED
    BY <2>1, <2>2, SupplySum
<1>2. ASSUME NEW b, Stocked(b) PROVE SupplyIsSum
  <2>1. token.balance = b /\ token.total_supply = Sum(b)
    BY <1>2 DEF Stocked
  <2>2. Sum(b) = SumOver(b, Account)
    BY DEF Sum, SumOver, MapThenSumSet, MapThenFoldSet
  <2> QED
    BY <2>1, <2>2, SupplySum
<1> QED
  BY <1>1, <1>2 DEF ContractInit

(* The supply of each of the five is the sum of the balances, also when a  *)
(* refund finds its sender's account gone or the receiver's spent          *)
(* (core_impl.rs:178-245, storage_impl.rs:16-21).                          *)
THEOREM SupplyIsAlwaysSum == ContractSpec => []SupplyIsSum
<1>1. IInv /\ SupplyIsSum /\ [ContractNext]_allvars => (IInv /\ SupplyIsSum)'
  <2>1. ASSUME IInv, SupplyIsSum, IInv', LedgerStep PROVE SupplyIsSum'
    BY <2>1, LedgerSum DEF IInv
  <2> QED
    BY <2>1, ContractStep, StutterStep
<1> QED
  BY <1>1, ContractInitInv, SupplyInit, PTL DEF ContractSpec

(* The structs and the calls are well formed, and a supply is an amount:   *)
(* it neither overflows nor goes below nothing (core_impl.rs:28-37, 61-94).*)
THEOREM Typing == ContractSpec => []TypeOK
<1>1. IInv /\ SupplyIsSum => TypeOK
  <2>1. SUFFICES ASSUME IInv, SupplyIsSum PROVE TypeOK
    OBVIOUS
  <2>2. token \in Struct /\ token.total_supply <= MAX /\ \A a \in Account : token.balance[a] \in Nat
    BY <2>1, Bounds DEF IInv, Keyed, Struct
  <2>3. token.total_supply \in Nat
    BY <2>1, <2>2, Bounds, SupplySum, SumNat
  <2>4. token \in TokenType
    BY <2>2, <2>3, Bounds DEF Struct, TokenType
  <2> QED
    BY <2>1, <2>4 DEF IInv, Keyed, Calls, Told, Held, TypeOK
<1>2. IInv /\ [ContractNext]_allvars => IInv'
  BY ContractStep, StutterStep
<1> QED
  BY <1>1, <1>2, ContractInitInv, SupplyIsAlwaysSum, PTL DEF ContractSpec

(* The minimum is held for every account of nep-interface, so that whoever *)
(* unregisters can be paid (storage_impl.rs:16-21, 48-73).                 *)
THEOREM MinimumIsHeld == ContractSpec => []DepositsHeld
<1>1. IInv => DepositsHeld
  BY DEF IInv, Held
<1>2. IInv /\ [ContractNext]_allvars => IInv'
  BY ContractStep, StutterStep
<1> QED
  BY <1>1, <1>2, ContractInitInv, PTL DEF ContractSpec

(* Each of the five implements the ledger: every step, a refund included,  *)
(* moves tokens between two accounts, burns or mints those of one, or      *)
(* moves none (core_impl.rs:96-117, 178-245).                              *)
THEOREM TokensImplementLedger == ContractSpec => LedgerSpec
<1>1. IInv /\ [ContractNext]_allvars => IInv' /\ LedgerStep
  BY ContractStep, StutterStep
<1>2. IInv /\ [ContractNext]_allvars => [Ledger!Next]_(Ledger!vars)
  BY <1>1 DEF LedgerStep
<1> QED
  BY <1>1, <1>2, ContractInitInv, PTL DEF ContractSpec, LedgerSpec, Ledger!Spec

(* Nobody becomes an account of self-transfer or prepaid-gas, nobody by a  *)
(* transfer call, and in nep-interface only for the minimum                *)
(* (core_impl.rs:119-123, unregistered-receiver/src/lib.rs:116-149).       *)
THEOREM WhoJoins == ContractSpec => AccountsJoin
<1> DEFINE Joining ==
      \A a \in token'.accounts \ token.accounts :
        \/ contract = "nep-interface" /\ near' = near + MinStorage
        \/ contract = "unregistered-receiver" /\ calls' = calls
        \/ contract = "unclaimed-storage-fee"
<1>1. IInv /\ [ContractNext]_allvars => IInv' /\ [Joining]_allvars
  BY ContractStep, StutterStep DEF Joins
<1> QED
  BY <1>1, ContractInitInv, PTL DEF ContractSpec, AccountsJoin
=============================================================================
