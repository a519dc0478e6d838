--------------------------- MODULE FungibleToken ---------------------------
(***************************************************************************)
(* The NEP-141 token of src/examples/nep-interface with its NEP-145        *)
(* storage management: the struct FungibleToken, its handlers, and the     *)
(* receipts of a transfer call.  A handler that panics changes nothing,    *)
(* so that what it requires is its guard.  ft_transfer_call moves the      *)
(* tokens at once; the receiver's ft_on_transfer and then the callback     *)
(* ft_resolve_transfer are receipts that run later, and any other handler  *)
(* may run in between (core_impl.rs:153-161).                              *)
(*                                                                         *)
(* near is the NEAR the contract holds for its accounts: what callers      *)
(* attach less what it pays out.  The one yocto that a transfer attaches   *)
(* and nobody is paid is not counted.                                      *)
(***************************************************************************)
EXTENDS Integers, FiniteSets, FiniteSetsExt

CONSTANTS Account,      \* the accounts of the chain
          Id,           \* bound: transfer calls in flight at a time
          MAX,          \* Balance::MAX
          MinStorage,   \* storage_balance_bounds().min
          MaxMinted     \* bound: what the embedding contract mints in all

ASSUME TokenAssumption ==
  /\ IsFiniteSet(Account)
  /\ MAX \in Nat /\ MinStorage \in Nat /\ MaxMinted \in Nat

VARIABLES token,    \* the struct: accounts (the keys), balance (their values), total_supply
          near,     \* see above
          calls,    \* what is known of the transfer calls in flight
          told,     \* history: the balances that follow from the events
          closed,   \* history: what forced unregistrations destroyed, by account
          minted    \* history: what was minted in all

vars == <<token, near, calls, told, closed, minted>>

Amount == 0..MAX

(* What the callback reads of the receiver's promise: an amount, or nothing *)
(* when it failed or its value is no amount.                               *)
None == {}
Answers == {None} \cup {{n} : n \in Amount}

NoCall == [stage |-> "none"]
Call == [stage : {"receiver", "resolve"}, sender : Account, receiver : Account,
         amount : Amount \ {0}, answer : Answers]

Smaller(m, n) == IF m <= n THEN m ELSE n

-----------------------------------------------------------------------------
(* The helpers: what each requires and the struct it leaves.               *)
(* Seeded fault: the balance is not looked at.                             *)
CanWithdrawAlways(t, a, n) == a \in t.accounts /\ n <= t.total_supply

CanWithdraw(t, a, n) ==
  a \in t.accounts /\ n <= t.balance[a] /\ n <= t.total_supply

internal_withdraw(t, a, n) ==
  [t EXCEPT !.balance[a] = @ - n, !.total_supply = @ - n]

(* Seeded fault: only the account's balance is kept from overflowing.      *)
CanDepositOwn(t, a, n) == a \in t.accounts /\ t.balance[a] + n <= MAX

CanDeposit(t, a, n) ==
  a \in t.accounts /\ t.balance[a] + n <= MAX /\ t.total_supply + n <= MAX

internal_deposit(t, a, n) ==
  [t EXCEPT !.balance[a] = @ + n, !.total_supply = @ + n]

CanTransfer(t, s, r, n) ==
  /\ s # r
  /\ n > 0
  /\ CanWithdraw(t, s, n)
  /\ CanDeposit(internal_withdraw(t, s, n), r, n)

internal_transfer(t, s, r, n) == internal_deposit(internal_withdraw(t, s, n), r, n)

internal_register_account(t, a) == [t EXCEPT !.accounts = @ \cup {a}]

Removed(t, a) ==
  [accounts |-> t.accounts \ {a}, balance |-> [t.balance EXCEPT ![a] = 0],
   total_supply |-> t.total_supply - t.balance[a]]

(* The events, as one who follows them reads them.                         *)
FtMint(e, a, n)        == [e EXCEPT ![a] = @ + n]
FtTransfer(e, s, r, n) == [e EXCEPT ![s] = @ - n, ![r] = @ + n]
FtBurn(e, a, n)        == [e EXCEPT ![a] = @ - n]

-----------------------------------------------------------------------------
new == [accounts |-> {}, balance |-> [a \in Account |-> 0], total_supply |-> 0]

Init ==
  /\ token = new
  /\ near = 0
  /\ calls = [i \in Id |-> NoCall]
  /\ told = [a \in Account |-> 0]
  /\ closed = [a \in Account |-> 0]
  /\ minted = 0

(* The embedding contract mints: it deposits and emits an FtMint.          *)
Mint(a, n) ==
  /\ minted + n <= MaxMinted
  /\ CanDeposit(token, a, n)
  /\ token' = internal_deposit(token, a, n)
  /\ told' = FtMint(told, a, n)
  /\ minted' = minted + n
  /\ UNCHANGED <<near, calls, closed>>

ft_transfer(s, r, n) ==
  /\ CanTransfer(token, s, r, n)
  /\ token' = internal_transfer(token, s, r, n)
  /\ told' = FtTransfer(told, s, r, n)
  /\ UNCHANGED <<near, calls, closed, minted>>

Calling(i, s, r, n) ==
  /\ calls[i] = NoCall
  /\ calls' = [calls EXCEPT ![i] = [stage |-> "receiver", sender |-> s, receiver |-> r,
                                    amount |-> n, answer |-> None]]

(* gas: is prepaid_gas above GAS_FOR_FT_TRANSFER_CALL?                     *)
ft_transfer_call(i, s, r, n, gas) ==
  /\ gas
  /\ CanTransfer(token, s, r, n)
  /\ token' = internal_transfer(token, s, r, n)
  /\ told' = FtTransfer(told, s, r, n)
  /\ Calling(i, s, r, n)
  /\ UNCHANGED <<near, closed, minted>>

(* The receiver's ft_on_transfer ends: with an amount, which may be more   *)
(* than it was sent, with something that is no amount, or by a failure,    *)
(* for want of gas or any other reason.                                    *)
ft_on_transfer(i, answer) ==
  /\ calls[i].stage = "receiver"
  /\ calls' = [calls EXCEPT ![i].stage = "resolve", ![i].answer = answer]
  /\ UNCHANGED <<token, near, told, closed, minted>>

Unused(c) ==
  IF c.answer = None THEN c.amount ELSE Smaller(c.amount, CHOOSE n \in c.answer : TRUE)

(* Nothing is refunded by a receiver without balance, or without account.  *)
Refund(t, c) == Smaller(t.balance[c.receiver], Unused(c))

CanResolve(t, c) == c.sender \in t.accounts => t.balance[c.sender] + Refund(t, c) <= MAX

(* Seeded fault: the refund of a sender who has left stays in the supply.  *)
internal_ft_resolve_transferUnburnt(t, c) ==
  LET paid == [t.balance EXCEPT ![c.receiver] = @ - Refund(t, c)]
  IN  IF c.sender \in t.accounts
      THEN [t EXCEPT !.balance = [paid EXCEPT ![c.sender] = @ + Refund(t, c)]]
      ELSE [t EXCEPT !.balance = paid]

(* Seeded fault: the receiver keeps what the sender gets back.             *)
internal_ft_resolve_transferKept(t, c) ==
  IF c.sender \in t.accounts
  THEN [t EXCEPT !.balance[c.sender] = @ + Refund(t, c)]
  ELSE t

internal_ft_resolve_transfer(t, c) ==
  LET paid == [t.balance EXCEPT ![c.receiver] = @ - Refund(t, c)]
  IN  IF c.sender \in t.accounts
      THEN [t EXCEPT !.balance = [paid EXCEPT ![c.sender] = @ + Refund(t, c)]]
      ELSE [t EXCEPT !.balance = paid, !.total_supply = @ - Refund(t, c)]

(* Seeded fault: a refund is told as a transfer though its sender has left. *)
ft_resolve_transferTold(i) ==
  LET c == calls[i]
  IN  /\ c.stage = "resolve"
      /\ CanResolve(token, c)
      /\ token' = internal_ft_resolve_transfer(token, c)
      /\ told' = FtTransfer(told, c.receiver, c.sender, Refund(token, c))
      /\ calls' = [calls EXCEPT ![i] = NoCall]
      /\ UNCHANGED <<near, closed, minted>>

ft_resolve_transfer(i) ==
  LET c == calls[i]
  IN  /\ c.stage = "resolve"
      /\ CanResolve(token, c)
      /\ token' = internal_ft_resolve_transfer(token, c)
      /\ told' = IF c.sender \in token.accounts
                 THEN FtTransfer(told, c.receiver, c.sender, Refund(token, c))
                 ELSE FtBurn(told, c.receiver, Refund(token, c))
      /\ calls' = [calls EXCEPT ![i] = NoCall]
      /\ UNCHANGED <<near, closed, minted>>

-----------------------------------------------------------------------------
(* Seeded fault: nothing goes back to a caller who is registered.          *)
storage_depositKept(a, attached) ==
  /\ IF a \in token.accounts
     THEN /\ near' = near + attached
          /\ UNCHANGED token
     ELSE /\ attached >= MinStorage
          /\ token' = internal_register_account(token, a)
          /\ near' = near + attached - (attached - MinStorage)
  /\ UNCHANGED <<calls, told, closed, minted>>

(* A caller registers an account with an attached deposit: what is not     *)
(* needed goes back, all of it when the account is registered.             *)
storage_deposit(a, attached) ==
  /\ IF a \in token.accounts
     THEN /\ near' = near + attached - attached
          /\ UNCHANGED token
     ELSE /\ attached >= MinStorage
          /\ token' = internal_register_account(token, a)
          /\ near' = near + attached - (attached - MinStorage)
  /\ UNCHANGED <<calls, told, closed, minted>>

(* The account's own call, with one yocto attached.  No event tells of the *)
(* tokens that go with the account.                                        *)
internal_storage_unregister(a, force) ==
  /\ a \in token.accounts
  /\ token.balance[a] = 0 \/ force
  /\ token' = Removed(token, a)
  /\ near' = near + 1 - (MinStorage + 1)
  /\ closed' = [closed EXCEPT ![a] = @ + token.balance[a]]
  /\ UNCHANGED <<calls, told, minted>>

-----------------------------------------------------------------------------
Handlers ==
  \/ \E a \in Account, n \in 1..MaxMinted : Mint(a, n)
  \/ \E s, r \in Account, n \in Amount :
       \/ ft_transfer(s, r, n)
       \/ \E i \in Id, gas \in BOOLEAN : ft_transfer_call(i, s, r, n, gas)
  \/ \E a \in Account, attached \in 0..MinStorage + 1 : storage_deposit(a, attached)
  \/ \E a \in Account, force \in BOOLEAN : internal_storage_unregister(a, force)

Receipts(i) == (\E answer \in Answers : ft_on_transfer(i, answer)) \/ ft_resolve_transfer(i)

Next == Handlers \/ \E i \in Id : Receipts(i)

(* A receipt is executed some time after it was made.                      *)
Fairness == \A i \in Id : WF_vars(Receipts(i))

Spec == Init /\ [][Next]_vars /\ Fairness
-----------------------------------------------------------------------------
(* The struct and the calls are well formed, and no balance is kept for an *)
(* account without a key (core_impl.rs:28-37).                             *)
TokenType ==
  [accounts : SUBSET Account, balance : [Account -> Amount], total_supply : Amount]

TypeOK ==
  /\ token \in TokenType
  /\ \A a \in Account \ token.accounts : token.balance[a] = 0
  /\ near \in Int
  /\ calls \in [Id -> Call \cup {NoCall}]
  /\ told \in [Account -> Int]
  /\ closed \in [Account -> Nat]

(* total_supply is the sum of the balances after every handler and every   *)
(* callback, also when a refund finds its sender's account gone, or the    *)
(* receiver's spent or closed (core_impl.rs:178-245, storage_impl.rs:16-21).*)
SupplyIsSum == token.total_supply = MapThenSumSet(LAMBDA a : token.balance[a], Account)

(* The contract holds the minimum for every registered account, no more    *)
(* and no less: whoever unregisters can be paid (storage_impl.rs:16-21,    *)
(* 48-73).                                                                 *)
DepositsBacked == near = MinStorage * Cardinality(token.accounts)

(* Whoever follows the events knows the balances, through refunds and      *)
(* burns in callbacks, except that a forced unregistration of an account   *)
(* with tokens tells nothing (events.rs:31-93, storage_impl.rs:16-21).     *)
EventsTellBalances == \A a \in Account : told[a] = token.balance[a] + closed[a]

(* Every transfer call is resolved: no sequence of transfers, mints and    *)
(* closed accounts in between makes the callback panic (core_impl.rs:153-  *)
(* 161, 199-241).                                                          *)
EveryCallResolves == \A i \in Id : calls[i] # NoCall ~> calls[i] = NoCall

Ledger == INSTANCE TokenLedger WITH balance <- token.balance, supply <- token.total_supply

(* The token implements the ledger: no step, a callback least of all,      *)
(* touches an account that is not party to it, or makes or loses tokens    *)
(* that the supply does not show (core_impl.rs:96-117, 178-245).           *)
LedgerSpec == Ledger!Spec
=============================================================================
