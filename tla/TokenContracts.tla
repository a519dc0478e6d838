--------------------------- MODULE TokenContracts ---------------------------
(***************************************************************************)
(* The five fungible tokens of src/examples, one at a time: the complete   *)
(* one of nep-interface and the four that detectors are tried on, each of  *)
(* which leaves out a check.  They have the same state, so that a property *)
(* says of all of them what it says of one.                                *)
(***************************************************************************)
EXTENDS SelfTransfer, PrepaidGas, UnregisteredReceiver, UnclaimedStorageFee

VARIABLE contract    \* which of them it is

allvars == <<vars, contract>>

Holders == {"self-transfer", "prepaid-gas", "unregistered-receiver"}

Sum(f) == MapThenSumSet(LAMBDA a : f[a], Account)

(* No handler of these four makes tokens: they start from accounts that    *)
(* their storage holds already.                                            *)
Stocks == {b \in [Account -> Amount] : Sum(b) = MAX}

Stocked(b) ==
  /\ token = [accounts |-> {a \in Account : b[a] > 0}, balance |-> b, total_supply |-> Sum(b)]
  /\ told = b
  /\ minted = MAX
  /\ near = 0
  /\ calls = [i \in Id |-> NoCall]
  /\ closed = [a \in Account |-> 0]

ContractInit ==
  \/ contract = "nep-interface" /\ Init
  \/ contract \in Holders \cup {"unclaimed-storage-fee"} /\ \E b \in Stocks : Stocked(b)

(* The callback of the examples: there is no such method, the receipt      *)
(* fails and nobody is refunded.                                           *)
MissingResolver(i) ==
  /\ calls[i].stage = "resolve"
  /\ calls' = [calls EXCEPT ![i] = NoCall]
  /\ UNCHANGED <<token, near, told, closed, minted>>

ExampleReceipts(i) == (\E answer \in {{0}, None} : ft_on_transfer(i, answer)) \/ MissingResolver(i)

ContractNext ==
  /\ UNCHANGED contract
  /\ \/ contract = "nep-interface" /\ Next
     \/ contract = "self-transfer" /\ st_Next
     \/ contract = "prepaid-gas" /\ pg_Next
     \/ contract = "unregistered-receiver" /\ ur_Next
     \/ contract = "unclaimed-storage-fee" /\ usf_Next
     \/ contract \in Holders /\ \E i \in Id : ExampleReceipts(i)

ContractFairness ==
  \A i \in Id : /\ WF_allvars(contract = "nep-interface" /\ Receipts(i) /\ UNCHANGED contract)
                /\ WF_allvars(contract \in Holders /\ ExampleReceipts(i) /\ UNCHANGED contract)

ContractSpec == ContractInit /\ [][ContractNext]_allvars /\ ContractFairness
-----------------------------------------------------------------------------
(* The minimum is held for every account of nep-interface, and it is       *)
(* nothing in unclaimed-storage-fee (storage_impl.rs:16-21, 48-73;         *)
(* unclaimed-storage-fee/src/lib.rs:36, 56-119).                           *)
DepositsHeld == IF contract = "nep-interface" THEN DepositsBacked ELSE near = 0

(* Who becomes an account: in nep-interface whoever a minimum is attached  *)
(* for; in unregistered-receiver also a receiver of ft_transfer, never one *)
(* of ft_transfer_call; and in self-transfer and prepaid-gas nobody, so    *)
(* that an account that has sent all it had never receives again           *)
(* (core_impl.rs:119-123, unregistered-receiver/src/lib.rs:133-149,        *)
(* self-transfer/src/lib.rs:107-126, prepaid-gas/src/lib.rs:108-127).      *)
AccountsJoin ==
  [][\A a \in token'.accounts \ token.accounts :
       \/ contract = "nep-interface" /\ near' = near + MinStorage
       \/ contract = "unregistered-receiver" /\ calls' = calls
       \/ contract = "unclaimed-storage-fee"]_allvars
=============================================================================
