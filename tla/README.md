# A verification model of Rustle

Rustle is a static analyser for NEAR smart contracts written in Rust. The driver
`rustle` builds the contract to LLVM bitcode, runs detectors on it (LLVM passes in
`detectors/*.cpp`, scripts in `detectors/*.py`), and lets `utils/audit.py` turn the
lines they leave in a temporary directory into a report. `examples/` holds the contracts
the analyser is tried on: a complete token library (`nep-interface`), which the detectors
must find nothing in, and small contracts, each with the fault a detector looks for. This
directory holds TLA+ modules translated from that code, TLC configurations that check them
on small instances, and proofs checked by TLAPS.

The examples are modelled as programs of their own. They are the analyser's regression
inputs, so that what a detector reports has a meaning that can be checked: the model of an
example without the check shows which property of the contract is lost, and the model of the
complete contract shows that it holds there. They are also the only part of the repository in
which messages are in flight: a transfer call is three receipts with any other call in between.

## Inventory

| component | state it keeps | operations | what makes it hard | what makes it correct |
| --- | --- | --- | --- | --- |
| `simpleFindUsers` (near_core.cpp:8) | the set of values found, the C++ stack | cross into a called function, convert, follow a store, visit a user | cyclic use lists, one set shared by all activations, three modes | finds what the data flow holds and nothing else, returns |
| `isInstCallFuncRec`, `isFuncCallFuncRec` (near_core.cpp:162-230) | `callStack` | search a level, descend | recursive call graphs | answers whether a matching function is called |
| `findFunctionCallerRec` (near_core.cpp:232) | the set of callers | visit a use | a depth together with a shared set | finds the callers within the depth |
| `storage-gas` | its output file, a set of callers | scan a function, search and judge its callers | rests on the two searches above | verdicts are justified, one line per function |
| `callback`, `yocto-attach`, `nft-owner-check` | `.callback.tmp`, their output files | scan a module | one reads the file of another; order of functions | reports exactly the functions that lack a check |
| `rustle`: detector list | `_arg_detector`, `HAS_RUNNED` | substitute groups, make a detector, refuse a name | nested groups, order of substitutions | makes what the documentation promises |
| `rustle`, `Makefile`, reading part of `audit.py` | `TMP_DIR`, the report | make targets, run passes and scripts, report, clean | crashes of `opt`, kills, files rewritten in place, parallel runs | reports are complete, and each run's own |
| `findUsers` (near_core.cpp:37) | as `simpleFindUsers`, with a depth | as above | depth and shared set | not modelled yet |
| `reentrancy` | its output file | walk basic blocks from a `PromiseResult::Successful` | no visited set; a crash in the walk | a report is on a change of state reached after success; one path is followed to its end |
| `incorrect-json-type`, `findStruct` | the list of types | grow the list | grows while iterated | not modelled yet |
| `ext-call`, `ext-call-trait` | their files | scan every bitcode, one pass after the other | early return per module | own calls of the trait functions found are reported |
| `unsaved-changes` | its output file | scan for `get` | leaves a block early | a value changed and not inserted is reported |
| `nft-approval-check`, `unregistered-receiver`, `unclaimed-storage-fee`, `self-transfer` | output files | scan, recurse into callees | recursion without a bound | not modelled yet |
| `nep-interface` | the table of functions found | scan | version-dependent table | not modelled yet |
| scans of instructions (`timestamp`, `transfer`, `round`, `upgrade-func`, `prepaid-gas`, `complex-loop`, ...) | output files, flags of a function | scan | where they leave the loop; crashes on indirect calls and missing locations | exactly what is looked for is reported, once |
| Python detectors | output files | match source text | regular expressions | files modelled in `Pipeline` only |
| `utils/core.py` | none | parse Rust text, match names | regular expressions | only `structFuncNameMatch` is modelled |
| `audit.py`: notes per function | the rows of a file, of the summary | open a file, add a row, write | order of sets, first match, rows found by name | every finding has a note on its row, no note is on a wrong one |
| example `nep-interface`, fungible token | accounts, supply, deposits, transfer calls in flight | transfer, transfer call, the receiver's answer, resolve, register, unregister | sender or receiver spend, leave or answer too much before the callback runs | supply is the sum, the events tell the balances, the minimum is held, every call resolves |
| example `nep-interface`, non-fungible token | owners (two maps), approvals, their ids and deposits, transfer calls in flight | mint, transfer, transfer call, the receiver's answer, resolve, approve, revoke | a token is returned after its receiver approved, passed it on, or got it by another call | the maps are inverse, ids are unique, deposits cover approvals, only owners decide |
| examples `self-transfer`, `prepaid-gas`, `unregistered-receiver`, `unclaimed-storage-fee`, `nft-approval-check`, `nft-owner-check` | as the tokens | as the tokens, each without one check | as above | what the complete tokens keep, but for the check |
| examples `reentrancy`, `promise-result`, `public-interface`, `transfer`, `inconsistency`, `unhandled-promise`, `lock-callback` | a balance or an order, withdrawals in flight | withdraw, the payment, the callback | answers out of order, failures, partial returns | no more than the deposit is paid, nothing of it is lost |
| the other examples | a field or none | one handler | nothing | not modelled |

The components meet in five places: C++ passes call the searches of `near_core`;
`callback` and `ext-call-trait` hand a file to later passes and scripts; scripts and
`audit.py` rewrite those files in place; the driver owns the directory they are in; the
contracts call each other by promises, whose answers come as receipts of their own.

## Modules

**`UserFlow`** is the data flow of an LLVM module: operands, users, the pointer of a
store, the parameters of a called function, `into` conversions. `MustFollow` and
`MayFollow` say what follows from a value unconditionally and what follows given a set.
**`UserClosure`** is the abstract specification of a search: it grows a set along
`MayFollow` and reports only when `MustFollow` is exhausted.

**`SimpleFindUsers`** is `simpleFindUsers`. `stack` is the C++ stack: a frame has the
value, the statement of the body it is at (`cross` and `into` are the two statements of
the argument loop, `pointer` the store, `users` the loop over the users) and the users it
has not visited. `Visit` is a recursive call with its two early returns. The order of a
use list is unspecified in LLVM, so the next user is any. A label value is one whose type
`isLabelTy`.

**`CallGraphSearch`** is `isInstCallFuncRec` and both `isFuncCallFuncRec`: `Early` is what
the entry points decide alone, then `callStack` and `stack` follow the recursion.

**`CallerSearch`** is `findFunctionCallerRec`; `Begin` is a call of it by a detector.

**`StorageGas`** is `storage_gas.cpp`; it instantiates `CallerSearch` for the search of the
callers, whose steps are interleaved with nothing (the pass is sequential). The answer of
`isFuncCallFuncRec` is the predicate `LooksAtUsage`, the answer `Detectors_proofs`
shows the search to give.

**`PrivilegeChecks`** is `callback.cpp`, `yocto_attach.cpp` and `nft_owner_check.cpp` on one
bitcode, one action per function scanned. `Privileged` is `isFuncPrivileged` unfolded to
its depth, `ChecksYocto` the answer of `isInstCallFuncRec`.

**`DetectorNames`** has the names and groups of the driver and the substitutions of
`rustle:179-192`; the loop over the names is in `Pipeline`. `UserNames` are the names a list may
have. A name that is part of a detector's name passes the driver's regular expression; `Fragments`
has two such names. `sed`'s `\b` also finds a group at the hyphens within a name, as in `all-call`;
no name of `UserNames` has a group there, and what the driver makes of other names is not modelled.

**`Scans`** is the detectors whose work is one walk over the instructions of every bitcode:
`pos` is the cursor (function, block, instruction), `out` the lines written, `found` the flags
that `upgrade-func` and `prepaid-gas` keep for a function, `walk` the block `reentrancy` is
at. An instruction is abstracted to its location (the contract's, a library's, none), what
the name of its callee matches and what the user search says of its result, the answers that
`SimpleFindUsers_proofs` and `Detectors_proofs` establish. `ScanLine` is the body of
all loops that report and go on; `ScanTrait`, `ScanGet`, `ScanUpgrade`, `ScanPrepaidGas`
and `ScanResult` are those that leave a block, a function or a module early;
`CrashOnUser`, `CrashOnLoop` and `WalkCrashes` are null dereferences. `ext-call` is two
passes over all bitcodes: `BeginExtCall` begins the second.

**`Detectors`** composes `StorageGas`, `PrivilegeChecks` and `Scans`: `make` runs one of them
at a time in a process of its own, the variables of the others rest. `CallGraphSearch`, which three
of the passes ask, is followed in a process by itself. `GasCases`, `PrivilegeCases`, `ScanCases` and
`CallGraphCases` are the modules, bitcodes and call graphs each is run on.

**`Audit`** is the second half of `audit.py` with `structFuncNameMatch`. A finding is its
detector, the function it is in, whether it is in a closure, whether its path names the crate,
its line and whether the check looked for was there. `NameMatches` is written on the parts
of a name: an LLVM name ends with the qualifier and the name of the function, and `Suffix`
says which names end with which. `Shown` is what the loops over the sets write: all lines, the
text of the first match (any, as sets have no order) or nothing but the note.

**`MakeRules`** is the Makefile as a table: `Targets` (prerequisites in order), `Removes`,
`Input`, `Demangles`. **`Pipeline`** is any number of runs of the driver in one working
directory: `at` is where the shell script is, `make` the targets of the make it waits for,
`left` the bitcodes that xargs has not passed to `opt`, `tmp` the temporary directories. A
line of a file records its run, what it is about, its form (mangled, demangled, or the
beginning of a line a crash left) and whether the pass that wrote it had read a complete
file. `CrashPass` is `opt` dying of a signal: nothing, an unparsable beginning or a
parsable one is left, xargs and make give up, the loop goes on. `Kill` ends a run anywhere.
`asked`, `failed` and `shared` are history variables that only properties read.

**`FungibleToken`** is the token of `nep-interface` with its storage management. A handler is an
action; a panic undoes a handler, so that its assertions are guards. `token` is the struct:
`accounts` are the keys of the map, `balance` their values. `ft_transfer_call` moves the tokens
and puts a record in `calls`, which is what the promises carry; `ft_on_transfer`, the receiver's
contract, is external and answers any amount, nothing, or fails; `ft_resolve_transfer` is the
callback. `near` is what the contract holds of the deposits. `told` follows the events, `closed`
has what forced unregistrations destroy, `minted` bounds the minting; only properties read the
first two. **`TokenLedger`** is the abstract specification: tokens are moved between two accounts,
made or destroyed, and the supply shows it; there are no calls in flight.

**`HolderMap`** has the helper functions that `self-transfer`, `prepaid-gas` and
`unregistered-receiver` share, as they are written three times, and **`SelfTransfer`**,
**`PrepaidGas`**, **`UnregisteredReceiver`** and **`UnclaimedStorageFee`** the handlers of each on
the state of `FungibleToken`. **`TokenContracts`** is one of the five, chosen by the initial state.
The first four have no handler that makes tokens and start from accounts that hold the whole
supply. Their `ft_resolve_transfer` is not implemented: the receipt fails (`MissingResolver`).

**`NonFungibleToken`** is the token of `nep-interface` with enumeration and approvals enabled: the
two maps of owners, the approvals with their ids and deposits (`near`, one unit each), the
transfer calls with the approvals they carry to the callback. `nft_resolve_transferKept` and
`nft_resolve_transferReverted` are the two ends of the callback; its branch for a burnt token
cannot be reached, as nothing in the repository burns one. **`NftApprovalCheck`** and
**`NftOwnerCheck`** are the handlers of the two examples, **`NftContracts`** is one of the three.

**`Withdrawals`** is seven examples that check a balance, ask another contract to pay and let a
callback see the answer; the record in `calls` goes from `asked` to `failed` or `succeeded`,
and back to `NoCall` with the callback.

## Runs

| run | instance | shows |
| --- | --- | --- |
| `simple_find_users` | six values (a parameter, an instruction, a store, a call, the two parameters of its function) wired in every way of a family with cycles, two roots, three modes | `OnlyUsers`, `NothingMissing`, `OneActivation`, termination, refinement of `UserClosure` |
| `recursive_call_search` | all call graphs on three functions, one set of matches, all kinds of query | violation: the search is not recursive |
| `all_callers` | depth 2 | violation: callers within the depth are missed |
| `detectors` | for `storage-gas`, four functions and `storage_usage`; for the privilege checks, four contract functions in a fixed order and four library functions; for each scan, blocks of one or two instructions put together from what it looks for, what is close and what it skips, in up to three functions and two bitcodes, with control flow with choices and loops for `reentrancy`; for the call graph search, all call graphs on three functions, three sets of matches and all kinds of query | `StorageGasReports`, `PrivilegeReports`, `ScanReports`, `ReentrancyReports`, `AnswersOneCall` (yes exactly for a match at the target or one call below it), termination |
| `ext_calls` | the bitcodes of `ext-call`, all names of which match themselves as expressions | violation: cross-contract calls are missed |
| `skipped_callbacks` | the modules of the privilege checks | violation: the scan ends at the first callback |
| `audit` | two crates with a file of the same path, a file outside of `src/`, one of tests; two structs one of whose names ends with the other's, a struct with a method of its own and of two traits, free functions; every finding of every detector alone, and two findings of four detectors | `FindingsReported`, `NotesJustified` |
| `pipeline` | two runs, two bitcodes, two seconds; lists with one of each kind of rule, alone and behind another that shares a file with it; crashes and kills anywhere; for the substitutions all lists of at most two of twelve names | `ReportComplete`, `ReportOwn`, `NoLeftovers`, `DocumentedDetectorsMade`, `EveryRunEnds` |
| `fungible_token` | each of the five tokens: two accounts, two transfer calls, balances of at most 2, three tokens minted | `SupplyIsSum`, `DepositsHeld`, `EventsTellBalances`, `AccountsJoin`, refinement of `TokenLedger`, `EveryCallResolves` |
| `nft` | each of the three tokens: three accounts, one token, two transfer calls, two approval ids | `OwnersListed`, `ApprovalIdsUnique`, `EventsTellOwners`, `DepositsCoverApprovals`, `OwnerDecidesElsewhere` |
| `returned_token` | `nep-interface` with two accounts | violation: a returned token keeps approvals that were paid back |
| `withdrawals` | each of seven contracts: a deposit of 3, two withdrawals in flight, payments of at most 6 | `NeverOverpaid`, `NeverForfeited` |

Why the bounds are enough. The searches branch on membership in a set and on one
value's neighbours: three functions or six values already have self loops, two-cycles,
chains longer than the depth, and a value reached by two ways, the cases the guards
distinguish; the proofs cover every size. Two bitcodes are
needed for a crash to have something before and something after it. Two names are enough
for a list because a make reads only files that it or an earlier make wrote. Two runs suffice
for sharing: a directory is spoilt by one other run; which lists the second run is given
(`Companions`) is bounded to those that read or remove a file the first one uses. A scan keeps
at most the flags of a function, so that two instructions in a block, two blocks and two
functions show whether it forgets or keeps too much; `LoopsCounted` needs a chain of calls
longer than the depth of two, which two functions that call each other give. A note depends on
the findings of one detector: one finding shows where it goes, two show what a note does with
several, and the four detectors of `Paired` are one for each way of matching and of showing.

For the tokens, two calls in flight are what it takes for one to find what the other has
changed, and a call touches two accounts: two accounts with two tokens let a receiver have
less, as much and more than it was sent when the callback runs, be closed, or be full; minting 3
with a maximum of 2 lets a refund meet a full balance (`EveryCallResolves` needs the supply,
too, to be checked against the maximum). Three accounts are needed for a non-fungible token to be
passed on to somebody who is neither the sender nor the receiver of a call; tokens do not
interact except in the owners' sets, which the proofs cover for any number. A deposit of 3
splits into two withdrawals in all ways, with a rest; payments of 6 let both of two
overlapping withdrawals take everything. `near` of `NonFungibleToken` is not followed further once
a receiver's approvals were paid back and left (`leftover`): from there it falls without bound.

Deadlock is not checked: every modelled program ends, or runs out of a bound (`MaxApprovals`,
`MaxMinted`, `MaxPaid`, the calls in flight).

Fairness: the searches and scans are sequential code that runs to its end, hence weak
fairness of `Next`, for `Detectors` of the process that runs; a run of the driver goes on as
long as it is not killed and the tools it calls end, hence weak fairness of `Step(r)` for each
run, without `Kill`, `Start` and `Tick`. Termination of the scans assumes what the code needs:
that the walk of `reentrancy` starts in no loop of blocks (`Endless`), as it has no set of visited
blocks. A receipt is executed some time after it was made, hence weak fairness of
`Receipts(i)` for each call of a token and none of the handlers, which users call when they
like. `Audit` and `Withdrawals` state safety only.

## What the code does differently from what it says

Five runs expect a violation.

- `recursive_call_search`: near_core.cpp:192 looks for `node`, not for `callee.second`, on
  the call stack. `node` is always there, so the search never descends. `yocto-attach`,
  `transfer` and `storage-gas` therefore see one call deep.
- `all_callers`: near_core.cpp:242 skips a caller that is in the set although it was
  inserted at the last depth and its own callers were not searched. Whether a caller two
  calls away is found depends on the order of the use list.
- `skipped_callbacks`: yocto_attach.cpp:58 returns from the module where the comment at 57
  says that callbacks are skipped.
- `ext_calls`: ext_call_trait.cpp:54 returns after the first function that calls
  `Promise::function_call`, so that only what calls this function is found; docs/detectors/ext-call.md:10
  (and README.md:148) say that all cross-contract invocations are. `ExtCallsReported` states what is
  certain: whatever is reported is such an invocation, and none of the first function is missed.
- `returned_token`: core_impl.rs:508 of the non-fungible token restores the previous owner's
  approvals only if there were any. If there were none, those the receiver gave stay on the
  returned token, although line 505 has paid them back: who was approved by the receiver may
  move the owner's token, and revoking pays a second time. The comment at 501-503 says that they
  are reverted. `DepositsCoverApprovals` holds as long as this has not happened.

Other places that a reader of the code should know: a repeated name of a list is made again although
the message at rustle:212 calls it invalid; in the restricted mode of `simpleFindUsers` an argument
that enters the set after its call was visited is not followed (near_core.cpp:22); runs that share a
second share a directory (the properties of `Pipeline` speak of runs that do not); `round` and
`ext-call-trait` never remove their own file, so that after a crash a second attempt reads what the
first left (`NeverRemoved`, Makefile:75-117). README.md:93 says that `all` enables all detectors,
and the table gives `nep${id}-interface` the severity medium (README.md:94, 137), but rustle:179-181
puts no interface in either group: docs/detectors/nep-interface.md:12 wants the number. `Documented`
states the promise with the interfaces, and `LeftOut` is what `DocumentedDetectorsMade` has to
except from it. The group `nep-interface` and the parts of names that pass the test are in no
document (`Undocumented`). `unsaved_changes.cpp:96` leaves the block with a `break` where the
comment says to skip this `get` instruction; what is behind it in the block is not seen
(`UnsavedReported`).No line of `audit.py` reads what `tautology` and `unsafe-math-toml` find. A
finding in a closure, or by a pass in a free function of `lib.rs`, matches no row (`HasRow`), and
that of a script gets a note on every function of the same struct, trait and name, whatever the file
(`NotesJustified` lists each way a note can be on another row). The summary says that no upgrade
function was found also when `upgrade-func` did not run, and only the csv summary has the global
row.

In the contracts: a forced unregistration destroys tokens and emits no `FtBurn`
(storage_impl.rs:17), which is all that separates the events from the balances
(`EventsTellBalances`). `internal_transfer` of the non-fungible token passes on a sender only when
it is not the owner, and the event keeps it only when it is (core_impl.rs:241, 268): no event
names an authorised account. In `self-transfer` and `prepaid-gas` `insert(..).unwrap()` panics when the key
was missing, so that a receiver without account makes a transfer fail and nobody ever joins
(`AccountsJoin`). `callback_withdraw` of `reentrancy` and `inconsistency` does not read how much of an
`ft_transfer_call` was used: what the receiver returned is lost to the depositor
(`MayForfeit`). In `lock-callback` the assertion that protects an order id (lib.rs:85) also fails
after a partial redeem, when the order is still there, and the failed amount is lost; two failed
redeems that overlap restore the amount the later answer remembers.

## Proofs

Every safety property that a passing run checks is also proved, for every value of the
constants: the invariants, the action properties and both refinements.

**`SimpleFindUsers_proofs`**, for every set of values and every job: `TypeOK`, `OnlyUsers`,
`NothingMissing`, `OneActivation`, and that the search implements `UserClosure`. The argument is
one inductive invariant: the set is contained in every set closed under `MayFollow` that holds the
start; every value in the set has either been finished, its followers in the set, or has exactly
one frame, and what a frame has behind it (arguments before `i`, users not in `left`) has been
followed. `NothingMissing` is not inductive by itself because in the middle of the search most
followers are missing; the frames account for exactly those. The assumption is
`JobsAssumption`: operands of a store are two, a call names as many parameters as it has arguments.

**`Detectors_proofs`**, for any call graph, any modules, any bitcodes, functions of any size, any
loops and any control flow: `TypeOK`, `AnswersOneCall`, `StorageGasReports`, `PrivilegeReports`,
`ScanReports` and `ReentrancyReports`. The properties speak of the end of a process, or of all lines;
the invariant `DetectorsInv` says what has to be true in the middle of it, one invariant for each
process.

- `CallGraphInv`. While there is no answer the single activation is that of the target, it is on the
  call stack, and at the second loop no callee matched. That there is never a second activation
  (`NeverDescends`) follows. The passes take the answer from here (`LooksAtUsage`, `ChecksYocto`).
- `GasInv`. While the search of the callers runs, its set has only callers within two calls, there
  are at most two activations, and a direct caller is in the set or yet to be visited by the first
  (`SearchInv`). A line is justified when it is written, a function that expands the storage waits,
  has its line begun or has one line. That the set misses some callers (`all_callers`) does no harm
  to `WarningJustified`, which needs the direct callers only.
- `PrivilegeInv`. The file `callback` has written when it ends is exactly the callbacks
  (`CallbacksWritten`), which the pass of `yocto-attach` reads; what is before the cursor is reported
  by the rule of the pass (`YoctosReported`, `OwnersJudged`).
- `ScanInv`. `ScanShape` is the cursor: it is at an instruction of an existing block, or at the end
  of a function or of the bitcode, wherever a loop was left before. The others say of what is behind
  the cursor what the properties say at the end. For the scans that report and go on that is one
  invariant (`LinesBehind`); `ext-call` needs that its first pass has found the first function of
  each bitcode it has passed, whose rest it skips (`TraitsFound`); `upgrade-func` and `prepaid-gas`
  have flags that must be those of the part of the function that was seen (`UpgradesBehind`,
  `JudgementsBehind`); `unsaved-changes` leaves a block at a `get` that is not unwrapped, so that
  only the instructions up to it are behind (`UnsavedBehind`).
- `LoopsBehind`, with what `complex-loop` counts. `InstNum` is a recursion over the depth, the
  property counts the chains of calls that lead to an instruction. `NumsExist` exhibits the solution
  of the recursion, `LoopCounted` shows sum and number of chains equal, with `CountUnion` for the
  instructions of one block after the other.
- `ReentrancyInv`. The walk has no set of visited blocks, so the invariant remembers one: there is a
  set of blocks, with the success it began at, none of which changes the state and all of which lead
  to another of them or to where the walk is (`Walked`). Where no branch has a choice the walk
  therefore has been in every block reached when it ends without a line. `ReachedIs` proves that
  `Reached`, which iterates a step, is the least set closed under branches.

Assumed is `DetectorsAssumption`: a use list, a module and a bitcode are what LLVM makes of a
program. The functions are finitely many and each is once in its module, a body is a sequence of
blocks, a branch ends its block and leads to blocks of the same function.

**`Pipeline_proofs`**, for any number of runs, seconds and bitcodes and any lists: `TypeOK`,
`ReportComplete`, `ReportOwn`, `NoLeftovers` and `DocumentedDetectorsMade`. It has two parts.

- The lists. A substitution is a fold that replaces each group of a list by its members; one step of
  the fold adds one name or one expansion, so that the set of names after it is known. Four of
  them in the order of rustle:179-192 leave no group that a later one would have to expand, and what
  is left is what the documentation promises but for `LeftOut` (`DetectorsAsDocumented`, for every
  list of documented names).
- The runs. `NoLeftovers` is nearly inductive. `ReportOwn` and `ReportComplete` speak of the end of
  a run and rest on what its directory holds at every moment of it (`Kept`): files of its own only
  (`Own`), complete ones for all that was made and has not failed (`Finished`), for a target that is
  being made complete inputs that no script has demangled (`Ready`) and a file of its own that is
  sound for the bitcodes passed so far (`Progress`). Three parts are about the recipes' exceptions:
  files no recipe removes (`Sticky`), `ext-call`, which relies on others to remove its file
  (`Cleared`), the list of bitcodes every pass reads (`Listed`). `Readable` says that the driver
  demangles before `audit.py` reads. Two runs in one directory are `shared` (`Exclusive`), and of
  those nothing but `TypeOK` and `NoLeftovers` is claimed. A step changes one run and its directory
  (`Local`), so that the proof has one lemma for the other runs (`LocalKeeps`) and one for the values
  of each action (`Values`). Assumed is `PipelineAssumption`.

**`Audit_proofs`**, for any source, any suffix relation and any set of findings: `TypeOK`,
`FindingsReported` and `NotesJustified`. The invariant is over the cursor of the two loops: the
rows of the open file are those of the functions passed (`Opened`), a written file is one that was
passed to its end (`Closed`), a file of the source that is neither waits (`Awaited`), every finding
with a row whose function was passed has its note (`Passed`), and every note has its finding
(`Backed`). The step that matters adds a row; `MatchesItself` says that a finding with a row matches
the function it is in, `MatchesJustify` that whatever matches is one of the cases
`NotesJustified` lists. Assumed is `AuditAssumption`: a trait is one of a struct, a file defines no name
twice, and only the passes that look for a check find one. Names are compared, never read, so that
`EndsWith` may be any relation.

**`TokenContracts_proofs`**, for any finite set of accounts, any calls, maximum and minimum, and for
all five tokens: `TypeOK`, `SupplyIsSum`, `EventsTellBalances`, `DepositsHeld`, `AccountsJoin` and
that they implement `TokenLedger`. The inductive invariant is `Keyed` (an account without a key has
no balance), `Calls` (a call is between two different accounts), `Told` (the events, up to `closed`)
and `Held` (the minimum times the number of accounts). The refinement needs `Keyed`, since the
refund of a receiver who has left must move nothing, and the difference of sender and receiver. The
sum is proved on the ledger: each step of `TokenLedger` changes the supply as it changes the sum,
and by the refinement so does each step of the tokens; that the supply is never negative (`TypeOK`)
follows from it. The helpers have one lemma each that says what struct they leave; the handlers of
the five are reduced to the relation `Transferred`. Assumed is `TokenAssumption`: finitely many
accounts and natural bounds.

**`NonFungibleToken_proofs`**, for any accounts, tokens, calls and bounds, and for all three tokens:
`TypeOK`, `OwnersListed`, `ApprovalIdsUnique`, `EventsTellOwners`, `DepositsCoverApprovals`,
`OwnerDecidesElsewhere`, and for `nep-interface` alone `OwnerDecides`. The inductive invariant has
four parts: `Owners` (the maps are inverse and agree with the events), `ApprovalTypes`, `Ids` and
`Rest`. Uniqueness of ids is inductive only for the approvals that hold together with those that
wait in calls (`Holds`), since a callback brings them back. The same set pays the deposits: an
approval that is given has an id of its own and costs one unit, and what a refund pays back leaves
the set, unless a callback paid a receiver back whose approvals stay, which is `leftover`. Every way a
token moves is reduced to `Moved` or `Returned`. Assumed are `NFTAssumption` and
`ContractsAssumption`.

**`Withdrawals_proofs`**, for any deposit and any finite number of calls: `TypeOK`, `NeverOverpaid`
and `NeverForfeited`. Neither property is inductive: each contract lowers its balance at another
moment. The invariant keeps an account of the deposit for each kind: where the amount is taken off
first, what was paid, the balance and the payments asked for or failed are the deposit together,
less only after a loss that `MayForfeit` names (`Taken`); in `reentrancy` the balance is too high by
what has succeeded and has no callback yet (`Behind`); in `lock-callback` the order is away while it is
redeemed, and a call remembers what it was (`Away`). For the last two the upper bound holds only
together with "one withdrawal is in flight at most" (`Alone`). Assumed is `WithdrawalAssumption`.

**`SumTheorems`** is what the contracts need of sums over finite sets: that an element may be taken
out, that changing one summand changes the sum by the difference. The provers cannot instantiate the
library's induction theorems; these lemmas argue by a smallest counterexample, a least natural
number (`LeastNat`) or a smallest set, whose existence the well-foundedness of the order gives.
`CountUnion` counts disjoint sets one by one, as `complex-loop` counts blocks. The solutions of the
recursions `Rowed` in `Audit`, `Reached` and `InstNum` in `Scans` are shown to exist in the same
way.

What the proofs changed in the model. `Withdrawals`: the amount a call remembers (`original`) is
at most the deposit, not any number. `Audit`: the guards of `Qualifier` overlapped, and `CASE` chooses
any branch that is true; they now exclude each other. `Pipeline`:
`ReportComplete` is stated with `Found`, as a pass that is given no bitcode writes no file.
`DetectorNames`: `Expansion` is an operator by cases, not a function on strings. `Scans`: what a
bitcode is was said of the loops and of the order only; `IsBlock` now says what every proof about a
cursor or a walk rests on, that blocks are not empty and a branch ends its block; the sums of `InstNum` are
over functions, and so is the recursion. `StorageGas`: the functions are finitely many.

Only model-checked. Liveness under fairness (`Termination` of the searches and of the detectors,
`EveryRunEnds`, `EveryCallResolves`) is out of the prover's reach, as is `ENABLED`. What the five
expected violations show needs no proof.

## Not modelled

In `DetectorNames`: names with a group between hyphens, and parts of names other than `Fragments`.
In `Audit`: the callback mark of a row, the rows of global variables, the global row of the
summary, the columns of the severities, and files whose paths become the same report name when
`/` is replaced by `-`.
In the contracts: views and metadata, the macros that forward to the handlers, gas except where
`ft_transfer_call` tests it, the one yocto a call attaches, the text of events, and the key
prefixes of the storage. `nep-interface/src/upgrade/mod.rs` replaces the program that the model is
of; its comparison of the time lock (76-83) and the callback that is not private in
`non-private-callback` (lib.rs:56) are read but not modelled. The remaining examples have one or
two handlers that touch one field and no receipts between them: a model would restate an
assignment.
Beyond it: `findUsers`, `nep_interface.cpp`, `incorrect-json-type`, the recursive argument checks
and the case tables on LLVM types (see the plan); option parsing (generated by Argbash), logging,
debug constants that are false, the regular expressions themselves (a function's name is a
member of a set or not), cargo and its build directory, the compilation of the passes,
concurrent use of one report directory (`-o`) by two runs, the text of the report.

## Plan

Modelled first was what everything rests on (the searches, the driver), then what is built on
it (the scans, the notes), then the contracts the analyser is tried on. What is left, in order:

1. The recursive argument checks (`self_transfer.cpp:37`, `nft_approval_check.cpp:42`,
   `unregistered_receiver.cpp:44`): recursion into callees without a visited set, and
   `unclaimed_storage_fee`, whose depth is bounded. Their properties: verdicts, and
   termination on acyclic calls only.
2. `JsonTypes`: the list of types that grows while it is iterated.
3. `FindUsers` as a second implementation of a user closure; `NepInterface`.
