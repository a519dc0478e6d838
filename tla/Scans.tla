------------------------------- MODULE Scans --------------------------------
(***************************************************************************)
(* The detectors that walk over the instructions of every bitcode once and *)
(* judge each by what it calls and by what uses its result.  They share    *)
(* the loop over functions, blocks and instructions, skip the instructions *)
(* that are not at a location of the contract's own code, and differ in    *)
(* how they leave the loop: some never, some to the next block, function   *)
(* or module.  near_core.h:22 lets no function be skipped as a library's.  *)
(*                                                                         *)
(* An instruction is a record                                              *)
(*   loc    its debug location: the contract's, a library's or none        *)
(*   op     its opcode; "call" for a call of a known function, "indirect"  *)
(*          for any other                                                  *)
(*   calls  what the name of the function it calls matches                 *)
(*   facts  what holds of the users of its result, as the user search      *)
(*          finds them, and of its operands                                *)
(*   to     the blocks a branch leads to, as far as their names begin with *)
(*          "bb"; for a promise_result, where a switch on it leads with    *)
(*          PromiseResult::Successful                                      *)
(* and a bitcode                                                           *)
(*   order  its functions in order                                         *)
(*   body   their blocks; a declaration has none                           *)
(*   loops  the loops of each: their blocks and where they start           *)
(*   ftcall the functions that implement ft_transfer_call                  *)
(*   lib    those whose name is a library's                                *)
(*   llvm   those whose name contains "llvm"                               *)
(*   noargs those without arguments                                        *)
(***************************************************************************)
EXTENDS Naturals, Sequences, FiniteSetsExt

CONSTANTS Func,                    \* the functions of the contract
          Special,                 \* those whose name, as an expression, does not match itself
          MIN_INST_NUM_FOR_LOOP,   \* near_core.h:20
          Jobs                     \* the detectors and the bitcodes that are considered

Sdk == {"block_timestamp", "promise_transfer", "ft_transfer", "round", "promise_result",
        "prepaid_gas", "deploy_contract", "batch_function_call", "function_call", "get"}

Fact == {"named", "mul", "promise", "returned", "handled", "indirect_user", "arg0", "compared",
         "option", "unwrapped", "stored", "inserted", "self"}

Opcode == {"call", "indirect", "add", "sub", "mul", "fadd", "fsub", "fmul", "udiv", "sdiv",
           "fdiv", "store", "br", "load"}

Inst == [loc : {"own", "lib", "none"}, op : Opcode, calls : SUBSET (Sdk \cup Func),
         facts : SUBSET Fact, to : Seq(Nat)]

(* The detectors that never leave the loop.                                *)
LineDetectors ==
  {"timestamp", "transfer", "round", "promise-result", "all-call", "unsafe-math",
   "div-before-mul", "unhandled-promise", "ext-call"}

(* Those a user asks for: `ext-call' follows `ext-call-trait'.             *)
Detectors ==
  (LineDetectors \ {"ext-call"}) \cup
  {"ext-call-trait", "upgrade-func", "prepaid-gas", "unsaved-changes", "reentrancy", "complex-loop"}

(* A block ends with its one branch; blocks are known by their index.      *)
IsBlock(body, b) ==
  /\ body[b] # <<>>
  /\ \A k \in 1..Len(body[b]) :
       /\ body[b][k].op = "br" => k = Len(body[b])
       /\ \A n \in 1..Len(body[b][k].to) : body[b][k].to[n] \in 1..Len(body)

IsBitcode(m) ==
  /\ m.order \in Seq(Func)
  /\ \A f \in Func : Cardinality({k \in 1..Len(m.order) : m.order[k] = f}) = 1
  /\ m.body \in [Func -> Seq(Seq(Inst))]
  /\ \A f \in Func : \A b \in 1..Len(m.body[f]) : IsBlock(m.body[f], b)
  /\ DOMAIN m.loops = Func
  /\ \A f \in Func : \A l \in m.loops[f] : l.blocks \subseteq 1..Len(m.body[f]) /\ l.loc \in {"own", "lib", "none"}
  /\ m.ftcall \cup m.lib \cup m.llvm \cup m.noargs \subseteq Func

JobsAssumption ==
  /\ IsFiniteSet(Func) /\ Special \subseteq Func /\ MIN_INST_NUM_FOR_LOOP \in Nat
  /\ \A j \in Jobs : /\ j.detector \in Detectors
                     /\ j.bitcodes # <<>>
                     /\ j.bitcodes \in Seq({j.bitcodes[n] : n \in DOMAIN j.bitcodes})
                     /\ \A n \in 1..Len(j.bitcodes) : IsBitcode(j.bitcodes[n])

-----------------------------------------------------------------------------
(* What the detectors look for.                                            *)

Places(m, f) == UNION {{<<b, k>> : k \in 1..Len(m.body[f][b])} : b \in 1..Len(m.body[f])}
At(m, f, p)  == m.body[f][p[1]][p[2]]

(* isInstCallFuncRec: the function called, or one that it calls.           *)
Reaches(m, i, names) ==
  \/ i.calls \cap names # {}
  \/ \E f \in (i.calls \cap Func) \ m.llvm : \E p \in Places(m, f) : At(m, f, p).calls \cap names # {}

(* What each line detector looks for; `ext-call' has read the traits ts.    *)
UsesTimestamp(i)     == "block_timestamp" \in i.calls
Transfers(m, i)      == Reaches(m, i, {"promise_transfer"}) \/ Reaches(m, i, {"ft_transfer"})
Rounds(i)            == "round" \in i.calls
UsesPromiseResult(i) == "promise_result" \in i.calls
CallsFunction(i)     == i.op = "call"
IsUnsafeMath(i)      == i.op \in {"add", "sub", "mul"} /\ "named" \in i.facts
DividesFirst(i)      == i.op \in {"udiv", "sdiv", "fdiv"} /\ "mul" \in i.facts
IsUnhandled(i)       == /\ i.op = "call" /\ "promise" \in i.facts
                        /\ i.facts \cap {"returned", "arg0", "handled"} = {}
CallsTrait(i, ts)    == i.calls \cap (ts \ Special) # {}

Match(d, m, i, ts) ==
  \/ d = "timestamp"         /\ UsesTimestamp(i)
  \/ d = "transfer"          /\ Transfers(m, i)
  \/ d = "round"             /\ Rounds(i)
  \/ d = "promise-result"    /\ UsesPromiseResult(i)
  \/ d = "all-call"          /\ CallsFunction(i)
  \/ d = "unsafe-math"       /\ IsUnsafeMath(i)
  \/ d = "div-before-mul"    /\ DividesFirst(i)
  \/ d = "unhandled-promise" /\ IsUnhandled(i)
  \/ d = "ext-call"          /\ CallsTrait(i, ts)

(* unhandled_promise.cpp:79 asks a user that is a call for the name of its *)
(* function; an indirect call has none.                                    *)
NamelessUser(d, i) ==
  /\ d = "unhandled-promise" /\ i.op = "call"
  /\ {"promise", "indirect_user"} \subseteq i.facts /\ "arg0" \notin i.facts

(* The default depth of functionInstNum.                                   *)
Recursions == 2

Sum(f) == MapThenSumSet(LAMBDA a : f[a], DOMAIN f)

(* functionInstNum: a call counts as what the function called holds.       *)
InstNum(m, f) ==
  LET num[d \in 0..Recursions] ==
        [g \in Func |->
          IF d = 0 \/ g \in m.lib THEN 0
          ELSE Sum([p \in Places(m, g) |->
                 LET i == At(m, g, p)
                 IN  IF i.op \notin {"call", "indirect"} THEN 1
                     ELSE Sum([h \in i.calls \cap Func |-> num[d - 1][h]])])]
  IN  num[Recursions][f]

LoopSize(m, f, l) ==
  Sum([p \in {q \in Places(m, f) : q[1] \in l.blocks} |->
    LET i == At(m, f, p)
    IN  IF i.op \notin {"call", "indirect"} THEN 1
        ELSE Sum([h \in i.calls \cap Func |-> InstNum(m, h)])])

ComplexLoops(m, f) ==
  {l \in m.loops[f] : f \notin m.lib /\ l.loc = "own" /\ LoopSize(m, f, l) > MIN_INST_NUM_FOR_LOOP}

(* A store to state that the function does not return.                     *)
ChangesState(i) == i.op = "store" /\ "self" \in i.facts /\ "returned" \notin i.facts

-----------------------------------------------------------------------------
VARIABLES job,        \* the detector the user asked for, and the bitcodes
          detector,   \* the pass that runs
          bitcode,    \* the bitcode it is on
          pos,        \* the instruction: function, block, instruction
          found,      \* the two flags of upgrade-func
          walk,       \* currentBlock of reentrancy
          traits,     \* the lines of .ext-call-trait.tmp
          out,        \* the lines of the pass's own file
          at          \* "scan", "walk", "crashed" or "done"

vars == <<job, detector, bitcode, pos, found, walk, traits, out, at>>

Start       == [fn |-> 1, block |-> 1, inst |-> 1]
Bitcode     == job.bitcodes[bitcode]
Here        == Bitcode.order[pos.fn]
Body        == Bitcode.body[Here]
I           == Body[pos.block][pos.inst]
Line        == [of |-> bitcode, fn |-> Here, place |-> <<pos.block, pos.inst>>]
Verdict(c)  == [of |-> bitcode, fn |-> Here, check |-> c]

InModule    == at = "scan" /\ pos.fn <= Len(Bitcode.order)
AtInst      == InModule /\ pos.block <= Len(Body)
AtFunctionEnd == InModule /\ pos.block > Len(Body)
AtOwn(d)    == AtInst /\ detector = d /\ I.loc = "own"


NextBlock == [pos EXCEPT !.block = @ + 1, !.inst = 1]

NextInst     == IF pos.inst < Len(Body[pos.block]) THEN [pos EXCEPT !.inst = @ + 1] ELSE NextBlock
NextFunction == [Start EXCEPT !.fn = pos.fn + 1]
ModuleEnd    == [Start EXCEPT !.fn = Len(Bitcode.order) + 1]

Init ==
  /\ job \in Jobs
  /\ detector = job.detector
  /\ bitcode = 1 /\ pos = Start
  /\ found = {} /\ walk = 0 /\ traits = {} /\ out = {}
  /\ at = "scan"

Fixed == <<job, detector, bitcode>>

(* Detectors that do not come to every instruction of a function.          *)
LeavesFunction ==
  \/ detector = "complex-loop"
  \/ detector = "prepaid-gas" /\ Here \notin Bitcode.ftcall

SkipInst ==
  /\ AtInst /\ ~LeavesFunction /\ I.loc # "own"
  /\ pos' = NextInst
  /\ UNCHANGED <<Fixed, found, walk, traits, out, at>>

(* Seeded fault: the block is left after a line.                           *)
ScanLineBreaks ==
  /\ \E d \in LineDetectors : AtOwn(d)
  /\ NamelessUser(detector, I) => "handled" \in I.facts
  /\ out' = out \cup {l \in {Line} : Match(detector, Bitcode, I, traits)}
  /\ pos' = IF Match(detector, Bitcode, I, traits) THEN NextBlock ELSE NextInst
  /\ UNCHANGED <<Fixed, found, walk, traits, at>>

ScanLine ==
  /\ \E d \in LineDetectors : AtOwn(d)
  /\ NamelessUser(detector, I) => "handled" \in I.facts
  /\ out' = out \cup {l \in {Line} : Match(detector, Bitcode, I, traits)}
  /\ pos' = NextInst
  /\ UNCHANGED <<Fixed, found, walk, traits, at>>

(* The nameless user comes before one that handles the promise, if any.    *)
(* What opt has not written of its lines is lost.                          *)
CrashOnUser ==
  /\ AtOwn("unhandled-promise")
  /\ NamelessUser(detector, I)
  /\ at' = "crashed"
  /\ UNCHANGED <<Fixed, pos, found, walk, traits, out>>

(* ext-call-trait: one trait is enough for the module.                     *)
ScanTrait ==
  /\ AtOwn("ext-call-trait")
  /\ LET hit == "function_call" \in I.calls
     IN  /\ traits' = IF hit THEN traits \cup {Here} ELSE traits
         /\ pos' = IF hit THEN ModuleEnd ELSE NextInst
  /\ UNCHANGED <<Fixed, found, walk, out, at>>

ScanUpgrade ==
  /\ AtOwn("upgrade-func")
  /\ found' = found \cup (I.calls \cap {"deploy_contract", "batch_function_call"})
  /\ pos' = NextInst
  /\ UNCHANGED <<Fixed, walk, traits, out, at>>

EndUpgrade ==
  /\ AtFunctionEnd /\ detector = "upgrade-func"
  /\ out' = out \cup {v \in {Verdict(TRUE)} : Cardinality(found) = 2}
  /\ found' = {}
  /\ pos' = NextFunction
  /\ UNCHANGED <<Fixed, walk, traits, at>>

(* complex_loop.cpp:70 asks a loop without a start for its file.            *)
NamelessLoop == detector = "complex-loop" /\ Here \notin Bitcode.lib /\ \E l \in Bitcode.loops[Here] : l.loc = "none"

CrashOnLoop ==
  /\ AtInst /\ NamelessLoop
  /\ at' = "crashed"
  /\ UNCHANGED <<Fixed, pos, found, walk, traits, out>>

LeaveFunction ==
  /\ AtInst /\ LeavesFunction /\ ~NamelessLoop
  /\ out' = IF detector = "complex-loop"
            THEN out \cup {[of |-> bitcode, fn |-> Here, place |-> l.blocks] : l \in ComplexLoops(Bitcode, Here)}
            ELSE out
  /\ pos' = NextFunction
  /\ UNCHANGED <<Fixed, found, walk, traits, at>>

(* prepaid-gas: the first look at the gas that is compared decides.        *)
ScanPrepaidGas ==
  /\ AtOwn("prepaid-gas") /\ ~LeavesFunction
  /\ LET checked == "prepaid_gas" \in I.calls /\ "compared" \in I.facts
     IN  /\ out' = IF checked THEN out \cup {Verdict(TRUE)} ELSE out
         /\ pos' = IF checked THEN NextFunction ELSE NextInst
  /\ UNCHANGED <<Fixed, found, walk, traits, at>>

EndPrepaidGas ==
  /\ AtFunctionEnd /\ detector = "prepaid-gas"
  /\ out' = out \cup {v \in {Verdict(FALSE)} : Here \in Bitcode.ftcall /\ Body # <<>>}
  /\ pos' = NextFunction
  /\ UNCHANGED <<Fixed, found, walk, traits, at>>

EndFunction ==
  /\ AtFunctionEnd /\ detector \notin {"upgrade-func", "prepaid-gas"}
  /\ pos' = NextFunction
  /\ UNCHANGED <<Fixed, found, walk, traits, out, at>>

-----------------------------------------------------------------------------
(* unsaved-changes: a `get' whose Option is where one is looked for.       *)
IsGet(i) == "get" \in i.calls /\ "option" \in i.facts

Unsaved(i) == {"unwrapped", "stored"} \subseteq i.facts /\ "inserted" \notin i.facts

(* A `get' that is not unwrapped ends the loop over its block.             *)
ScanGet ==
  /\ AtOwn("unsaved-changes")
  /\ out' = out \cup {l \in {Line} : IsGet(I) /\ Unsaved(I)}
  /\ pos' = IF IsGet(I) /\ "unwrapped" \notin I.facts THEN NextBlock ELSE NextInst
  /\ UNCHANGED <<Fixed, found, walk, traits, at>>

(* reentrancy: the first result with a block for success is followed.      *)
IsFollowed(i) == "promise_result" \in i.calls /\ i.to # <<>>

ScanResult ==
  /\ AtOwn("reentrancy") /\ ~IsFollowed(I)
  /\ pos' = NextInst
  /\ UNCHANGED <<Fixed, found, walk, traits, out, at>>

(* The users of the result, and so the switches, are in no known order.    *)
BeginWalk ==
  /\ AtOwn("reentrancy") /\ IsFollowed(I)
  /\ \E n \in 1..Len(I.to) : walk' = I.to[n]
  /\ at' = "walk"
  /\ UNCHANGED <<Fixed, pos, found, traits, out>>

(* The stores of a block at which the walk ends: the warning needs a       *)
(* location, and every store asks for the first argument of the function.  *)
Ends(b) == {k \in 1..Len(Body[b]) : LET i == Body[b][k] IN
              i.op = "store" /\ (ChangesState(i) \/ Here \in Bitcode.noargs)}
Dies(b, k) == Here \in Bitcode.noargs \/ Body[b][k].loc = "none"

(* The last successor of the last branch.                                  *)
Successor(body, b) ==
  LET branches == {k \in 1..Len(body[b]) : body[b][k].op = "br" /\ body[b][k].to # <<>>}
  IN  IF branches = {} THEN 0
      ELSE LET br == body[b][Max(branches)] IN br.to[Len(br.to)]

(* Seeded fault: the function is not left at a change of state.            *)
WalkPast ==
  /\ at = "walk" /\ Ends(walk) = {}
  /\ walk' = 0 /\ at' = "scan" /\ pos' = NextInst
  /\ UNCHANGED <<Fixed, found, traits, out>>

(* Seeded fault: the walk does not go on at the successor.                 *)
WalkInPlace ==
  /\ at = "walk" /\ Ends(walk) = {}
  /\ IF Successor(Body, walk) # 0
     THEN UNCHANGED <<walk, at, pos>>
     ELSE walk' = 0 /\ at' = "scan" /\ pos' = NextFunction
  /\ UNCHANGED <<Fixed, found, traits, out>>

WalkOn ==
  /\ at = "walk" /\ Ends(walk) = {}
  /\ walk' = Successor(Body, walk)
  /\ IF walk' # 0 THEN UNCHANGED <<at, pos>> ELSE at' = "scan" /\ pos' = NextFunction
  /\ UNCHANGED <<Fixed, found, traits, out>>

WalkReports ==
  /\ at = "walk" /\ Ends(walk) # {}
  /\ LET i == Min(Ends(walk))
     IN  /\ ~Dies(walk, i)
         /\ out' = out \cup {[of |-> bitcode, fn |-> Here, place |-> <<walk, i>>]}
  /\ walk' = 0 /\ at' = "scan" /\ pos' = NextFunction
  /\ UNCHANGED <<Fixed, found, traits>>

WalkCrashes ==
  /\ at = "walk" /\ Ends(walk) # {} /\ Dies(walk, Min(Ends(walk)))
  /\ at' = "crashed"
  /\ UNCHANGED <<Fixed, pos, found, walk, traits, out>>

-----------------------------------------------------------------------------
NextBitcode ==
  /\ at = "scan" /\ pos.fn > Len(Bitcode.order) /\ bitcode < Len(job.bitcodes)
  /\ bitcode' = bitcode + 1 /\ pos' = Start
  /\ UNCHANGED <<job, detector, found, walk, traits, out, at>>

LastBitcode == at = "scan" /\ pos.fn > Len(Bitcode.order) /\ bitcode = Len(job.bitcodes)

(* Makefile:80: ext-call is made after ext-call-trait.                     *)
BeginExtCall ==
  /\ LastBitcode /\ detector = "ext-call-trait"
  /\ detector' = "ext-call" /\ bitcode' = 1 /\ pos' = Start
  /\ UNCHANGED <<job, found, walk, traits, out, at>>

Finish ==
  /\ LastBitcode /\ detector # "ext-call-trait"
  /\ at' = "done"
  /\ UNCHANGED <<Fixed, pos, found, walk, traits, out>>

Next ==
  \/ SkipInst \/ ScanLine \/ CrashOnUser \/ ScanTrait \/ ScanUpgrade \/ EndUpgrade
  \/ CrashOnLoop \/ LeaveFunction \/ ScanPrepaidGas \/ EndPrepaidGas \/ EndFunction
  \/ ScanGet \/ ScanResult \/ BeginWalk \/ WalkOn \/ WalkReports \/ WalkCrashes
  \/ NextBitcode \/ BeginExtCall \/ Finish

(* opt is not interrupted.                                                 *)
Spec == Init /\ [][Next]_vars /\ WF_vars(Next)
-----------------------------------------------------------------------------
Done == at = "done"

(* The state is well formed: the cursor is in its bitcode, and only        *)
(* reentrancy leaves it for a walk over blocks (reentrancy.cpp:77).        *)
TypeOK ==
  /\ detector \in Detectors \cup {"ext-call"}
  /\ bitcode \in 1..Len(job.bitcodes)
  /\ pos.fn \in 1..Len(Bitcode.order) + 1
  /\ pos.fn > Len(Bitcode.order) => pos = ModuleEnd
  /\ pos.fn <= Len(Bitcode.order) => pos.block \in 1..Len(Body) + 1
  /\ AtInst => pos.inst \in 1..Len(Body[pos.block])
  /\ found \subseteq {"deploy_contract", "batch_function_call"}
  /\ found # {} => detector = "upgrade-func" /\ pos # Start
  /\ at \in {"scan", "walk", "crashed", "done"}
  /\ (walk # 0) <=> (at = "walk" \/ (at = "crashed" /\ detector = "reentrancy"))
  /\ traits \subseteq Func
  /\ \A l \in out : l.of \in 1..bitcode /\ l.fn \in Func

(* The instructions of the contract's own code, and the lines on them.     *)
OwnPlaces(m, f) == {p \in Places(m, f) : At(m, f, p).loc = "own"}
Lines(P(_, _, _)) ==
  UNION {UNION {{[of |-> n, fn |-> f, place |-> p] :
                   p \in {q \in OwnPlaces(job.bitcodes[n], f) : P(job.bitcodes[n], f, q)}} :
                f \in Func} : n \in 1..Len(job.bitcodes)}

(* A line detector reports exactly the instructions it looks for, wherever *)
(* they are, in every bitcode (timestamp.cpp:40-60 and its like).          *)
MatchesReported ==
  Done /\ detector \in LineDetectors \ {"ext-call"} =>
    out = Lines(LAMBDA m, f, p : Match(detector, m, At(m, f, p), {}))

(* Does f call Promise::function_call in the contract's own code?  It is   *)
(* then what #[ext_contract] makes of a trait's function.                  *)
IsTrait(m, f) == \E p \in OwnPlaces(m, f) : "function_call" \in At(m, f, p).calls
TraitsOf(m)   == {k \in 1..Len(m.order) : IsTrait(m, m.order[k])}

AllTraits   == UNION {{job.bitcodes[n].order[k] : k \in TraitsOf(job.bitcodes[n])} : n \in 1..Len(job.bitcodes)}
FirstTraits == {job.bitcodes[n].order[Min(TraitsOf(job.bitcodes[n]))] :
                  n \in {k \in 1..Len(job.bitcodes) : TraitsOf(job.bitcodes[k]) # {}}}

CallsOf(ts) == Lines(LAMBDA m, f, p : At(m, f, p).calls \cap ts # {})

(* What ext-call reports are cross-contract invocations, and it misses     *)
(* none of the trait that comes first in its bitcode, whichever bitcode    *)
(* invokes it.  No more than that is true of the code                      *)
(* (ext_call_trait.cpp:54-57, ext_call.cpp:64-68): the invocations that    *)
(* docs/detectors/ext-call.md:10 promises are those of AllInvocations.     *)
ExtCallsReported ==
  Done /\ detector = "ext-call" => CallsOf(FirstTraits \ Special) \subseteq out /\ out \subseteq CallsOf(AllTraits)

(* "Find all cross-contract invocations" (docs/detectors/ext-call.md:10,   *)
(* README.md:148): ext-call reports every own call of a function of a      *)
(* trait, the names that are no expression for themselves left aside       *)
(* (ext_call_trait.cpp:54-57, ext_call.cpp:64-68).                         *)
AllInvocations ==
  Done /\ detector = "ext-call" => CallsOf(AllTraits \ Special) \subseteq out

(* The verdicts are of one function each: both promise actions in the same *)
(* function make an upgrade (upgrade_func.cpp:62), and a function that     *)
(* implements ft_transfer_call has exactly one verdict                     *)
(* (prepaid_gas.cpp:46-77).                                                *)
VerdictsOfOneFunction ==
  Done =>
    LET has(n, f, Q(_)) == \E p \in OwnPlaces(job.bitcodes[n], f) : Q(At(job.bitcodes[n], f, p))
        deploys(i)  == "deploy_contract" \in i.calls
        migrates(i) == "batch_function_call" \in i.calls
        checks(i)   == "prepaid_gas" \in i.calls /\ "compared" \in i.facts
    IN  \A n \in 1..Len(job.bitcodes), f \in Func :
          /\ detector = "upgrade-func" =>
               (\E l \in out : l.of = n /\ l.fn = f) = (has(n, f, deploys) /\ has(n, f, migrates))
          /\ detector = "prepaid-gas" =>
               {l.check : l \in {k \in out : k.of = n /\ k.fn = f}} =
                 IF f \in job.bitcodes[n].ftcall /\ job.bitcodes[n].body[f] # <<>>
                 THEN {has(n, f, checks)} ELSE {}

(* A loop is complex by the instructions of at most two calls below its    *)
(* own, counted once for every chain of calls that leads to them, however  *)
(* the functions call each other (complex_loop.cpp:43-98).                 *)
LoopsCounted ==
  Done /\ detector = "complex-loop" =>
    LET plain(m, f, p)   == At(m, f, p).op \notin {"call", "indirect"}
        called(m, f, p)  == IF plain(m, f, p) THEN {} ELSE (At(m, f, p).calls \cap Func) \ m.lib
        sites(m, c)      == UNION {{<<f, q>> : q \in Places(m, f)} : f \in called(m, c[1], c[2])}
        below(m, chains) == UNION {{Append(c, s) : s \in sites(m, c[Len(c)])} : c \in chains}
        loop(m, f, l)    == {<<<<f, p>>>> : p \in {q \in Places(m, f) : q[1] \in l.blocks}}
        within(m, f, l)  == LET one == below(m, loop(m, f, l)) IN loop(m, f, l) \cup one \cup below(m, one)
        count(m, f, l)   == Cardinality({c \in within(m, f, l) : plain(m, c[Len(c)][1], c[Len(c)][2])})
    IN  out = UNION {UNION {{[of |-> n, fn |-> f, place |-> l.blocks] :
                               l \in {k \in job.bitcodes[n].loops[f] :
                                        /\ f \notin job.bitcodes[n].lib /\ k.loc = "own"
                                        /\ count(job.bitcodes[n], f, k) > MIN_INST_NUM_FOR_LOOP}} :
                            f \in Func} : n \in 1..Len(job.bitcodes)}

(* unsaved-changes reports the `get's whose value is changed and not       *)
(* inserted, and misses none but behind a `get' of the same block that is  *)
(* not unwrapped (unsaved_changes.cpp:67-126).                             *)
UnsavedReported ==
  Done /\ detector = "unsaved-changes" =>
    LET lost(i) == IsGet(i) /\ Unsaved(i)
        all  == Lines(LAMBDA m, f, p : lost(At(m, f, p)))
        seen == Lines(LAMBDA m, f, p : lost(At(m, f, p)) /\ \A q \in OwnPlaces(m, f) :
                        q[1] = p[1] /\ q[2] < p[2] /\ IsGet(At(m, f, q)) =>
                          "unwrapped" \in At(m, f, q).facts)
    IN  seen \subseteq out /\ out \subseteq all

(* The blocks that are reached from a block by branches, itself included.  *)
Reached(body, b) ==
  LET step(S) == S \cup {c \in 1..Len(body) : \E d \in S : \E k \in 1..Len(body[d]) :
                           body[d][k].op = "br" /\ c \in {body[d][k].to[n] : n \in 1..Len(body[d][k].to)}}
      within[n \in Nat] == IF n = 0 THEN {b} ELSE step(within[n - 1])
  IN  within[Len(body)]

Results(m, f) == {p \in OwnPlaces(m, f) : IsFollowed(At(m, f, p))}
Successes(m, f) == UNION {{At(m, f, p).to[n] : n \in 1..Len(At(m, f, p).to)} : p \in Results(m, f)}

(* A line of reentrancy is on a change of state that is reached after      *)
(* PromiseResult::Successful, and a function has at most one               *)
(* (reentrancy.cpp:77-130).                                                *)
ReentrancyJustified ==
  detector = "reentrancy" =>
    \A l \in out :
      LET m == job.bitcodes[l.of]
      IN  /\ ChangesState(At(m, l.fn, l.place))
          /\ \E b \in Successes(m, l.fn) : l.place[1] \in Reached(m.body[l.fn], b)
          /\ \A k \in out : k.of = l.of /\ k.fn = l.fn => k = l

(* A function with one success, from which no branch has a choice, is      *)
(* reported when a change of state is reached from there.                  *)
StraightReentrancyReported ==
  Done /\ detector = "reentrancy" =>
    \A n \in 1..Len(job.bitcodes), f \in Func :
      LET m == job.bitcodes[n]
          body == m.body[f]
          straight(b) == \A c \in Reached(body, b) : \A k \in 1..Len(body[c]) : Len(body[c][k].to) < 2
      IN  \A b \in Successes(m, f) :
            /\ Successes(m, f) = {b} /\ straight(b)
            /\ \E p \in Places(m, f) : p[1] \in Reached(body, b) /\ ChangesState(At(m, f, p))
            => \E l \in out : l.of = n /\ l.fn = f

(* Following the last successors from b comes back to a block, and no      *)
(* store ends it.                                                          *)
Endless(m, f, b) ==
  LET next(c) == IF c = 0 THEN 0 ELSE Successor(m.body[f], c)
      go[n \in Nat] == IF n = 0 THEN b ELSE next(go[n - 1])
      stops(c) == \E k \in 1..Len(m.body[f][c]) : ChangesState(m.body[f][c][k])
  IN  \A n \in 0..Len(m.body[f]) : go[n] # 0 /\ ~stops(go[n])

(* The pass comes to an end when no block for success begins a walk that   *)
(* is endless: the walk keeps no set of visited blocks.                    *)
Termination ==
  (\A n \in 1..Len(job.bitcodes), f \in Func : \A b \in Successes(job.bitcodes[n], f) :
     ~Endless(job.bitcodes[n], f, b)) => <>(at \in {"done", "crashed"})
=============================================================================
