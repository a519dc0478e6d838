----------------------------- MODULE ScanCases ------------------------------
(***************************************************************************)
(* For every kind of detector, bitcodes of up to three functions whose     *)
(* blocks are put together from what the detector looks for, what is close *)
(* to it, and what it must skip.                                           *)
(***************************************************************************)
EXTENDS Naturals, Sequences

CONSTANTS f, g, h

MCFunc == {f, g, h}

Make(loc, op, calls, facts, to) ==
  [loc |-> loc, op |-> op, calls |-> calls, facts |-> facts, to |-> to]

Own(op, calls, facts) == Make("own", op, calls, facts, <<>>)
Branch(to) == Make("none", "br", {}, {}, to)

(* Blocks of one instruction or two.                                       *)
Blocks(insts) == {<<i>> : i \in insts} \cup {<<i, j>> : i, j \in insts}

NoLoops == [x \in MCFunc |-> {}]
Bodies(bf, bg, bh) == [x \in MCFunc |-> IF x = f THEN bf ELSE IF x = g THEN bg ELSE bh]

Code(order, body, loops) ==
  [order |-> order, body |-> body, loops |-> loops, ftcall |-> {f, g}, lib |-> {h},
   llvm |-> {}, noargs |-> {h}]

One(d, body) == [detector |-> d, bitcodes |-> <<Code(<<f, g, h>>, body, NoLoops)>>]

(* What a line detector looks for, and what it does not.                   *)
Looked ==
  [timestamp           |-> {Own("call", {"block_timestamp"}, {}), Own("call", {"round"}, {})},
   transfer            |-> {Own("call", {"ft_transfer"}, {}), Own("call", {g}, {}), Own("call", {h}, {})},
   round               |-> {Own("call", {"round"}, {}), Own("call", {"get"}, {})},
   all_call            |-> {Own("call", {}, {}), Own("indirect", {}, {})},
   unsafe_math         |-> {Own("add", {}, {"named"}), Own("fadd", {}, {"named"}), Own("sub", {}, {})},
   div_before_mul      |-> {Own("udiv", {}, {"mul"}), Own("udiv", {}, {}), Own("add", {}, {"mul"})},
   unhandled_promise   |-> {Own("call", {}, {"promise"}), Own("call", {}, {"promise", "indirect_user", "handled"}),
                            Own("call", {}, {"promise", "arg0", "indirect_user"})}]

Name == [timestamp |-> "timestamp", transfer |-> "transfer", round |-> "round", all_call |-> "all-call",
         unsafe_math |-> "unsafe-math", div_before_mul |-> "div-before-mul",
         unhandled_promise |-> "unhandled-promise"]

Lib(i) == [i EXCEPT !.loc = "lib"]
Nowhere(i) == [i EXCEPT !.loc = "none"]

LineJobs ==
  UNION {{One(Name[d], Bodies(<<b, c>>, <<<<Own("call", {"promise_transfer"}, {})>>>>, <<>>)) :
            b \in Blocks(Looked[d] \cup {Lib(i) : i \in Looked[d]}),
            c \in {<<i>> : i \in Looked[d] \cup {Nowhere(i) : i \in Looked[d]}}} : d \in DOMAIN Looked}

Result(to) == Make("own", "call", {"promise_result"}, {}, to)

ResultJobs == {One("promise-result", Bodies(<<b>>, <<>>, <<>>)) : b \in Blocks({Result(<<>>), Result(<<1>>), Own("load", {}, {})})}

(* Two bitcodes, whose functions call the SDK and each other.              *)
Invokes == {Own("call", {"function_call"}, {}), Own("call", {g}, {}), Own("call", {h}, {})}

ExtJobs ==
  {[detector |-> "ext-call-trait",
    bitcodes |-> <<Code(o, Bodies(<<b>>, <<c>>, <<e>>), NoLoops), Code(<<f, g, h>>, Bodies(<<c>>, <<>>, <<e>>), NoLoops)>>] :
     o \in {<<f, g, h>>, <<h, g, f>>}, b \in Blocks(Invokes), c \in {<<i>> : i \in Invokes \cup {Lib(Own("call", {h}, {}))}},
     e \in {<<Own("call", {"function_call"}, {})>>, <<Lib(Own("call", {"function_call"}, {}))>>}}

Upgrades == {Own("call", {"deploy_contract"}, {}), Own("call", {"batch_function_call"}, {}),
             Lib(Own("call", {"batch_function_call"}, {})), Own("load", {}, {})}
UpgradeJobs == {One("upgrade-func", Bodies(<<b, c>>, <<c>>, <<>>)) : b, c \in Blocks(Upgrades)}

Gas == {Own("call", {"prepaid_gas"}, {"compared"}), Own("call", {"prepaid_gas"}, {}),
        Lib(Own("call", {"prepaid_gas"}, {"compared"}))}
GasJobs == {One("prepaid-gas", Bodies(<<b, c>>, e, <<c>>)) : b, c \in Blocks(Gas), e \in {<<>>, <<<<Branch(<<>>)>>>>}}

Get(facts) == Own("call", {"get"}, {"option"} \cup facts)
Gets == {Get({}), Get({"unwrapped"}), Get({"unwrapped", "stored"}), Get({"unwrapped", "stored", "inserted"}),
         Own("call", {"get"}, {"unwrapped", "stored"}), Lib(Get({}))}
GetJobs == {One("unsaved-changes", Bodies(<<b, c>>, <<>>, <<>>)) : b \in Blocks(Gets), c \in Blocks(Gets)}

(* Four blocks: a result, two in between and a last one.                   *)
Store(facts) == Make("own", "store", {}, facts, <<>>)
Stores == {Store({}), Store({"self"}), Store({"self", "returned"}), Make("none", "store", {}, {"self"}, <<>>)}
Ways == {<<>>, <<2>>, <<3>>, <<4>>, <<2, 4>>, <<4, 3>>}
WalkBody == {<<<<Result(r), Result(q), Branch(<<>>)>>, <<s, Branch(a)>>, <<Branch(b)>>, <<t, Branch(<<>>)>>>> :
               r \in {<<>>, <<2>>, <<2, 3>>}, q \in {<<>>, <<3>>}, s \in Stores, t \in Stores, a \in Ways, b \in Ways}
WalkJobs == {One("reentrancy", Bodies(b, <<>>, <<>>)) : b \in WalkBody}
            \cup {One("reentrancy", Bodies(<<>>, <<>>, b)) : b \in {c \in WalkBody : c[2][2].to = <<4>>}}

(* Loops of calls and of counted instructions.                             *)
Work == {Own("add", {}, {}), Own("call", {g}, {}), Own("call", {h}, {}), Own("indirect", {}, {})}
LoopJobs ==
  {[detector |-> "complex-loop",
    bitcodes |-> <<Code(<<f, g, h>>, Bodies(<<b, c>>, <<c, <<Own("call", {f}, {}), Own("load", {}, {})>>>>, <<b>>),
                       [x \in MCFunc |-> IF x = g THEN {} ELSE {[blocks |-> {1}, loc |-> o]}])>>] :
     b \in Blocks(Work), c \in Blocks(Work), o \in {"own", "lib", "none"}}

MCJobs == LineJobs \cup ResultJobs \cup ExtJobs \cup UpgradeJobs \cup GasJobs \cup GetJobs \cup WalkJobs \cup LoopJobs
=============================================================================
