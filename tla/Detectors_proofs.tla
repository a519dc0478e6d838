-------------------------- MODULE Detectors_proofs --------------------------
(***************************************************************************)
(* Theorems about the LLVM detectors, for every module, set of bitcodes    *)
(* and size of functions: what storage-gas, the privilege checks and the   *)
(* scans write is what they are to report.                                 *)
(*                                                                         *)
(* The detectors ask the call graph search, whose answer StorageGas,       *)
(* PrivilegeChecks and Scans take as given.  The first section proves that *)
(* it gives this answer: the search that is called recursive never leaves  *)
(* its first node, and so answers about the functions one call away.       *)
(***************************************************************************)
EXTENDS Detectors, SumTheorems, SequenceTheorems

-----------------------------------------------------------------------------
(* The early returns have not decided the query.                           *)
Undecided ==
  /\ query.kind # "other"
  /\ ~(query.kind = "inst" /\ query.target \in query.match)
  /\ query.target \notin query.llvm

(* While the query is not answered, the search has one activation, whose   *)
(* node is the target and is on the call stack.                            *)
Searching ==
  \E f \in CallGraph!Frame :
    /\ f.node = query.target
    /\ f.at = "below" => query.callees[query.target] \cap query.match = {}
    /\ nodes = <<f>>
    /\ callStack = <<query.target>>
    /\ Undecided

CallGraphInv ==
  /\ CallGraph!IsQuery(query)
  /\ callStack \in Seq(CallFunc)
  /\ \/ answer = "none" /\ Searching
     \/ /\ answer = "yes" /\ nodes = <<>> /\ CallGraph!MatchesAtOneCall
     \/ /\ answer = "no" /\ nodes = <<>> /\ ~CallGraph!MatchesAtOneCall

LEMMA EnterFrame ==
  ASSUME CallGraph!IsQuery(query), NEW f \in CallFunc
  PROVE  CallGraph!Enter(f) \in CallGraph!Frame /\ CallGraph!Enter(f).node = f /\ CallGraph!Enter(f).at = "level"
BY DEF CallGraph!IsQuery, CallGraph!Enter, CallGraph!Frame

LEMMA CallGraphInit ==
  ASSUME CallGraph!QueriesAssumption, CallGraph!Init
  PROVE  CallGraphInv
<1>1. CallGraph!IsQuery(query) /\ query.target \in CallFunc
  BY DEF CallGraph!QueriesAssumption, CallGraph!Init, CallGraph!IsQuery
<1>2. CASE Undecided
  <2>1. answer = "none" /\ nodes = <<CallGraph!Enter(query.target)>> /\ callStack = <<query.target>>
    BY <1>2 DEF CallGraph!Init, CallGraph!Early, Undecided
  <2>2. Searching
    BY <1>1, <1>2, <2>1, EnterFrame DEF Searching
  <2> QED
    BY <1>1, <2>1, <2>2 DEF CallGraphInv
<1>3. CASE ~Undecided
  <2>1. answer = CallGraph!Early(query) /\ answer # "none" /\ nodes = <<>> /\ callStack = <<>>
    BY <1>3 DEF CallGraph!Init, CallGraph!Early, Undecided
  <2>2. \/ answer = "yes" /\ CallGraph!MatchesAtOneCall
        \/ answer = "no" /\ ~CallGraph!MatchesAtOneCall
    BY <2>1, <1>3 DEF CallGraph!Early, CallGraph!MatchesAtOneCall, Undecided
  <2> QED
    BY <1>1, <2>1, <2>2 DEF CallGraphInv
<1> QED
  BY <1>2, <1>3

(* A step of the search starts from its only activation.                   *)
LEMMA OneActivation ==
  ASSUME CallGraphInv, nodes # <<>>
  PROVE  /\ answer = "none" /\ Searching /\ CallGraph!IsQuery(query)
         /\ CallGraph!Top \in CallGraph!Frame /\ CallGraph!Top.node = query.target /\ nodes = <<CallGraph!Top>> /\ Len(nodes) = 1
         /\ CallGraph!Top.at = "below" => query.callees[query.target] \cap query.match = {}
         /\ callStack = <<query.target>> /\ Undecided
BY DEF CallGraphInv, Searching, CallGraph!Top

LEMMA FoundInLevelStep == ASSUME CallGraphInv, CallGraph!FoundInLevel PROVE CallGraphInv'
BY OneActivation DEF CallGraphInv, CallGraph!FoundInLevel, CallGraph!MatchesAtOneCall, Undecided

LEMMA NotInLevelStep == ASSUME CallGraphInv, CallGraph!NotInLevel PROVE CallGraphInv'
<1> DEFINE f == [CallGraph!Top EXCEPT !.at = "below"]
<1>1. /\ nodes # <<>> /\ query.callees[CallGraph!Top.node] \cap query.match = {}
      /\ nodes' = CallGraph!Advance(f) /\ UNCHANGED <<query, callStack, answer>>
  BY DEF CallGraph!NotInLevel
<1>2. /\ answer = "none" /\ CallGraph!IsQuery(query) /\ CallGraph!Top \in CallGraph!Frame /\ CallGraph!Top.node = query.target
      /\ nodes = <<CallGraph!Top>> /\ callStack = <<query.target>> /\ Undecided /\ Len(nodes) = 1
  BY <1>1, OneActivation
<1>3. f \in CallGraph!Frame /\ f.node = query.target
  BY <1>2 DEF CallGraph!Frame
<1>4. nodes' = <<f>>
  BY <1>1, <1>2 DEF CallGraph!Advance
<1>5. Searching'
  BY <1>1, <1>2, <1>3, <1>4 DEF Searching, Undecided
<1> QED
  BY <1>1, <1>2, <1>5 DEF CallGraphInv

LEMMA NextCalleeStep == ASSUME CallGraphInv, CallGraph!NextCallee PROVE CallGraphInv'
<1>1. nodes # <<>> /\ CallGraph!Top.at = "below" /\ UNCHANGED <<query, answer>>
  BY DEF CallGraph!NextCallee
<1>2. /\ answer = "none" /\ CallGraph!IsQuery(query) /\ CallGraph!Top \in CallGraph!Frame /\ CallGraph!Top.node = query.target
      /\ nodes = <<CallGraph!Top>> /\ callStack = <<query.target>> /\ Undecided /\ Len(nodes) = 1
      /\ query.callees[query.target] \cap query.match = {}
  BY <1>1, OneActivation
<1>3. \A c : CallGraph!Skipped(CallGraph!Top.node, c)
  BY <1>2 DEF CallGraph!Skipped, CallGraph!OnCallStack
<1>4. PICK c \in CallGraph!Top.left : nodes' = CallGraph!Advance([CallGraph!Top EXCEPT !.left = @ \ {c}]) /\ UNCHANGED callStack
  BY <1>3 DEF CallGraph!NextCallee
<1> DEFINE f == [CallGraph!Top EXCEPT !.left = @ \ {c}]
<1>5. f \in CallGraph!Frame /\ f.node = query.target /\ f.at = "below"
  BY <1>1, <1>2 DEF CallGraph!Frame
<1>6. nodes' = <<f>>
  BY <1>2, <1>4 DEF CallGraph!Advance
<1>7. Searching'
  BY <1>1, <1>2, <1>4, <1>5, <1>6 DEF Searching, Undecided
<1> QED
  BY <1>1, <1>2, <1>4, <1>7 DEF CallGraphInv

LEMMA NotBelowStep == ASSUME CallGraphInv, CallGraph!NotBelow PROVE CallGraphInv'
<1>1. nodes # <<>> /\ CallGraph!Top.at = "below" /\ UNCHANGED query
  BY DEF CallGraph!NotBelow
<1>2. /\ CallGraph!IsQuery(query) /\ nodes = <<CallGraph!Top>> /\ Undecided /\ Len(nodes) = 1
      /\ query.callees[query.target] \cap query.match = {}
  BY <1>1, OneActivation
<1>3. answer' = "no" /\ nodes' = <<>> /\ UNCHANGED callStack
  BY <1>2 DEF CallGraph!NotBelow, CallGraph!PopBack
<1> QED
  BY <1>1, <1>2, <1>3 DEF CallGraphInv, CallGraph!MatchesAtOneCall, Undecided

LEMMA CallGraphNext == CallGraphInv /\ [CallGraph!Next]_CallGraph!vars => CallGraphInv'
<1> SUFFICES ASSUME CallGraphInv, [CallGraph!Next]_CallGraph!vars PROVE CallGraphInv'
  OBVIOUS
<1>1. CASE UNCHANGED CallGraph!vars
  BY <1>1 DEF CallGraph!vars, CallGraphInv, Searching, Undecided, CallGraph!MatchesAtOneCall
<1> QED
  BY <1>1, FoundInLevelStep, NotInLevelStep, NextCalleeStep, NotBelowStep DEF CallGraph!Next

(* The state of a query is well formed, and its call stack names the       *)
(* activations while it runs.                                              *)
LEMMA CallGraphTyped == CallGraphInv => CallGraph!TypeOK
<1> SUFFICES ASSUME CallGraphInv PROVE CallGraph!TypeOK
  OBVIOUS
<1>1. CASE nodes = <<>>
  BY <1>1, EmptySeq DEF CallGraphInv, CallGraph!TypeOK, Searching
<1>2. CASE nodes # <<>>
  <2>1. /\ answer = "none" /\ CallGraph!Top \in CallGraph!Frame /\ CallGraph!Top.node = query.target /\ nodes = <<CallGraph!Top>>
        /\ callStack = <<query.target>>
    BY <1>2, OneActivation
  <2>2. /\ nodes \in Seq(CallGraph!Frame) /\ Len(nodes) = 1 /\ Len(callStack) = 1
        /\ nodes[1] = CallGraph!Top /\ callStack[1] = query.target
    BY <2>1
  <2> QED
    BY <2>1, <2>2 DEF CallGraphInv, CallGraph!TypeOK
<1> QED
  BY <1>1, <1>2

LEMMA CallGraphLevel == CallGraphInv => CallGraph!OneLevel
<1> SUFFICES ASSUME CallGraphInv PROVE CallGraph!OneLevel
  OBVIOUS
<1>1. CASE nodes = <<>>
  BY <1>1 DEF CallGraph!OneLevel
<1>2. CASE nodes # <<>>
  <2>1. nodes = <<CallGraph!Top>>
    BY <1>2, OneActivation
  <2>2. Len(nodes) = 1
    BY <2>1
  <2> QED
    BY <2>2 DEF CallGraph!OneLevel
<1> QED
  BY <1>1, <1>2

-----------------------------------------------------------------------------
(* The recursive functions of the detectors: a step that maps a set to     *)
(* itself has iterates, for every number of steps.                         *)
Iterates(a, s, h, n) == h[0] = a /\ \A i \in 1..n : h[i] = s[h[i - 1]]

LEMMA IteratesExist ==
  ASSUME NEW D, NEW a \in D, NEW s \in [D -> D], NEW m \in Nat
  PROVE  \E h \in [0..m -> D] : Iterates(a, s, h, m)
<1> DEFINE B == {n \in Nat : ~ \E h \in [0..n -> D] : Iterates(a, s, h, n)}
<1>1. \E h \in [0..0 -> D] : Iterates(a, s, h, 0)
  <2> DEFINE h == [i \in 0..0 |-> a]
  <2>1. h \in [0..0 -> D] /\ h[0] = a /\ 1..0 = {}
    OBVIOUS
  <2> HIDE DEF h
  <2>2. Iterates(a, s, h, 0)
    BY <2>1 DEF Iterates
  <2> QED
    BY <2>1, <2>2
<1>2. ASSUME NEW n \in Nat, NEW h \in [0..n -> D], Iterates(a, s, h, n)
      PROVE  \E k \in [0..(n + 1) -> D] : Iterates(a, s, k, n + 1)
  <2> DEFINE k == [i \in 0..(n + 1) |-> IF i = n + 1 THEN s[h[n]] ELSE h[i]]
  <2>1. /\ \A i \in 0..(n + 1) : i # n + 1 => i \in 0..n
        /\ \A i \in 1..(n + 1) : i - 1 \in 0..n /\ i - 1 # n + 1 /\ i - 1 \in 0..(n + 1) /\ i \in 0..(n + 1)
        /\ \A i \in 1..(n + 1) : i # n + 1 => i \in 1..n
        /\ n \in 0..n /\ 0 \in 0..(n + 1) /\ 0 # n + 1 /\ (n + 1) - 1 = n
    OBVIOUS
  <2>2. k \in [0..(n + 1) -> D]
    BY <2>1
  <2>3. k[0] = a
    BY <1>2, <2>1 DEF Iterates
  <2>4. \A i \in 1..(n + 1) : k[i] = s[k[i - 1]]
    BY <1>2, <2>1 DEF Iterates
  <2> HIDE DEF k
  <2> QED
    BY <2>2, <2>3, <2>4 DEF Iterates
<1>3. SUFFICES ASSUME B # {} PROVE FALSE
  OBVIOUS
<1>4. PICK n \in B : n = 0 \/ n - 1 \notin B
  <2>1. B \in SUBSET Nat
    OBVIOUS
  <2> HIDE DEF B
  <2> QED
    BY <1>3, <2>1, LeastNat
<1>5. n # 0 /\ n - 1 \in Nat /\ n - 1 \notin B /\ (n - 1) + 1 = n
  <2>1. n \in Nat /\ n # 0
    BY <1>1, <1>4
  <2> QED
    BY <1>4, <2>1
<1>6. \E h \in [0..(n - 1) -> D] : Iterates(a, s, h, n - 1)
  BY <1>5
<1>7. \E h \in [0..n -> D] : Iterates(a, s, h, n)
  BY <1>2, <1>5, <1>6
<1> QED
  BY <1>4, <1>7

(* Iterates of different length agree.                                     *)
LEMMA IteratesAgree ==
  ASSUME NEW a, NEW s, NEW m \in Nat, NEW n \in Nat, NEW g, NEW h,
         Iterates(a, s, g, m), Iterates(a, s, h, n), NEW k \in Nat, k <= m, k <= n
  PROVE  g[k] = h[k]
<1> DEFINE B == {i \in 0..k : g[i] # h[i]}
<1>1. SUFFICES ASSUME B # {} PROVE FALSE
  OBVIOUS
<1>2. PICK i \in B : i = 0 \/ i - 1 \notin B
  <2>1. B \in SUBSET Nat
    OBVIOUS
  <2> HIDE DEF B
  <2> QED
    BY <1>1, <2>1, LeastNat
<1>3. i # 0
  BY <1>2 DEF Iterates
<1>4. i - 1 \in 0..k /\ i \in 1..m /\ i \in 1..n
  BY <1>2, <1>3
<1>5. g[i] = s[g[i - 1]] /\ h[i] = s[h[i - 1]] /\ g[i - 1] = h[i - 1]
  BY <1>2, <1>3, <1>4 DEF Iterates
<1> QED
  BY <1>2, <1>5

Recursive(a, s, h) == h = [n \in Nat |-> IF n = 0 THEN a ELSE s[h[n - 1]]]

LEMMA Recursion ==
  ASSUME NEW D, NEW a \in D, NEW s \in [D -> D]
  PROVE  \E h \in [Nat -> D] : Recursive(a, s, h)
<1> DEFINE r(n) == CHOOSE h \in [0..n -> D] : Iterates(a, s, h, n)
           h == [n \in Nat |-> r(n)[n]]
<1>1. ASSUME NEW n \in Nat PROVE r(n) \in [0..n -> D] /\ Iterates(a, s, r(n), n)
  BY IteratesExist
<1> HIDE DEF r
<1>2. ASSUME NEW n \in Nat PROVE r(n)[n] \in D
  <2>1. n \in 0..n
    OBVIOUS
  <2> QED
    BY <1>1, <2>1
<1>3. r(0)[0] = a
  BY <1>1 DEF Iterates
<1>4. ASSUME NEW n \in Nat, n # 0 PROVE n - 1 \in Nat /\ r(n)[n] = s[r(n - 1)[n - 1]]
  <2>1. n - 1 \in Nat /\ n \in 1..n /\ n - 1 <= n /\ n - 1 <= n - 1
    BY <1>4
  <2>2. r(n)[n] = s[r(n)[n - 1]]
    BY <1>1, <2>1 DEF Iterates
  <2>3. Iterates(a, s, r(n), n) /\ Iterates(a, s, r(n - 1), n - 1)
    BY <1>1, <2>1
  <2>4. r(n)[n - 1] = r(n - 1)[n - 1]
    BY <2>1, <2>3, IteratesAgree
  <2> QED
    BY <2>1, <2>2, <2>4
<1>5. h \in [Nat -> D]
  BY <1>2
<1>6. \A n \in Nat : h[n] = IF n = 0 THEN a ELSE s[h[n - 1]]
  BY <1>3, <1>4
<1>7. Recursive(a, s, h)
  <2> HIDE DEF h
  <2> QED
    BY <1>5, <1>6 DEF Recursive
<1> QED
  BY <1>5, <1>7

-----------------------------------------------------------------------------
(* The checks of who may call a function.                                  *)

(* The steps of isFuncPrivileged, by the depth that is left.               *)
PrivilegeStep(m, X) ==
  {g \in PrivilegeFunc :
     \/ Privileges!OwnCallees(m, g) \cap m.predecessor # {} /\ Privileges!Callees(m, g) \cap m.eq # {}
     \/ (Privileges!OwnCallees(m, g) \ m.predecessor) \cap X # {}}

PrivilegeLevels(m, h) == h = [n \in Nat |-> IF n = 0 THEN {} ELSE PrivilegeStep(m, h[n - 1])]

LEMMA PrivilegeLevelsExist ==
  ASSUME NEW m
  PROVE  \E h : PrivilegeLevels(m, h)
<1> DEFINE s == [X \in SUBSET PrivilegeFunc |-> PrivilegeStep(m, X)]
<1>1. s \in [SUBSET PrivilegeFunc -> SUBSET PrivilegeFunc]
  BY DEF PrivilegeStep
<1>2. \A X \in SUBSET PrivilegeFunc : s[X] = PrivilegeStep(m, X)
  OBVIOUS
<1>3. {} \in SUBSET PrivilegeFunc
  OBVIOUS
<1> HIDE DEF s
<1>4. PICK h \in [Nat -> SUBSET PrivilegeFunc] : Recursive({}, s, h)
  BY <1>1, <1>3, Recursion
<1>5. \A n \in Nat : n # 0 => n - 1 \in Nat
  OBVIOUS
<1>6. \A n \in Nat : n # 0 => s[h[n - 1]] = PrivilegeStep(m, h[n - 1])
  BY <1>2, <1>4, <1>5
<1> QED
  BY <1>4, <1>6 DEF Recursive, PrivilegeLevels

(* Three levels of isFuncPrivileged are two calls.                         *)
LEMMA PrivilegeInReach ==
  ASSUME NEW m, NEW f \in PrivilegeFunc
  PROVE  Privileges!Privileged(m, f) <=> Privileges!OwnerCheckInReach(m, f)
<1> DEFINE w == CHOOSE h : PrivilegeLevels(m, h)
<1>1. PrivilegeLevels(m, w)
  BY PrivilegeLevelsExist
<1>2. Privileges!Privileged(m, f) <=> f \in w[3]
  BY DEF Privileges!Privileged, Privileges!PrivilegeDepth, PrivilegeLevels, PrivilegeStep
<1> HIDE DEF w
<1>3. w[0] = {} /\ w[1] = PrivilegeStep(m, w[0]) /\ w[2] = PrivilegeStep(m, w[1]) /\ w[3] = PrivilegeStep(m, w[2])
  <2>1. \A n \in Nat : w[n] = IF n = 0 THEN {} ELSE PrivilegeStep(m, w[n - 1])
    BY <1>1 DEF PrivilegeLevels
  <2> QED
    BY <2>1
<1> DEFINE asks(g) == Privileges!OwnCallees(m, g) \cap m.predecessor # {} /\ Privileges!Callees(m, g) \cap m.eq # {}
           next(g) == Privileges!OwnCallees(m, g) \ m.predecessor
<1>4. \A g \in PrivilegeFunc : next(g) \subseteq PrivilegeFunc
  BY DEF Privileges!OwnCallees
<1>5. \A X : \A g \in PrivilegeFunc : g \in PrivilegeStep(m, X) <=> asks(g) \/ next(g) \cap X # {}
  BY DEF PrivilegeStep
<1>6. Privileges!OwnerCheckInReach(m, f) <=> asks(f) \/ \E g \in next(f) : asks(g) \/ \E h \in next(g) : asks(h)
  BY DEF Privileges!OwnerCheckInReach
<1> HIDE DEF asks, next
<1>7. \A g \in PrivilegeFunc : g \in w[1] <=> asks(g)
  BY <1>3, <1>5
<1>8. \A g \in PrivilegeFunc : g \in w[2] <=> asks(g) \/ \E h \in next(g) : asks(h)
  BY <1>3, <1>4, <1>5, <1>7
<1>9. f \in w[3] <=> asks(f) \/ \E g \in next(f) : asks(g) \/ \E h \in next(g) : asks(h)
  BY <1>3, <1>4, <1>5, <1>8
<1> QED
  BY <1>2, <1>6, <1>9


(* The modules that are instantiated count as this one does.               *)
LEMMA PrivilegeCardinality == \A S : Privileges!Cardinality(S) = Cardinality(S)
BY DEF Privileges!Cardinality, Cardinality

(* A function that occurs once in a sequence has an index in it.           *)
LEMMA OccursOnce ==
  ASSUME NEW s, NEW f, Cardinality({k \in 1..Len(s) : s[k] = f}) = 1
  PROVE  \E k \in 1..Len(s) : s[k] = f
<1> DEFINE K == {k \in 1..Len(s) : s[k] = f}
<1>1. Cardinality(K) = 1
  OBVIOUS
<1>2. K # {}
  <2> HIDE DEF K
  <2> QED
    BY <1>1, FS_EmptySet
<1> QED
  BY <1>2

(* The functions the passes are done with: what callback has written, what *)
(* yocto-attach has read and reported, and the verdicts on the owners.     *)
CallbackPassed(k) == pass = "callback" => k < pos
YoctoPassed(k)    == \/ pass = "yocto-attach" /\ k < pos
                     \/ Privileges!AfterYocto
OwnerPassed(k)    == \/ pass = "nft-owner-check" /\ k < pos
                     \/ pass = "end"

CallbacksWritten ==
  /\ \A f \in callbackFile : Privileges!IsCallback(f)
  /\ \A k \in 1..Len(module.order) :
       CallbackPassed(k) /\ Privileges!IsCallback(module.order[k]) => module.order[k] \in callbackFile

YoctosReported ==
  \A k \in 1..Len(module.order) :
    /\ YoctoPassed(k)
    /\ Privileges!LacksYocto(module.order[k])
    /\ \A n \in 1..k : ~Privileges!IsCallback(module.order[n])
    => module.order[k] \in yoctoOut

OwnersJudged ==
  /\ \A v \in ownerOut : v.check = Privileges!OwnerCheckInReach(module, v.fn)
  /\ \A k \in 1..Len(module.order) :
       OwnerPassed(k) /\ module.order[k] \in module.approval =>
         \E v \in ownerOut : v.fn = module.order[k]

PrivilegeInv ==
  /\ Privileges!TypeOK
  /\ pass = "yocto-attach" => callbacks = callbackFile
  /\ CallbacksWritten
  /\ Privileges!YoctoReportSound
  /\ YoctosReported
  /\ OwnersJudged

LEMMA PrivilegeHere ==
  ASSUME Privileges!TypeOK, pos <= Len(module.order)
  PROVE  /\ Len(module.order) \in Nat /\ pos \in 1..Len(module.order)
         /\ Privileges!Here = module.order[pos] /\ Privileges!Here \in PrivilegeFunc
         /\ \A k \in 1..Len(module.order) : k < pos + 1 => k < pos \/ k = pos
<1>1. module.order \in Seq(PrivilegeFunc) /\ pos \in 1..Len(module.order) + 1
  BY DEF Privileges!TypeOK, Privileges!IsModule
<1>2. pos \in 1..Len(module.order) /\ \A k \in 1..Len(module.order) : k < pos + 1 => k < pos \/ k = pos
  BY <1>1
<1> QED
  BY <1>1, <1>2 DEF Privileges!Here

LEMMA PrivilegeInit ==
  ASSUME Privileges!ModulesAssumption, Privileges!Init
  PROVE  PrivilegeInv
<1>1. Privileges!IsModule(module) /\ module.order \in Seq(PrivilegeFunc)
  BY DEF Privileges!ModulesAssumption, Privileges!Init, Privileges!IsModule
<1>2. Privileges!TypeOK
  BY <1>1 DEF Privileges!Init, Privileges!TypeOK, Privileges!Passes
<1>3. \A k \in 1..Len(module.order) : ~CallbackPassed(k) /\ ~YoctoPassed(k) /\ ~OwnerPassed(k)
  BY DEF Privileges!Init, CallbackPassed, YoctoPassed, OwnerPassed, Privileges!AfterYocto
<1> QED
  BY <1>2, <1>3 DEF PrivilegeInv, Privileges!Init, CallbacksWritten, YoctosReported, OwnersJudged, Privileges!YoctoReportSound


LEMMA CallbackHolds ==
  ASSUME PrivilegeInv, Privileges!Callback
  PROVE  PrivilegeInv'
<1>1. /\ pass = "callback" /\ pos <= Len(module.order)
      /\ callbackFile' = callbackFile \cup {f \in {Privileges!Here} : Privileges!IsCallback(f)}
      /\ pos' = pos + 1
      /\ UNCHANGED <<module, pass, callbacks, yoctoOut, ownerOut>>
  BY DEF Privileges!Callback, Privileges!AtFunction, Privileges!IsCallback
<1>2. Privileges!TypeOK
  BY DEF PrivilegeInv
<1>3. /\ Len(module.order) \in Nat /\ pos \in 1..Len(module.order)
      /\ Privileges!Here = module.order[pos] /\ Privileges!Here \in PrivilegeFunc
      /\ \A k \in 1..Len(module.order) : k < pos + 1 => k < pos \/ k = pos
  BY <1>1, <1>2, PrivilegeHere
<1>4. Privileges!TypeOK'
  BY <1>1, <1>2, <1>3 DEF Privileges!TypeOK
<1>5. \A f : Privileges!IsCallback(f)' <=> Privileges!IsCallback(f)
  BY <1>1 DEF Privileges!IsCallback
<1>6. CallbacksWritten'
  BY <1>1, <1>3, <1>5 DEF PrivilegeInv, CallbacksWritten, CallbackPassed
<1>7. Privileges!YoctoReportSound' /\ YoctosReported' /\ OwnersJudged'
  BY <1>1 DEF PrivilegeInv, Privileges!YoctoReportSound, YoctosReported, OwnersJudged, YoctoPassed, OwnerPassed,
              Privileges!AfterYocto, Privileges!IsCallback, Privileges!LacksYocto
<1> QED
  BY <1>1, <1>4, <1>6, <1>7 DEF PrivilegeInv

LEMMA BeginYoctoHolds ==
  ASSUME PrivilegeInv, Privileges!BeginYoctoAttach
  PROVE  PrivilegeInv'
<1>1. /\ pass = "callback" /\ pos > Len(module.order) /\ pass' = "yocto-attach" /\ pos' = 1
      /\ callbacks' = callbackFile
      /\ UNCHANGED <<module, callbackFile, yoctoOut, ownerOut>>
  BY DEF Privileges!BeginYoctoAttach, Privileges!PassOver
<1>2. /\ Privileges!TypeOK /\ Len(module.order) \in Nat
      /\ pos \in 1..Len(module.order) + 1
  BY DEF PrivilegeInv, Privileges!TypeOK, Privileges!IsModule
<1>3. Privileges!TypeOK'
  BY <1>1, <1>2 DEF Privileges!TypeOK, Privileges!Passes
<1>4. \A k \in 1..Len(module.order) : CallbackPassed(k) /\ ~YoctoPassed(k)' /\ ~OwnerPassed(k)'
  BY <1>1, <1>2 DEF CallbackPassed, YoctoPassed, OwnerPassed, Privileges!AfterYocto
<1>5. CallbacksWritten'
  BY <1>1, <1>4 DEF PrivilegeInv, CallbacksWritten, Privileges!IsCallback
<1>6. Privileges!YoctoReportSound' /\ YoctosReported' /\ OwnersJudged'
  BY <1>1, <1>4 DEF PrivilegeInv, Privileges!YoctoReportSound, YoctosReported, OwnersJudged,
                    Privileges!IsCallback, Privileges!LacksYocto
<1> QED
  BY <1>1, <1>3, <1>5, <1>6 DEF PrivilegeInv

(* What precedes the callback at which the pass ends is passed already, and *)
(* what follows it is not owed.                                            *)
LEMMA YoctoCallbackHolds ==
  ASSUME PrivilegeInv, Privileges!YoctoCallback
  PROVE  PrivilegeInv'
<1>1. /\ pass = "yocto-attach" /\ pos <= Len(module.order) /\ Privileges!Here \in callbacks
      /\ pos' = Len(module.order) + 1
      /\ UNCHANGED <<module, pass, callbackFile, callbacks, yoctoOut, ownerOut>>
  BY DEF Privileges!YoctoCallback, Privileges!AtFunction
<1>2. Privileges!TypeOK
  BY DEF PrivilegeInv
<1>3. /\ Len(module.order) \in Nat /\ pos \in 1..Len(module.order)
      /\ Privileges!Here = module.order[pos]
  BY <1>1, <1>2, PrivilegeHere
<1>4. Privileges!TypeOK'
  BY <1>1, <1>2, <1>3 DEF Privileges!TypeOK
<1>5. Privileges!IsCallback(module.order[pos])
  BY <1>1, <1>3 DEF PrivilegeInv, CallbacksWritten
<1>6. CallbacksWritten' /\ Privileges!YoctoReportSound' /\ OwnersJudged'
  BY <1>1 DEF PrivilegeInv, CallbacksWritten, CallbackPassed, Privileges!YoctoReportSound, OwnersJudged, OwnerPassed,
              Privileges!IsCallback, Privileges!LacksYocto
<1>7. YoctosReported'
  <2>1. ASSUME NEW k \in 1..Len(module.order), \A n \in 1..k : ~Privileges!IsCallback(module.order[n])
        PROVE  YoctoPassed(k)
    <3>1. ~(pos \in 1..k)
      BY <1>5, <2>1
    <3>2. k < pos
      BY <1>3, <3>1
    <3> QED
      BY <1>1, <3>2 DEF YoctoPassed
  <2> QED
    BY <1>1, <2>1 DEF PrivilegeInv, YoctosReported, Privileges!IsCallback, Privileges!LacksYocto
<1> QED
  BY <1>1, <1>4, <1>6, <1>7 DEF PrivilegeInv

LEMMA YoctoAttachHolds ==
  ASSUME PrivilegeInv, Privileges!YoctoAttach
  PROVE  PrivilegeInv'
<1>1. /\ pass = "yocto-attach" /\ pos <= Len(module.order) /\ Privileges!Here \notin callbacks
      /\ yoctoOut' = yoctoOut \cup {f \in {Privileges!Here} :
                       Privileges!Privileged(module, f) /\ ~Privileges!ChecksYocto(module, f)}
      /\ pos' = pos + 1
      /\ UNCHANGED <<module, pass, callbackFile, callbacks, ownerOut>>
  BY DEF Privileges!YoctoAttach, Privileges!AtFunction
<1>2. Privileges!TypeOK
  BY DEF PrivilegeInv
<1>3. /\ Len(module.order) \in Nat /\ pos \in 1..Len(module.order)
      /\ Privileges!Here = module.order[pos] /\ Privileges!Here \in PrivilegeFunc
      /\ \A k \in 1..Len(module.order) : k < pos + 1 => k < pos \/ k = pos
  BY <1>1, <1>2, PrivilegeHere
<1>4. Privileges!Privileged(module, Privileges!Here) <=> Privileges!OwnerCheckInReach(module, Privileges!Here)
  BY <1>3, PrivilegeInReach
<1>5. yoctoOut' = yoctoOut \cup {f \in {Privileges!Here} : Privileges!LacksYocto(f)}
  BY <1>1, <1>4 DEF Privileges!LacksYocto
<1>6. ~Privileges!IsCallback(Privileges!Here)
  <2>1. callbacks = callbackFile /\ CallbackPassed(pos)
    BY <1>1 DEF PrivilegeInv, CallbackPassed
  <2> QED
    BY <1>1, <1>3, <2>1 DEF PrivilegeInv, CallbacksWritten
<1>7. Privileges!TypeOK'
  <2>1. yoctoOut' \subseteq PrivilegeFunc
    BY <1>2, <1>3, <1>5 DEF Privileges!TypeOK
  <2> QED
    BY <1>1, <1>2, <1>3, <2>1 DEF Privileges!TypeOK
<1>8. \A f : (Privileges!IsCallback(f)' <=> Privileges!IsCallback(f)) /\ (Privileges!LacksYocto(f)' <=> Privileges!LacksYocto(f))
  BY <1>1 DEF Privileges!IsCallback, Privileges!LacksYocto
<1>9. CallbacksWritten' /\ OwnersJudged'
  BY <1>1, <1>8 DEF PrivilegeInv, CallbacksWritten, CallbackPassed, OwnersJudged, OwnerPassed
<1>10. Privileges!YoctoReportSound'
  BY <1>5, <1>6, <1>8 DEF PrivilegeInv, Privileges!YoctoReportSound
<1>11. YoctosReported'
  <2>1. \A k \in 1..Len(module.order) : YoctoPassed(k)' => YoctoPassed(k) \/ k = pos
    BY <1>1, <1>3 DEF YoctoPassed, Privileges!AfterYocto
  <2> QED
    BY <1>1, <1>3, <1>5, <1>8, <2>1 DEF PrivilegeInv, YoctosReported
<1> QED
  BY <1>1, <1>7, <1>9, <1>10, <1>11 DEF PrivilegeInv

LEMMA BeginNftHolds ==
  ASSUME PrivilegeInv, Privileges!BeginNftOwnerCheck
  PROVE  PrivilegeInv'
<1>1. /\ pass = "yocto-attach" /\ pos > Len(module.order) /\ pass' = "nft-owner-check" /\ pos' = 1
      /\ UNCHANGED <<module, callbackFile, callbacks, yoctoOut, ownerOut>>
  BY DEF Privileges!BeginNftOwnerCheck, Privileges!PassOver
<1>2. /\ Privileges!TypeOK /\ Len(module.order) \in Nat
      /\ pos \in 1..Len(module.order) + 1
  BY DEF PrivilegeInv, Privileges!TypeOK, Privileges!IsModule
<1>3. Privileges!TypeOK'
  BY <1>1, <1>2 DEF Privileges!TypeOK, Privileges!Passes
<1>4. \A k \in 1..Len(module.order) : CallbackPassed(k) /\ YoctoPassed(k) /\ ~OwnerPassed(k)'
  BY <1>1, <1>2 DEF CallbackPassed, YoctoPassed, OwnerPassed, Privileges!AfterYocto
<1>5. CallbacksWritten' /\ Privileges!YoctoReportSound' /\ YoctosReported' /\ OwnersJudged'
  BY <1>1, <1>4 DEF PrivilegeInv, CallbacksWritten, Privileges!YoctoReportSound, YoctosReported, OwnersJudged,
                    Privileges!IsCallback, Privileges!LacksYocto
<1> QED
  BY <1>1, <1>3, <1>5 DEF PrivilegeInv

LEMMA NftOwnerHolds ==
  ASSUME PrivilegeInv, Privileges!NftOwnerCheck
  PROVE  PrivilegeInv'
<1> DEFINE h == Privileges!Here
           v == [fn |-> h, check |-> Privileges!Privileged(module, h)]
<1>1. /\ pass = "nft-owner-check" /\ pos <= Len(module.order)
      /\ ownerOut' = ownerOut \cup
           {[fn |-> f, check |-> Privileges!Privileged(module, f)] : f \in {Privileges!Here} \cap module.approval}
      /\ pos' = pos + 1
      /\ UNCHANGED <<module, pass, callbackFile, callbacks, yoctoOut>>
  BY DEF Privileges!NftOwnerCheck, Privileges!AtFunction
<1>2. Privileges!TypeOK
  BY DEF PrivilegeInv
<1>3. /\ Len(module.order) \in Nat /\ pos \in 1..Len(module.order)
      /\ h = module.order[pos] /\ h \in PrivilegeFunc
      /\ \A k \in 1..Len(module.order) : k < pos + 1 => k < pos \/ k = pos
  BY <1>1, <1>2, PrivilegeHere
<1>4. /\ v.fn = h /\ v.check = Privileges!OwnerCheckInReach(module, h)
      /\ h \in module.approval => v \in [fn : module.approval, check : BOOLEAN]
  <2>1. Privileges!Privileged(module, h) \in BOOLEAN /\ Privileges!OwnerCheckInReach(module, h) \in BOOLEAN
    BY DEF Privileges!Privileged, Privileges!OwnerCheckInReach
  <2>2. Privileges!Privileged(module, h) <=> Privileges!OwnerCheckInReach(module, h)
    BY <1>3, PrivilegeInReach
  <2> QED
    BY <2>1, <2>2
<1>5. \/ h \in module.approval /\ ownerOut' = ownerOut \cup {v}
      \/ h \notin module.approval /\ ownerOut' = ownerOut
  <2>1. CASE h \in module.approval
    <3>1. {Privileges!Here} \cap module.approval = {h}
      BY <2>1
    <3> QED
      BY <1>1, <2>1, <3>1
  <2>2. CASE h \notin module.approval
    <3>1. {Privileges!Here} \cap module.approval = {}
      BY <2>2
    <3> QED
      BY <1>1, <2>2, <3>1
  <2> QED
    BY <2>1, <2>2
<1> HIDE DEF v, h
<1>6. Privileges!TypeOK'
  BY <1>1, <1>2, <1>3, <1>4, <1>5 DEF Privileges!TypeOK
<1>7. CallbacksWritten' /\ Privileges!YoctoReportSound' /\ YoctosReported'
  BY <1>1 DEF PrivilegeInv, CallbacksWritten, CallbackPassed, Privileges!YoctoReportSound, YoctosReported, YoctoPassed,
              Privileges!AfterYocto, Privileges!IsCallback, Privileges!LacksYocto
<1>8. OwnersJudged'
  <2>1. \A k \in 1..Len(module.order) : OwnerPassed(k)' => OwnerPassed(k) \/ k = pos
    BY <1>1, <1>3 DEF OwnerPassed
  <2> QED
    BY <1>1, <1>3, <1>4, <1>5, <2>1 DEF PrivilegeInv, OwnersJudged
<1> QED
  BY <1>1, <1>6, <1>7, <1>8 DEF PrivilegeInv

LEMMA EndHolds ==
  ASSUME PrivilegeInv, Privileges!End
  PROVE  PrivilegeInv'
<1>1. /\ pass = "nft-owner-check" /\ pos > Len(module.order) /\ pass' = "end"
      /\ UNCHANGED <<module, pos, callbackFile, callbacks, yoctoOut, ownerOut>>
  BY DEF Privileges!End, Privileges!PassOver
<1>2. /\ Privileges!TypeOK /\ Len(module.order) \in Nat
      /\ pos \in 1..Len(module.order) + 1
  BY DEF PrivilegeInv, Privileges!TypeOK, Privileges!IsModule
<1>3. Privileges!TypeOK'
  BY <1>1, <1>2 DEF Privileges!TypeOK, Privileges!Passes
<1>4. \A k \in 1..Len(module.order) : CallbackPassed(k) /\ YoctoPassed(k) /\ OwnerPassed(k)
  BY <1>1, <1>2 DEF CallbackPassed, YoctoPassed, OwnerPassed, Privileges!AfterYocto
<1>5. CallbacksWritten' /\ Privileges!YoctoReportSound' /\ YoctosReported' /\ OwnersJudged'
  BY <1>1, <1>4 DEF PrivilegeInv, CallbacksWritten, Privileges!YoctoReportSound, YoctosReported, OwnersJudged,
                    Privileges!IsCallback, Privileges!LacksYocto
<1> QED
  BY <1>1, <1>3, <1>5 DEF PrivilegeInv

LEMMA PrivilegeStutter ==
  ASSUME PrivilegeInv, UNCHANGED Privileges!vars
  PROVE  PrivilegeInv'
BY DEF Privileges!vars, PrivilegeInv, Privileges!TypeOK, CallbacksWritten, CallbackPassed, Privileges!YoctoReportSound,
       YoctosReported, YoctoPassed, OwnersJudged, OwnerPassed, Privileges!AfterYocto, Privileges!IsCallback,
       Privileges!LacksYocto

LEMMA PrivilegeNext == PrivilegeInv /\ [Privileges!Next]_Privileges!vars => PrivilegeInv'
BY CallbackHolds, BeginYoctoHolds, YoctoCallbackHolds, YoctoAttachHolds, BeginNftHolds, NftOwnerHolds, EndHolds,
   PrivilegeStutter DEF Privileges!Next

LEMMA PrivilegeGives ==
  ASSUME PrivilegeInv
  PROVE  Privileges!YoctoReportSound /\ Privileges!YoctoReportBeforeCallbacks /\ Privileges!OwnerVerdicts
<1>1. Privileges!YoctoReportSound
  BY DEF PrivilegeInv
<1>2. Privileges!YoctoReportBeforeCallbacks
  BY DEF PrivilegeInv, Privileges!YoctoReportBeforeCallbacks, YoctosReported, YoctoPassed
<1>3. ASSUME pass = "end"
      PROVE  ownerOut = {[fn |-> f, check |-> Privileges!OwnerCheckInReach(module, f)] : f \in module.approval}
  <2> DEFINE V(f) == [fn |-> f, check |-> Privileges!OwnerCheckInReach(module, f)]
  <2>1. ownerOut \subseteq [fn : module.approval, check : BOOLEAN] /\ module.approval \subseteq PrivilegeFunc
        /\ \A f \in PrivilegeFunc : Cardinality({k \in 1..Len(module.order) : module.order[k] = f}) = 1
    <3>1. Privileges!IsModule(module) /\ ownerOut \subseteq [fn : module.approval, check : BOOLEAN]
      BY DEF PrivilegeInv, Privileges!TypeOK
    <3>2. module.approval \in SUBSET PrivilegeFunc
      BY <3>1 DEF Privileges!IsModule
    <3>3. \A f \in PrivilegeFunc : Cardinality({k \in 1..Len(module.order) : module.order[k] = f}) = 1
      BY <3>1, PrivilegeCardinality, Zenon DEF Privileges!IsModule
    <3> QED
      BY <3>1, <3>2, <3>3, Zenon
  <2>2. \A v \in ownerOut : v = V(v.fn) /\ v.fn \in module.approval
    BY <2>1 DEF PrivilegeInv, OwnersJudged
  <2>3. ASSUME NEW f \in module.approval PROVE \E v \in ownerOut : v.fn = f
    <3>1. PICK k \in 1..Len(module.order) : module.order[k] = f
      BY <2>1, OccursOnce
    <3> QED
      BY <1>3, <3>1 DEF PrivilegeInv, OwnersJudged, OwnerPassed
  <2> QED
    BY <2>2, <2>3
<1> QED
  BY <1>1, <1>2, <1>3 DEF Privileges!OwnerVerdicts

-----------------------------------------------------------------------------
(* storage-gas, and the search of the callers it calls.                    *)
LEMMA GasCardinality ==
  /\ \A S : Gas!Cardinality(S) = Cardinality(S)
  /\ \A S : Gas!IsFiniteSet(S) <=> IsFiniteSet(S)
BY DEF Gas!Cardinality, Cardinality, Gas!IsFiniteSet, IsFiniteSet

CallerStep(s, X) == s.callers[s.root] \cup UNION {s.callers[g] : g \in X}

CallerLevels(s, h) == h = [n \in Nat |-> IF n = 0 THEN {} ELSE CallerStep(s, h[n - 1])]

LEMMA CallerLevelsExist ==
  ASSUME NEW s, Gas!Callers!IsSearch(s)
  PROVE  \E h : CallerLevels(s, h)
<1> DEFINE e == [X \in SUBSET GasFunc |-> CallerStep(s, X)]
<1>1. e \in [SUBSET GasFunc -> SUBSET GasFunc]
  <2>1. ASSUME NEW X \in SUBSET GasFunc PROVE CallerStep(s, X) \in SUBSET GasFunc
    <3>1. /\ \A g \in GasFunc : s.callers[g] \in SUBSET GasFunc
          /\ s.root \in GasFunc
      BY DEF Gas!Callers!IsSearch
    <3> QED
      BY <3>1 DEF CallerStep
  <2> QED
    BY <2>1
<1>2. \A X \in SUBSET GasFunc : e[X] = CallerStep(s, X)
  OBVIOUS
<1>3. {} \in SUBSET GasFunc
  OBVIOUS
<1> HIDE DEF e
<1>4. PICK h \in [Nat -> SUBSET GasFunc] : Recursive({}, e, h)
  BY <1>1, <1>3, Recursion
<1>5. \A n \in Nat : n # 0 => n - 1 \in Nat
  OBVIOUS
<1>6. \A n \in Nat : n # 0 => e[h[n - 1]] = CallerStep(s, h[n - 1])
  BY <1>2, <1>4, <1>5
<1>7. CallerLevels(s, h)
  <2>1. h = [n \in Nat |-> IF n = 0 THEN {} ELSE e[h[n - 1]]]
    BY <1>4, Zenon DEF Recursive
  <2>2. \A n \in Nat : (IF n = 0 THEN {} ELSE e[h[n - 1]]) = IF n = 0 THEN {} ELSE CallerStep(s, h[n - 1])
    BY <1>6, Zenon
  <2>3. [n \in Nat |-> IF n = 0 THEN {} ELSE e[h[n - 1]]]
          = [n \in Nat |-> IF n = 0 THEN {} ELSE CallerStep(s, h[n - 1])]
    BY <2>2, Zenon
  <2> QED
    BY <2>1, <2>3, Zenon DEF CallerLevels
<1> QED
  BY <1>7

(* The callers at most two calls away.                                     *)
LEMMA CallersWithinTwo ==
  ASSUME NEW s, Gas!Callers!IsSearch(s), NEW c
  PROVE  c \in Gas!Callers!CallersWithin(s, 2) <=>
           c \in s.callers[s.root] \/ \E g \in s.callers[s.root] : c \in s.callers[g]
<1> DEFINE w == CHOOSE h : CallerLevels(s, h)
<1>1. CallerLevels(s, w)
  BY CallerLevelsExist
<1>2. Gas!Callers!CallersWithin(s, 2) = w[2]
  BY DEF Gas!Callers!CallersWithin, CallerLevels, CallerStep
<1> HIDE DEF w
<1>3. w[0] = {} /\ w[1] = CallerStep(s, w[0]) /\ w[2] = CallerStep(s, w[1])
  <2>1. \A n \in Nat : w[n] = IF n = 0 THEN {} ELSE CallerStep(s, w[n - 1])
    BY <1>1 DEF CallerLevels
  <2> QED
    BY <2>1
<1>4. w[1] = s.callers[s.root]
  BY <1>3 DEF CallerStep
<1> QED
  BY <1>2, <1>3, <1>4 DEF CallerStep

(* The search has at most two activations: the one of the function and the *)
(* one of a caller.  Its callers are in the set or left to be visited.     *)
OneFrame(a) ==
  /\ a \in Gas!Callers!Frame
  /\ a.fn = search.root /\ a.depth = 2
  /\ a.left \subseteq search.callers[search.root]
  /\ search.callers[search.root] \subseteq set \cup a.left

TwoFrames(a, b) ==
  /\ OneFrame(a)
  /\ b \in Gas!Callers!Frame
  /\ b.fn \in search.callers[search.root] /\ b.depth = 1
  /\ b.left \subseteq search.callers[b.fn]

SearchInv ==
  /\ set \subseteq Gas!Callers!CallersWithin(search, 2)
  /\ \/ stack = <<>> /\ search.callers[search.root] \subseteq set
     \/ \E a : stack = <<a>> /\ OneFrame(a)
     \/ \E a, b : stack = <<a, b>> /\ TwoFrames(a, b)


IsGasSearch == Gas!Callers!IsSearch(search) /\ search.depth = 2

LEMMA SearchTyping == IsGasSearch /\ SearchInv => Gas!Callers!TypeOK
<1>1. SUFFICES ASSUME IsGasSearch, SearchInv PROVE Gas!Callers!TypeOK
  OBVIOUS
<1>2. set \subseteq GasFunc
  <2>1. \A c : c \in set => c \in search.callers[search.root] \/ \E g \in search.callers[search.root] : c \in search.callers[g]
    BY <1>1, CallersWithinTwo DEF SearchInv, IsGasSearch
  <2> QED
    BY <1>1, <2>1 DEF IsGasSearch, Gas!Callers!IsSearch
<1>3. stack \in Seq(Gas!Callers!Frame) /\ \A k \in 1..Len(stack) : stack[k].depth = search.depth - (k - 1)
  <2>1. CASE stack = <<>>
    BY <2>1
  <2>2. ASSUME NEW a, stack = <<a>>, OneFrame(a) PROVE <1>3!1 /\ <1>3!2
    BY <1>1, <2>2 DEF OneFrame, IsGasSearch
  <2>3. ASSUME NEW a, NEW b, stack = <<a, b>>, TwoFrames(a, b) PROVE <1>3!1 /\ <1>3!2
    BY <1>1, <2>3 DEF OneFrame, TwoFrames, IsGasSearch
  <2> QED
    BY <1>1, <2>1, <2>2, <2>3 DEF SearchInv
<1> QED
  BY <1>1, <1>2, <1>3 DEF Gas!Callers!TypeOK, IsGasSearch

LEMMA SearchBegins ==
  ASSUME NEW f \in GasFunc, Gas!IsModule(module), Gas!Callers!Begin(Gas!SearchFor(module, f))
  PROVE  search' = Gas!SearchFor(module, f) /\ IsGasSearch' /\ SearchInv'
<1> DEFINE s == Gas!SearchFor(module, f)
<1>0. PICK a : a = [fn |-> f, left |-> s.callers[f], depth |-> 2]
  OBVIOUS
<1>1. s.root = f /\ s.depth = 2 /\ s.callers \in [GasFunc -> SUBSET GasFunc]
  BY DEF Gas!SearchFor, Gas!CallersIn, Gas!CallerDepth, Gas!IsModule
<1>2. search' = s /\ set' = {} /\ stack' = <<a>>
  BY <1>0, <1>1 DEF Gas!Callers!Begin, Gas!Callers!Call
<1>3. Gas!Callers!IsSearch(s)
  BY <1>1 DEF Gas!Callers!IsSearch
<1>4. a.fn = f /\ a.depth = 2 /\ a.left = s.callers[f] /\ a \in Gas!Callers!Frame
  BY <1>0, <1>1 DEF Gas!Callers!Frame
<1> HIDE DEF s
<1>5. OneFrame(a)'
  BY <1>1, <1>2, <1>4 DEF OneFrame
<1>6. SearchInv'
  BY <1>2, <1>5 DEF SearchInv
<1> QED
  BY <1>1, <1>2, <1>3, <1>6 DEF IsGasSearch, s

LEMMA PushSecond ==
  ASSUME NEW a, NEW b
  PROVE  Append(<<a>>, b) = <<a, b>>
<1>1. <<a>> \in Seq({a, b}) /\ Len(<<a>>) = 1 /\ <<a>>[1] = a
  OBVIOUS
<1>2. <<a, b>> \in Seq({a, b}) /\ Len(<<a, b>>) = 2 /\ <<a, b>>[1] = a /\ <<a, b>>[2] = b
  OBVIOUS
<1>3. PICK s : s = <<a>>
  OBVIOUS
<1>4. Append(s, b) \in Seq({a, b}) /\ Len(Append(s, b)) = 2 /\ Append(s, b)[1] = a /\ Append(s, b)[2] = b
  BY <1>1, <1>3, AppendProperties
<1>5. \A i \in 1..2 : i = 1 \/ i = 2
  OBVIOUS
<1>6. Append(s, b) = <<a, b>>
  BY <1>2, <1>4, <1>5, SeqEqual
<1> QED
  BY <1>3, <1>6

LEMMA PopSecond ==
  ASSUME NEW a, NEW b
  PROVE  SubSeq(<<a, b>>, 1, 1) = <<a>>
<1>1. <<a>> \in Seq({a}) /\ Len(<<a>>) = 1 /\ <<a>>[1] = a
  OBVIOUS
<1>2. PICK s : s = <<a, b>>
  OBVIOUS
<1>3. \A i \in 1..1 : s[i] \in {a}
  BY <1>2
<1>4. SubSeq(s, 1, 1) \in Seq({a}) /\ Len(SubSeq(s, 1, 1)) = 1 /\ \A i \in 1..1 : SubSeq(s, 1, 1)[i] = s[i]
  <2>1. /\ SubSeq(s, 1, 1) \in Seq({a})
        /\ Len(SubSeq(s, 1, 1)) = IF 1 <= 1 THEN 1 - 1 + 1 ELSE 0
        /\ \A i \in 1..1 - 1 + 1 : SubSeq(s, 1, 1)[i] = s[1 + i - 1]
    BY <1>3, SubSeqProperties
  <2> QED
    BY <2>1
<1>5. PICK t : t = <<a>>
  OBVIOUS
<1>6. t \in Seq({a}) /\ Len(t) = 1 /\ \A i \in 1..1 : t[i] = SubSeq(s, 1, 1)[i]
  BY <1>1, <1>3, <1>4, <1>5
<1>7. SubSeq(s, 1, 1) = t
  BY <1>4, <1>6, SeqEqual
<1> QED
  BY <1>2, <1>5, <1>7

LEMMA SearchVisits ==
  ASSUME IsGasSearch, SearchInv, Gas!Callers!VisitCaller
  PROVE  SearchInv'
<1> DEFINE R == search.callers[search.root]
<1>1. /\ stack # <<>>
      /\ search' = search
  BY DEF Gas!Callers!VisitCaller
<1>2. PICK c \in Gas!Callers!Top.left :
        LET next == Gas!Callers!Advance([Gas!Callers!Top EXCEPT !.left = @ \ {c}])
        IN  /\ set' = set \cup {c}
            /\ stack' = IF c \in set THEN next ELSE Gas!Callers!Call(search, next, c, Gas!Callers!Top.depth - 1)
  BY DEF Gas!Callers!VisitCaller
<1>3. search.callers \in [GasFunc -> SUBSET GasFunc] /\ R \subseteq GasFunc
  BY DEF IsGasSearch, Gas!Callers!IsSearch
<1>4. \A x : x \in Gas!Callers!CallersWithin(search, 2) <=> x \in R \/ \E g \in R : x \in search.callers[g]
  BY CallersWithinTwo DEF IsGasSearch
<1>5. ASSUME NEW a, stack = <<a>>, OneFrame(a) PROVE SearchInv'
  <2> DEFINE d == [a EXCEPT !.left = @ \ {c}]
  <2>0. PICK b : b = [fn |-> c, left |-> search.callers[c], depth |-> 1]
    OBVIOUS
  <2>1. Gas!Callers!Top = a /\ c \in a.left
    BY <1>2, <1>5 DEF Gas!Callers!Top
  <2>2. Gas!Callers!Advance(d) = <<d>>
    BY <1>5 DEF Gas!Callers!Advance
  <2>3. /\ a \in Gas!Callers!Frame /\ a.fn = search.root /\ a.depth = 2
        /\ a.left \subseteq R /\ R \subseteq set \cup a.left
    BY <1>5 DEF OneFrame
  <2>4. /\ d \in Gas!Callers!Frame /\ d.fn = search.root /\ d.depth = 2
        /\ d.left = a.left \ {c}
    BY <2>3 DEF Gas!Callers!Frame
  <2>5. c \in R /\ c \in GasFunc
    BY <1>3, <2>1, <2>3
  <2>6. b \in Gas!Callers!Frame /\ b.fn = c /\ b.depth = 1 /\ b.left = search.callers[c]
    BY <1>3, <2>0, <2>5 DEF Gas!Callers!Frame
  <2>7. Gas!Callers!Call(search, <<d>>, c, 1) = <<d, b>>
    <3>1. Append(<<d>>, b) = <<d, b>>
      BY PushSecond
    <3> QED
      BY <2>0, <3>1 DEF Gas!Callers!Call
  <2>8. set' = set \cup {c} /\ stack' \in {<<d>>, <<d, b>>}
    BY <1>2, <2>1, <2>2, <2>3, <2>7
  <2> HIDE DEF d
  <2>9. OneFrame(d)'
    BY <1>1, <2>3, <2>4, <2>8 DEF OneFrame
  <2>10. TwoFrames(d, b)'
    BY <1>1, <2>5, <2>6, <2>9 DEF TwoFrames
  <2>11. set' \subseteq Gas!Callers!CallersWithin(search', 2)
    BY <1>1, <1>4, <2>5, <2>8 DEF SearchInv
  <2> QED
    BY <2>8, <2>9, <2>10, <2>11 DEF SearchInv
<1>6. ASSUME NEW a, NEW b, stack = <<a, b>>, TwoFrames(a, b) PROVE SearchInv'
  <2> DEFINE d == [b EXCEPT !.left = @ \ {c}]
  <2>1. Gas!Callers!Top = b /\ c \in b.left
    BY <1>2, <1>6 DEF Gas!Callers!Top
  <2>2. Gas!Callers!Advance(d) = <<a, d>>
    BY <1>6 DEF Gas!Callers!Advance
  <2>3. /\ b \in Gas!Callers!Frame /\ b.fn \in R /\ b.depth = 1
        /\ b.left \subseteq search.callers[b.fn] /\ OneFrame(a)
    BY <1>6 DEF TwoFrames
  <2>4. /\ d \in Gas!Callers!Frame /\ d.fn = b.fn /\ d.depth = 1
        /\ d.left = b.left \ {c}
    BY <2>3 DEF Gas!Callers!Frame
  <2>5. Gas!Callers!Call(search, <<a, d>>, c, 0) = <<a, d>>
    BY DEF Gas!Callers!Call
  <2>6. set' = set \cup {c} /\ stack' = <<a, d>>
    BY <1>2, <2>1, <2>2, <2>3, <2>5
  <2> HIDE DEF d
  <2>7. OneFrame(a)'
    BY <1>1, <2>3, <2>6 DEF OneFrame
  <2>8. TwoFrames(a, d)'
    BY <1>1, <2>3, <2>4, <2>7 DEF TwoFrames
  <2>9. set' \subseteq Gas!Callers!CallersWithin(search', 2)
    BY <1>1, <1>4, <2>1, <2>3, <2>6 DEF SearchInv
  <2> QED
    BY <2>6, <2>8, <2>9 DEF SearchInv
<1> QED
  BY <1>1, <1>5, <1>6 DEF SearchInv

LEMMA SearchReturns ==
  ASSUME IsGasSearch, SearchInv, Gas!Callers!Return
  PROVE  SearchInv'
<1>1. /\ stack # <<>> /\ Gas!Callers!Top.left = {}
      /\ stack' = SubSeq(stack, 1, Len(stack) - 1)
      /\ search' = search /\ set' = set
  BY DEF Gas!Callers!Return
<1>2. set' \subseteq Gas!Callers!CallersWithin(search', 2)
  BY <1>1 DEF SearchInv
<1>3. ASSUME NEW a, stack = <<a>>, OneFrame(a) PROVE SearchInv'
  <2>1. Gas!Callers!Top = a /\ stack' = <<>>
    BY <1>1, <1>3 DEF Gas!Callers!Top
  <2>2. search.callers[search.root] \subseteq set
    BY <1>1, <1>3, <2>1 DEF OneFrame
  <2> QED
    BY <1>1, <1>2, <2>1, <2>2 DEF SearchInv
<1>4. ASSUME NEW a, NEW b, stack = <<a, b>>, TwoFrames(a, b) PROVE SearchInv'
  <2>1. stack' = <<a>>
    <3>1. Len(stack) - 1 = 1 /\ stack[1] = a
      BY <1>4
    <3>2. stack' = SubSeq(<<a, b>>, 1, 1)
      BY <1>1, <1>4, <3>1
    <3> QED
      BY <3>2, PopSecond
  <2>2. OneFrame(a)'
    BY <1>1, <1>4 DEF OneFrame, TwoFrames
  <2> QED
    BY <1>2, <2>1, <2>2 DEF SearchInv
<1> QED
  BY <1>1, <1>3, <1>4 DEF SearchInv

LEMMA SearchStep ==
  ASSUME IsGasSearch, SearchInv, Gas!Callers!Next
  PROVE  search' = search /\ SearchInv'
<1>1. search' = search
  BY DEF Gas!Callers!Next, Gas!Callers!VisitCaller, Gas!Callers!Return
<1> QED
  BY <1>1, SearchVisits, SearchReturns DEF Gas!Callers!Next


(* A function is searched for its callers as long as its line is begun.  A *)
(* function that expands the storage is yet to be scanned, its line is     *)
(* begun or it has its line.                                               *)
GasInv ==
  /\ Gas!IsModule(module)
  /\ todo \subseteq GasFunc
  /\ out \subseteq [fn : GasFunc, check : BOOLEAN]
  /\ IsGasSearch
  /\ \/ /\ line = {} /\ stack = <<>> /\ set \subseteq GasFunc
     \/ \E f \in GasFunc \ todo :
          /\ line = {f} /\ f \in module.expands /\ ~Gas!LooksAtUsage(module, f)
          /\ search = Gas!SearchFor(module, f)
          /\ SearchInv
  /\ \A l \in out : l.fn \in module.expands /\ l.fn \notin todo /\ l.fn \notin line
  /\ \A k, l \in out : k.fn = l.fn => k = l
  /\ \A f \in module.expands : f \in todo \/ f \in line \/ \E l \in out : l.fn = f
  /\ Gas!PassJustified
  /\ Gas!WarningJustified

LEMMA GasSearch ==
  ASSUME NEW m, NEW f \in GasFunc, Gas!IsModule(m)
  PROVE  /\ Gas!Callers!IsSearch(Gas!SearchFor(m, f))
         /\ Gas!SearchFor(m, f).depth = 2
         /\ Gas!SearchFor(m, f).root = f
         /\ Gas!SearchFor(m, f).callers = Gas!CallersIn(m)
<1> DEFINE s == Gas!SearchFor(m, f)
<1>1. s.root = f /\ s.depth = 2 /\ s.callers = Gas!CallersIn(m)
  BY DEF Gas!SearchFor, Gas!CallerDepth
<1>2. Gas!CallersIn(m) \in [GasFunc -> SUBSET GasFunc]
  BY DEF Gas!CallersIn
<1> QED
  BY <1>1, <1>2 DEF Gas!Callers!IsSearch

LEMMA GasInit ==
  ASSUME Gas!ModulesAssumption, Gas!Init
  PROVE  GasInv
<1> DEFINE f == CHOOSE f \in GasFunc : TRUE
<1>1. f \in GasFunc /\ Gas!IsModule(module) /\ search = Gas!SearchFor(module, f)
  BY DEF Gas!ModulesAssumption, Gas!Init
<1> HIDE DEF f
<1>2. IsGasSearch
  BY <1>1, GasSearch DEF IsGasSearch
<1>3. out = {} /\ todo = GasFunc /\ line = {} /\ stack = <<>> /\ set = {}
  BY DEF Gas!Init
<1>4. module.expands \subseteq GasFunc
  BY <1>1 DEF Gas!IsModule
<1>5. Gas!PassJustified /\ Gas!WarningJustified
  BY <1>3 DEF Gas!PassJustified, Gas!WarningJustified
<1> QED
  BY <1>1, <1>2, <1>3, <1>4, <1>5 DEF GasInv

LEMMA GasSkips ==
  ASSUME GasInv, NEW f \in GasFunc, Gas!SkipFunction(f)
  PROVE  GasInv'
<1>1. /\ line = {} /\ f \in todo /\ f \notin module.expands
      /\ todo' = todo \ {f}
      /\ UNCHANGED <<module, line, out, search, set, stack>>
  BY DEF Gas!SkipFunction
<1>2. IsGasSearch' /\ Gas!PassJustified' /\ Gas!WarningJustified'
  BY <1>1 DEF GasInv, IsGasSearch, Gas!PassJustified, Gas!WarningJustified
<1> QED
  BY <1>1, <1>2 DEF GasInv

(* A function of whose line l is written.                                  *)
LEMMA GasWrites ==
  ASSUME GasInv, NEW f \in GasFunc, NEW c \in BOOLEAN,
         f \in module.expands, f \in todo \/ f \in line,
         todo' = todo \ {f}, line' = {}, stack' = <<>>, set' \subseteq GasFunc,
         line \subseteq {f},
         out' = out \cup {[fn |-> f, check |-> c]},
         UNCHANGED <<module, search>>,
         c => \E g \in {f} \cup Gas!Callers!CallersWithin(Gas!SearchFor(module, f), 2) : Gas!LooksAtUsage(module, g),
         ~c => \A g \in {f} \cup Gas!CallersIn(module)[f] : ~Gas!LooksAtUsage(module, g)
  PROVE  GasInv'
<1> DEFINE x == [fn |-> f, check |-> c]
<1>1. x.fn = f /\ x.check = c /\ x \in [fn : GasFunc, check : BOOLEAN] /\ out' = out \cup {x}
  OBVIOUS
<1> HIDE DEF x
<1>2. IsGasSearch' /\ Gas!IsModule(module)'
  BY DEF GasInv, IsGasSearch
<1>3. \A l \in out : l.fn # f
  BY DEF GasInv
<1>4. Gas!PassJustified' /\ Gas!WarningJustified'
  BY <1>1 DEF GasInv, Gas!PassJustified, Gas!WarningJustified
<1>5. /\ \A l \in out' : l.fn \in module.expands /\ l.fn \notin todo' /\ l.fn \notin line'
      /\ \A k, l \in out' : k.fn = l.fn => k = l
  BY <1>1, <1>3 DEF GasInv
<1>6. \A g \in module.expands : g \in todo' \/ g \in line' \/ \E l \in out' : l.fn = g
  <2>1. TAKE g \in module.expands
  <2>2. CASE g = f
    BY <1>1, <2>2
  <2>3. CASE g # f
    BY <1>1, <2>3 DEF GasInv
  <2> QED
    BY <2>2, <2>3
<1>7. todo' \subseteq GasFunc /\ out' \subseteq [fn : GasFunc, check : BOOLEAN]
  BY <1>1 DEF GasInv
<1> QED
  BY <1>2, <1>4, <1>5, <1>6, <1>7 DEF GasInv

LEMMA GasPasses ==
  ASSUME GasInv, NEW f \in GasFunc, Gas!PassFunction(f)
  PROVE  GasInv'
<1>1. /\ line = {} /\ f \in todo /\ f \in module.expands /\ Gas!LooksAtUsage(module, f)
      /\ todo' = todo \ {f}
      /\ out' = out \cup {[fn |-> f, check |-> TRUE]}
      /\ UNCHANGED <<module, line, search, set, stack>>
  BY DEF Gas!PassFunction, Gas!Pass
<1>2. stack = <<>> /\ set \subseteq GasFunc
  BY <1>1 DEF GasInv
<1>3. \E g \in {f} \cup Gas!Callers!CallersWithin(Gas!SearchFor(module, f), 2) : Gas!LooksAtUsage(module, g)
  BY <1>1
<1> QED
  BY <1>1, <1>2, <1>3, GasWrites

LEMMA GasBegins ==
  ASSUME GasInv, NEW f \in GasFunc, Gas!BeginCallers(f)
  PROVE  GasInv'
<1>1. /\ line = {} /\ f \in todo /\ f \in module.expands /\ ~Gas!LooksAtUsage(module, f)
      /\ todo' = todo \ {f} /\ line' = {f}
      /\ Gas!Callers!Begin(Gas!SearchFor(module, f))
      /\ UNCHANGED <<module, out>>
  BY DEF Gas!BeginCallers
<1>2. search' = Gas!SearchFor(module, f) /\ IsGasSearch' /\ SearchInv'
  BY <1>1, SearchBegins DEF GasInv
<1>3. Gas!PassJustified' /\ Gas!WarningJustified'
  BY <1>1 DEF GasInv, Gas!PassJustified, Gas!WarningJustified
<1>4. /\ \A l \in out' : l.fn \in module.expands /\ l.fn \notin todo' /\ l.fn \notin line'
      /\ \A k, l \in out' : k.fn = l.fn => k = l
      /\ \A g \in module.expands : g \in todo' \/ g \in line' \/ \E l \in out' : l.fn = g
      /\ todo' \subseteq GasFunc /\ f \notin todo' /\ out' \subseteq [fn : GasFunc, check : BOOLEAN]
  BY <1>1 DEF GasInv
<1> QED
  BY <1>1, <1>2, <1>3, <1>4 DEF GasInv

LEMMA GasSearches ==
  ASSUME GasInv, Gas!SearchCallers
  PROVE  GasInv'
<1>1. /\ line # {} /\ Gas!Callers!Next
      /\ UNCHANGED <<module, todo, line, out>>
  BY DEF Gas!SearchCallers
<1>2. IsGasSearch /\ SearchInv
  BY <1>1 DEF GasInv
<1>3. search' = search /\ SearchInv'
  BY <1>1, <1>2, SearchStep
<1>4. Gas!PassJustified' /\ Gas!WarningJustified' /\ IsGasSearch'
  BY <1>1, <1>3 DEF GasInv, Gas!PassJustified, Gas!WarningJustified, IsGasSearch
<1> QED
  BY <1>1, <1>3, <1>4 DEF GasInv

(* When the callers are known, those of the function itself are among them. *)
LEMMA GasJudges ==
  ASSUME GasInv, NEW f \in GasFunc, Gas!JudgeCallers(f)
  PROVE  GasInv'
<1> DEFINE looks == \E g \in set : Gas!LooksAtUsage(module, g)
<1>1. /\ line = {f} /\ stack = <<>>
      /\ out' = out \cup {IF looks THEN [fn |-> f, check |-> TRUE] ELSE [fn |-> f, check |-> FALSE]}
      /\ line' = {}
      /\ UNCHANGED <<module, todo, search, set, stack>>
  BY DEF Gas!JudgeCallers, Gas!Pass, Gas!Warn
<1>2. /\ f \notin todo /\ f \in module.expands /\ ~Gas!LooksAtUsage(module, f)
      /\ search = Gas!SearchFor(module, f) /\ SearchInv /\ IsGasSearch /\ Gas!IsModule(module)
  BY <1>1 DEF GasInv
<1>3. set \subseteq Gas!Callers!CallersWithin(search, 2) /\ search.callers[search.root] \subseteq set
  <2>1. \A a, b : stack # <<a>> /\ stack # <<a, b>>
    <3>1. Len(stack) = 0
      BY <1>1
    <3>2. \A a, b : Len(<<a>>) = 1 /\ Len(<<a, b>>) = 2
      OBVIOUS
    <3> QED
      BY <3>1, <3>2
  <2> QED
    BY <1>2, <2>1 DEF SearchInv
<1>4. search.callers[search.root] = Gas!CallersIn(module)[f]
  BY <1>2, GasSearch
<1>5. set \subseteq GasFunc
  BY <1>2, SearchTyping DEF Gas!Callers!TypeOK
<1>6. todo' = todo \ {f} /\ line' = {} /\ stack' = <<>> /\ set' \subseteq GasFunc
  BY <1>1, <1>2, <1>5
<1>7. CASE looks
  <2>1. out' = out \cup {[fn |-> f, check |-> TRUE]}
    BY <1>1, <1>7
  <2>2. \E g \in {f} \cup Gas!Callers!CallersWithin(Gas!SearchFor(module, f), 2) : Gas!LooksAtUsage(module, g)
    BY <1>2, <1>3, <1>7
  <2> QED
    BY <1>1, <1>2, <1>6, <2>1, <2>2, GasWrites
<1>8. CASE ~looks
  <2>1. out' = out \cup {[fn |-> f, check |-> FALSE]}
    BY <1>1, <1>8
  <2>2. \A g \in {f} \cup Gas!CallersIn(module)[f] : ~Gas!LooksAtUsage(module, g)
    BY <1>2, <1>3, <1>4, <1>8
  <2> QED
    BY <1>1, <1>2, <1>6, <2>1, <2>2, GasWrites
<1> QED
  BY <1>7, <1>8

LEMMA GasStutter ==
  ASSUME GasInv, UNCHANGED Gas!vars
  PROVE  GasInv'
<1>1. UNCHANGED <<module, todo, line, out, search, set, stack>>
  BY DEF Gas!vars
<1>2. IsGasSearch' <=> IsGasSearch
  BY <1>1 DEF IsGasSearch
<1>3. SearchInv' <=> SearchInv
  BY <1>1 DEF SearchInv, OneFrame, TwoFrames
<1>4. (Gas!PassJustified' <=> Gas!PassJustified) /\ (Gas!WarningJustified' <=> Gas!WarningJustified)
  BY <1>1 DEF Gas!PassJustified, Gas!WarningJustified
<1> QED
  BY <1>1, <1>2, <1>3, <1>4 DEF GasInv

LEMMA GasNext == GasInv /\ [Gas!Next]_Gas!vars => GasInv'
BY GasSkips, GasPasses, GasBegins, GasSearches, GasJudges, GasStutter DEF Gas!Next

LEMMA GasTyping == GasInv => Gas!TypeOK
<1>1. SUFFICES ASSUME GasInv PROVE Gas!TypeOK
  OBVIOUS
<1>2. CASE line = {}
  <2>1. IsGasSearch /\ stack = <<>> /\ set \subseteq GasFunc
    BY <1>1, <1>2 DEF GasInv
  <2>2. Gas!Callers!TypeOK
    BY <2>1 DEF Gas!Callers!TypeOK, IsGasSearch
  <2> QED
    BY <1>1, <1>2, <2>1, <2>2 DEF GasInv, Gas!TypeOK
<1>3. CASE line # {}
  <2>1. PICK f \in GasFunc \ todo : line = {f} /\ search = Gas!SearchFor(module, f) /\ SearchInv
    BY <1>1, <1>3 DEF GasInv
  <2>2. Gas!Callers!TypeOK
    BY <1>1, <2>1, SearchTyping DEF GasInv
  <2> QED
    BY <1>1, <2>1, <2>2 DEF GasInv, Gas!TypeOK
<1> QED
  BY <1>2, <1>3

LEMMA GasGives ==
  ASSUME Gas!ModulesAssumption, GasInv
  PROVE  Gas!PassJustified /\ Gas!WarningJustified /\ Gas!OneLinePerExpansion
<1>1. ASSUME todo = {}, line = {}
      PROVE  {l.fn : l \in out} = module.expands /\ Cardinality(out) = Cardinality(module.expands)
  <2>1. /\ \A f \in module.expands : \E l \in out : l.fn = f
        /\ \A l \in out : l.fn \in module.expands
        /\ \A k, l \in out : k.fn = l.fn => k = l
        /\ module.expands \subseteq GasFunc
    BY <1>1 DEF GasInv, Gas!IsModule
  <2>2. IsFiniteSet(module.expands)
    BY <2>1, GasCardinality, FS_Subset DEF Gas!ModulesAssumption
  <2> DEFINE b == [f \in module.expands |-> CHOOSE l \in out : l.fn = f]
  <2>3. \A f \in module.expands : b[f] \in out /\ b[f].fn = f
    BY <2>1
  <2>4. \A l \in out : b[l.fn] = l
    BY <2>1, <2>3
  <2>5. b \in [module.expands -> out]
    BY <2>3
  <2> HIDE DEF b
  <2>6. b \in Bijection(module.expands, out)
    BY <2>1, <2>3, <2>4, <2>5 DEF Bijection, Injection, Surjection, IsInjective
  <2>7. Cardinality(out) = Cardinality(module.expands)
    BY <2>2, <2>6, FS_Bijection DEF ExistsBijection
  <2> QED
    BY <2>1, <2>7
<1> QED
  BY <1>1, GasCardinality DEF GasInv, Gas!OneLinePerExpansion, Gas!Finished

-----------------------------------------------------------------------------
(* The scans: the bitcodes of a job, and the cursor.                       *)
LEMMA ScanSets ==
  /\ \A S : Scan!Cardinality(S) = Cardinality(S)
  /\ \A S : Scan!IsFiniteSet(S) <=> IsFiniteSet(S)
BY DEF Scan!Cardinality, Cardinality, Scan!IsFiniteSet, IsFiniteSet

IsSite(m, f, b, k) == b \in 1..Len(m.body[f]) /\ k \in 1..Len(m.body[f][b])

LEMMA BitcodeOrder ==
  ASSUME NEW m, Scan!IsBitcode(m)
  PROVE  /\ Len(m.order) \in Nat
         /\ \A j \in 1..Len(m.order) : m.order[j] \in ScanFunc
         /\ \A f \in ScanFunc : \E j \in 1..Len(m.order) : m.order[j] = f
         /\ \A i, j \in 1..Len(m.order) : m.order[i] = m.order[j] => i = j
<1>1. m.order \in Seq(ScanFunc) /\ \A f \in ScanFunc : Cardinality({k \in 1..Len(m.order) : m.order[k] = f}) = 1
  BY ScanSets, Zenon DEF Scan!IsBitcode
<1>2. Len(m.order) \in Nat /\ \A j \in 1..Len(m.order) : m.order[j] \in ScanFunc
  BY <1>1
<1>3. \A f \in ScanFunc : \E j \in 1..Len(m.order) : m.order[j] = f
  BY <1>1, OccursOnce
<1>4. ASSUME NEW i \in 1..Len(m.order), NEW j \in 1..Len(m.order), m.order[i] = m.order[j] PROVE i = j
  <2> DEFINE K == {k \in 1..Len(m.order) : m.order[k] = m.order[i]}
  <2>1. Cardinality(K) = 1 /\ i \in K /\ j \in K
    BY <1>1, <1>2, <1>4
  <2>2. IsFiniteSet(K)
    <3>1. K \subseteq 1..Len(m.order)
      OBVIOUS
    <3>2. IsFiniteSet(1..Len(m.order))
      BY <1>2, FS_Interval
    <3> HIDE DEF K
    <3> QED
      BY <3>1, <3>2, FS_Subset
  <2> HIDE DEF K
  <2>3. PICK x : K = {x}
    BY <2>1, <2>2, FS_Singleton
  <2> QED
    BY <2>1, <2>3
<1> QED
  BY <1>2, <1>3, <1>4

LEMMA BitcodeBody ==
  ASSUME NEW m, Scan!IsBitcode(m), NEW f \in ScanFunc
  PROVE  /\ Len(m.body[f]) \in Nat
         /\ \A b \in 1..Len(m.body[f]) : Len(m.body[f][b]) \in Nat \ {0}
         /\ \A b, k : IsSite(m, f, b, k) =>
              /\ m.body[f][b][k] \in Scan!Inst
              /\ m.body[f][b][k].op = "br" => k = Len(m.body[f][b])
              /\ \A n \in 1..Len(m.body[f][b][k].to) : m.body[f][b][k].to[n] \in 1..Len(m.body[f])
<1>1. m.body[f] \in Seq(Seq(Scan!Inst)) /\ \A b \in 1..Len(m.body[f]) : Scan!IsBlock(m.body[f], b)
  BY DEF Scan!IsBitcode
<1> DEFINE body == m.body[f]
<1> HIDE DEF body
<1>2. body \in Seq(Seq(Scan!Inst)) /\ \A b \in 1..Len(body) : Scan!IsBlock(body, b)
  BY <1>1 DEF body
<1>3. Len(body) \in Nat /\ \A b \in 1..Len(body) : body[b] \in Seq(Scan!Inst) /\ body[b] # <<>>
  BY <1>2 DEF Scan!IsBlock
<1>4. \A b \in 1..Len(body) : Len(body[b]) \in Nat \ {0} /\ \A k \in 1..Len(body[b]) : body[b][k] \in Scan!Inst
  BY <1>3, EmptySeq
<1> QED
  BY <1>2, <1>3, <1>4 DEF body, IsSite, Scan!IsBlock

LEMMA JobBitcodes ==
  ASSUME Scan!JobsAssumption, NEW j \in Jobs
  PROVE  /\ Len(j.bitcodes) \in Nat \ {0}
         /\ \A n \in 1..Len(j.bitcodes) : Scan!IsBitcode(j.bitcodes[n])
<1>1. j.bitcodes # <<>> /\ j.bitcodes \in Seq({j.bitcodes[n] : n \in DOMAIN j.bitcodes})
  BY DEF Scan!JobsAssumption
<1>2. Len(j.bitcodes) \in Nat \ {0}
  BY <1>1, EmptySeq
<1> QED
  BY <1>2 DEF Scan!JobsAssumption

(* A position in a bitcode: in a function, at its end or at the end.       *)
Position == [fn : Nat \ {0}, block : Nat \ {0}, inst : Nat \ {0}]

IsCursor(m, q) ==
  /\ q \in Position
  /\ q.fn <= Len(m.order) + 1
  /\ q.fn > Len(m.order) => q.block = 1 /\ q.inst = 1
  /\ q.fn <= Len(m.order) =>
       /\ q.block <= Len(m.body[m.order[q.fn]]) + 1
       /\ q.block <= Len(m.body[m.order[q.fn]]) => q.inst <= Len(m.body[m.order[q.fn]][q.block])

ScanShape ==
  /\ job \in Jobs
  /\ detector \in Scan!Detectors \cup {"ext-call"}
  /\ bitcode \in 1..Len(job.bitcodes)
  /\ IsCursor(Scan!Bitcode, pos)
  /\ found \subseteq {"deploy_contract", "batch_function_call"}
  /\ found # {} => detector = "upgrade-func" /\ pos # Scan!Start /\ pos.fn <= Len(Scan!Bitcode.order)
  /\ at \in {"scan", "walk", "crashed", "done"}
  /\ at \in {"scan", "done"} => walk = 0
  /\ at = "walk" =>
       /\ detector = "reentrancy" /\ pos.fn <= Len(Scan!Bitcode.order)
       /\ walk \in 1..Len(Scan!Body)
  /\ at = "crashed" => (walk # 0 <=> detector = "reentrancy")
  /\ at = "done" => /\ pos.fn > Len(Scan!Bitcode.order) /\ bitcode = Len(job.bitcodes)
                    /\ detector # "ext-call-trait"
  /\ detector = "ext-call-trait" => out = {}
  /\ traits \subseteq ScanFunc
  /\ \A l \in out : l.of \in 1..bitcode /\ l.fn \in ScanFunc

LEMMA StartCursor ==
  ASSUME NEW m, Scan!IsBitcode(m), NEW n \in 1..Len(m.order) + 1
  PROVE  IsCursor(m, [Scan!Start EXCEPT !.fn = n])
<1> DEFINE q == [Scan!Start EXCEPT !.fn = n]
<1>1. q.fn = n /\ q.block = 1 /\ q.inst = 1 /\ q = [fn |-> n, block |-> 1, inst |-> 1]
  BY DEF Scan!Start
<1>2. Len(m.order) \in Nat
  BY BitcodeOrder
<1>3. n \in Nat \ {0} /\ n <= Len(m.order) + 1
  BY <1>2
<1>4. q \in Position
  BY <1>1, <1>3 DEF Position
<1>5. ASSUME n <= Len(m.order)
      PROVE  /\ 1 <= Len(m.body[m.order[n]]) + 1
             /\ 1 <= Len(m.body[m.order[n]]) => 1 <= Len(m.body[m.order[n]][1])
  <2>1. m.order[n] \in ScanFunc
    BY <1>3, <1>5, BitcodeOrder
  <2>2. /\ Len(m.body[m.order[n]]) \in Nat
        /\ \A b \in 1..Len(m.body[m.order[n]]) : Len(m.body[m.order[n]][b]) \in Nat \ {0}
    BY <2>1, BitcodeBody
  <2> DEFINE l == Len(m.body[m.order[n]])
             d == Len(m.body[m.order[n]][1])
  <2>3. l \in Nat /\ (l >= 1 => d \in Nat \ {0})
    BY <2>2
  <2> HIDE DEF l, d
  <2>4. 1 <= l + 1 /\ (1 <= l => 1 <= d)
    BY <2>3
  <2> QED
    BY <2>4 DEF l, d
<1> HIDE DEF q
<1> QED
  BY <1>1, <1>3, <1>4, <1>5 DEF IsCursor, q

(* What the cursor is at.                                                  *)
LEMMA CursorIs ==
  ASSUME Scan!JobsAssumption, ScanShape
  PROVE  /\ Len(job.bitcodes) \in Nat \ {0} /\ bitcode \in 1..Len(job.bitcodes)
         /\ Scan!Bitcode = job.bitcodes[bitcode]
         /\ Scan!IsBitcode(Scan!Bitcode)
         /\ Len(Scan!Bitcode.order) \in Nat
         /\ pos.fn \in Nat \ {0} /\ pos.block \in Nat \ {0} /\ pos.inst \in Nat \ {0}
         /\ pos.fn <= Len(Scan!Bitcode.order) + 1
         /\ pos.fn <= Len(Scan!Bitcode.order) =>
              /\ pos.fn \in 1..Len(Scan!Bitcode.order)
              /\ Scan!Here = Scan!Bitcode.order[pos.fn] /\ Scan!Here \in ScanFunc
              /\ Scan!Body = Scan!Bitcode.body[Scan!Here]
              /\ Len(Scan!Body) \in Nat
              /\ pos.block \in 1..Len(Scan!Body) + 1
              /\ pos.block <= Len(Scan!Body) =>
                   /\ pos.block \in 1..Len(Scan!Body)
                   /\ Len(Scan!Body[pos.block]) \in Nat \ {0}
                   /\ pos.inst \in 1..Len(Scan!Body[pos.block])
                   /\ Scan!I \in Scan!Inst
                   /\ Scan!I = Scan!Bitcode.body[Scan!Here][pos.block][pos.inst]
<1>1. Len(job.bitcodes) \in Nat \ {0} /\ bitcode \in 1..Len(job.bitcodes) /\ Scan!IsBitcode(job.bitcodes[bitcode])
  BY JobBitcodes DEF ScanShape
<1>2. Scan!Bitcode = job.bitcodes[bitcode]
  BY DEF Scan!Bitcode
<1>3. Len(Scan!Bitcode.order) \in Nat /\ \A j \in 1..Len(Scan!Bitcode.order) : Scan!Bitcode.order[j] \in ScanFunc
  BY <1>1, <1>2, BitcodeOrder
<1>4. IsCursor(Scan!Bitcode, pos)
  BY DEF ScanShape
<1>5. /\ pos.fn \in Nat \ {0} /\ pos.block \in Nat \ {0} /\ pos.inst \in Nat \ {0}
      /\ pos.fn <= Len(Scan!Bitcode.order) + 1
  BY <1>4 DEF IsCursor, Position
<1>6. ASSUME pos.fn <= Len(Scan!Bitcode.order)
      PROVE  /\ pos.fn \in 1..Len(Scan!Bitcode.order)
             /\ Scan!Here = Scan!Bitcode.order[pos.fn] /\ Scan!Here \in ScanFunc
             /\ Scan!Body = Scan!Bitcode.body[Scan!Here]
             /\ Len(Scan!Body) \in Nat
             /\ pos.block \in 1..Len(Scan!Body) + 1
             /\ pos.block <= Len(Scan!Body) =>
                  /\ pos.block \in 1..Len(Scan!Body)
                  /\ Len(Scan!Body[pos.block]) \in Nat \ {0}
                  /\ pos.inst \in 1..Len(Scan!Body[pos.block])
                  /\ Scan!I \in Scan!Inst
                  /\ Scan!I = Scan!Bitcode.body[Scan!Here][pos.block][pos.inst]
  <2>1. pos.fn \in 1..Len(Scan!Bitcode.order)
    BY <1>3, <1>5, <1>6
  <2>2. Scan!Here = Scan!Bitcode.order[pos.fn] /\ Scan!Here \in ScanFunc /\ Scan!Body = Scan!Bitcode.body[Scan!Here]
    BY <1>3, <2>1 DEF Scan!Here, Scan!Body
  <2>3. /\ Len(Scan!Body) \in Nat
        /\ \A b \in 1..Len(Scan!Body) : Len(Scan!Body[b]) \in Nat \ {0}
        /\ \A b, k : IsSite(Scan!Bitcode, Scan!Here, b, k) => Scan!Body[b][k] \in Scan!Inst
    BY <1>1, <1>2, <2>2, BitcodeBody
  <2>4. /\ pos.block <= Len(Scan!Body) + 1
        /\ pos.block <= Len(Scan!Body) => pos.inst <= Len(Scan!Body[pos.block])
    BY <1>4, <1>6, <2>2 DEF IsCursor
  <2>5. pos.block \in 1..Len(Scan!Body) + 1
    BY <1>5, <2>3, <2>4
  <2>6. ASSUME pos.block <= Len(Scan!Body)
        PROVE  /\ pos.block \in 1..Len(Scan!Body)
               /\ Len(Scan!Body[pos.block]) \in Nat \ {0}
               /\ pos.inst \in 1..Len(Scan!Body[pos.block])
    BY <1>5, <2>3, <2>4, <2>6
  <2>7. Scan!I = Scan!Body[pos.block][pos.inst]
    BY DEF Scan!I
  <2> QED
    BY <2>1, <2>2, <2>3, <2>5, <2>6, <2>7 DEF IsSite
<1> QED
  BY <1>1, <1>2, <1>3, <1>5, <1>6


LEMMA Moves ==
  ASSUME Scan!JobsAssumption, ScanShape, pos.fn <= Len(Scan!Bitcode.order)
  PROVE  /\ IsCursor(Scan!Bitcode, Scan!NextFunction) /\ Scan!NextFunction \in Position
         /\ Scan!NextFunction.fn = pos.fn + 1 /\ Scan!NextFunction.block = 1 /\ Scan!NextFunction.inst = 1
         /\ IsCursor(Scan!Bitcode, Scan!ModuleEnd) /\ Scan!ModuleEnd \in Position
         /\ Scan!ModuleEnd.fn = Len(Scan!Bitcode.order) + 1 /\ Scan!ModuleEnd.block = 1 /\ Scan!ModuleEnd.inst = 1
<1>1. pos.fn + 1 \in 1..Len(Scan!Bitcode.order) + 1 /\ Len(Scan!Bitcode.order) + 1 \in 1..Len(Scan!Bitcode.order) + 1
  BY CursorIs
<1>2. IsCursor(Scan!Bitcode, Scan!NextFunction) /\ IsCursor(Scan!Bitcode, Scan!ModuleEnd)
  BY <1>1, CursorIs, StartCursor DEF Scan!NextFunction, Scan!ModuleEnd
<1>3. Scan!NextFunction \in Position /\ Scan!ModuleEnd \in Position
  BY <1>2 DEF IsCursor
<1>4. /\ Scan!NextFunction.fn = pos.fn + 1 /\ Scan!NextFunction.block = 1 /\ Scan!NextFunction.inst = 1
      /\ Scan!ModuleEnd.fn = Len(Scan!Bitcode.order) + 1 /\ Scan!ModuleEnd.block = 1 /\ Scan!ModuleEnd.inst = 1
  BY DEF Scan!NextFunction, Scan!ModuleEnd, Scan!Start
<1> QED
  BY <1>2, <1>3, <1>4

LEMMA MovesInFunction ==
  ASSUME Scan!JobsAssumption, ScanShape, pos.fn <= Len(Scan!Bitcode.order), pos.block <= Len(Scan!Body)
  PROVE  /\ IsCursor(Scan!Bitcode, Scan!NextInst) /\ Scan!NextInst # Scan!Start
         /\ IsCursor(Scan!Bitcode, Scan!NextBlock)
         /\ Scan!NextInst.fn = pos.fn /\ Scan!NextBlock.fn = pos.fn
         /\ Scan!NextBlock.block = pos.block + 1 /\ Scan!NextBlock.inst = 1
         /\ \/ /\ pos.inst < Len(Scan!Body[pos.block])
               /\ Scan!NextInst.block = pos.block /\ Scan!NextInst.inst = pos.inst + 1
            \/ /\ pos.inst = Len(Scan!Body[pos.block])
               /\ Scan!NextInst.block = pos.block + 1 /\ Scan!NextInst.inst = 1
<1> DEFINE body == Scan!Body
           n == Len(Scan!Bitcode.order)
<1>1. /\ pos.fn \in 1..n /\ n \in Nat /\ pos.block \in 1..Len(body) /\ Len(body) \in Nat
      /\ Len(body[pos.block]) \in Nat \ {0} /\ pos.inst \in 1..Len(body[pos.block])
      /\ body = Scan!Bitcode.body[Scan!Bitcode.order[pos.fn]]
      /\ Scan!IsBitcode(Scan!Bitcode) /\ Scan!Bitcode.order[pos.fn] \in ScanFunc
  BY CursorIs
<1>2. pos \in Position
  BY DEF ScanShape, IsCursor
<1>3. \A b \in 1..Len(body) : Len(body[b]) \in Nat \ {0}
  BY <1>1, BitcodeBody
<1>4. IsCursor(Scan!Bitcode, Scan!NextBlock) /\ Scan!NextBlock.fn = pos.fn
      /\ Scan!NextBlock.block = pos.block + 1 /\ Scan!NextBlock.inst = 1
  <2> DEFINE q == Scan!NextBlock
  <2>1. q \in Position /\ q.fn = pos.fn /\ q.block = pos.block + 1 /\ q.inst = 1
    <3>1. q = [pos EXCEPT !.block = pos.block + 1, !.inst = 1]
      BY DEF Scan!NextBlock
    <3>2. pos.block + 1 \in Nat \ {0} /\ 1 \in Nat \ {0}
      BY <1>1
    <3> HIDE DEF q
    <3> QED
      BY <1>2, <3>1, <3>2 DEF Position
  <2> HIDE DEF q
  <2>2. q.block <= Len(body) => q.inst <= Len(body[q.block])
    <3>1. ASSUME q.block <= Len(body) PROVE q.block \in 1..Len(body)
      BY <1>1, <2>1, <3>1
    <3>2. \A b \in 1..Len(body) : 1 <= Len(body[b])
      BY <1>3
    <3> QED
      BY <2>1, <3>1, <3>2
  <2>3. q.fn <= n + 1 /\ ~(q.fn > n) /\ q.block <= Len(body) + 1
    <3>1. \A i : i \in 1..n => i <= n + 1 /\ ~(i > n)
      BY <1>1
    <3>2. \A b : b \in 1..Len(body) => b + 1 <= Len(body) + 1
      BY <1>1
    <3> QED
      BY <1>1, <2>1, <3>1, <3>2, Zenon
  <2> QED
    BY <1>1, <2>1, <2>2, <2>3 DEF IsCursor, q
<1>5. CASE pos.inst < Len(body[pos.block])
  <2> DEFINE q == [pos EXCEPT !.inst = @ + 1]
  <2>1. Scan!NextInst = q
    BY <1>5 DEF Scan!NextInst
  <2>2. q \in Position /\ q.fn = pos.fn /\ q.block = pos.block /\ q.inst = pos.inst + 1
    BY <1>1, <1>2 DEF Position
  <2> HIDE DEF q
  <2>3. /\ q.fn <= n + 1 /\ ~(q.fn > n) /\ q.block <= Len(body) + 1
        /\ q.inst <= Len(body[q.block]) /\ q.inst # 1
    <3>1. q.fn <= n + 1 /\ ~(q.fn > n)
      BY <1>1, <2>2
    <3>2. q.block <= Len(body) + 1
      BY <1>1, <2>2
    <3> DEFINE l == Len(body[pos.block])
    <3>3. l \in Nat /\ pos.inst \in 1..l /\ pos.inst < l
      BY <1>1, <1>5
    <3> HIDE DEF l
    <3>4. pos.inst + 1 <= l /\ pos.inst + 1 # 1
      BY <3>3
    <3> QED
      BY <2>2, <3>1, <3>2, <3>4 DEF l
  <2>4. q # Scan!Start
    BY <2>3 DEF Scan!Start
  <2>5. IsCursor(Scan!Bitcode, q)
    BY <1>1, <2>2, <2>3 DEF IsCursor
  <2> QED
    BY <1>4, <1>5, <2>1, <2>2, <2>4, <2>5
<1>6. CASE ~(pos.inst < Len(body[pos.block]))
  <2>1. Scan!NextInst = Scan!NextBlock
    BY <1>6 DEF Scan!NextInst
  <2> DEFINE l == Len(body[pos.block])
  <2>3. l \in Nat /\ pos.inst \in 1..l /\ ~(pos.inst < l)
    BY <1>1, <1>6
  <2> HIDE DEF l
  <2>4. pos.inst = l
    BY <2>3
  <2>2. Scan!NextBlock # Scan!Start
    <3>1. Scan!NextBlock.block # 1
      BY <1>1, <1>4
    <3> QED
      BY <3>1 DEF Scan!Start
  <2> QED
    BY <1>4, <2>1, <2>2, <2>4 DEF l
<1> QED
  BY <1>5, <1>6

LEMMA ShapeScan ==
  ASSUME ScanShape, at = "scan", UNCHANGED <<job, detector, bitcode, walk, at>>,
         IsCursor(Scan!Bitcode, pos'),
         found' \subseteq {"deploy_contract", "batch_function_call"},
         found' # {} => detector = "upgrade-func" /\ pos' # Scan!Start /\ pos'.fn <= Len(Scan!Bitcode.order),
         detector = "ext-call-trait" => out' = {},
         traits' \subseteq ScanFunc,
         \A l \in out' : l.of \in 1..bitcode /\ l.fn \in ScanFunc
  PROVE  ScanShape'
<1>1. Scan!Bitcode' = Scan!Bitcode /\ Scan!Start' = Scan!Start
  BY DEF Scan!Bitcode, Scan!Start
<1> QED
  BY <1>1 DEF ScanShape

LEMMA ShapeOut ==
  ASSUME Scan!JobsAssumption, ScanShape
  PROVE  /\ found \subseteq {"deploy_contract", "batch_function_call"} /\ traits \subseteq ScanFunc
         /\ detector # "upgrade-func" => found = {}
         /\ pos.fn > Len(Scan!Bitcode.order) => found = {}
         /\ bitcode \in 1..Len(job.bitcodes)
         /\ detector = "ext-call-trait" => out = {}
         /\ \A l \in out : l.of \in 1..bitcode /\ l.fn \in ScanFunc
<1>1. Len(Scan!Bitcode.order) \in Nat /\ pos.fn \in Nat
  BY CursorIs
<1>2. pos.fn > Len(Scan!Bitcode.order) => ~(pos.fn <= Len(Scan!Bitcode.order))
  BY <1>1
<1> QED
  BY <1>2, Zenon DEF ScanShape

(* The steps that go on at the next instruction, block or function.        *)
LEMMA ShapeOnInst ==
  ASSUME Scan!JobsAssumption, ScanShape,
         Scan!SkipInst \/ Scan!ScanLine \/ Scan!ScanTrait \/ Scan!ScanUpgrade \/ Scan!ScanPrepaidGas
           \/ Scan!ScanGet \/ Scan!ScanResult
  PROVE  ScanShape'
<1>1. /\ at = "scan" /\ pos.fn <= Len(Scan!Bitcode.order) /\ pos.block <= Len(Scan!Body)
      /\ UNCHANGED <<job, detector, bitcode, walk, at>>
  BY DEF Scan!SkipInst, Scan!ScanLine, Scan!ScanTrait, Scan!ScanUpgrade, Scan!ScanPrepaidGas, Scan!ScanGet,
         Scan!ScanResult, Scan!AtOwn, Scan!AtInst, Scan!InModule, Scan!Fixed
<1>2. \/ pos' = Scan!NextInst
      \/ detector # "upgrade-func" /\ pos' \in {Scan!NextBlock, Scan!NextFunction, Scan!ModuleEnd}
  BY DEF Scan!SkipInst, Scan!ScanLine, Scan!ScanTrait, Scan!ScanUpgrade, Scan!ScanPrepaidGas, Scan!ScanGet,
         Scan!ScanResult, Scan!AtOwn
<1>3. Scan!Here \in ScanFunc /\ bitcode \in 1..bitcode
  BY <1>1, CursorIs
<1>4. IsCursor(Scan!Bitcode, pos') /\ (detector = "upgrade-func" => pos' # Scan!Start /\ pos'.fn <= Len(Scan!Bitcode.order))
  BY <1>1, <1>2, Moves, MovesInFunction
<1>5. /\ found' \subseteq {"deploy_contract", "batch_function_call"}
      /\ detector # "upgrade-func" => found' = found
  BY ShapeOut DEF Scan!SkipInst, Scan!ScanLine, Scan!ScanTrait, Scan!ScanUpgrade, Scan!ScanPrepaidGas, Scan!ScanGet,
         Scan!ScanResult, Scan!AtOwn
<1>6. traits' \subseteq ScanFunc
  BY <1>3, ShapeOut DEF Scan!SkipInst, Scan!ScanLine, Scan!ScanTrait, Scan!ScanUpgrade, Scan!ScanPrepaidGas, Scan!ScanGet,
         Scan!ScanResult
<1>7. detector = "ext-call-trait" => out' = {}
  BY ShapeOut DEF Scan!SkipInst, Scan!ScanLine, Scan!ScanTrait, Scan!ScanUpgrade, Scan!ScanPrepaidGas, Scan!ScanGet,
         Scan!ScanResult, Scan!AtOwn, Scan!LineDetectors
<1>8. \A l \in out' : l.of \in 1..bitcode /\ l.fn \in ScanFunc
  <2>1. /\ Scan!Line.of = bitcode /\ Scan!Line.fn = Scan!Here
        /\ Scan!Verdict(TRUE).of = bitcode /\ Scan!Verdict(TRUE).fn = Scan!Here
    BY DEF Scan!Line, Scan!Verdict
  <2>2. out' \subseteq out \cup {Scan!Line, Scan!Verdict(TRUE)}
    <3>1. CASE Scan!SkipInst \/ Scan!ScanTrait \/ Scan!ScanUpgrade \/ Scan!ScanResult
      BY <3>1 DEF Scan!SkipInst, Scan!ScanTrait, Scan!ScanUpgrade, Scan!ScanResult
    <3>2. CASE Scan!ScanLine \/ Scan!ScanGet
      <4>1. CASE Scan!ScanLine
        BY <4>1, Zenon DEF Scan!ScanLine
      <4>2. CASE Scan!ScanGet
        BY <4>2, Zenon DEF Scan!ScanGet
      <4> QED
        BY <3>2, <4>1, <4>2
    <3>3. CASE Scan!ScanPrepaidGas
      BY <3>3 DEF Scan!ScanPrepaidGas
    <3> QED
      BY <3>1, <3>2, <3>3
  <2> QED
    BY <1>3, <2>1, <2>2, ShapeOut
<1> QED
  BY <1>1, <1>4, <1>5, <1>6, <1>7, <1>8, ShapeOut, ShapeScan

LEMMA ShapeOnFunction ==
  ASSUME Scan!JobsAssumption, ScanShape,
         Scan!EndUpgrade \/ Scan!LeaveFunction \/ Scan!EndPrepaidGas \/ Scan!EndFunction
  PROVE  ScanShape'
<1>1. /\ at = "scan" /\ pos.fn <= Len(Scan!Bitcode.order)
      /\ UNCHANGED <<job, detector, bitcode, walk, at, traits>>
      /\ pos' = Scan!NextFunction
  BY DEF Scan!EndUpgrade, Scan!LeaveFunction, Scan!EndPrepaidGas, Scan!EndFunction, Scan!AtFunctionEnd,
         Scan!AtInst, Scan!InModule, Scan!Fixed
<1>2. Scan!Here \in ScanFunc /\ bitcode \in 1..bitcode
  BY <1>1, CursorIs
<1>3. IsCursor(Scan!Bitcode, pos')
  BY <1>1, Moves
<1>4. found' = {}
  BY ShapeOut DEF Scan!EndUpgrade, Scan!LeaveFunction, Scan!EndPrepaidGas, Scan!EndFunction, Scan!LeavesFunction
<1>5. detector = "ext-call-trait" => out' = {}
  BY ShapeOut DEF Scan!EndUpgrade, Scan!LeaveFunction, Scan!EndPrepaidGas, Scan!EndFunction
<1>6. \A l \in out' : l.of \in 1..bitcode /\ l.fn \in ScanFunc
  <2>1. \A l \in out' : l \in out \/ (l.of = bitcode /\ l.fn = Scan!Here)
    BY DEF Scan!EndUpgrade, Scan!LeaveFunction, Scan!EndPrepaidGas, Scan!EndFunction, Scan!Verdict
  <2> QED
    BY <1>2, <2>1, ShapeOut
<1> QED
  BY <1>1, <1>3, <1>4, <1>5, <1>6, ShapeOut, ShapeScan


(* A block has one branch, at its end.                                     *)
LEMMA SuccessorIs ==
  ASSUME NEW m, Scan!IsBitcode(m), NEW f \in ScanFunc, NEW b \in 1..Len(m.body[f])
  PROVE  \/ /\ Scan!Successor(m.body[f], b) = 0
            /\ \A k \in 1..Len(m.body[f][b]) : ~(m.body[f][b][k].op = "br" /\ m.body[f][b][k].to # <<>>)
         \/ \E k \in 1..Len(m.body[f][b]) :
              /\ m.body[f][b][k].op = "br" /\ m.body[f][b][k].to # <<>>
              /\ Len(m.body[f][b][k].to) \in Nat \ {0}
              /\ Scan!Successor(m.body[f], b) = m.body[f][b][k].to[Len(m.body[f][b][k].to)]
              /\ Scan!Successor(m.body[f], b) \in 1..Len(m.body[f])
              /\ \A i \in 1..Len(m.body[f][b]) : m.body[f][b][i].op = "br" => i = k
<1> DEFINE body == m.body[f]
           branches == {k \in 1..Len(body[b]) : body[b][k].op = "br" /\ body[b][k].to # <<>>}
<1>1. /\ \A k \in 1..Len(body[b]) : /\ body[b][k].op = "br" => k = Len(body[b])
                                    /\ body[b][k] \in Scan!Inst
                                    /\ \A n \in 1..Len(body[b][k].to) : body[b][k].to[n] \in 1..Len(body)
  BY BitcodeBody DEF IsSite
<1>2. Scan!Successor(body, b) =
        IF branches = {} THEN 0
        ELSE body[b][Scan!Max(branches)].to[Len(body[b][Scan!Max(branches)].to)]
  BY DEF Scan!Successor
<1>3. CASE branches = {}
  BY <1>2, <1>3
<1>4. CASE branches # {}
  <2>1. PICK k \in branches : TRUE
    BY <1>4
  <2>2. /\ k \in 1..Len(body[b]) /\ body[b][k].op = "br" /\ body[b][k].to # <<>> /\ k = Len(body[b])
        /\ \A i \in 1..Len(body[b]) : body[b][i].op = "br" => i = k
    BY <1>1, <2>1
  <2>3. branches = {k}
    BY <2>1, <2>2
  <2>4. body[b][k].to \in Seq(Nat)
    BY <1>1, <2>2 DEF Scan!Inst
  <2>5. Len(body[b][k].to) \in Nat \ {0}
    BY <2>2, <2>4, EmptySeq
  <2> HIDE DEF branches
  <2>6. Scan!Max(branches) = k
    <3>1. Len(body[b]) \in Nat
      BY BitcodeBody
    <3>2. k \in Nat /\ k >= k
      BY <2>2, <3>1
    <3> QED
      BY <2>3, <3>2 DEF Scan!Max
  <2>7. Scan!Successor(body, b) = body[b][k].to[Len(body[b][k].to)]
    BY <1>2, <1>4, <2>6
  <2>8. Len(body[b][k].to) \in 1..Len(body[b][k].to)
    BY <2>5
  <2>9. Scan!Successor(body, b) \in 1..Len(body)
    BY <1>1, <2>2, <2>7, <2>8
  <2> QED
    BY <2>2, <2>5, <2>7, <2>9
<1> QED
  BY <1>3, <1>4

LEMMA ShapeWalk ==
  ASSUME Scan!JobsAssumption, ScanShape,
         Scan!BeginWalk \/ Scan!WalkOn \/ Scan!WalkReports \/ Scan!WalkCrashes
  PROVE  ScanShape'
<1>1. /\ UNCHANGED <<job, detector, bitcode, found, traits>>
      /\ detector = "reentrancy" /\ pos.fn <= Len(Scan!Bitcode.order)
  BY DEF Scan!BeginWalk, Scan!WalkOn, Scan!WalkReports, Scan!WalkCrashes, Scan!AtOwn, Scan!AtInst, Scan!InModule,
         Scan!Fixed, ScanShape
<1>2. Scan!Bitcode' = Scan!Bitcode /\ Scan!Start' = Scan!Start /\ (UNCHANGED pos => Scan!Body' = Scan!Body)
  BY <1>1 DEF Scan!Bitcode, Scan!Start, Scan!Body, Scan!Here
<1>3. /\ Scan!Here \in ScanFunc /\ Scan!Body = Scan!Bitcode.body[Scan!Here] /\ bitcode \in 1..bitcode
      /\ Scan!IsBitcode(Scan!Bitcode) /\ Len(Scan!Body) \in Nat
  BY <1>1, CursorIs
<1>4. /\ IsCursor(Scan!Bitcode, Scan!NextFunction) /\ Scan!NextFunction.fn = pos.fn + 1
      /\ IsCursor(Scan!Bitcode, pos) /\ found = {}
  BY <1>1, Moves DEF ScanShape
<1>5. CASE Scan!BeginWalk
  <2>1. at' = "walk" /\ UNCHANGED <<pos, out>> /\ \E n \in 1..Len(Scan!I.to) : walk' = Scan!I.to[n]
    BY <1>5 DEF Scan!BeginWalk
  <2>2. pos.block <= Len(Scan!Body)
    BY <1>5 DEF Scan!BeginWalk, Scan!AtOwn, Scan!AtInst
  <2>3. walk' \in 1..Len(Scan!Body)
    <3>1. /\ IsSite(Scan!Bitcode, Scan!Here, pos.block, pos.inst)
          /\ Scan!I = Scan!Bitcode.body[Scan!Here][pos.block][pos.inst]
      BY <1>1, <1>3, <2>2, CursorIs DEF IsSite
    <3>2. PICK n \in 1..Len(Scan!I.to) : walk' = Scan!I.to[n]
      BY <2>1
    <3>3. \A i \in 1..Len(Scan!I.to) : Scan!I.to[i] \in 1..Len(Scan!Body)
      BY <1>3, <3>1, BitcodeBody
    <3> QED
      BY <3>2, <3>3
  <2> QED
    BY <1>1, <1>2, <1>4, <2>1, <2>3 DEF ScanShape
<1>6. CASE Scan!WalkOn
  <2>1. at = "walk" /\ UNCHANGED out /\ walk' = Scan!Successor(Scan!Body, walk)
        /\ IF walk' # 0 THEN UNCHANGED <<at, pos>> ELSE at' = "scan" /\ pos' = Scan!NextFunction
    BY <1>6 DEF Scan!WalkOn
  <2>2. walk' = 0 \/ walk' \in 1..Len(Scan!Body)
    <3>1. walk \in 1..Len(Scan!Body)
      BY <2>1 DEF ScanShape
    <3> QED
      BY <1>3, <2>1, <3>1, SuccessorIs
  <2>3. CASE walk' = 0
    BY <1>1, <1>2, <1>4, <2>1, <2>3 DEF ScanShape
  <2>4. CASE walk' # 0
    BY <1>1, <1>2, <1>4, <2>1, <2>2, <2>4 DEF ScanShape
  <2> QED
    BY <2>3, <2>4
<1>7. CASE Scan!WalkReports
  <2>1. /\ walk' = 0 /\ at' = "scan" /\ pos' = Scan!NextFunction
        /\ \E p : out' = out \cup {[of |-> bitcode, fn |-> Scan!Here, place |-> p]}
    BY <1>7 DEF Scan!WalkReports
  <2>2. \A l \in out' : l.of \in 1..bitcode /\ l.fn \in ScanFunc
    BY <1>3, <2>1, ShapeOut
  <2> QED
    BY <1>1, <1>2, <1>4, <2>1, <2>2 DEF ScanShape
<1>8. CASE Scan!WalkCrashes
  <2>1. at = "walk" /\ at' = "crashed" /\ UNCHANGED <<pos, walk, out>>
    BY <1>8 DEF Scan!WalkCrashes
  <2>2. walk # 0
    BY <1>3, <2>1 DEF ScanShape
  <2> QED
    BY <1>1, <1>2, <1>4, <2>1, <2>2 DEF ScanShape
<1> QED
  BY <1>5, <1>6, <1>7, <1>8

LEMMA ShapeBetween ==
  ASSUME Scan!JobsAssumption, ScanShape,
         Scan!CrashOnUser \/ Scan!CrashOnLoop \/ Scan!NextBitcode \/ Scan!BeginExtCall \/ Scan!Finish
  PROVE  ScanShape'
<1>1. at = "scan" /\ UNCHANGED <<job, found, walk, traits, out>>
  BY DEF Scan!CrashOnUser, Scan!CrashOnLoop, Scan!NextBitcode, Scan!BeginExtCall, Scan!Finish, Scan!AtOwn,
         Scan!AtInst, Scan!InModule, Scan!LastBitcode, Scan!Fixed
<1>2. walk = 0 /\ Len(job.bitcodes) \in Nat /\ bitcode \in 1..Len(job.bitcodes)
  BY <1>1, CursorIs DEF ScanShape
<1>3. CASE Scan!CrashOnUser \/ Scan!CrashOnLoop
  <2>1. at' = "crashed" /\ detector # "reentrancy" /\ UNCHANGED <<detector, bitcode, pos>>
    BY <1>3 DEF Scan!CrashOnUser, Scan!CrashOnLoop, Scan!AtOwn, Scan!NamelessLoop, Scan!Fixed
  <2>2. Scan!Bitcode' = Scan!Bitcode /\ Scan!Start' = Scan!Start
    BY <1>1, <2>1 DEF Scan!Bitcode, Scan!Start
  <2> QED
    BY <1>1, <1>2, <2>1, <2>2 DEF ScanShape
<1>4. CASE Scan!Finish
  <2>1. at' = "done" /\ UNCHANGED <<detector, bitcode, pos>> /\ detector # "ext-call-trait"
        /\ pos.fn > Len(Scan!Bitcode.order) /\ bitcode = Len(job.bitcodes)
    BY <1>4 DEF Scan!Finish, Scan!LastBitcode, Scan!Fixed
  <2>2. Scan!Bitcode' = Scan!Bitcode /\ Scan!Start' = Scan!Start
    BY <1>1, <2>1 DEF Scan!Bitcode, Scan!Start
  <2> QED
    BY <1>1, <1>2, <2>1, <2>2 DEF ScanShape
<1>5. ASSUME NEW n \in 1..Len(job.bitcodes) PROVE IsCursor(job.bitcodes[n], Scan!Start)
  <2>1. Scan!IsBitcode(job.bitcodes[n])
    BY JobBitcodes DEF ScanShape
  <2>2. 1 \in 1..Len(job.bitcodes[n].order) + 1
    BY <2>1, BitcodeOrder
  <2>3. [Scan!Start EXCEPT !.fn = 1] = Scan!Start
    BY DEF Scan!Start
  <2> QED
    BY <2>1, <2>2, <2>3, StartCursor
<1>6. CASE Scan!NextBitcode
  <2>1. /\ pos.fn > Len(Scan!Bitcode.order) /\ bitcode < Len(job.bitcodes)
        /\ bitcode' = bitcode + 1 /\ pos' = Scan!Start /\ UNCHANGED <<detector, at>>
    BY <1>6 DEF Scan!NextBitcode
  <2>2. bitcode' \in 1..Len(job.bitcodes) /\ \A n \in 1..bitcode : n \in 1..bitcode'
    BY <1>2, <2>1
  <2>3. Scan!Bitcode' = job.bitcodes[bitcode'] /\ found = {}
    BY <1>1, <2>1, ShapeOut DEF Scan!Bitcode
  <2> QED
    BY <1>1, <1>2, <1>5, <2>1, <2>2, <2>3 DEF ScanShape
<1>7. CASE Scan!BeginExtCall
  <2>1. /\ pos.fn > Len(Scan!Bitcode.order) /\ detector = "ext-call-trait" /\ detector' = "ext-call"
        /\ bitcode' = 1 /\ pos' = Scan!Start /\ UNCHANGED at
    BY <1>7 DEF Scan!BeginExtCall, Scan!LastBitcode
  <2>2. bitcode' \in 1..Len(job.bitcodes)
    BY <1>2, <2>1
  <2>3. Scan!Bitcode' = job.bitcodes[bitcode'] /\ found = {} /\ out = {}
    BY <1>1, <2>1, ShapeOut DEF Scan!Bitcode
  <2> QED
    BY <1>1, <1>2, <1>5, <2>1, <2>2, <2>3 DEF ScanShape
<1> QED
  BY <1>3, <1>4, <1>6, <1>7

LEMMA ShapeInit ==
  ASSUME Scan!JobsAssumption, Scan!Init
  PROVE  ScanShape
<1>1. job \in Jobs /\ detector \in Scan!Detectors
  BY DEF Scan!JobsAssumption, Scan!Init
<1>2. Len(job.bitcodes) \in Nat \ {0} /\ Scan!IsBitcode(job.bitcodes[1])
  BY <1>1, JobBitcodes
<1>3. 1 \in 1..Len(job.bitcodes) /\ 1 \in 1..Len(job.bitcodes[1].order) + 1
  BY <1>2, BitcodeOrder
<1>4. [Scan!Start EXCEPT !.fn = 1] = Scan!Start
  BY DEF Scan!Start
<1>5. IsCursor(job.bitcodes[1], Scan!Start)
  BY <1>2, <1>3, <1>4, StartCursor
<1>6. Scan!Bitcode = job.bitcodes[1]
  BY DEF Scan!Init, Scan!Bitcode
<1> QED
  BY <1>1, <1>3, <1>5, <1>6 DEF Scan!Init, ScanShape

LEMMA ShapeStutter ==
  ASSUME ScanShape, UNCHANGED Scan!vars
  PROVE  ScanShape'
<1>1. UNCHANGED <<job, detector, bitcode, pos, found, walk, traits, out, at>>
  BY DEF Scan!vars
<1>2. Scan!Bitcode' = Scan!Bitcode /\ Scan!Start' = Scan!Start /\ Scan!Body' = Scan!Body
  BY <1>1 DEF Scan!Bitcode, Scan!Start, Scan!Body, Scan!Here
<1> QED
  BY <1>1, <1>2 DEF ScanShape

LEMMA ShapeNext ==
  ASSUME Scan!JobsAssumption, ScanShape, [Scan!Next]_Scan!vars
  PROVE  ScanShape'
BY ShapeOnInst, ShapeOnFunction, ShapeWalk, ShapeBetween, ShapeStutter DEF Scan!Next

LEMMA ScanTyping == Scan!JobsAssumption /\ ScanShape => Scan!TypeOK
<1>1. SUFFICES ASSUME Scan!JobsAssumption, ScanShape PROVE Scan!TypeOK
  OBVIOUS
<1>2. pos.fn \in 1..Len(Scan!Bitcode.order) + 1
  BY <1>1, CursorIs
<1>3. pos.fn > Len(Scan!Bitcode.order) => pos = Scan!ModuleEnd
  <2>1. ASSUME pos.fn > Len(Scan!Bitcode.order) PROVE pos = Scan!ModuleEnd
    <3> DEFINE n == Len(Scan!Bitcode.order) + 1
    <3>1. pos \in Position /\ pos.block = 1 /\ pos.inst = 1
      BY <1>1, <2>1 DEF ScanShape, IsCursor
    <3>2. pos.fn = n
      BY <1>1, <2>1, CursorIs
    <3> HIDE DEF n
    <3>3. pos = [fn |-> n, block |-> 1, inst |-> 1]
      BY <3>1, <3>2 DEF Position
    <3> QED
      BY <3>3 DEF Scan!ModuleEnd, Scan!Start, n
  <2> QED
    BY <2>1
<1>4. pos.fn <= Len(Scan!Bitcode.order) => pos.block \in 1..Len(Scan!Body) + 1
  BY <1>1, CursorIs
<1>5. Scan!AtInst => pos.inst \in 1..Len(Scan!Body[pos.block])
  BY <1>1, CursorIs DEF Scan!AtInst, Scan!InModule
<1>6. (walk # 0) <=> (at = "walk" \/ (at = "crashed" /\ detector = "reentrancy"))
  <2>1. at = "walk" => walk # 0
    BY <1>1 DEF ScanShape
  <2> QED
    BY <1>1, <2>1 DEF ScanShape
<1> QED
  BY <1>1, <1>2, <1>3, <1>4, <1>5, <1>6 DEF ScanShape, Scan!TypeOK


-----------------------------------------------------------------------------
(* What the cursor has passed: the functions of the bitcodes in order, and *)
(* of the function it is in the instructions that precede it.              *)
CodeOf(n, j)       == job.bitcodes[n].body[job.bitcodes[n].order[j]]
InstOf(n, j, b, k) == CodeOf(n, j)[b][k]

IsFunction(n, j) == n \in 1..Len(job.bitcodes) /\ j \in 1..Len(job.bitcodes[n].order)
Site(n, j, b, k) == IsFunction(n, j) /\ b \in 1..Len(CodeOf(n, j)) /\ k \in 1..Len(CodeOf(n, j)[b])
Own(n, j, b, k)  == Site(n, j, b, k) /\ InstOf(n, j, b, k).loc = "own"

Passed(n, j)       == n < bitcode \/ (n = bitcode /\ j < pos.fn)
Behind(n, j, b, k) ==
  \/ Passed(n, j)
  \/ n = bitcode /\ j = pos.fn /\ (b < pos.block \/ (b = pos.block /\ k < pos.inst))

AtSite(n, j, b, k) == n = bitcode /\ j = pos.fn /\ b = pos.block /\ k = pos.inst

(* The function the cursor is in.                                          *)
InFunction == pos.fn <= Len(Scan!Bitcode.order)
InBlock    == InFunction /\ pos.block <= Len(Scan!Body)

SameSites ==
  /\ \A n, j : IsFunction(n, j)' <=> IsFunction(n, j)
  /\ \A n, j : CodeOf(n, j)' = CodeOf(n, j)
  /\ \A n, j, b, k : Site(n, j, b, k)' <=> Site(n, j, b, k)
  /\ \A n, j, b, k : InstOf(n, j, b, k)' = InstOf(n, j, b, k)
  /\ \A n, j, b, k : Own(n, j, b, k)' <=> Own(n, j, b, k)

LEMMA SitesStay == ASSUME UNCHANGED job PROVE SameSites
BY DEF SameSites, IsFunction, CodeOf, Site, InstOf, Own

LEMMA FunctionIs ==
  ASSUME Scan!JobsAssumption, ScanShape, NEW n, NEW j, IsFunction(n, j)
  PROVE  /\ n \in Nat \ {0} /\ j \in Nat \ {0}
         /\ Scan!IsBitcode(job.bitcodes[n])
         /\ job.bitcodes[n].order[j] \in ScanFunc
         /\ Len(CodeOf(n, j)) \in Nat
         /\ \A b \in 1..Len(CodeOf(n, j)) : Len(CodeOf(n, j)[b]) \in Nat \ {0}
<1>1. job \in Jobs /\ n \in 1..Len(job.bitcodes) /\ j \in 1..Len(job.bitcodes[n].order)
  BY DEF ScanShape, IsFunction
<1>2. Len(job.bitcodes) \in Nat /\ Scan!IsBitcode(job.bitcodes[n])
  BY <1>1, JobBitcodes
<1>3. Len(job.bitcodes[n].order) \in Nat /\ job.bitcodes[n].order[j] \in ScanFunc
  BY <1>1, <1>2, BitcodeOrder
<1>4. Len(CodeOf(n, j)) \in Nat /\ \A b \in 1..Len(CodeOf(n, j)) : Len(CodeOf(n, j)[b]) \in Nat \ {0}
  BY <1>2, <1>3, BitcodeBody DEF CodeOf
<1>5. n \in Nat \ {0} /\ j \in Nat \ {0}
  BY <1>1, <1>2, <1>3
<1> QED
  BY <1>2, <1>3, <1>4, <1>5

LEMMA SiteIs ==
  ASSUME Scan!JobsAssumption, ScanShape, NEW n, NEW j, NEW b, NEW k, Site(n, j, b, k)
  PROVE  /\ n \in Nat \ {0} /\ j \in Nat \ {0} /\ b \in Nat \ {0} /\ k \in Nat \ {0}
         /\ Len(CodeOf(n, j)[b]) \in Nat /\ k <= Len(CodeOf(n, j)[b]) /\ b <= Len(CodeOf(n, j))
         /\ InstOf(n, j, b, k) \in Scan!Inst
<1>1. IsFunction(n, j) /\ b \in 1..Len(CodeOf(n, j)) /\ k \in 1..Len(CodeOf(n, j)[b])
  BY DEF Site
<1>2. /\ n \in Nat \ {0} /\ j \in Nat \ {0} /\ Len(CodeOf(n, j)) \in Nat /\ Len(CodeOf(n, j)[b]) \in Nat
      /\ Scan!IsBitcode(job.bitcodes[n]) /\ job.bitcodes[n].order[j] \in ScanFunc
  BY <1>1, FunctionIs
<1>3. b \in Nat \ {0} /\ k \in Nat \ {0} /\ k <= Len(CodeOf(n, j)[b]) /\ b <= Len(CodeOf(n, j))
  BY <1>1, <1>2
<1>4. IsSite(job.bitcodes[n], job.bitcodes[n].order[j], b, k)
  BY <1>1 DEF IsSite, CodeOf
<1>5. InstOf(n, j, b, k) \in Scan!Inst
  BY <1>2, <1>4, BitcodeBody DEF InstOf, CodeOf
<1> QED
  BY <1>2, <1>3, <1>5

(* Where the cursor is.                                                    *)
LEMMA CursorHere ==
  ASSUME Scan!JobsAssumption, ScanShape, InFunction
  PROVE  /\ IsFunction(bitcode, pos.fn) /\ ~Passed(bitcode, pos.fn)
         /\ job.bitcodes[bitcode] = Scan!Bitcode
         /\ job.bitcodes[bitcode].order[pos.fn] = Scan!Here /\ Scan!Here \in ScanFunc
         /\ CodeOf(bitcode, pos.fn) = Scan!Body
         /\ InBlock =>
              /\ Site(bitcode, pos.fn, pos.block, pos.inst)
              /\ InstOf(bitcode, pos.fn, pos.block, pos.inst) = Scan!I
              /\ ~Behind(bitcode, pos.fn, pos.block, pos.inst)
<1>1. /\ bitcode \in 1..Len(job.bitcodes) /\ Len(job.bitcodes) \in Nat /\ pos.fn \in 1..Len(Scan!Bitcode.order) /\ pos.fn \in Nat
      /\ pos.block \in Nat /\ pos.inst \in Nat
      /\ Scan!Bitcode = job.bitcodes[bitcode] /\ Scan!Here = Scan!Bitcode.order[pos.fn] /\ Scan!Here \in ScanFunc
      /\ Scan!Body = Scan!Bitcode.body[Scan!Here]
      /\ InBlock => /\ pos.block \in 1..Len(Scan!Body)
                    /\ pos.inst \in 1..Len(Scan!Body[pos.block])
  BY CursorIs DEF InFunction, InBlock
<1>2. IsFunction(bitcode, pos.fn)
  BY <1>1 DEF IsFunction
<1>3. CodeOf(bitcode, pos.fn) = Scan!Body
  BY <1>1 DEF CodeOf
<1>4. ~Passed(bitcode, pos.fn) /\ ~Behind(bitcode, pos.fn, pos.block, pos.inst)
  BY <1>1 DEF Passed, Behind
<1>5. ASSUME InBlock PROVE Site(bitcode, pos.fn, pos.block, pos.inst) /\ InstOf(bitcode, pos.fn, pos.block, pos.inst) = Scan!I
  BY <1>1, <1>2, <1>3, <1>5 DEF Site, InstOf, Scan!I
<1> QED
  BY <1>1, <1>2, <1>3, <1>4, <1>5

LEMMA OverInst ==
  ASSUME Scan!JobsAssumption, ScanShape, InBlock, UNCHANGED bitcode, pos' = Scan!NextInst
  PROVE  /\ \A n, j : Passed(n, j)' <=> Passed(n, j)
         /\ \A n, j, b, k : Site(n, j, b, k) =>
              (Behind(n, j, b, k)' <=> Behind(n, j, b, k) \/ AtSite(n, j, b, k))
<1>1. /\ pos.block \in Nat /\ pos.inst \in Nat /\ pos'.fn = pos.fn
      /\ Len(Scan!Body[pos.block]) \in Nat
      /\ \/ pos.inst < Len(Scan!Body[pos.block]) /\ pos'.block = pos.block /\ pos'.inst = pos.inst + 1
         \/ pos.inst = Len(Scan!Body[pos.block]) /\ pos'.block = pos.block + 1 /\ pos'.inst = 1
  BY CursorIs, MovesInFunction DEF InBlock, InFunction
<1>2. \A n, j : Passed(n, j)' <=> Passed(n, j)
  BY <1>1 DEF Passed
<1>3. ASSUME NEW n, NEW j, NEW b, NEW k, Site(n, j, b, k), n = bitcode, j = pos.fn
      PROVE  (b < pos'.block \/ (b = pos'.block /\ k < pos'.inst)) <=>
               (b < pos.block \/ (b = pos.block /\ k < pos.inst)) \/ (b = pos.block /\ k = pos.inst)
  <2>1. /\ b \in Nat \ {0} /\ k \in Nat \ {0} /\ Len(CodeOf(n, j)[b]) \in Nat /\ k <= Len(CodeOf(n, j)[b])
    BY <1>3, SiteIs
  <2>2. CodeOf(n, j) = Scan!Body
    BY <1>3, CursorHere DEF InBlock
  <2>3. b = pos.block => k <= Len(Scan!Body[pos.block])
    BY <2>1, <2>2
  <2> DEFINE l == Len(Scan!Body[pos.block])
  <2>4. /\ l \in Nat /\ (b = pos.block => k <= l)
        /\ \/ pos.inst < l /\ pos'.block = pos.block /\ pos'.inst = pos.inst + 1
           \/ pos.inst = l /\ pos'.block = pos.block + 1 /\ pos'.inst = 1
    BY <1>1, <2>3
  <2> HIDE DEF l
  <2>5. pos.block \in Nat /\ pos.inst \in Nat
    BY <1>1
  <2> QED
    BY <2>1, <2>4, <2>5
<1> QED
  BY <1>1, <1>2, <1>3 DEF Behind, AtSite

LEMMA OverBlock ==
  ASSUME Scan!JobsAssumption, ScanShape, InBlock, UNCHANGED bitcode, pos' = Scan!NextBlock
  PROVE  /\ \A n, j : Passed(n, j)' <=> Passed(n, j)
         /\ \A n, j, b, k : Site(n, j, b, k) =>
              (Behind(n, j, b, k)' <=> Behind(n, j, b, k) \/ (n = bitcode /\ j = pos.fn /\ b = pos.block))
<1>1. /\ pos.block \in Nat /\ pos'.fn = pos.fn /\ pos'.block = pos.block + 1 /\ pos'.inst = 1
  BY CursorIs, MovesInFunction DEF InBlock, InFunction
<1>2. \A n, j : Passed(n, j)' <=> Passed(n, j)
  BY <1>1 DEF Passed
<1>3. ASSUME NEW n, NEW j, NEW b, NEW k, Site(n, j, b, k), n = bitcode, j = pos.fn
      PROVE  (b < pos'.block \/ (b = pos'.block /\ k < pos'.inst)) <=>
               (b < pos.block \/ (b = pos.block /\ k < pos.inst)) \/ b = pos.block
  <2>1. b \in Nat \ {0} /\ k \in Nat \ {0}
    BY <1>3, SiteIs
  <2> QED
    BY <1>1, <2>1
<1> QED
  BY <1>1, <1>2, <1>3 DEF Behind

LEMMA OverFunction ==
  ASSUME Scan!JobsAssumption, ScanShape, InFunction, UNCHANGED bitcode, pos' = Scan!NextFunction
  PROVE  /\ \A n, j : IsFunction(n, j) => (Passed(n, j)' <=> Passed(n, j) \/ (n = bitcode /\ j = pos.fn))
         /\ \A n, j, b, k : Site(n, j, b, k) =>
              (Behind(n, j, b, k)' <=> Behind(n, j, b, k) \/ (n = bitcode /\ j = pos.fn))
<1>1. pos.fn \in Nat /\ pos'.fn = pos.fn + 1 /\ pos'.block = 1 /\ pos'.inst = 1
  BY CursorIs, Moves DEF InFunction
<1>2. ASSUME NEW n, NEW j, IsFunction(n, j) PROVE Passed(n, j)' <=> Passed(n, j) \/ (n = bitcode /\ j = pos.fn)
  <2>1. j \in Nat
    BY <1>2, FunctionIs
  <2> QED
    BY <1>1, <2>1 DEF Passed
<1>3. ASSUME NEW n, NEW j, NEW b, NEW k, Site(n, j, b, k)
      PROVE  Behind(n, j, b, k)' <=> Behind(n, j, b, k) \/ (n = bitcode /\ j = pos.fn)
  <2>1. b \in Nat \ {0} /\ k \in Nat \ {0} /\ IsFunction(n, j)
    BY <1>3, SiteIs DEF Site
  <2>2. ~(b < pos'.block \/ (b = pos'.block /\ k < pos'.inst))
    BY <1>1, <2>1
  <2> QED
    BY <1>2, <2>1, <2>2 DEF Behind
<1> QED
  BY <1>2, <1>3

LEMMA OverModule ==
  ASSUME Scan!JobsAssumption, ScanShape, InFunction, UNCHANGED bitcode, pos' = Scan!ModuleEnd
  PROVE  /\ \A n, j : IsFunction(n, j) => (Passed(n, j)' <=> Passed(n, j) \/ n = bitcode)
         /\ \A n, j, b, k : Site(n, j, b, k) => (Behind(n, j, b, k)' <=> Behind(n, j, b, k) \/ n = bitcode)
<1>1. /\ pos.fn \in Nat /\ Len(Scan!Bitcode.order) \in Nat /\ pos'.fn = Len(Scan!Bitcode.order) + 1
      /\ pos'.block = 1 /\ pos'.inst = 1 /\ Scan!Bitcode = job.bitcodes[bitcode]
  BY CursorIs, Moves DEF InFunction
<1>2. ASSUME NEW n, NEW j, IsFunction(n, j) PROVE Passed(n, j)' <=> Passed(n, j) \/ n = bitcode
  <2>1. n = bitcode => j \in 1..Len(Scan!Bitcode.order)
    BY <1>1, <1>2 DEF IsFunction
  <2>2. n = bitcode => j < pos'.fn
    BY <1>1, <2>1
  <2> QED
    BY <2>2 DEF Passed
<1>3. ASSUME NEW n, NEW j, NEW b, NEW k, Site(n, j, b, k)
      PROVE  Behind(n, j, b, k)' <=> Behind(n, j, b, k) \/ n = bitcode
  <2>1. b \in Nat \ {0} /\ k \in Nat \ {0} /\ IsFunction(n, j)
    BY <1>3, SiteIs DEF Site
  <2>2. ~(b < pos'.block \/ (b = pos'.block /\ k < pos'.inst))
    BY <1>1, <2>1
  <2> QED
    BY <1>2, <2>1, <2>2 DEF Behind
<1> QED
  BY <1>2, <1>3

(* At the end of a bitcode all of it is passed.                            *)
LEMMA AtEnd ==
  ASSUME Scan!JobsAssumption, ScanShape, ~InFunction
  PROVE  /\ \A n, j : IsFunction(n, j) => (Passed(n, j) <=> n <= bitcode)
         /\ \A n, j, b, k : Site(n, j, b, k) => (Behind(n, j, b, k) <=> n <= bitcode)
<1>1. /\ pos.fn \in Nat /\ Len(Scan!Bitcode.order) \in Nat /\ pos.fn > Len(Scan!Bitcode.order)
      /\ Scan!Bitcode = job.bitcodes[bitcode] /\ bitcode \in Nat
  BY CursorIs DEF InFunction
<1>2. ASSUME NEW n, NEW j, IsFunction(n, j) PROVE Passed(n, j) <=> n <= bitcode
  <2>1. n \in Nat /\ (n = bitcode => j \in 1..Len(Scan!Bitcode.order))
    BY <1>1, <1>2, FunctionIs DEF IsFunction
  <2>2. n = bitcode => j < pos.fn
    BY <1>1, <2>1
  <2> QED
    BY <1>1, <2>1, <2>2 DEF Passed
<1>3. ASSUME NEW n, NEW j, NEW b, NEW k, Site(n, j, b, k) PROVE Behind(n, j, b, k) <=> n <= bitcode
  <2>1. IsFunction(n, j)
    BY <1>3 DEF Site
  <2>2. n = bitcode /\ j = pos.fn => FALSE
    BY <1>1, <2>1 DEF IsFunction
  <2> QED
    BY <1>2, <2>1, <2>2 DEF Behind
<1> QED
  BY <1>2, <1>3

(* At the first instruction of a bitcode only those before it are passed.  *)
LEMMA AtStart ==
  ASSUME Scan!JobsAssumption, ScanShape, pos' = Scan!Start
  PROVE  /\ \A n, j : IsFunction(n, j) => (Passed(n, j)' <=> n < bitcode')
         /\ \A n, j, b, k : Site(n, j, b, k) => (Behind(n, j, b, k)' <=> n < bitcode')
<1>1. pos'.fn = 1 /\ pos'.block = 1 /\ pos'.inst = 1
  BY DEF Scan!Start
<1>2. ASSUME NEW n, NEW j, IsFunction(n, j) PROVE Passed(n, j)' <=> n < bitcode'
  <2>1. j \in Nat \ {0}
    BY <1>2, FunctionIs
  <2> QED
    BY <1>1, <2>1 DEF Passed
<1>3. ASSUME NEW n, NEW j, NEW b, NEW k, Site(n, j, b, k) PROVE Behind(n, j, b, k)' <=> n < bitcode'
  <2>1. b \in Nat \ {0} /\ k \in Nat \ {0} /\ IsFunction(n, j)
    BY <1>3, SiteIs DEF Site
  <2>2. ~(b < pos'.block \/ (b = pos'.block /\ k < pos'.inst))
    BY <1>1, <2>1
  <2> QED
    BY <1>2, <2>1, <2>2 DEF Behind
<1> QED
  BY <1>2, <1>3

LEMMA OverBitcode ==
  ASSUME Scan!JobsAssumption, ScanShape, ~InFunction, bitcode' = bitcode + 1, pos' = Scan!Start
  PROVE  /\ \A n, j : IsFunction(n, j) => (Passed(n, j)' <=> Passed(n, j))
         /\ \A n, j, b, k : Site(n, j, b, k) => (Behind(n, j, b, k)' <=> Behind(n, j, b, k))
<1>1. bitcode \in Nat
  BY CursorIs
<1>2. ASSUME NEW n, NEW j, IsFunction(n, j) PROVE Passed(n, j)' <=> Passed(n, j)
  <2>1. n \in Nat
    BY <1>2, FunctionIs
  <2> QED
    BY <1>1, <1>2, <2>1, AtEnd, AtStart
<1>3. ASSUME NEW n, NEW j, NEW b, NEW k, Site(n, j, b, k) PROVE Behind(n, j, b, k)' <=> Behind(n, j, b, k)
  <2>1. n \in Nat
    BY <1>3, SiteIs
  <2> QED
    BY <1>1, <1>3, <2>1, AtEnd, AtStart
<1> QED
  BY <1>2, <1>3

LEMMA NothingPassed ==
  ASSUME Scan!JobsAssumption, ScanShape, pos = Scan!Start, bitcode = 1
  PROVE  /\ \A n, j : IsFunction(n, j) => ~Passed(n, j)
         /\ \A n, j, b, k : Site(n, j, b, k) => ~Behind(n, j, b, k)
<1>1. pos.fn = 1 /\ pos.block = 1 /\ pos.inst = 1
  BY DEF Scan!Start
<1>2. ASSUME NEW n, NEW j, IsFunction(n, j) PROVE ~Passed(n, j)
  <2>1. n \in Nat \ {0} /\ j \in Nat \ {0}
    BY <1>2, FunctionIs
  <2> QED
    BY <1>1, <2>1 DEF Passed
<1>3. ASSUME NEW n, NEW j, NEW b, NEW k, Site(n, j, b, k) PROVE ~Behind(n, j, b, k)
  <2>1. b \in Nat \ {0} /\ k \in Nat \ {0} /\ IsFunction(n, j)
    BY <1>3, SiteIs DEF Site
  <2>2. ~(b < pos.block \/ (b = pos.block /\ k < pos.inst))
    BY <1>1, <2>1
  <2> QED
    BY <1>2, <2>1, <2>2 DEF Behind
<1> QED
  BY <1>2, <1>3

LEMMA AllPassed ==
  ASSUME Scan!JobsAssumption, ScanShape, at = "done"
  PROVE  /\ \A n, j : IsFunction(n, j) => Passed(n, j)
         /\ \A n, j, b, k : Site(n, j, b, k) => Behind(n, j, b, k)
<1>1. bitcode = Len(job.bitcodes) /\ Len(job.bitcodes) \in Nat /\ ~InFunction
  <2>1. pos.fn > Len(Scan!Bitcode.order) /\ bitcode = Len(job.bitcodes)
    BY DEF ScanShape
  <2>2. pos.fn \in Nat /\ Len(Scan!Bitcode.order) \in Nat /\ Len(job.bitcodes) \in Nat
    BY CursorIs
  <2> QED
    BY <2>1, <2>2 DEF InFunction
<1>2. \A n, j : IsFunction(n, j) => n <= bitcode
  BY <1>1 DEF IsFunction
<1>3. \A n, j, b, k : Site(n, j, b, k) => IsFunction(n, j)
  BY DEF Site
<1> QED
  BY <1>1, <1>2, <1>3, AtEnd


LEMMA WholeFunction ==
  ASSUME Scan!JobsAssumption, ScanShape, InFunction, pos.block > Len(Scan!Body)
  PROVE  \A n, j, b, k : Site(n, j, b, k) /\ n = bitcode /\ j = pos.fn => Behind(n, j, b, k)
<1>1. SUFFICES ASSUME NEW b, NEW k, Site(bitcode, pos.fn, b, k) PROVE b < pos.block
  BY DEF Behind
<1>2. b \in Nat /\ b <= Len(CodeOf(bitcode, pos.fn)) /\ CodeOf(bitcode, pos.fn) = Scan!Body
  BY <1>1, SiteIs, CursorHere
<1>3. pos.block \in Nat /\ Len(Scan!Body) \in Nat
  BY CursorIs DEF InFunction
<1> QED
  BY <1>2, <1>3

LEMMA OnlyHere ==
  ASSUME Scan!JobsAssumption, ScanShape, InBlock, NEW n, NEW j, NEW b, NEW k, AtSite(n, j, b, k)
  PROVE  InstOf(n, j, b, k) = Scan!I /\ Site(n, j, b, k) /\ job.bitcodes[n] = Scan!Bitcode
         /\ job.bitcodes[n].order[j] = Scan!Here
BY CursorHere DEF AtSite, InBlock

(* The instructions of a function, as places and as sites.                 *)
LEMMA PlacesAre ==
  ASSUME NEW n, NEW j, IsFunction(n, j), NEW m, NEW f, m = job.bitcodes[n], f = m.order[j]
  PROVE  /\ \A p \in Scan!Places(m, f) :
              /\ Site(n, j, p[1], p[2]) /\ p = <<p[1], p[2]>>
              /\ Scan!At(m, f, p) = InstOf(n, j, p[1], p[2])
         /\ \A b, k : Site(n, j, b, k) =>
              <<b, k>> \in Scan!Places(m, f) /\ Scan!At(m, f, <<b, k>>) = InstOf(n, j, b, k)
<1>1. CodeOf(n, j) = m.body[f]
  BY DEF CodeOf
<1>2. \A p : p \in Scan!Places(m, f) <=> \E b \in 1..Len(CodeOf(n, j)) : \E k \in 1..Len(CodeOf(n, j)[b]) : p = <<b, k>>
  <2>1. PICK M : M = m.body[f]
    OBVIOUS
  <2>2. Scan!Places(m, f) = UNION {{<<b, k>> : k \in 1..Len(M[b])} : b \in 1..Len(M)}
    BY <2>1 DEF Scan!Places
  <2>3. ASSUME NEW p \in Scan!Places(m, f) PROVE \E b \in 1..Len(M) : \E k \in 1..Len(M[b]) : p = <<b, k>>
    BY <2>2
  <2>4. ASSUME NEW b \in 1..Len(M), NEW k \in 1..Len(M[b]) PROVE <<b, k>> \in Scan!Places(m, f)
    BY <2>2
  <2>5. \A p : p \in Scan!Places(m, f) <=> \E b \in 1..Len(M) : \E k \in 1..Len(M[b]) : p = <<b, k>>
    BY <2>3, <2>4, Zenon
  <2>6. CodeOf(n, j) = M
    BY <1>1, <2>1
  <2> QED
    BY <2>5, <2>6
<1>3. \A b, k : Scan!At(m, f, <<b, k>>) = InstOf(n, j, b, k)
  BY <1>1 DEF Scan!At, InstOf
<1>4. ASSUME NEW p \in Scan!Places(m, f)
      PROVE  /\ Site(n, j, p[1], p[2]) /\ p = <<p[1], p[2]>>
             /\ Scan!At(m, f, p) = InstOf(n, j, p[1], p[2])
  <2>1. PICK b, k : b \in 1..Len(CodeOf(n, j)) /\ k \in 1..Len(CodeOf(n, j)[b]) /\ p = <<b, k>>
    BY <1>2
  <2> QED
    BY <1>3, <2>1 DEF Site
<1> QED
  BY <1>2, <1>3, <1>4 DEF Site

LEMMA OwnPlacesAre ==
  ASSUME NEW n, NEW j, IsFunction(n, j), NEW m, NEW f, m = job.bitcodes[n], f = m.order[j]
  PROVE  /\ \A p \in Scan!OwnPlaces(m, f) :
              /\ Own(n, j, p[1], p[2]) /\ p = <<p[1], p[2]>>
              /\ Scan!At(m, f, p) = InstOf(n, j, p[1], p[2])
         /\ \A b, k : Own(n, j, b, k) =>
              <<b, k>> \in Scan!OwnPlaces(m, f) /\ Scan!At(m, f, <<b, k>>) = InstOf(n, j, b, k)
BY PlacesAre DEF Own, Scan!OwnPlaces

(* A function of a bitcode is in its order.                                *)
LEMMA InOrder ==
  ASSUME Scan!JobsAssumption, job \in Jobs, NEW n \in 1..Len(job.bitcodes), NEW f \in ScanFunc
  PROVE  \E j : IsFunction(n, j) /\ f = job.bitcodes[n].order[j]
BY JobBitcodes, BitcodeOrder DEF IsFunction

LEMMA FunctionInOrder ==
  ASSUME Scan!JobsAssumption, job \in Jobs, NEW n, NEW j, IsFunction(n, j)
  PROVE  n \in 1..Len(job.bitcodes) /\ job.bitcodes[n].order[j] \in ScanFunc
BY JobBitcodes, BitcodeOrder DEF IsFunction

LEMMA OneOrder ==
  ASSUME Scan!JobsAssumption, job \in Jobs, NEW n, NEW i, NEW j, IsFunction(n, i), IsFunction(n, j),
         job.bitcodes[n].order[i] = job.bitcodes[n].order[j]
  PROVE  i = j
BY JobBitcodes, BitcodeOrder DEF IsFunction

-----------------------------------------------------------------------------
(* The line detectors have a line on each instruction behind the cursor    *)
(* that they look for.                                                     *)
LineOf(n, j, b, k) == [of |-> n, fn |-> job.bitcodes[n].order[j], place |-> <<b, k>>]

Hit(n, j, b, k) == Own(n, j, b, k) /\ Scan!Match(detector, job.bitcodes[n], InstOf(n, j, b, k), traits)

LinesBehind ==
  detector \in Scan!LineDetectors =>
    /\ \A l \in out : \E n, j, b, k : Hit(n, j, b, k) /\ Behind(n, j, b, k) /\ l = LineOf(n, j, b, k)
    /\ \A n, j, b, k : Hit(n, j, b, k) /\ Behind(n, j, b, k) => LineOf(n, j, b, k) \in out

(* Which detector takes which step.                                        *)
LEMMA StepOf ==
  ASSUME ScanShape
  PROVE  /\ Scan!ScanLine => detector \in Scan!LineDetectors
         /\ Scan!CrashOnUser => detector = "unhandled-promise"
         /\ Scan!ScanTrait \/ Scan!BeginExtCall => detector = "ext-call-trait"
         /\ Scan!ScanUpgrade \/ Scan!EndUpgrade => detector = "upgrade-func"
         /\ Scan!CrashOnLoop => detector = "complex-loop"
         /\ Scan!LeaveFunction => detector \in {"complex-loop", "prepaid-gas"}
         /\ Scan!ScanPrepaidGas \/ Scan!EndPrepaidGas => detector = "prepaid-gas"
         /\ Scan!EndFunction => detector \notin {"upgrade-func", "prepaid-gas"}
         /\ Scan!ScanGet => detector = "unsaved-changes"
         /\ Scan!ScanResult \/ Scan!BeginWalk \/ Scan!WalkOn \/ Scan!WalkReports \/ Scan!WalkCrashes =>
              detector = "reentrancy"
         /\ Scan!Finish => detector # "ext-call-trait"
<1>1. \A d : Scan!AtOwn(d) => detector = d
  BY DEF Scan!AtOwn
<1>2. Scan!WalkOn \/ Scan!WalkReports \/ Scan!WalkCrashes => detector = "reentrancy"
  BY DEF ScanShape, Scan!WalkOn, Scan!WalkReports, Scan!WalkCrashes
<1>3. Scan!ScanLine => detector \in Scan!LineDetectors
  BY <1>1 DEF Scan!ScanLine
<1>4. /\ Scan!CrashOnUser => detector = "unhandled-promise"
      /\ Scan!ScanTrait => detector = "ext-call-trait"
      /\ Scan!ScanUpgrade => detector = "upgrade-func"
      /\ Scan!ScanPrepaidGas => detector = "prepaid-gas"
      /\ Scan!ScanGet => detector = "unsaved-changes"
      /\ Scan!ScanResult \/ Scan!BeginWalk => detector = "reentrancy"
  BY <1>1 DEF Scan!CrashOnUser, Scan!ScanTrait, Scan!ScanUpgrade, Scan!ScanPrepaidGas, Scan!ScanGet, Scan!ScanResult,
              Scan!BeginWalk
<1>5. /\ Scan!BeginExtCall => detector = "ext-call-trait"
      /\ Scan!EndUpgrade => detector = "upgrade-func"
      /\ Scan!CrashOnLoop => detector = "complex-loop"
      /\ Scan!LeaveFunction => detector \in {"complex-loop", "prepaid-gas"}
      /\ Scan!EndPrepaidGas => detector = "prepaid-gas"
      /\ Scan!EndFunction => detector \notin {"upgrade-func", "prepaid-gas"}
      /\ Scan!Finish => detector # "ext-call-trait"
  BY DEF Scan!BeginExtCall, Scan!EndUpgrade, Scan!CrashOnLoop, Scan!NamelessLoop, Scan!LeaveFunction,
         Scan!LeavesFunction, Scan!EndPrepaidGas, Scan!EndFunction, Scan!Finish
<1> QED
  BY <1>2, <1>3, <1>4, <1>5

(* The steps in which the cursor stays, and those any detector may take.   *)
Stays == UNCHANGED <<job, detector, bitcode, pos, found, traits, out>>

LEMMA StayingSteps ==
  ASSUME UNCHANGED Scan!vars \/ Scan!CrashOnUser \/ Scan!CrashOnLoop \/ Scan!Finish \/ Scan!BeginWalk \/ Scan!WalkCrashes
  PROVE  Stays
BY DEF Stays, Scan!vars, Scan!CrashOnUser, Scan!CrashOnLoop, Scan!Finish, Scan!BeginWalk, Scan!WalkCrashes, Scan!Fixed

LEMMA SkipIs ==
  ASSUME Scan!SkipInst
  PROVE  /\ InBlock /\ Scan!I.loc # "own" /\ pos' = Scan!NextInst /\ at = "scan"
         /\ UNCHANGED <<job, detector, bitcode, found, traits, out>>
BY DEF Scan!SkipInst, Scan!AtInst, Scan!InModule, Scan!Fixed, InBlock, InFunction

LEMMA EndFunctionIs ==
  ASSUME Scan!EndFunction
  PROVE  /\ InFunction /\ pos.block > Len(Scan!Body) /\ pos' = Scan!NextFunction /\ at = "scan"
         /\ UNCHANGED <<job, detector, bitcode, found, traits, out>>
BY DEF Scan!EndFunction, Scan!AtFunctionEnd, Scan!InModule, Scan!Fixed, InFunction

LEMMA NextBitcodeIs ==
  ASSUME Scan!JobsAssumption, ScanShape, Scan!NextBitcode
  PROVE  /\ ~InFunction /\ bitcode' = bitcode + 1 /\ pos' = Scan!Start /\ at = "scan"
         /\ UNCHANGED <<job, detector, found, traits, out>>
<1>1. pos.fn \in Nat /\ Len(Scan!Bitcode.order) \in Nat
  BY CursorIs
<1> QED
  BY <1>1 DEF Scan!NextBitcode, InFunction

LEMMA LineSteps ==
  ASSUME ScanShape, detector \in Scan!LineDetectors, [Scan!Next]_Scan!vars
  PROVE  Stays \/ Scan!SkipInst \/ Scan!ScanLine \/ Scan!EndFunction \/ Scan!NextBitcode
BY StepOf, StayingSteps DEF Scan!Next, Scan!LineDetectors

LEMMA LineOfStays ==
  ASSUME UNCHANGED job
  PROVE  \A n, j, b, k : LineOf(n, j, b, k)' = LineOf(n, j, b, k)
BY DEF LineOf

LEMMA LinesStep ==
  ASSUME Scan!JobsAssumption, ScanShape, LinesBehind, detector \in Scan!LineDetectors, [Scan!Next]_Scan!vars
  PROVE  LinesBehind'
<1>1. CASE Stays
  <2>1. \A n, j, b, k : Hit(n, j, b, k)' <=> Hit(n, j, b, k)
    BY <1>1, SitesStay DEF Stays, SameSites, Hit
  <2>2. \A n, j, b, k : Behind(n, j, b, k)' <=> Behind(n, j, b, k)
    BY <1>1 DEF Stays, Behind, Passed
  <2> QED
    BY <1>1, <2>1, <2>2, LineOfStays DEF Stays, LinesBehind
<1>2. ASSUME UNCHANGED <<job, detector, traits>> 
      PROVE  \A n, j, b, k : (Hit(n, j, b, k)' <=> Hit(n, j, b, k)) /\ LineOf(n, j, b, k)' = LineOf(n, j, b, k)
  BY <1>2, SitesStay, LineOfStays DEF SameSites, Hit
<1>3. \A n, j, b, k : Hit(n, j, b, k) => Site(n, j, b, k) /\ InstOf(n, j, b, k).loc = "own"
  BY DEF Hit, Own
<1>4. CASE Scan!SkipInst
  <2>1. /\ InBlock /\ Scan!I.loc # "own" /\ pos' = Scan!NextInst
        /\ UNCHANGED <<job, detector, bitcode, traits, out>>
    BY <1>4, SkipIs
  <2>2. \A n, j, b, k : Hit(n, j, b, k) => ~AtSite(n, j, b, k)
    BY <1>3, <2>1, OnlyHere
  <2>3. \A n, j, b, k : Hit(n, j, b, k) => (Behind(n, j, b, k)' <=> Behind(n, j, b, k))
    BY <1>3, <2>1, <2>2, OverInst
  <2> QED
    BY <1>2, <2>1, <2>3 DEF LinesBehind
<1>5. CASE Scan!EndFunction
  <2>1. /\ InFunction /\ pos.block > Len(Scan!Body) /\ pos' = Scan!NextFunction
        /\ UNCHANGED <<job, detector, bitcode, traits, out>>
    BY <1>5, EndFunctionIs
  <2>2. \A n, j, b, k : Hit(n, j, b, k) => (Behind(n, j, b, k)' <=> Behind(n, j, b, k))
    BY <1>3, <2>1, OverFunction, WholeFunction
  <2> QED
    BY <1>2, <2>1, <2>2 DEF LinesBehind
<1>6. CASE Scan!NextBitcode
  <2>1. /\ ~InFunction /\ bitcode' = bitcode + 1 /\ pos' = Scan!Start
        /\ UNCHANGED <<job, detector, traits, out>>
    BY <1>6, NextBitcodeIs
  <2>2. \A n, j, b, k : Hit(n, j, b, k) => (Behind(n, j, b, k)' <=> Behind(n, j, b, k))
    BY <1>3, <2>1, OverBitcode
  <2> QED
    BY <1>2, <2>1, <2>2 DEF LinesBehind
<1>7. CASE Scan!ScanLine
  <2>1. /\ InBlock /\ Scan!I.loc = "own" /\ pos' = Scan!NextInst
        /\ out' = out \cup {l \in {Scan!Line} : Scan!Match(detector, Scan!Bitcode, Scan!I, traits)}
        /\ UNCHANGED <<job, detector, bitcode, traits>>
    BY <1>7 DEF Scan!ScanLine, Scan!AtOwn, Scan!AtInst, Scan!InModule, Scan!Fixed, InBlock, InFunction
  <2>2. PICK n, j, b, k : n = bitcode /\ j = pos.fn /\ b = pos.block /\ k = pos.inst
    OBVIOUS
  <2>3. AtSite(n, j, b, k) /\ \A n1, j1, b1, k1 : AtSite(n1, j1, b1, k1) => n1 = n /\ j1 = j /\ b1 = b /\ k1 = k
    BY <2>2 DEF AtSite
  <2>4. InstOf(n, j, b, k) = Scan!I /\ Site(n, j, b, k) /\ job.bitcodes[n] = Scan!Bitcode
        /\ job.bitcodes[n].order[j] = Scan!Here
    BY <2>1, <2>3, OnlyHere
  <2>5. Hit(n, j, b, k) <=> Scan!Match(detector, Scan!Bitcode, Scan!I, traits)
    BY <2>1, <2>4 DEF Hit, Own
  <2>6. LineOf(n, j, b, k) = Scan!Line
    BY <2>2, <2>4 DEF LineOf, Scan!Line
  <2>7. \A l : l \in out' <=> l \in out \/ (Hit(n, j, b, k) /\ l = LineOf(n, j, b, k))
    <3>1. CASE Hit(n, j, b, k)
      BY <2>1, <2>5, <2>6, <3>1, Zenon
    <3>2. CASE ~Hit(n, j, b, k)
      BY <2>1, <2>5, <2>6, <3>2, Zenon
    <3> QED
      BY <3>1, <3>2
  <2>8. \A n1, j1, b1, k1 : Hit(n1, j1, b1, k1) =>
          (Behind(n1, j1, b1, k1)' <=> Behind(n1, j1, b1, k1) \/ (n1 = n /\ j1 = j /\ b1 = b /\ k1 = k))
    BY <1>3, <2>1, <2>2, <2>3, OverInst DEF AtSite
  <2> QED
    BY <1>2, <2>1, <2>7, <2>8 DEF LinesBehind
<1> QED
  BY <1>1, <1>4, <1>5, <1>6, <1>7, LineSteps

LEMMA ToExtCall ==
  ASSUME Scan!JobsAssumption, ScanShape, Scan!BeginExtCall
  PROVE  /\ detector = "ext-call-trait" /\ detector' = "ext-call" /\ ~InFunction /\ bitcode = Len(job.bitcodes)
         /\ bitcode' = 1 /\ pos' = Scan!Start /\ out = {}
         /\ UNCHANGED <<job, found, traits, out>>
         /\ \A n, j : IsFunction(n, j) => ~Passed(n, j)'
         /\ \A n, j, b, k : Site(n, j, b, k) => ~Behind(n, j, b, k)'
<1>1. /\ detector = "ext-call-trait" /\ detector' = "ext-call" /\ pos.fn > Len(Scan!Bitcode.order)
      /\ bitcode = Len(job.bitcodes) /\ bitcode' = 1 /\ pos' = Scan!Start /\ UNCHANGED <<job, found, traits, out>>
  BY DEF Scan!BeginExtCall, Scan!LastBitcode
<1>2. pos.fn \in Nat /\ Len(Scan!Bitcode.order) \in Nat /\ out = {}
  BY <1>1, CursorIs, ShapeOut
<1>3. ~InFunction
  BY <1>1, <1>2 DEF InFunction
<1>4. \A n, j : IsFunction(n, j) => ~(n < 1)
  BY FunctionIs
<1>5. \A n, j, b, k : Site(n, j, b, k) => ~(n < 1)
  BY <1>4 DEF Site
<1>6. /\ \A n, j : IsFunction(n, j) => (Passed(n, j)' <=> n < bitcode')
      /\ \A n, j, b, k : Site(n, j, b, k) => (Behind(n, j, b, k)' <=> n < bitcode')
  BY <1>1, AtStart
<1> QED
  BY <1>1, <1>2, <1>3, <1>4, <1>5, <1>6

(* The detector is another only where ext-call begins.                     *)
LEMMA SameDetector ==
  ASSUME [Scan!Next]_Scan!vars
  PROVE  Scan!BeginExtCall \/ UNCHANGED <<job, detector>>
<1>1. CASE UNCHANGED Scan!vars
  BY <1>1 DEF Scan!vars
<1>2. Scan!SkipInst \/ Scan!ScanLine \/ Scan!CrashOnUser \/ Scan!ScanTrait \/ Scan!ScanUpgrade \/ Scan!EndUpgrade
        => UNCHANGED <<job, detector>>
  BY Zenon DEF Scan!SkipInst, Scan!ScanLine, Scan!CrashOnUser, Scan!ScanTrait, Scan!ScanUpgrade, Scan!EndUpgrade, Scan!Fixed
<1>3. Scan!CrashOnLoop \/ Scan!LeaveFunction \/ Scan!ScanPrepaidGas \/ Scan!EndPrepaidGas \/ Scan!EndFunction \/ Scan!ScanGet
        => UNCHANGED <<job, detector>>
  BY Zenon DEF Scan!CrashOnLoop, Scan!LeaveFunction, Scan!ScanPrepaidGas, Scan!EndPrepaidGas, Scan!EndFunction, Scan!ScanGet,
         Scan!Fixed
<1>4. Scan!ScanResult \/ Scan!BeginWalk \/ Scan!WalkOn \/ Scan!WalkReports \/ Scan!WalkCrashes \/ Scan!NextBitcode \/ Scan!Finish
        => UNCHANGED <<job, detector>>
  BY Zenon DEF Scan!ScanResult, Scan!BeginWalk, Scan!WalkOn, Scan!WalkReports, Scan!WalkCrashes, Scan!NextBitcode, Scan!Finish,
         Scan!Fixed
<1> QED
  BY <1>1, <1>2, <1>3, <1>4 DEF Scan!Next

LEMMA LinesInit ==
  ASSUME Scan!JobsAssumption, Scan!Init
  PROVE  LinesBehind
<1>1. ScanShape /\ pos = Scan!Start /\ bitcode = 1 /\ out = {}
  BY ShapeInit DEF Scan!Init
<1>2. \A n, j, b, k : Hit(n, j, b, k) => ~Behind(n, j, b, k)
  BY <1>1, NothingPassed DEF Hit, Own
<1> QED
  BY <1>1, <1>2 DEF LinesBehind

LEMMA LinesAlways ==
  ASSUME Scan!JobsAssumption, ScanShape, LinesBehind, [Scan!Next]_Scan!vars
  PROVE  LinesBehind'
<1>1. CASE detector \in Scan!LineDetectors
  BY <1>1, LinesStep
<1>2. CASE Scan!BeginExtCall
  <2>1. out' = {} /\ UNCHANGED job /\ \A n, j, b, k : Site(n, j, b, k) => ~Behind(n, j, b, k)'
    BY <1>2, ToExtCall
  <2>2. \A n, j, b, k : Hit(n, j, b, k)' => Site(n, j, b, k)
    BY <2>1, SitesStay DEF SameSites, Hit, Own
  <2> QED
    BY <2>1, <2>2 DEF LinesBehind
<1>3. CASE detector \notin Scan!LineDetectors /\ UNCHANGED detector
  <2>1. Scan!LineDetectors' = Scan!LineDetectors
    BY DEF Scan!LineDetectors
  <2> QED
    BY <1>3, <2>1 DEF LinesBehind
<1> QED
  BY <1>1, <1>2, <1>3, SameDetector

-----------------------------------------------------------------------------
(* ext-call-trait has the first trait of each bitcode it has finished, and *)
(* in the one it is in there is none behind the cursor; ext-call has all.  *)
Calling(n, j, b, k) == Own(n, j, b, k) /\ "function_call" \in InstOf(n, j, b, k).calls
HasCalling(n, j)    == \E b, k : Calling(n, j, b, k)
FirstTrait(n, j)    == IsFunction(n, j) /\ HasCalling(n, j) /\ \A i \in 1..j - 1 : ~HasCalling(n, i)

Finished(n) == n < bitcode \/ (n = bitcode /\ ~InFunction)

TraitsFound ==
  /\ detector \notin {"ext-call-trait", "ext-call"} => traits = {}
  /\ detector = "ext-call-trait" =>
       /\ \A f : f \in traits <=> \E n, j : FirstTrait(n, j) /\ Finished(n) /\ f = job.bitcodes[n].order[j]
       /\ \A j, b, k : InFunction /\ Calling(bitcode, j, b, k) => ~Behind(bitcode, j, b, k)
  /\ detector = "ext-call" =>
       \A f : f \in traits <=> \E n, j : FirstTrait(n, j) /\ f = job.bitcodes[n].order[j]

LEMMA SameTraits ==
  ASSUME UNCHANGED job
  PROVE  /\ \A n, j, b, k : Calling(n, j, b, k)' <=> Calling(n, j, b, k)
         /\ \A n, j : FirstTrait(n, j)' <=> FirstTrait(n, j)
         /\ \A n, j : (job.bitcodes[n].order[j])' = job.bitcodes[n].order[j]
<1>1. \A n, j, b, k : Calling(n, j, b, k)' <=> Calling(n, j, b, k)
  BY SitesStay DEF SameSites, Calling
<1>2. \A n, j : HasCalling(n, j)' <=> HasCalling(n, j)
  BY <1>1 DEF HasCalling
<1>3. \A n, j : FirstTrait(n, j)' <=> FirstTrait(n, j)
  BY <1>2, SitesStay DEF SameSites, FirstTrait
<1> QED
  BY <1>1, <1>3

LEMMA TraitSteps ==
  ASSUME ScanShape, detector = "ext-call-trait", [Scan!Next]_Scan!vars
  PROVE  Stays \/ Scan!SkipInst \/ Scan!ScanTrait \/ Scan!EndFunction \/ Scan!NextBitcode \/ Scan!BeginExtCall
BY StepOf, StayingSteps DEF Scan!Next, Scan!LineDetectors

LEMMA TraitIs ==
  ASSUME Scan!ScanTrait
  PROVE  /\ InBlock /\ Scan!I.loc = "own" /\ UNCHANGED <<job, detector, bitcode, out>>
         /\ \/ /\ "function_call" \in Scan!I.calls
               /\ traits' = traits \cup {Scan!Here} /\ pos' = Scan!ModuleEnd
            \/ /\ "function_call" \notin Scan!I.calls
               /\ traits' = traits /\ pos' = Scan!NextInst
BY DEF Scan!ScanTrait, Scan!AtOwn, Scan!AtInst, Scan!InModule, Scan!Fixed, InBlock, InFunction

LEMMA TraitsInit ==
  ASSUME Scan!JobsAssumption, Scan!Init
  PROVE  TraitsFound
<1>1. ScanShape /\ pos = Scan!Start /\ bitcode = 1 /\ traits = {} /\ detector # "ext-call"
  BY ShapeInit DEF Scan!Init, Scan!JobsAssumption, Scan!Detectors, Scan!LineDetectors
<1>2. \A n, j, b, k : Calling(n, j, b, k) => ~Behind(n, j, b, k)
  BY <1>1, NothingPassed DEF Calling, Own
<1>3. ASSUME NEW n, NEW j, FirstTrait(n, j), Finished(n) PROVE FALSE
  <2>1. IsFunction(n, j) /\ n \in Nat \ {0} /\ j \in 1..Len(job.bitcodes[n].order)
    BY <1>1, <1>3, FunctionIs DEF FirstTrait, IsFunction
  <2>2. n = 1 /\ ~InFunction
    BY <1>1, <1>3, <2>1 DEF Finished
  <2>3. pos.fn = 1 /\ Scan!Bitcode = job.bitcodes[n] /\ Len(Scan!Bitcode.order) \in Nat
    BY <1>1, <2>2, CursorIs DEF Scan!Start
  <2> QED
    BY <2>1, <2>2, <2>3 DEF InFunction
<1> QED
  BY <1>1, <1>2, <1>3 DEF TraitsFound

(* No trait is first in a bitcode none of whose calls is ahead.            *)
LEMMA TraitsStep ==
  ASSUME Scan!JobsAssumption, ScanShape, TraitsFound, detector = "ext-call-trait", [Scan!Next]_Scan!vars
  PROVE  TraitsFound'
<1>1. /\ \A f : f \in traits <=> \E n, j : FirstTrait(n, j) /\ Finished(n) /\ f = job.bitcodes[n].order[j]
      /\ \A j, b, k : InFunction /\ Calling(bitcode, j, b, k) => ~Behind(bitcode, j, b, k)
  BY DEF TraitsFound
<1>2. /\ \A n, j, b, k : Calling(n, j, b, k) => Site(n, j, b, k) /\ "function_call" \in InstOf(n, j, b, k).calls
      /\ \A n, j, b, k : Calling(n, j, b, k) => InstOf(n, j, b, k).loc = "own"
      /\ \A n, j : FirstTrait(n, j) => IsFunction(n, j) /\ \E b, k : Calling(n, j, b, k)
  BY DEF Calling, Own, FirstTrait, HasCalling
<1>3. CASE Stays
  <2>1. /\ \A n : Finished(n)' <=> Finished(n)
        /\ \A j, b, k : Behind(bitcode, j, b, k)' <=> Behind(bitcode, j, b, k)
        /\ InFunction' <=> InFunction
    BY <1>3 DEF Stays, Finished, Behind, Passed, InFunction, Scan!Bitcode
  <2>2. UNCHANGED <<job, detector, bitcode, traits>>
    BY <1>3 DEF Stays
  <2> QED
    BY <1>1, <2>1, <2>2, SameTraits DEF TraitsFound
<1>4. CASE Scan!SkipInst \/ (Scan!ScanTrait /\ "function_call" \notin Scan!I.calls)
  <2>1. /\ InBlock /\ pos' = Scan!NextInst /\ UNCHANGED <<job, detector, bitcode, traits>>
        /\ Scan!I.loc # "own" \/ "function_call" \notin Scan!I.calls
    BY <1>4, SkipIs, TraitIs
  <2>2. pos'.fn = pos.fn /\ (InFunction' <=> InFunction) /\ \A n : Finished(n)' <=> Finished(n)
    BY <2>1, MovesInFunction DEF InBlock, InFunction, Scan!Bitcode, Finished
  <2>3. \A j, b, k : Calling(bitcode, j, b, k) => ~AtSite(bitcode, j, b, k)
    BY <1>2, <2>1, OnlyHere
  <2>4. \A j, b, k : Calling(bitcode, j, b, k) => (Behind(bitcode, j, b, k)' <=> Behind(bitcode, j, b, k))
    BY <1>2, <2>1, <2>3, OverInst
  <2> QED
    BY <1>1, <2>1, <2>2, <2>4, SameTraits DEF TraitsFound
<1>5. CASE Scan!ScanTrait /\ "function_call" \in Scan!I.calls
  <2>1. /\ InBlock /\ InFunction /\ Scan!I.loc = "own" /\ pos' = Scan!ModuleEnd /\ UNCHANGED <<job, detector, bitcode>>
        /\ traits' = traits \cup {Scan!Here}
    BY <1>5, TraitIs DEF InBlock
  <2>2. /\ ~InFunction' /\ bitcode \in Nat /\ pos.fn \in Nat
        /\ \A n : Finished(n)' <=> (Finished(n) \/ n = bitcode)
    <3>1. pos'.fn = Len(Scan!Bitcode.order) + 1 /\ Len(Scan!Bitcode.order) \in Nat /\ bitcode \in Nat /\ pos.fn \in Nat
          /\ Scan!Bitcode' = Scan!Bitcode
      BY <2>1, Moves, CursorIs DEF InFunction, Scan!Bitcode
    <3>2. ~InFunction'
      BY <3>1 DEF InFunction
    <3> QED
      BY <2>1, <3>1, <3>2 DEF Finished
  <2>3. /\ Calling(bitcode, pos.fn, pos.block, pos.inst) /\ IsFunction(bitcode, pos.fn)
        /\ Scan!Here = job.bitcodes[bitcode].order[pos.fn]
    BY <1>5, <2>1, CursorHere DEF Calling, Own
  <2>4. ASSUME NEW j, HasCalling(bitcode, j), IsFunction(bitcode, j) PROVE ~(j < pos.fn)
    BY <1>1, <2>1, <2>4 DEF HasCalling, Behind, Passed
  <2>5. FirstTrait(bitcode, pos.fn)
    <3>1. ASSUME NEW i \in 1..pos.fn - 1 PROVE ~HasCalling(bitcode, i)
      <4>1. i < pos.fn
        BY <2>2
      <4>2. HasCalling(bitcode, i) => IsFunction(bitcode, i)
        BY DEF HasCalling, Calling, Own, Site
      <4> QED
        BY <2>4, <4>1, <4>2
    <3> QED
      BY <2>3, <3>1 DEF FirstTrait, HasCalling
  <2>6. ASSUME NEW j, FirstTrait(bitcode, j) PROVE j = pos.fn
    <3>1. IsFunction(bitcode, j) /\ HasCalling(bitcode, j) /\ (\A i \in 1..j - 1 : ~HasCalling(bitcode, i)) /\ HasCalling(bitcode, pos.fn)
      BY <2>3, <2>6 DEF FirstTrait, HasCalling
    <3>2. j \in Nat \ {0} /\ pos.fn \in Nat \ {0}
      BY <2>3, <3>1, FunctionIs
    <3>3. ~(j < pos.fn)
      BY <2>4, <3>1
    <3>4. ~(pos.fn \in 1..j - 1)
      BY <3>1
    <3> QED
      BY <3>2, <3>3, <3>4
  <2>7. ~Finished(bitcode)
    BY <2>1, <2>2 DEF Finished
  <2>8. \A f : f \in traits' <=> \E n, j : FirstTrait(n, j) /\ (Finished(n) \/ n = bitcode) /\ f = job.bitcodes[n].order[j]
    <3>1. ASSUME NEW f \in traits'
          PROVE  \E n, j : FirstTrait(n, j) /\ (Finished(n) \/ n = bitcode) /\ f = job.bitcodes[n].order[j]
      BY <1>1, <2>1, <2>3, <2>5, <3>1
    <3>2. ASSUME NEW f, NEW n, NEW j, FirstTrait(n, j), Finished(n) \/ n = bitcode, f = job.bitcodes[n].order[j]
          PROVE  f \in traits'
      <4>1. CASE Finished(n)
        BY <1>1, <2>1, <3>2, <4>1
      <4>2. CASE n = bitcode
        BY <2>1, <2>3, <2>6, <3>2, <4>2
      <4> QED
        BY <3>2, <4>1, <4>2
    <3> QED
      BY <3>1, <3>2
  <2> QED
    BY <2>1, <2>2, <2>8, SameTraits DEF TraitsFound
<1>6. CASE Scan!EndFunction
  <2>1. /\ InFunction /\ pos.block > Len(Scan!Body) /\ pos' = Scan!NextFunction
        /\ UNCHANGED <<job, detector, bitcode, traits>>
    BY <1>6, EndFunctionIs
  <2>2. \A j, b, k : Calling(bitcode, j, b, k) => ~Behind(bitcode, j, b, k)'
    BY <1>1, <1>2, <2>1, OverFunction, WholeFunction
  <2>3. ASSUME Finished(bitcode)', NEW j, FirstTrait(bitcode, j) PROVE FALSE
    <3>1. pos'.fn = pos.fn + 1 /\ Len(Scan!Bitcode.order) \in Nat /\ pos.fn \in Nat /\ bitcode \in Nat
          /\ Scan!Bitcode' = Scan!Bitcode /\ Scan!Bitcode = job.bitcodes[bitcode]
      BY <2>1, Moves, CursorIs DEF InFunction, Scan!Bitcode
    <3>2. pos'.fn > Len(Scan!Bitcode.order)
      BY <2>1, <2>3, <3>1 DEF Finished, InFunction
    <3>3. PICK b, k : Calling(bitcode, j, b, k)
      BY <1>2, <2>3
    <3>4. j \in 1..Len(Scan!Bitcode.order)
      BY <2>3, <3>1 DEF FirstTrait, IsFunction
    <3>5. Behind(bitcode, j, b, k)'
      BY <2>1, <3>1, <3>2, <3>4 DEF Behind, Passed
    <3> QED
      BY <2>2, <3>3, <3>5
  <2>4. \A n : n # bitcode => (Finished(n)' <=> Finished(n))
    BY <2>1 DEF Finished
  <2>5. ~Finished(bitcode)
    <3>1. bitcode \in Nat
      BY CursorIs
    <3> QED
      BY <2>1, <3>1 DEF Finished
  <2>6. ASSUME NEW n, NEW j, FirstTrait(n, j) PROVE Finished(n)' <=> Finished(n)
    <3>1. CASE n # bitcode
      BY <2>4, <3>1
    <3>2. CASE n = bitcode
      <4>1. ~Finished(bitcode)'
        BY <2>3, <2>6, <3>2
      <4> QED
        BY <2>1, <2>5, <3>2, <4>1
    <3> QED
      BY <3>1, <3>2
  <2> QED
    BY <1>1, <2>1, <2>2, <2>6, SameTraits DEF TraitsFound
<1>7. CASE Scan!NextBitcode
  <2>1. /\ ~InFunction /\ bitcode' = bitcode + 1 /\ pos' = Scan!Start /\ bitcode \in Nat
        /\ UNCHANGED <<job, detector, traits>>
    BY <1>7, NextBitcodeIs, CursorIs
  <2>2. \A n, j, b, k : Calling(n, j, b, k) => (Behind(n, j, b, k)' <=> n < bitcode')
    BY <1>2, <2>1, AtStart
  <2>3. \A j, b, k : Calling(bitcode, j, b, k)' => ~Behind(bitcode, j, b, k)'
    <3>1. SUFFICES ASSUME NEW j, NEW b, NEW k, NEW n, n = bitcode', Calling(n, j, b, k) PROVE ~Behind(n, j, b, k)'
      BY <2>1, SameTraits
    <3> QED
      BY <2>1, <2>2, <3>1
  <2>4. ASSUME NEW n, NEW j, FirstTrait(n, j) PROVE Finished(n)' <=> Finished(n)
    <3>1. n \in Nat /\ j \in 1..Len(job.bitcodes[n].order) /\ IsFunction(n, j)
      BY <2>4, FunctionIs DEF FirstTrait, IsFunction
    <3>2. Finished(n) <=> n <= bitcode
      BY <2>1, <3>1 DEF Finished
    <3>3. n = bitcode' => InFunction'
      <4>1. SUFFICES ASSUME n = bitcode' PROVE InFunction'
        OBVIOUS
      <4>2. Scan!Bitcode' = job.bitcodes[n] /\ pos'.fn = 1
        BY <2>1, <4>1 DEF Scan!Bitcode, Scan!Start
      <4>3. Scan!IsBitcode(job.bitcodes[n])
        BY <3>1, FunctionIs
      <4>4. Len(job.bitcodes[n].order) \in Nat
        BY <4>3, BitcodeOrder
      <4> QED
        BY <3>1, <4>2, <4>4 DEF InFunction
    <3> QED
      BY <2>1, <3>1, <3>2, <3>3 DEF Finished
  <2> QED
    BY <1>1, <2>1, <2>3, <2>4, SameTraits DEF TraitsFound
<1>8. CASE Scan!BeginExtCall
  <2>1. detector' = "ext-call" /\ ~InFunction /\ bitcode = Len(job.bitcodes) /\ UNCHANGED <<job, traits>>
    BY <1>8, ToExtCall
  <2>2. ASSUME NEW n, NEW j, FirstTrait(n, j) PROVE Finished(n)
    <3>1. n \in 1..Len(job.bitcodes) /\ Len(job.bitcodes) \in Nat
      BY <2>2, CursorIs DEF FirstTrait, IsFunction
    <3> QED
      BY <2>1, <3>1 DEF Finished
  <2> QED
    BY <1>1, <2>1, <2>2, SameTraits DEF TraitsFound
<1> QED
  BY <1>3, <1>4, <1>5, <1>6, <1>7, <1>8, TraitSteps

(* Which steps write what but the detector reports.                        *)
LEMMA SameTraitsAndFound ==
  ASSUME [Scan!Next]_Scan!vars
  PROVE  /\ Scan!ScanTrait \/ UNCHANGED traits
         /\ Scan!ScanUpgrade \/ Scan!EndUpgrade \/ UNCHANGED found
<1>1. CASE UNCHANGED Scan!vars
  BY <1>1 DEF Scan!vars
<1>2. Scan!SkipInst \/ Scan!ScanLine \/ Scan!CrashOnUser \/ Scan!CrashOnLoop \/ Scan!LeaveFunction \/ Scan!ScanPrepaidGas
        => UNCHANGED <<found, traits>>
  BY Zenon DEF Scan!SkipInst, Scan!ScanLine, Scan!CrashOnUser, Scan!CrashOnLoop, Scan!LeaveFunction, Scan!ScanPrepaidGas
<1>3. Scan!EndPrepaidGas \/ Scan!EndFunction \/ Scan!ScanGet \/ Scan!ScanResult \/ Scan!BeginWalk \/ Scan!WalkOn
        => UNCHANGED <<found, traits>>
  BY Zenon DEF Scan!EndPrepaidGas, Scan!EndFunction, Scan!ScanGet, Scan!ScanResult, Scan!BeginWalk, Scan!WalkOn
<1>4. Scan!WalkReports \/ Scan!WalkCrashes \/ Scan!NextBitcode \/ Scan!BeginExtCall \/ Scan!Finish => UNCHANGED <<found, traits>>
  BY Zenon DEF Scan!WalkReports, Scan!WalkCrashes, Scan!NextBitcode, Scan!BeginExtCall, Scan!Finish
<1>5. (Scan!ScanTrait => UNCHANGED found) /\ (Scan!ScanUpgrade \/ Scan!EndUpgrade => UNCHANGED traits)
  BY Zenon DEF Scan!ScanTrait, Scan!ScanUpgrade, Scan!EndUpgrade
<1> QED
  BY <1>1, <1>2, <1>3, <1>4, <1>5 DEF Scan!Next

LEMMA TraitsAlways ==
  ASSUME Scan!JobsAssumption, ScanShape, TraitsFound, [Scan!Next]_Scan!vars
  PROVE  TraitsFound'
<1>1. CASE detector = "ext-call-trait"
  BY <1>1, TraitsStep
<1>2. CASE detector # "ext-call-trait"
  <2>1. UNCHANGED <<job, detector>> /\ UNCHANGED traits
    BY <1>2, SameDetector, SameTraitsAndFound, StepOf
  <2> QED
    BY <1>2, <2>1, SameTraits DEF TraitsFound
<1> QED
  BY <1>1, <1>2

(* What the line detectors have written when they are done.                *)
LEMMA LinesDone ==
  ASSUME Scan!JobsAssumption, ScanShape, LinesBehind, detector \in Scan!LineDetectors, at = "done"
  PROVE  \A l : l \in out <=> \E n, j, b, k : Hit(n, j, b, k) /\ l = LineOf(n, j, b, k)
<1>1. \A n, j, b, k : Hit(n, j, b, k) => Behind(n, j, b, k)
  BY AllPassed DEF Hit, Own
<1> QED
  BY <1>1 DEF LinesBehind

(* A line on a place of a function, and on a site.                         *)
OnPlace(l, n, f, p) ==
  /\ n \in 1..Len(job.bitcodes) /\ f \in ScanFunc /\ p \in Scan!OwnPlaces(job.bitcodes[n], f)
  /\ l = [of |-> n, fn |-> f, place |-> p]

LEMMA PlaceOfLine ==
  ASSUME Scan!JobsAssumption, ScanShape, NEW l, NEW n, NEW f, NEW p, OnPlace(l, n, f, p)
  PROVE  \E j, b, k : /\ Own(n, j, b, k) /\ l = LineOf(n, j, b, k) /\ f = job.bitcodes[n].order[j] /\ p = <<b, k>>
                      /\ Scan!At(job.bitcodes[n], f, p) = InstOf(n, j, b, k)
<1>1. PICK j : IsFunction(n, j) /\ f = job.bitcodes[n].order[j]
  BY InOrder DEF OnPlace, ScanShape
<1>2. Own(n, j, p[1], p[2]) /\ p = <<p[1], p[2]>> /\ Scan!At(job.bitcodes[n], f, p) = InstOf(n, j, p[1], p[2])
  BY <1>1, OwnPlacesAre DEF OnPlace
<1> QED
  BY <1>1, <1>2 DEF OnPlace, LineOf

LEMMA LineOfPlace ==
  ASSUME Scan!JobsAssumption, ScanShape, NEW n, NEW j, NEW b, NEW k, Own(n, j, b, k)
  PROVE  /\ OnPlace(LineOf(n, j, b, k), n, job.bitcodes[n].order[j], <<b, k>>)
         /\ Scan!At(job.bitcodes[n], job.bitcodes[n].order[j], <<b, k>>) = InstOf(n, j, b, k)
<1>1. IsFunction(n, j) /\ job \in Jobs
  BY DEF Own, Site, ScanShape
<1> QED
  BY <1>1, FunctionInOrder, OwnPlacesAre DEF OnPlace, LineOf

LEMMA MatchesGiven ==
  ASSUME Scan!JobsAssumption, ScanShape, LinesBehind, TraitsFound
  PROVE  Scan!MatchesReported
<1>1. SUFFICES ASSUME at = "done", detector \in Scan!LineDetectors \ {"ext-call"}
               PROVE  out = Scan!Lines(LAMBDA m, f, p : Scan!Match(detector, m, Scan!At(m, f, p), {}))
  BY DEF Scan!MatchesReported, Scan!Done
<1>2. traits = {}
  BY <1>1 DEF TraitsFound, Scan!LineDetectors
<1>3. \A l : l \in out <=> \E n, j, b, k : Hit(n, j, b, k) /\ l = LineOf(n, j, b, k)
  BY <1>1, LinesDone
<1> DEFINE M(n, f, p) == Scan!Match(detector, job.bitcodes[n], Scan!At(job.bitcodes[n], f, p), traits)
           lines == Scan!Lines(LAMBDA m, f, p : Scan!Match(detector, m, Scan!At(m, f, p), {}))
<1>4. \A l : l \in lines <=> \E n, f, p : OnPlace(l, n, f, p) /\ M(n, f, p)
  <2>1. lines = UNION {UNION {{[of |-> n, fn |-> f, place |-> p] :
                   p \in {q \in Scan!OwnPlaces(job.bitcodes[n], f) : M(n, f, q)}} :
                f \in ScanFunc} : n \in 1..Len(job.bitcodes)}
    BY <1>2 DEF Scan!Lines
  <2> HIDE DEF M, lines
  <2> QED
    BY <2>1 DEF OnPlace
<1> HIDE DEF lines
<1>5. ASSUME NEW l \in lines PROVE l \in out
  <2>1. PICK n, f, p : OnPlace(l, n, f, p) /\ M(n, f, p)
    BY <1>4, <1>5
  <2>2. PICK j, b, k : /\ Own(n, j, b, k) /\ l = LineOf(n, j, b, k)
                       /\ Scan!At(job.bitcodes[n], f, p) = InstOf(n, j, b, k)
    BY <2>1, PlaceOfLine
  <2> QED
    BY <1>3, <2>1, <2>2 DEF Hit
<1>6. ASSUME NEW l \in out PROVE l \in lines
  <2>1. PICK n, j, b, k : Hit(n, j, b, k) /\ l = LineOf(n, j, b, k)
    BY <1>3, <1>6
  <2>2. Own(n, j, b, k) /\ Scan!Match(detector, job.bitcodes[n], InstOf(n, j, b, k), traits)
    BY <2>1 DEF Hit
  <2>3. /\ OnPlace(l, n, job.bitcodes[n].order[j], <<b, k>>)
        /\ Scan!At(job.bitcodes[n], job.bitcodes[n].order[j], <<b, k>>) = InstOf(n, j, b, k)
    BY <2>1, <2>2, LineOfPlace
  <2>4. M(n, job.bitcodes[n].order[j], <<b, k>>)
    BY <2>2, <2>3
  <2> HIDE DEF M
  <2> QED
    BY <1>4, <2>3, <2>4
<1>7. out = lines
  BY <1>5, <1>6
<1> QED
  BY <1>7 DEF lines

LEMMA LeastIs ==
  ASSUME NEW B \in SUBSET Nat, B # {}
  PROVE  /\ Scan!Min(B) \in B
         /\ \A n \in B : Scan!Min(B) <= n
<1> DEFINE C == {n \in Nat : \E b \in B : b <= n}
<1>1. C \in SUBSET Nat /\ C # {}
  <2>1. PICK b \in B : TRUE
    OBVIOUS
  <2>2. b \in C
    BY <2>1
  <2> QED
    BY <2>2
<1> HIDE DEF C
<1>2. PICK n \in C : n = 0 \/ n - 1 \notin C
  BY <1>1, LeastNat
<1>3. PICK b \in B : b <= n /\ n \in Nat
  BY <1>2 DEF C
<1>4. \A m \in B : ~(m < n)
  <2>1. SUFFICES ASSUME NEW m \in B, m < n PROVE FALSE
    OBVIOUS
  <2>2. n - 1 \in Nat /\ m <= n - 1 /\ n # 0
    BY <1>3, <2>1
  <2>3. n - 1 \in C
    BY <2>2 DEF C
  <2> QED
    BY <1>2, <2>2, <2>3
<1>5. b = n /\ \A m \in B : b <= m
  BY <1>3, <1>4
<1>6. \E x \in B : \A m \in B : x <= m
  BY <1>5
<1> QED
  BY <1>6 DEF Scan!Min

LEMMA FirstTraits ==
  ASSUME Scan!JobsAssumption, ScanShape, NEW n \in 1..Len(job.bitcodes)
  PROVE  LET m == job.bitcodes[n]
         IN  /\ Scan!TraitsOf(m) = {} => \A j : ~FirstTrait(n, j)
             /\ Scan!TraitsOf(m) # {} => \A j : FirstTrait(n, j) <=> j = Scan!Min(Scan!TraitsOf(m))
<1> DEFINE m == job.bitcodes[n]
           T == Scan!TraitsOf(m)
<1>1. Scan!IsBitcode(m) /\ job \in Jobs
  BY JobBitcodes DEF ScanShape
<1>2. Len(m.order) \in Nat
  BY <1>1, BitcodeOrder
<1>3. ASSUME NEW j \in 1..Len(m.order) PROVE Scan!IsTrait(m, m.order[j]) <=> HasCalling(n, j)
  <2>1. IsFunction(n, j)
    BY <1>3 DEF IsFunction
  <2>2. /\ \A p \in Scan!OwnPlaces(m, m.order[j]) :
             Own(n, j, p[1], p[2]) /\ Scan!At(m, m.order[j], p) = InstOf(n, j, p[1], p[2])
        /\ \A b, k : Own(n, j, b, k) =>
             <<b, k>> \in Scan!OwnPlaces(m, m.order[j]) /\ Scan!At(m, m.order[j], <<b, k>>) = InstOf(n, j, b, k)
    BY <2>1, OwnPlacesAre
  <2> HIDE DEF m
  <2>3. ASSUME Scan!IsTrait(m, m.order[j]) PROVE HasCalling(n, j)
    <3>1. PICK p \in Scan!OwnPlaces(m, m.order[j]) : "function_call" \in Scan!At(m, m.order[j], p).calls
      BY <2>3 DEF Scan!IsTrait
    <3>2. Calling(n, j, p[1], p[2])
      BY <2>2, <3>1 DEF Calling
    <3> QED
      BY <3>2 DEF HasCalling
  <2>4. ASSUME HasCalling(n, j) PROVE Scan!IsTrait(m, m.order[j])
    <3>1. PICK b, k : Calling(n, j, b, k)
      BY <2>4 DEF HasCalling
    <3> QED
      BY <2>2, <3>1 DEF Calling, Scan!IsTrait
  <2> QED
    BY <2>3, <2>4
<1>4. \A j : j \in T <=> j \in 1..Len(m.order) /\ HasCalling(n, j)
  BY <1>3 DEF Scan!TraitsOf
<1>5. T \in SUBSET Nat
  BY <1>2, <1>4
<1> HIDE DEF T
<1>6. ASSUME NEW j, FirstTrait(n, j) PROVE j \in T /\ \A i \in T : ~(i < j)
  <2>1. j \in 1..Len(m.order) /\ HasCalling(n, j) /\ \A i \in 1..j - 1 : ~HasCalling(n, i)
    BY <1>6 DEF FirstTrait, IsFunction
  <2>2. \A i \in T : i < j => i \in 1..j - 1
    BY <1>2, <1>4, <2>1
  <2> QED
    BY <1>4, <2>1, <2>2
<1>7. ASSUME T # {}, NEW j PROVE FirstTrait(n, j) <=> j = Scan!Min(T)
  <2>1. Scan!Min(T) \in T /\ \A i \in T : Scan!Min(T) <= i
    BY <1>5, <1>7, LeastIs
  <2> DEFINE a == Scan!Min(T)
  <2>2. a \in T /\ \A i \in T : a <= i
    BY <2>1
  <2> HIDE DEF a
  <2>3. a \in 1..Len(m.order) /\ HasCalling(n, a) /\ IsFunction(n, a)
    BY <1>4, <2>2 DEF IsFunction
  <2>4. \A i \in 1..a - 1 : ~HasCalling(n, i)
    <3>1. SUFFICES ASSUME NEW i \in 1..a - 1, HasCalling(n, i) PROVE FALSE
      OBVIOUS
    <3>2. i \in 1..Len(m.order) /\ i < a /\ a \in Nat /\ i \in Nat
      BY <1>2, <2>3, <3>1
    <3>3. i \in T
      BY <1>4, <3>1, <3>2
    <3>4. a <= i
      BY <2>2, <3>3
    <3> QED
      BY <3>2, <3>4
  <2>5. FirstTrait(n, a)
    BY <2>3, <2>4 DEF FirstTrait
  <2>6. FirstTrait(n, j) => j = a
    <3>1. SUFFICES ASSUME FirstTrait(n, j) PROVE j = a
      OBVIOUS
    <3>2. j \in T /\ ~(a < j) /\ a <= j
      BY <1>6, <2>2, <3>1
    <3> QED
      BY <1>5, <2>2, <3>2
  <2> QED
    BY <2>5, <2>6 DEF a
<1>8. T = {} => \A j : ~FirstTrait(n, j)
  BY <1>6
<1> QED
  BY <1>7, <1>8 DEF T

LEMMA FirstTraitsFound ==
  ASSUME Scan!JobsAssumption, ScanShape, TraitsFound, at = "done", detector = "ext-call"
  PROVE  Scan!FirstTraits = traits
<1> DEFINE first == Scan!FirstTraits
<1>1. \A f : f \in first <=> \E n \in 1..Len(job.bitcodes) :
                               Scan!TraitsOf(job.bitcodes[n]) # {} /\ f = job.bitcodes[n].order[Scan!Min(Scan!TraitsOf(job.bitcodes[n]))]
  BY DEF Scan!FirstTraits
<1> HIDE DEF first
<1>2. \A f : f \in traits <=> \E n, j : FirstTrait(n, j) /\ f = job.bitcodes[n].order[j]
  BY DEF TraitsFound
<1>3. \A n, j : FirstTrait(n, j) => n \in 1..Len(job.bitcodes)
  BY DEF FirstTrait, IsFunction
<1>4. ASSUME NEW f PROVE f \in traits <=> f \in first
  BY <1>1, <1>2, <1>3, FirstTraits
<1>5. first = traits
  BY <1>4
<1> QED
  BY <1>5 DEF first

LEMMA FirstAreTraits ==
  ASSUME Scan!JobsAssumption, ScanShape
  PROVE  Scan!FirstTraits \subseteq Scan!AllTraits
<1>1. SUFFICES ASSUME NEW n \in 1..Len(job.bitcodes), Scan!TraitsOf(job.bitcodes[n]) # {}
               PROVE  Scan!Min(Scan!TraitsOf(job.bitcodes[n])) \in Scan!TraitsOf(job.bitcodes[n])
  BY DEF Scan!FirstTraits, Scan!AllTraits
<1>2. Len(job.bitcodes[n].order) \in Nat
  BY <1>1, JobBitcodes, BitcodeOrder DEF ScanShape
<1>3. Scan!TraitsOf(job.bitcodes[n]) \in SUBSET Nat
  BY <1>2 DEF Scan!TraitsOf
<1> QED
  BY <1>1, <1>3, LeastIs

(* ext-call reports exactly the calls of the first traits.                 *)
LEMMA FirstTraitsCalls ==
  ASSUME Scan!JobsAssumption, ScanShape, LinesBehind, TraitsFound, at = "done", detector = "ext-call"
  PROVE  out = Scan!CallsOf(Scan!FirstTraits \ Special)
<1> DEFINE first == Scan!FirstTraits
           lines == Scan!CallsOf(first \ Special)
           M(n, f, p) == Scan!At(job.bitcodes[n], f, p).calls \cap (first \ Special) # {}
<1>2. \A l : l \in lines <=> \E n, f, p : OnPlace(l, n, f, p) /\ M(n, f, p)
  <2>1. lines = UNION {UNION {{[of |-> n, fn |-> f, place |-> p] :
                   p \in {q \in Scan!OwnPlaces(job.bitcodes[n], f) : M(n, f, q)}} :
                f \in ScanFunc} : n \in 1..Len(job.bitcodes)}
    BY DEF Scan!CallsOf, Scan!Lines
  <2> HIDE DEF M, lines
  <2> QED
    BY <2>1 DEF OnPlace
<1> HIDE DEF lines
<1>3. first = traits
  BY FirstTraitsFound
<1> HIDE DEF first
<1>4. \A l : l \in out <=> \E n, j, b, k : Hit(n, j, b, k) /\ l = LineOf(n, j, b, k)
  BY LinesDone DEF Scan!LineDetectors
<1>5. \A n, j, b, k : Hit(n, j, b, k) <=> Own(n, j, b, k) /\ InstOf(n, j, b, k).calls \cap (traits \ Special) # {}
  BY DEF Hit, Scan!Match, Scan!CallsTrait
<1>6. ASSUME NEW l \in lines PROVE l \in out
  <2>1. PICK n, f, p : OnPlace(l, n, f, p) /\ M(n, f, p)
    BY <1>2, <1>6
  <2>2. PICK j, b, k : /\ Own(n, j, b, k) /\ l = LineOf(n, j, b, k)
                       /\ Scan!At(job.bitcodes[n], f, p) = InstOf(n, j, b, k)
    BY <2>1, PlaceOfLine
  <2> QED
    BY <1>3, <1>4, <1>5, <2>1, <2>2
<1>7. ASSUME NEW l \in out PROVE l \in lines
  <2>1. PICK n, j, b, k : Hit(n, j, b, k) /\ l = LineOf(n, j, b, k)
    BY <1>4, <1>7
  <2>2. Own(n, j, b, k) /\ InstOf(n, j, b, k).calls \cap (first \ Special) # {}
    BY <1>3, <1>5, <2>1
  <2>3. /\ OnPlace(l, n, job.bitcodes[n].order[j], <<b, k>>)
        /\ Scan!At(job.bitcodes[n], job.bitcodes[n].order[j], <<b, k>>) = InstOf(n, j, b, k)
    BY <2>1, <2>2, LineOfPlace
  <2>4. M(n, job.bitcodes[n].order[j], <<b, k>>)
    BY <2>2, <2>3
  <2> HIDE DEF M
  <2> QED
    BY <1>2, <2>3, <2>4
<1>8. out = lines
  BY <1>6, <1>7
<1> QED
  BY <1>8 DEF lines, first

LEMMA ExtCallsGiven ==
  ASSUME Scan!JobsAssumption, ScanShape, LinesBehind, TraitsFound
  PROVE  Scan!ExtCallsReported
<1>1. SUFFICES ASSUME at = "done", detector = "ext-call"
               PROVE  Scan!CallsOf(Scan!FirstTraits \ Special) \subseteq out /\ out \subseteq Scan!CallsOf(Scan!AllTraits)
  BY DEF Scan!ExtCallsReported, Scan!Done
<1>2. out = Scan!CallsOf(Scan!FirstTraits \ Special)
  BY <1>1, FirstTraitsCalls
<1>3. ASSUME NEW A, NEW B, A \subseteq B PROVE Scan!CallsOf(A) \subseteq Scan!CallsOf(B)
  BY <1>3 DEF Scan!CallsOf, Scan!Lines
<1>4. Scan!FirstTraits \ Special \subseteq Scan!AllTraits
  BY FirstAreTraits
<1> QED
  BY <1>2, <1>3, <1>4

-----------------------------------------------------------------------------
(* Nothing of a function is behind the cursor when it comes there.         *)
LEMMA Fresh ==
  ASSUME Scan!JobsAssumption, ScanShape,
         \/ InFunction /\ UNCHANGED bitcode /\ pos' = Scan!NextFunction
         \/ ~InFunction /\ bitcode' = bitcode + 1 /\ pos' = Scan!Start
  PROVE  \A n, j, b, k : Site(n, j, b, k) /\ n = bitcode' /\ j = pos'.fn => ~Behind(n, j, b, k)'
<1>1. SUFFICES ASSUME NEW n, NEW j, NEW b, NEW k, Site(n, j, b, k), n = bitcode', j = pos'.fn
               PROVE  ~Behind(n, j, b, k)'
  OBVIOUS
<1>2. n \in Nat /\ j \in Nat /\ b \in Nat \ {0} /\ k \in Nat \ {0}
  BY <1>1, SiteIs
<1>3. pos'.block = 1 /\ pos'.inst = 1
  BY Moves DEF InFunction, Scan!Start
<1> QED
  BY <1>1, <1>2, <1>3 DEF Behind, Passed

(* upgrade-func has found the promise actions behind the cursor in the     *)
(* function it is in, and a line for each function it has passed with both *)
(* actions; prepaid-gas has the verdict of each it has passed.             *)
Actions == {"deploy_contract", "batch_function_call"}

CallsOwn(n, j, v) == \E b, k : Own(n, j, b, k) /\ v \in InstOf(n, j, b, k).calls
VerdictOf(n, j, c) == [of |-> n, fn |-> job.bitcodes[n].order[j], check |-> c]

Upgrades(n, j) == IsFunction(n, j) /\ \A v \in Actions : CallsOwn(n, j, v)

FoundBehind(v) ==
  \E n, j, b, k : /\ n = bitcode /\ j = pos.fn /\ Own(n, j, b, k) /\ Behind(n, j, b, k)
                  /\ v \in InstOf(n, j, b, k).calls

UpgradeLine(l) == \E n, j : Upgrades(n, j) /\ Passed(n, j) /\ l = VerdictOf(n, j, TRUE)

UpgradesBehind ==
  detector = "upgrade-func" =>
    /\ \A v : v \in found <=> v \in Actions /\ FoundBehind(v)
    /\ \A l : l \in out <=> UpgradeLine(l)

LEMMA SameVerdicts ==
  ASSUME UNCHANGED job
  PROVE  /\ \A n, j, v : CallsOwn(n, j, v)' <=> CallsOwn(n, j, v)
         /\ \A n, j : Upgrades(n, j)' <=> Upgrades(n, j)
         /\ \A n, j, c : VerdictOf(n, j, c)' = VerdictOf(n, j, c)
<1>1. \A n, j, v : CallsOwn(n, j, v)' <=> CallsOwn(n, j, v)
  BY SitesStay DEF SameSites, CallsOwn
<1>2. \A n, j : Upgrades(n, j)' <=> Upgrades(n, j)
  BY <1>1, SitesStay DEF SameSites, Upgrades, Actions
<1>3. \A n, j, c : VerdictOf(n, j, c)' = VerdictOf(n, j, c)
  BY DEF VerdictOf
<1> QED
  BY <1>1, <1>2, <1>3

LEMMA TwoActions ==
  ASSUME found \subseteq Actions
  PROVE  Scan!Cardinality(found) = 2 <=> \A v \in Actions : v \in found
<1> DEFINE a == "deploy_contract"
           b == "batch_function_call"
<1>1. a # b /\ Actions = {a, b}
  BY DEF Actions
<1> HIDE DEF a, b
<1>2. Cardinality({}) = 0 /\ IsFiniteSet({})
  BY FS_EmptySet
<1>3. \A x : IsFiniteSet({x}) /\ Cardinality({x}) = 1
  BY FS_Singleton
<1>4. Cardinality({a} \cup {b}) = 2
  <2>1. IsFiniteSet({a}) /\ Cardinality({a}) = 1 /\ b \notin {a}
    BY <1>1, <1>3
  <2>2. Cardinality({a} \cup {b}) = Cardinality({a}) + 1
    BY <2>1, FS_AddElement
  <2> QED
    BY <2>1, <2>2
<1>5. {a} \cup {b} = Actions
  BY <1>1
<1>6. found = {} \/ found = {a} \/ found = {b} \/ found = Actions
  BY <1>1
<1>7. Scan!Cardinality(found) = Cardinality(found)
  BY ScanSets
<1>8. (\A v \in Actions : v \in found) <=> found = Actions
  OBVIOUS
<1>9. CASE found = {}
  <2>1. Cardinality(found) = 0
    BY <1>2, <1>9
  <2>2. found # Actions
    BY <1>1, <1>9
  <2> QED
    BY <1>7, <1>8, <2>1, <2>2
<1>10. CASE found = {a} \/ found = {b}
  <2>1. Cardinality(found) = 1
    BY <1>3, <1>10
  <2>2. found # Actions
    BY <1>1, <1>10
  <2> QED
    BY <1>7, <1>8, <2>1, <2>2
<1>11. CASE found = Actions
  <2>1. Cardinality(found) = 2
    BY <1>4, <1>5, <1>11
  <2> QED
    BY <1>7, <1>8, <1>11, <2>1
<1> QED
  BY <1>6, <1>9, <1>10, <1>11

LEMMA UpgradeSteps ==
  ASSUME ScanShape, detector = "upgrade-func", [Scan!Next]_Scan!vars
  PROVE  Stays \/ Scan!SkipInst \/ Scan!ScanUpgrade \/ Scan!EndUpgrade \/ Scan!NextBitcode
BY StepOf, StayingSteps DEF Scan!Next, Scan!LineDetectors

LEMMA UpgradesStep ==
  ASSUME Scan!JobsAssumption, ScanShape, UpgradesBehind, detector = "upgrade-func", [Scan!Next]_Scan!vars
  PROVE  UpgradesBehind'
<1>1. /\ \A v : v \in found <=> v \in Actions /\ FoundBehind(v)
      /\ \A l : l \in out <=> UpgradeLine(l)
      /\ Actions' = Actions
  BY DEF UpgradesBehind, Actions
<1>2. \A n, j, b, k : Own(n, j, b, k) => Site(n, j, b, k) /\ InstOf(n, j, b, k).loc = "own"
  BY DEF Own
<1>3. UNCHANGED job => \A n, j, b, k : Own(n, j, b, k)' <=> Own(n, j, b, k)
  BY SitesStay DEF SameSites
<1>4. UNCHANGED job => \A n, j, b, k : InstOf(n, j, b, k)' = InstOf(n, j, b, k)
  BY SitesStay DEF SameSites
<1>0. ASSUME UNCHANGED job, \A n, j : Upgrades(n, j) => (Passed(n, j)' <=> Passed(n, j)), NEW l
      PROVE  UpgradeLine(l)' <=> UpgradeLine(l)
  <2>1. UpgradeLine(l)' <=> \E n, j : Upgrades(n, j) /\ Passed(n, j)' /\ l = VerdictOf(n, j, TRUE)
    BY <1>0, SameVerdicts DEF UpgradeLine
  <2> QED
    BY <1>0, <2>1 DEF UpgradeLine
<1>5. CASE Stays
  <2>1. /\ \A n, j, b, k : Behind(n, j, b, k)' <=> Behind(n, j, b, k)
        /\ \A n, j : Passed(n, j)' <=> Passed(n, j)
        /\ UNCHANGED <<job, detector, bitcode, pos, found, out>>
    BY <1>5 DEF Stays, Behind, Passed
  <2>2. \A v : FoundBehind(v)' <=> FoundBehind(v)
    BY <1>3, <1>4, <2>1 DEF FoundBehind
  <2> QED
    BY <1>0, <1>1, <2>1, <2>2 DEF UpgradesBehind
<1>6. CASE Scan!SkipInst
  <2>1. /\ InBlock /\ Scan!I.loc # "own" /\ pos' = Scan!NextInst /\ pos'.fn = pos.fn
        /\ UNCHANGED <<job, detector, bitcode, found, out>>
    BY <1>6, SkipIs, MovesInFunction DEF InBlock, InFunction
  <2>2. /\ \A n, j, b, k : Own(n, j, b, k) => (Behind(n, j, b, k)' <=> Behind(n, j, b, k))
        /\ \A n, j : Passed(n, j)' <=> Passed(n, j)
    BY <1>2, <2>1, OverInst, OnlyHere
  <2>3. \A v : FoundBehind(v)' <=> FoundBehind(v)
    BY <1>3, <1>4, <2>1, <2>2 DEF FoundBehind
  <2> QED
    BY <1>0, <1>1, <2>1, <2>2, <2>3 DEF UpgradesBehind
<1>7. CASE Scan!ScanUpgrade
  <2>1. /\ InBlock /\ Scan!I.loc = "own" /\ pos' = Scan!NextInst
        /\ found' = found \cup (Scan!I.calls \cap Actions)
        /\ UNCHANGED <<job, detector, bitcode, out>>
    BY <1>7 DEF Scan!ScanUpgrade, Scan!AtOwn, Scan!AtInst, Scan!InModule, Scan!Fixed, InBlock, InFunction, Actions
  <2>2. pos'.fn = pos.fn
    BY <2>1, MovesInFunction DEF InBlock, InFunction
  <2>3. /\ \A n, j, b, k : Own(n, j, b, k) => (Behind(n, j, b, k)' <=> Behind(n, j, b, k) \/ AtSite(n, j, b, k))
        /\ \A n, j : Passed(n, j)' <=> Passed(n, j)
    BY <1>2, <2>1, OverInst
  <2>4. \A n, j, b, k : AtSite(n, j, b, k) => Own(n, j, b, k) /\ InstOf(n, j, b, k) = Scan!I
    BY <2>1, OnlyHere DEF Own
  <2>5. AtSite(bitcode, pos.fn, pos.block, pos.inst)
    BY DEF AtSite
  <2>6. ASSUME NEW v PROVE FoundBehind(v)' <=> (FoundBehind(v) \/ v \in Scan!I.calls)
    <3>1. ASSUME FoundBehind(v)' PROVE FoundBehind(v) \/ v \in Scan!I.calls
      <4>1. PICK n, j, b, k : /\ n = bitcode /\ j = pos.fn /\ Own(n, j, b, k) /\ Behind(n, j, b, k)'
                              /\ v \in InstOf(n, j, b, k).calls
        BY <1>3, <1>4, <2>1, <2>2, <3>1 DEF FoundBehind
      <4> QED
        BY <2>3, <2>4, <4>1 DEF FoundBehind
    <3>2. ASSUME FoundBehind(v) \/ v \in Scan!I.calls PROVE FoundBehind(v)'
      <4>1. \E n, j, b, k : /\ n = bitcode /\ j = pos.fn /\ Own(n, j, b, k) /\ (Behind(n, j, b, k) \/ AtSite(n, j, b, k))
                            /\ v \in InstOf(n, j, b, k).calls
        BY <2>4, <2>5, <3>2 DEF FoundBehind
      <4>2. \E n, j, b, k : /\ n = bitcode' /\ j = pos'.fn /\ Own(n, j, b, k)' /\ Behind(n, j, b, k)'
                            /\ v \in InstOf(n, j, b, k)'.calls
        BY <1>3, <1>4, <2>1, <2>2, <2>3, <4>1
      <4> QED
        BY <4>2 DEF FoundBehind
    <3> QED
      BY <3>1, <3>2
  <2>8. \A v : v \in found' <=> v \in Actions /\ FoundBehind(v)'
    <3>1. \A v : v \in found' <=> v \in found \/ (v \in Scan!I.calls /\ v \in Actions)
      BY <2>1
    <3> QED
      BY <1>1, <2>6, <3>1
  <2> QED
    BY <1>0, <1>1, <2>1, <2>3, <2>8 DEF UpgradesBehind
<1>8. CASE Scan!EndUpgrade
  <2>1. /\ InFunction /\ pos.block > Len(Scan!Body) /\ pos' = Scan!NextFunction /\ found' = {}
        /\ out' = out \cup {v \in {Scan!Verdict(TRUE)} : Scan!Cardinality(found) = 2}
        /\ UNCHANGED <<job, detector, bitcode>>
    BY <1>8 DEF Scan!EndUpgrade, Scan!AtFunctionEnd, Scan!InModule, Scan!Fixed, InFunction
  <2>2. \A v : ~FoundBehind(v)'
    <3>1. \A n, j, b, k : Site(n, j, b, k) /\ n = bitcode' /\ j = pos'.fn => ~Behind(n, j, b, k)'
      BY <2>1, Fresh
    <3> QED
      BY <1>2, <1>3, <2>1, <3>1 DEF FoundBehind
  <2>3. \A n, j : IsFunction(n, j) => (Passed(n, j)' <=> Passed(n, j) \/ (n = bitcode /\ j = pos.fn))
    BY <2>1, OverFunction
  <2>4. PICK n, j : n = bitcode /\ j = pos.fn
    OBVIOUS
  <2>5. IsFunction(n, j) /\ Scan!Verdict(TRUE) = VerdictOf(n, j, TRUE)
    BY <2>1, <2>4, CursorHere DEF Scan!Verdict, VerdictOf
  <2>6. Scan!Cardinality(found) = 2 <=> Upgrades(n, j)
    <3>1. Scan!Cardinality(found) = 2 <=> \A v \in Actions : v \in found
      BY <1>1, TwoActions
    <3>2. \A v : FoundBehind(v) <=> CallsOwn(n, j, v)
      BY <1>2, <2>1, <2>4, WholeFunction DEF FoundBehind, CallsOwn
    <3> QED
      BY <1>1, <2>5, <3>1, <3>2 DEF Upgrades
  <2>7. \A l : l \in out' <=> l \in out \/ (Upgrades(n, j) /\ l = VerdictOf(n, j, TRUE))
    <3>1. CASE Upgrades(n, j)
      BY <2>1, <2>5, <2>6, <3>1, Zenon
    <3>2. CASE ~Upgrades(n, j)
      BY <2>1, <2>5, <2>6, <3>2, Zenon
    <3> QED
      BY <3>1, <3>2
  <2>8. \A i, h : Upgrades(i, h) => (Passed(i, h)' <=> Passed(i, h) \/ (i = n /\ h = j))
    BY <2>3, <2>4 DEF Upgrades
  <2>9. ASSUME NEW l PROVE l \in out' <=> UpgradeLine(l)'
    <3>1. UpgradeLine(l)' <=> \E i, h : Upgrades(i, h) /\ Passed(i, h)' /\ l = VerdictOf(i, h, TRUE)
      BY <2>1, SameVerdicts DEF UpgradeLine
    <3>2. UpgradeLine(l)' <=> UpgradeLine(l) \/ (Upgrades(n, j) /\ l = VerdictOf(n, j, TRUE))
      BY <2>8, <3>1, Zenon DEF UpgradeLine
    <3> QED
      BY <1>1, <2>7, <3>2
  <2> QED
    BY <2>1, <2>2, <2>9 DEF UpgradesBehind
<1>9. CASE Scan!NextBitcode
  <2>1. /\ ~InFunction /\ bitcode' = bitcode + 1 /\ pos' = Scan!Start
        /\ UNCHANGED <<job, detector, found, out>>
    BY <1>9, NextBitcodeIs
  <2>2. found = {}
    BY <2>1, CursorIs, ShapeOut DEF InFunction
  <2>3. \A v : ~FoundBehind(v)'
    <3>1. \A n, j, b, k : Site(n, j, b, k) /\ n = bitcode' /\ j = pos'.fn => ~Behind(n, j, b, k)'
      BY <2>1, Fresh
    <3> QED
      BY <1>2, <1>3, <2>1, <3>1 DEF FoundBehind
  <2>4. \A n, j : Upgrades(n, j) => (Passed(n, j)' <=> Passed(n, j))
    BY <2>1, OverBitcode DEF Upgrades
  <2> QED
    BY <1>0, <1>1, <2>1, <2>2, <2>3, <2>4 DEF UpgradesBehind
<1> QED
  BY <1>5, <1>6, <1>7, <1>8, <1>9, UpgradeSteps

Checks(i) == "prepaid_gas" \in i.calls /\ "compared" \in i.facts
ChecksGas(n, j) == \E b, k : Own(n, j, b, k) /\ Checks(InstOf(n, j, b, k))

(* The functions prepaid-gas judges: those that implement ft_transfer_call *)
(* and have a body.                                                        *)
Judged(n, j) == /\ IsFunction(n, j) /\ job.bitcodes[n].order[j] \in job.bitcodes[n].ftcall
                /\ CodeOf(n, j) # <<>>

Judgement(l, n, j) ==
  /\ Judged(n, j)
  /\ \/ ChecksGas(n, j) /\ l = VerdictOf(n, j, TRUE)
     \/ ~ChecksGas(n, j) /\ l = VerdictOf(n, j, FALSE)

JudgedLine(l) == \E n, j : Judgement(l, n, j) /\ Passed(n, j)

JudgementsBehind ==
  detector = "prepaid-gas" =>
    /\ \A n, j, b, k : n = bitcode /\ j = pos.fn /\ Own(n, j, b, k) /\ Behind(n, j, b, k) => ~Checks(InstOf(n, j, b, k))
    /\ \A l : l \in out <=> JudgedLine(l)

LEMMA SameJudgements ==
  ASSUME UNCHANGED job
  PROVE  /\ \A n, j : Judged(n, j)' <=> Judged(n, j)
         /\ \A l, n, j : Judgement(l, n, j)' <=> Judgement(l, n, j)
<1>1. \A n, j : ChecksGas(n, j)' <=> ChecksGas(n, j)
  BY SitesStay DEF SameSites, ChecksGas, Checks
<1>2. \A n, j : Judged(n, j)' <=> Judged(n, j)
  BY SitesStay DEF SameSites, Judged
<1>3. \A n, j, c : VerdictOf(n, j, c)' = VerdictOf(n, j, c)
  BY SameVerdicts
<1>4. \A l, n, j : Judgement(l, n, j)' <=> Judgement(l, n, j)
  BY <1>1, <1>2, <1>3 DEF Judgement
<1> QED
  BY <1>2, <1>4

LEMMA PrepaidSteps ==
  ASSUME ScanShape, detector = "prepaid-gas", [Scan!Next]_Scan!vars
  PROVE  \/ Stays \/ Scan!SkipInst \/ Scan!ScanPrepaidGas \/ Scan!EndPrepaidGas \/ Scan!LeaveFunction \/ Scan!NextBitcode
BY StepOf, StayingSteps DEF Scan!Next, Scan!LineDetectors

LEMMA JudgementsStep ==
  ASSUME Scan!JobsAssumption, ScanShape, JudgementsBehind, detector = "prepaid-gas", [Scan!Next]_Scan!vars
  PROVE  JudgementsBehind'
<1>1. /\ \A n, j, b, k : n = bitcode /\ j = pos.fn /\ Own(n, j, b, k) /\ Behind(n, j, b, k) => ~Checks(InstOf(n, j, b, k))
      /\ \A l : l \in out <=> JudgedLine(l)
  BY DEF JudgementsBehind
<1>2. \A n, j, b, k : Own(n, j, b, k) => Site(n, j, b, k) /\ InstOf(n, j, b, k).loc = "own"
  BY DEF Own
<1>3. UNCHANGED job => \A n, j, b, k : (Own(n, j, b, k)' <=> Own(n, j, b, k)) /\ InstOf(n, j, b, k)' = InstOf(n, j, b, k)
  BY SitesStay DEF SameSites
<1>4. \A n, j : Judged(n, j) => IsFunction(n, j)
  BY DEF Judged
<1>5. ASSUME UNCHANGED job, \A n, j : Judged(n, j) => (Passed(n, j)' <=> Passed(n, j)), NEW l
      PROVE  JudgedLine(l)' <=> JudgedLine(l)
  <2>1. JudgedLine(l)' <=> \E n, j : Judgement(l, n, j) /\ Passed(n, j)'
    BY <1>5, SameJudgements DEF JudgedLine
  <2>2. \A n, j : Judgement(l, n, j) => (Passed(n, j)' <=> Passed(n, j))
    BY <1>5 DEF Judgement
  <2> QED
    BY <2>1, <2>2 DEF JudgedLine
(* The function the cursor is in is passed with its verdict.               *)
<1>6. ASSUME UNCHANGED <<job, detector, bitcode>>, InFunction, pos' = Scan!NextFunction,
             \A l : l \in out' <=> l \in out \/ (\E n, j : n = bitcode /\ j = pos.fn /\ Judgement(l, n, j))
      PROVE  JudgementsBehind'
  <2>1. \A n, j, b, k : Site(n, j, b, k) /\ n = bitcode' /\ j = pos'.fn => ~Behind(n, j, b, k)'
    BY <1>6, Fresh
  <2>2. \A n, j : IsFunction(n, j) => (Passed(n, j)' <=> Passed(n, j) \/ (n = bitcode /\ j = pos.fn))
    BY <1>6, OverFunction
  <2>3. ASSUME NEW l PROVE l \in out' <=> JudgedLine(l)'
    <3>1. JudgedLine(l)' <=> \E n, j : Judgement(l, n, j) /\ Passed(n, j)'
      BY <1>6, SameJudgements DEF JudgedLine
    <3>2. \A n, j : Judgement(l, n, j) => (Passed(n, j)' <=> Passed(n, j) \/ (n = bitcode /\ j = pos.fn))
      BY <1>4, <2>2 DEF Judgement
    <3>3. JudgedLine(l)' <=> JudgedLine(l) \/ (\E n, j : n = bitcode /\ j = pos.fn /\ Judgement(l, n, j))
      <4>1. ASSUME JudgedLine(l)'
            PROVE  JudgedLine(l) \/ (\E n, j : n = bitcode /\ j = pos.fn /\ Judgement(l, n, j))
        <5>1. PICK n, j : Judgement(l, n, j) /\ Passed(n, j)'
          BY <3>1, <4>1
        <5>2. Passed(n, j) \/ (n = bitcode /\ j = pos.fn)
          BY <3>2, <5>1
        <5> QED
          BY <5>1, <5>2 DEF JudgedLine
      <4>2. ASSUME JudgedLine(l) PROVE JudgedLine(l)'
        <5>1. PICK n, j : Judgement(l, n, j) /\ Passed(n, j)
          BY <4>2 DEF JudgedLine
        <5> QED
          BY <3>1, <3>2, <5>1
      <4>3. ASSUME NEW n, NEW j, n = bitcode, j = pos.fn, Judgement(l, n, j) PROVE JudgedLine(l)'
        BY <3>1, <3>2, <4>3
      <4> QED
        BY <4>1, <4>2, <4>3
    <3> QED
      BY <1>1, <1>6, <3>3
  <2>4. \A n, j, b, k : Own(n, j, b, k)' /\ n = bitcode' /\ j = pos'.fn => ~Behind(n, j, b, k)'
    BY <1>2, <1>3, <1>6, <2>1
  <2> QED
    BY <2>3, <2>4 DEF JudgementsBehind
<1>7. CASE Stays
  <2>1. /\ \A n, j, b, k : Behind(n, j, b, k)' <=> Behind(n, j, b, k)
        /\ \A n, j : Passed(n, j)' <=> Passed(n, j)
        /\ UNCHANGED <<job, detector, bitcode, pos, out>>
    BY <1>7 DEF Stays, Behind, Passed
  <2>2. \A l : l \in out' <=> JudgedLine(l)'
    BY <1>1, <1>5, <2>1
  <2>3. \A n, j, b, k : n = bitcode' /\ j = pos'.fn /\ Own(n, j, b, k)' /\ Behind(n, j, b, k)' => ~Checks(InstOf(n, j, b, k)')
    BY <1>1, <1>3, <2>1
  <2> QED
    BY <2>2, <2>3 DEF JudgementsBehind, Checks
<1>8. CASE Scan!SkipInst \/ (Scan!ScanPrepaidGas /\ ~Checks(Scan!I))
  <2>1. /\ InBlock /\ pos' = Scan!NextInst /\ UNCHANGED <<job, detector, bitcode, out>>
        /\ Scan!I.loc # "own" \/ ~Checks(Scan!I)
    <3>1. CASE Scan!SkipInst
      BY <3>1, SkipIs
    <3>2. CASE Scan!ScanPrepaidGas /\ ~Checks(Scan!I)
      BY <3>2 DEF Scan!ScanPrepaidGas, Scan!AtOwn, Scan!AtInst, Scan!InModule, Scan!Fixed, InBlock, InFunction, Checks
    <3> QED
      BY <1>8, <3>1, <3>2
  <2>2. pos'.fn = pos.fn
    BY <2>1, MovesInFunction DEF InBlock, InFunction
  <2>3. \A n, j : Passed(n, j)' <=> Passed(n, j)
    BY <2>1, OverInst
  <2>4. \A n, j, b, k : Own(n, j, b, k) => (Behind(n, j, b, k)' <=> Behind(n, j, b, k) \/ AtSite(n, j, b, k))
    BY <1>2, <2>1, OverInst
  <2>5. \A n, j, b, k : AtSite(n, j, b, k) /\ Own(n, j, b, k) => ~Checks(InstOf(n, j, b, k))
    BY <1>2, <2>1, OnlyHere
  <2>6. \A l : l \in out' <=> JudgedLine(l)'
    BY <1>1, <1>5, <2>1, <2>3
  <2>7. \A n, j, b, k : n = bitcode' /\ j = pos'.fn /\ Own(n, j, b, k)' /\ Behind(n, j, b, k)' => ~Checks(InstOf(n, j, b, k)')
    BY <1>1, <1>3, <2>1, <2>2, <2>4, <2>5
  <2> QED
    BY <2>6, <2>7 DEF JudgementsBehind, Checks
<1>9. CASE Scan!ScanPrepaidGas /\ Checks(Scan!I)
  <2>1. /\ InBlock /\ InFunction /\ Scan!I.loc = "own" /\ pos' = Scan!NextFunction /\ out' = out \cup {Scan!Verdict(TRUE)}
        /\ Scan!Here \in Scan!Bitcode.ftcall
        /\ UNCHANGED <<job, detector, bitcode>>
    BY <1>9 DEF Scan!ScanPrepaidGas, Scan!AtOwn, Scan!AtInst, Scan!InModule, Scan!Fixed, Scan!LeavesFunction, InBlock,
                InFunction, Checks
  <2>2. PICK n, j, b, k : n = bitcode /\ j = pos.fn /\ b = pos.block /\ k = pos.inst
    OBVIOUS
  <2>3. /\ InstOf(n, j, b, k) = Scan!I /\ Site(n, j, b, k) /\ job.bitcodes[n] = Scan!Bitcode
        /\ job.bitcodes[n].order[j] = Scan!Here
    BY <2>1, <2>2, OnlyHere DEF AtSite
  <2>4. ChecksGas(n, j)
    BY <1>9, <2>1, <2>3 DEF ChecksGas, Own
  <2>5. Judged(n, j)
    <3>1. b \in 1..Len(CodeOf(n, j)) /\ IsFunction(n, j)
      BY <2>3 DEF Site
    <3>2. CodeOf(n, j) # <<>>
      BY <3>1
    <3> QED
      BY <2>1, <2>3, <3>1, <3>2 DEF Judged
  <2>6. Scan!Verdict(TRUE) = VerdictOf(n, j, TRUE)
    BY <2>2, <2>3 DEF Scan!Verdict, VerdictOf
  <2>7. \A l : Judgement(l, n, j) <=> l = Scan!Verdict(TRUE)
    BY <2>4, <2>5, <2>6 DEF Judgement
  <2>8. \A l : l \in out' <=> l \in out \/ (\E n1, j1 : n1 = bitcode /\ j1 = pos.fn /\ Judgement(l, n1, j1))
    BY <2>1, <2>2, <2>7
  <2> QED
    BY <1>6, <2>1, <2>8
<1>10. CASE Scan!EndPrepaidGas
  <2>1. /\ InFunction /\ pos.block > Len(Scan!Body) /\ pos' = Scan!NextFunction
        /\ out' = out \cup {v \in {Scan!Verdict(FALSE)} : Scan!Here \in Scan!Bitcode.ftcall /\ Scan!Body # <<>>}
        /\ UNCHANGED <<job, detector, bitcode>>
    BY <1>10 DEF Scan!EndPrepaidGas, Scan!AtFunctionEnd, Scan!InModule, Scan!Fixed, InFunction
  <2>2. PICK n, j : n = bitcode /\ j = pos.fn
    OBVIOUS
  <2>3. /\ IsFunction(n, j) /\ job.bitcodes[n] = Scan!Bitcode /\ job.bitcodes[n].order[j] = Scan!Here
        /\ CodeOf(n, j) = Scan!Body
    BY <2>1, <2>2, CursorHere
  <2>4. ~ChecksGas(n, j)
    BY <1>1, <1>2, <2>1, <2>2, WholeFunction DEF ChecksGas
  <2>5. Judged(n, j) <=> (Scan!Here \in Scan!Bitcode.ftcall /\ Scan!Body # <<>>)
    BY <2>3 DEF Judged
  <2>6. Scan!Verdict(FALSE) = VerdictOf(n, j, FALSE)
    BY <2>2, <2>3 DEF Scan!Verdict, VerdictOf
  <2>7. \A l : Judgement(l, n, j) <=> (Judged(n, j) /\ l = Scan!Verdict(FALSE))
    BY <2>4, <2>6 DEF Judgement
  <2>8. \A l : l \in out' <=> l \in out \/ Judgement(l, n, j)
    <3>1. CASE Judged(n, j)
      BY <2>1, <2>5, <2>7, <3>1, Zenon
    <3>2. CASE ~Judged(n, j)
      BY <2>1, <2>5, <2>7, <3>2, Zenon
    <3> QED
      BY <3>1, <3>2
  <2>9. \A l : l \in out' <=> l \in out \/ (\E n1, j1 : n1 = bitcode /\ j1 = pos.fn /\ Judgement(l, n1, j1))
    BY <2>2, <2>8
  <2> QED
    BY <1>6, <2>1, <2>9
<1>11. CASE Scan!LeaveFunction
  <2>1. /\ InFunction /\ pos' = Scan!NextFunction /\ out' = out /\ Scan!Here \notin Scan!Bitcode.ftcall
        /\ UNCHANGED <<job, detector, bitcode>>
    BY <1>11 DEF Scan!LeaveFunction, Scan!LeavesFunction, Scan!AtInst, Scan!InModule, Scan!Fixed, InFunction
  <2>2. \A l, n, j : n = bitcode /\ j = pos.fn => ~Judgement(l, n, j)
    BY <2>1, CursorHere DEF Judgement, Judged
  <2>3. \A l : l \in out' <=> l \in out \/ (\E n, j : n = bitcode /\ j = pos.fn /\ Judgement(l, n, j))
    BY <2>1, <2>2
  <2> QED
    BY <1>6, <2>1, <2>3
<1>12. CASE Scan!NextBitcode
  <2>1. /\ ~InFunction /\ bitcode' = bitcode + 1 /\ pos' = Scan!Start
        /\ UNCHANGED <<job, detector, out>>
    BY <1>12, NextBitcodeIs
  <2>2. \A n, j, b, k : Site(n, j, b, k) /\ n = bitcode' /\ j = pos'.fn => ~Behind(n, j, b, k)'
    BY <2>1, Fresh
  <2>3. \A n, j, b, k : Own(n, j, b, k)' /\ n = bitcode' /\ j = pos'.fn => ~Behind(n, j, b, k)'
    BY <1>2, <1>3, <2>1, <2>2
  <2>4. \A n, j : Judged(n, j) => (Passed(n, j)' <=> Passed(n, j))
    BY <1>4, <2>1, OverBitcode
  <2>5. \A l : l \in out' <=> JudgedLine(l)'
    BY <1>1, <1>5, <2>1, <2>4
  <2> QED
    BY <2>3, <2>5 DEF JudgementsBehind
<1> QED
  BY <1>7, <1>8, <1>9, <1>10, <1>11, <1>12, PrepaidSteps

LEMMA VerdictsInit ==
  ASSUME Scan!JobsAssumption, Scan!Init
  PROVE  UpgradesBehind /\ JudgementsBehind
<1>1. ScanShape /\ pos = Scan!Start /\ bitcode = 1 /\ out = {} /\ found = {}
  BY ShapeInit DEF Scan!Init
<1>2. \A n, j, b, k : Own(n, j, b, k) => ~Behind(n, j, b, k)
  BY <1>1, NothingPassed DEF Own
<1>3. \A n, j : IsFunction(n, j) => ~Passed(n, j)
  BY <1>1, NothingPassed
<1>4. \A v : ~FoundBehind(v)
  BY <1>2 DEF FoundBehind
<1>5. \A l : ~UpgradeLine(l)
  BY <1>3 DEF UpgradeLine, Upgrades
<1>6. \A l : ~JudgedLine(l)
  BY <1>3 DEF JudgedLine, Judgement, Judged
<1> QED
  BY <1>1, <1>2, <1>4, <1>5, <1>6 DEF UpgradesBehind, JudgementsBehind

LEMMA VerdictsAlways ==
  ASSUME Scan!JobsAssumption, ScanShape, UpgradesBehind, JudgementsBehind, [Scan!Next]_Scan!vars
  PROVE  UpgradesBehind' /\ JudgementsBehind'
<1>1. Scan!BeginExtCall => detector' = "ext-call"
  BY DEF Scan!BeginExtCall
<1>2. UpgradesBehind'
  <2>1. CASE detector = "upgrade-func"
    BY <2>1, UpgradesStep
  <2>2. CASE detector # "upgrade-func"
    <3>1. detector' # "upgrade-func"
      BY <1>1, <2>2, SameDetector
    <3> QED
      BY <3>1 DEF UpgradesBehind
  <2> QED
    BY <2>1, <2>2
<1>3. JudgementsBehind'
  <2>1. CASE detector = "prepaid-gas"
    BY <2>1, JudgementsStep
  <2>2. CASE detector # "prepaid-gas"
    <3>1. detector' # "prepaid-gas"
      BY <1>1, <2>2, SameDetector
    <3> QED
      BY <3>1 DEF JudgementsBehind
  <2> QED
    BY <2>1, <2>2
<1> QED
  BY <1>2, <1>3

LEMMA VerdictsGiven ==
  ASSUME Scan!JobsAssumption, ScanShape, UpgradesBehind, JudgementsBehind
  PROVE  Scan!VerdictsOfOneFunction
<1> DEFINE has(n, f, Q(_)) == \E p \in Scan!OwnPlaces(job.bitcodes[n], f) : Q(Scan!At(job.bitcodes[n], f, p))
           deploys(i)  == "deploy_contract" \in i.calls
           migrates(i) == "batch_function_call" \in i.calls
           checks(i)   == "prepaid_gas" \in i.calls /\ "compared" \in i.facts
<1>1. SUFFICES ASSUME at = "done", NEW n \in 1..Len(job.bitcodes), NEW f \in ScanFunc
               PROVE
          /\ detector = "upgrade-func" =>
               (\E l \in out : l.of = n /\ l.fn = f) = (has(n, f, deploys) /\ has(n, f, migrates))
          /\ detector = "prepaid-gas" =>
               {l.check : l \in {k \in out : k.of = n /\ k.fn = f}} =
                 IF f \in job.bitcodes[n].ftcall /\ job.bitcodes[n].body[f] # <<>>
                 THEN {has(n, f, checks)} ELSE {}
  BY DEF Scan!VerdictsOfOneFunction, Scan!Done
<1>2. PICK j : IsFunction(n, j) /\ f = job.bitcodes[n].order[j]
  BY InOrder DEF ScanShape
<1>3. \A p \in Scan!OwnPlaces(job.bitcodes[n], f) :
        Own(n, j, p[1], p[2]) /\ Scan!At(job.bitcodes[n], f, p) = InstOf(n, j, p[1], p[2])
  BY <1>2, OwnPlacesAre
<1>4. \A b, k : Own(n, j, b, k) =>
        <<b, k>> \in Scan!OwnPlaces(job.bitcodes[n], f) /\ Scan!At(job.bitcodes[n], f, <<b, k>>) = InstOf(n, j, b, k)
  BY <1>2, OwnPlacesAre
<1>40. ASSUME NEW v
       PROVE  (\E p \in Scan!OwnPlaces(job.bitcodes[n], f) : v \in Scan!At(job.bitcodes[n], f, p).calls) <=> CallsOwn(n, j, v)
  <2>1. ASSUME NEW p \in Scan!OwnPlaces(job.bitcodes[n], f), v \in Scan!At(job.bitcodes[n], f, p).calls
        PROVE  CallsOwn(n, j, v)
    BY <1>3, <2>1, Zenon DEF CallsOwn
  <2>2. ASSUME NEW b, NEW k, Own(n, j, b, k), v \in InstOf(n, j, b, k).calls
        PROVE  \E p \in Scan!OwnPlaces(job.bitcodes[n], f) : v \in Scan!At(job.bitcodes[n], f, p).calls
    BY <1>4, <2>2, Zenon
  <2> QED
    BY <2>1, <2>2, Zenon DEF CallsOwn
<1>5. has(n, f, deploys) <=> CallsOwn(n, j, "deploy_contract")
  <2>1. has(n, f, deploys) <=> \E p \in Scan!OwnPlaces(job.bitcodes[n], f) : "deploy_contract" \in Scan!At(job.bitcodes[n], f, p).calls
    BY Zenon
  <2> HIDE DEF has, deploys, migrates, checks
  <2> QED
    BY <1>40, <2>1, Zenon
<1>6. has(n, f, migrates) <=> CallsOwn(n, j, "batch_function_call")
  <2>1. has(n, f, migrates) <=> \E p \in Scan!OwnPlaces(job.bitcodes[n], f) : "batch_function_call" \in Scan!At(job.bitcodes[n], f, p).calls
    BY Zenon
  <2> HIDE DEF has, deploys, migrates, checks
  <2> QED
    BY <1>40, <2>1, Zenon
<1>7. has(n, f, checks) <=> ChecksGas(n, j)
  <2>1. has(n, f, checks) <=> \E p \in Scan!OwnPlaces(job.bitcodes[n], f) : Checks(Scan!At(job.bitcodes[n], f, p))
    BY DEF Checks
  <2> HIDE DEF has, deploys, migrates, checks
  <2> QED
    BY <1>3, <1>4, <2>1 DEF ChecksGas
<1>8. \A i, h : IsFunction(i, h) => Passed(i, h)
  BY <1>1, AllPassed
<1>9. \A h : IsFunction(n, h) /\ job.bitcodes[n].order[h] = f => h = j
  BY <1>2, OneOrder DEF ScanShape
<1>10. \A i, h, c : /\ VerdictOf(i, h, c).of = i /\ VerdictOf(i, h, c).fn = job.bitcodes[i].order[h]
                    /\ VerdictOf(i, h, c).check = c
  BY DEF VerdictOf
<1>11. ASSUME detector = "upgrade-func"
       PROVE  (\E l \in out : l.of = n /\ l.fn = f) <=> (CallsOwn(n, j, "deploy_contract") /\ CallsOwn(n, j, "batch_function_call"))
  <2>1. \A l : l \in out <=> \E i, h : Upgrades(i, h) /\ Passed(i, h) /\ l = VerdictOf(i, h, TRUE)
    BY <1>11 DEF UpgradesBehind, UpgradeLine
  <2>2. \A i, h : Upgrades(i, h) => IsFunction(i, h)
    BY DEF Upgrades
  <2>3. Upgrades(n, j) <=> (CallsOwn(n, j, "deploy_contract") /\ CallsOwn(n, j, "batch_function_call"))
    BY <1>2 DEF Upgrades, Actions
  <2>4. ASSUME NEW l \in out, l.of = n, l.fn = f PROVE Upgrades(n, j)
    <3>1. PICK i, h : Upgrades(i, h) /\ l = VerdictOf(i, h, TRUE)
      BY <2>1, <2>4
    <3>2. i = n /\ job.bitcodes[n].order[h] = f
      BY <2>4, <3>1 DEF VerdictOf
    <3> QED
      BY <1>9, <2>2, <3>1, <3>2
  <2>5. ASSUME Upgrades(n, j) PROVE \E l \in out : l.of = n /\ l.fn = f
    <3>1. VerdictOf(n, j, TRUE) \in out
      BY <1>8, <2>1, <2>2, <2>5
    <3> QED
      BY <1>2, <3>1 DEF VerdictOf
  <2> QED
    BY <2>3, <2>4, <2>5
<1>12. ASSUME detector = "prepaid-gas"
       PROVE  {l.check : l \in {k \in out : k.of = n /\ k.fn = f}} =
                IF f \in job.bitcodes[n].ftcall /\ job.bitcodes[n].body[f] # <<>> THEN {has(n, f, checks)} ELSE {}
  <2>1. \A l : l \in out <=> \E i, h : Judgement(l, i, h) /\ Passed(i, h)
    BY <1>12 DEF JudgementsBehind, JudgedLine
  <2>2. Judged(n, j) <=> (f \in job.bitcodes[n].ftcall /\ job.bitcodes[n].body[f] # <<>>)
    BY <1>2 DEF Judged, CodeOf
  <2>3. ASSUME NEW l PROVE (l \in out /\ l.of = n /\ l.fn = f) <=> Judgement(l, n, j)
    <3>1. ASSUME l \in out, l.of = n, l.fn = f PROVE Judgement(l, n, j)
      <4>1. PICK i, h : Judgement(l, i, h)
        BY <2>1, <3>1
      <4>2. IsFunction(i, h) /\ \E c : l = VerdictOf(i, h, c)
        BY <4>1 DEF Judgement, Judged
      <4>3. i = n /\ job.bitcodes[n].order[h] = f
        BY <1>10, <3>1, <4>2
      <4> QED
        BY <1>9, <4>1, <4>2, <4>3
    <3>2. ASSUME Judgement(l, n, j) PROVE l \in out /\ l.of = n /\ l.fn = f
      <4>1. IsFunction(n, j) /\ \E c : l = VerdictOf(n, j, c)
        BY <3>2 DEF Judgement, Judged
      <4> QED
        BY <1>2, <1>8, <1>10, <2>1, <3>2, <4>1
    <3> QED
      BY <3>1, <3>2
  <2> DEFINE S == {k \in out : k.of = n /\ k.fn = f}
             c == has(n, f, checks)
  <2>4. \A l : l \in S <=> Judgement(l, n, j)
    BY <2>3
  <2> HIDE DEF S
  <2>5. CASE ~Judged(n, j)
    <3>1. S = {}
      BY <2>4, <2>5 DEF Judgement
    <3> QED
      BY <2>2, <2>5, <3>1 DEF S
  <2>6. CASE Judged(n, j) /\ ChecksGas(n, j)
    <3>1. S = {VerdictOf(n, j, TRUE)}
      BY <2>4, <2>6 DEF Judgement
    <3>2. {l.check : l \in S} = {TRUE}
      <4>1. VerdictOf(n, j, TRUE).check = TRUE
        BY Zenon DEF VerdictOf
      <4> QED
        BY <3>1, <4>1, Zenon
    <3>3. c = TRUE
      BY <1>7, <2>6
    <3>4. {l.check : l \in {k \in out : k.of = n /\ k.fn = f}} = {c}
      BY <3>2, <3>3 DEF S
    <3> HIDE DEF c
    <3>5. (IF f \in job.bitcodes[n].ftcall /\ job.bitcodes[n].body[f] # <<>> THEN {c} ELSE {}) = {c}
      BY <2>2, <2>6
    <3> QED
      BY <3>4, <3>5 DEF c
  <2>7. CASE Judged(n, j) /\ ~ChecksGas(n, j)
    <3>1. S = {VerdictOf(n, j, FALSE)}
      BY <2>4, <2>7 DEF Judgement
    <3>2. {l.check : l \in S} = {FALSE}
      <4>1. VerdictOf(n, j, FALSE).check = FALSE
        BY Zenon DEF VerdictOf
      <4> QED
        BY <3>1, <4>1, Zenon
    <3>3. c = FALSE
      BY <1>7, <2>7
    <3>4. {l.check : l \in {k \in out : k.of = n /\ k.fn = f}} = {c}
      BY <3>2, <3>3 DEF S
    <3> HIDE DEF c
    <3>5. (IF f \in job.bitcodes[n].ftcall /\ job.bitcodes[n].body[f] # <<>> THEN {c} ELSE {}) = {c}
      BY <2>2, <2>7
    <3> QED
      BY <3>4, <3>5 DEF c
  <2> QED
    BY <2>5, <2>6, <2>7
<1>13. detector = "upgrade-func" =>
         (\E l \in out : l.of = n /\ l.fn = f) = (has(n, f, deploys) /\ has(n, f, migrates))
  BY <1>5, <1>6, <1>11
<1> QED
  BY <1>12, <1>13

-----------------------------------------------------------------------------
(* unsaved-changes has lines on lost values only, and on each behind the   *)
(* cursor that no `get' without an unwrap precedes in its block.           *)
Lost(n, j, b, k) ==
  Own(n, j, b, k) /\ Scan!IsGet(InstOf(n, j, b, k)) /\ Scan!Unsaved(InstOf(n, j, b, k))

Hides(n, j, b, i) == Own(n, j, b, i) /\ Scan!IsGet(InstOf(n, j, b, i)) /\ "unwrapped" \notin InstOf(n, j, b, i).facts
Visible(n, j, b, k) == Lost(n, j, b, k) /\ \A i : Hides(n, j, b, i) => ~(i < k)

UnsavedBehind ==
  detector = "unsaved-changes" =>
    /\ \A l \in out : \E n, j, b, k : Lost(n, j, b, k) /\ l = LineOf(n, j, b, k)
    /\ \A n, j, b, k : Visible(n, j, b, k) /\ Behind(n, j, b, k) => LineOf(n, j, b, k) \in out

LEMMA SameLosses ==
  ASSUME UNCHANGED job
  PROVE  /\ \A n, j, b, k : Lost(n, j, b, k)' <=> Lost(n, j, b, k)
         /\ \A n, j, b, k : Visible(n, j, b, k)' <=> Visible(n, j, b, k)
<1>1. \A n, j, b, k : Lost(n, j, b, k)' <=> Lost(n, j, b, k)
  BY SitesStay DEF SameSites, Lost, Scan!IsGet, Scan!Unsaved
<1>2. \A n, j, b, k : Hides(n, j, b, k)' <=> Hides(n, j, b, k)
  BY SitesStay DEF SameSites, Hides, Scan!IsGet
<1> QED
  BY <1>1, <1>2 DEF Visible

LEMMA UnsavedSteps ==
  ASSUME ScanShape, detector = "unsaved-changes", [Scan!Next]_Scan!vars
  PROVE  Stays \/ Scan!SkipInst \/ Scan!ScanGet \/ Scan!EndFunction \/ Scan!NextBitcode
BY StepOf, StayingSteps DEF Scan!Next, Scan!LineDetectors

LEMMA UnsavedStep ==
  ASSUME Scan!JobsAssumption, ScanShape, UnsavedBehind, detector = "unsaved-changes", [Scan!Next]_Scan!vars
  PROVE  UnsavedBehind'
<1>1. /\ \A l \in out : \E n, j, b, k : Lost(n, j, b, k) /\ l = LineOf(n, j, b, k)
      /\ \A n, j, b, k : Visible(n, j, b, k) /\ Behind(n, j, b, k) => LineOf(n, j, b, k) \in out
  BY DEF UnsavedBehind
<1>2. \A n, j, b, k : Visible(n, j, b, k) => Lost(n, j, b, k) /\ Site(n, j, b, k) /\ InstOf(n, j, b, k).loc = "own"
  BY DEF Visible, Lost, Own
<1>3. ASSUME UNCHANGED <<job, detector, out>>,
             \A n, j, b, k : Visible(n, j, b, k) => (Behind(n, j, b, k)' <=> Behind(n, j, b, k))
      PROVE  UnsavedBehind'
  BY <1>1, <1>3, SameLosses, LineOfStays DEF UnsavedBehind
<1>4. CASE Stays
  <2>1. \A n, j, b, k : Behind(n, j, b, k)' <=> Behind(n, j, b, k)
    BY <1>4 DEF Stays, Behind, Passed
  <2> QED
    BY <1>3, <1>4, <2>1 DEF Stays
<1>5. CASE Scan!SkipInst
  <2>1. /\ InBlock /\ Scan!I.loc # "own" /\ pos' = Scan!NextInst /\ UNCHANGED <<job, detector, bitcode, out>>
    BY <1>5, SkipIs
  <2>2. \A n, j, b, k : Visible(n, j, b, k) => (Behind(n, j, b, k)' <=> Behind(n, j, b, k))
    BY <1>2, <2>1, OverInst, OnlyHere
  <2> QED
    BY <1>3, <2>1, <2>2
<1>6. CASE Scan!EndFunction
  <2>1. /\ InFunction /\ pos.block > Len(Scan!Body) /\ pos' = Scan!NextFunction
        /\ UNCHANGED <<job, detector, bitcode, out>>
    BY <1>6, EndFunctionIs
  <2>2. \A n, j, b, k : Visible(n, j, b, k) => (Behind(n, j, b, k)' <=> Behind(n, j, b, k))
    BY <1>2, <2>1, OverFunction, WholeFunction
  <2> QED
    BY <1>3, <2>1, <2>2
<1>7. CASE Scan!NextBitcode
  <2>1. ~InFunction /\ bitcode' = bitcode + 1 /\ pos' = Scan!Start /\ UNCHANGED <<job, detector, out>>
    BY <1>7, NextBitcodeIs
  <2>2. \A n, j, b, k : Visible(n, j, b, k) => (Behind(n, j, b, k)' <=> Behind(n, j, b, k))
    BY <1>2, <2>1, OverBitcode
  <2> QED
    BY <1>3, <2>1, <2>2
<1>8. CASE Scan!ScanGet
  <2>1. /\ InBlock /\ InFunction /\ Scan!I.loc = "own" /\ UNCHANGED <<job, detector, bitcode>>
        /\ out' = out \cup {l \in {Scan!Line} : Scan!IsGet(Scan!I) /\ Scan!Unsaved(Scan!I)}
        /\ pos' = IF Scan!IsGet(Scan!I) /\ "unwrapped" \notin Scan!I.facts THEN Scan!NextBlock ELSE Scan!NextInst
    BY <1>8 DEF Scan!ScanGet, Scan!AtOwn, Scan!AtInst, Scan!InModule, Scan!Fixed, InBlock, InFunction
  <2>2. PICK n, j, b, k : n = bitcode /\ j = pos.fn /\ b = pos.block /\ k = pos.inst
    OBVIOUS
  <2>3. /\ InstOf(n, j, b, k) = Scan!I /\ Site(n, j, b, k) /\ job.bitcodes[n] = Scan!Bitcode
        /\ job.bitcodes[n].order[j] = Scan!Here /\ Own(n, j, b, k)
    BY <2>1, <2>2, OnlyHere DEF AtSite, Own
  <2>4. LineOf(n, j, b, k) = Scan!Line
    BY <2>2, <2>3 DEF LineOf, Scan!Line
  <2>5. Lost(n, j, b, k) <=> Scan!IsGet(Scan!I) /\ Scan!Unsaved(Scan!I)
    BY <2>3 DEF Lost
  <2>6. \A l : l \in out' <=> l \in out \/ (Lost(n, j, b, k) /\ l = LineOf(n, j, b, k))
    <3>1. CASE Lost(n, j, b, k)
      BY <2>1, <2>4, <2>5, <3>1, Zenon
    <3>2. CASE ~Lost(n, j, b, k)
      BY <2>1, <2>4, <2>5, <3>2, Zenon
    <3> QED
      BY <3>1, <3>2
  <2>7. ASSUME NEW l \in out' PROVE \E n1, j1, b1, k1 : Lost(n1, j1, b1, k1) /\ l = LineOf(n1, j1, b1, k1)
    BY <1>1, <2>6, <2>7
  <2>8. ASSUME NEW n1, NEW j1, NEW b1, NEW k1, Visible(n1, j1, b1, k1), Behind(n1, j1, b1, k1)'
        PROVE  LineOf(n1, j1, b1, k1) \in out'
    <3>1. CASE Behind(n1, j1, b1, k1)
      BY <1>1, <2>6, <2>8, <3>1
    <3>2. CASE n1 = n /\ j1 = j /\ b1 = b /\ k1 = k
      BY <1>2, <2>6, <2>8, <3>2
    <3>3. CASE ~Behind(n1, j1, b1, k1) /\ ~(n1 = n /\ j1 = j /\ b1 = b /\ k1 = k)
      <4>1. Site(n1, j1, b1, k1)
        BY <1>2, <2>8
      <4>2. ~AtSite(n1, j1, b1, k1)
        BY <2>2, <3>3 DEF AtSite
      <4>3. pos' # Scan!NextInst
        BY <2>1, <2>8, <3>3, <4>1, <4>2, OverInst
      <4>4. Scan!IsGet(Scan!I) /\ "unwrapped" \notin Scan!I.facts /\ pos' = Scan!NextBlock
        BY <2>1, <4>3
      <4>5. n1 = n /\ j1 = j /\ b1 = b
        BY <2>1, <2>2, <2>8, <3>3, <4>1, <4>4, OverBlock
      <4>6. Hides(n, j, b, k)
        BY <2>3, <4>4 DEF Hides
      <4>7. ~(k < k1)
        BY <2>8, <4>5, <4>6 DEF Visible
      <4>8. k \in Nat /\ k1 \in Nat
        BY <2>3, <4>1, SiteIs
      <4>9. k1 < k
        BY <3>3, <4>5, <4>7, <4>8
      <4>10. Behind(n1, j1, b1, k1)
        BY <2>2, <4>5, <4>9 DEF Behind
      <4> QED
        BY <3>3, <4>10
    <3> QED
      BY <3>1, <3>2, <3>3
  <2> QED
    BY <2>1, <2>7, <2>8, SameLosses, LineOfStays DEF UnsavedBehind
<1> QED
  BY <1>4, <1>5, <1>6, <1>7, <1>8, UnsavedSteps

LEMMA UnsavedInit ==
  ASSUME Scan!JobsAssumption, Scan!Init
  PROVE  UnsavedBehind
<1>1. ScanShape /\ pos = Scan!Start /\ bitcode = 1 /\ out = {}
  BY ShapeInit DEF Scan!Init
<1>2. \A n, j, b, k : Visible(n, j, b, k) => ~Behind(n, j, b, k)
  BY <1>1, NothingPassed DEF Visible, Lost, Own
<1> QED
  BY <1>1, <1>2 DEF UnsavedBehind

LEMMA UnsavedAlways ==
  ASSUME Scan!JobsAssumption, ScanShape, UnsavedBehind, [Scan!Next]_Scan!vars
  PROVE  UnsavedBehind'
<1>1. CASE detector = "unsaved-changes"
  BY <1>1, UnsavedStep
<1>2. CASE detector # "unsaved-changes"
  <2>1. Scan!BeginExtCall => detector' = "ext-call"
    BY DEF Scan!BeginExtCall
  <2>2. detector' # "unsaved-changes"
    BY <1>2, <2>1, SameDetector
  <2> QED
    BY <2>2 DEF UnsavedBehind
<1> QED
  BY <1>1, <1>2

LEMMA UnsavedGiven ==
  ASSUME Scan!JobsAssumption, ScanShape, UnsavedBehind
  PROVE  Scan!UnsavedReported
<1> DEFINE lost(i) == Scan!IsGet(i) /\ Scan!Unsaved(i)
           visible(m, f, p) == lost(Scan!At(m, f, p)) /\ \A q \in Scan!OwnPlaces(m, f) :
                        q[1] = p[1] /\ q[2] < p[2] /\ Scan!IsGet(Scan!At(m, f, q)) =>
                          "unwrapped" \in Scan!At(m, f, q).facts
           all  == Scan!Lines(LAMBDA m, f, p : lost(Scan!At(m, f, p)))
           seen == Scan!Lines(LAMBDA m, f, p : lost(Scan!At(m, f, p)) /\ \A q \in Scan!OwnPlaces(m, f) :
                        q[1] = p[1] /\ q[2] < p[2] /\ Scan!IsGet(Scan!At(m, f, q)) =>
                          "unwrapped" \in Scan!At(m, f, q).facts)
<1>1. SUFFICES ASSUME at = "done", detector = "unsaved-changes" PROVE seen \subseteq out /\ out \subseteq all
  BY DEF Scan!UnsavedReported, Scan!Done
<1>2. \A l : l \in all <=> \E n, f, p : OnPlace(l, n, f, p) /\ lost(Scan!At(job.bitcodes[n], f, p))
  <2>1. all = UNION {UNION {{[of |-> n, fn |-> f, place |-> p] :
                   p \in {q \in Scan!OwnPlaces(job.bitcodes[n], f) : lost(Scan!At(job.bitcodes[n], f, q))}} :
                f \in ScanFunc} : n \in 1..Len(job.bitcodes)}
    BY DEF Scan!Lines
  <2> HIDE DEF lost, all
  <2> QED
    BY <2>1 DEF OnPlace
<1>3. \A l : l \in seen <=> \E n, f, p : OnPlace(l, n, f, p) /\ visible(job.bitcodes[n], f, p)
  <2>1. seen = UNION {UNION {{[of |-> n, fn |-> f, place |-> p] :
                   p \in {q \in Scan!OwnPlaces(job.bitcodes[n], f) : visible(job.bitcodes[n], f, q)}} :
                f \in ScanFunc} : n \in 1..Len(job.bitcodes)}
    BY DEF Scan!Lines
  <2> HIDE DEF visible, seen
  <2> QED
    BY <2>1 DEF OnPlace
<1> HIDE DEF all, seen
<1>4. /\ \A l \in out : \E n, j, b, k : Lost(n, j, b, k) /\ l = LineOf(n, j, b, k)
      /\ \A n, j, b, k : Visible(n, j, b, k) /\ Behind(n, j, b, k) => LineOf(n, j, b, k) \in out
  BY <1>1 DEF UnsavedBehind
<1>5. ASSUME NEW l \in out PROVE l \in all
  <2>1. PICK n, j, b, k : Lost(n, j, b, k) /\ l = LineOf(n, j, b, k)
    BY <1>4, <1>5
  <2>2. Own(n, j, b, k) /\ lost(InstOf(n, j, b, k))
    BY <2>1 DEF Lost
  <2>3. /\ OnPlace(l, n, job.bitcodes[n].order[j], <<b, k>>)
        /\ Scan!At(job.bitcodes[n], job.bitcodes[n].order[j], <<b, k>>) = InstOf(n, j, b, k)
    BY <2>1, <2>2, LineOfPlace
  <2>4. lost(Scan!At(job.bitcodes[n], job.bitcodes[n].order[j], <<b, k>>))
    BY <2>2, <2>3
  <2> HIDE DEF lost
  <2> QED
    BY <1>2, <2>3, <2>4
<1>6. ASSUME NEW l \in seen PROVE l \in out
  <2>1. PICK n, f, p : OnPlace(l, n, f, p) /\ visible(job.bitcodes[n], f, p)
    BY <1>3, <1>6
  <2>2. PICK j, b, k : /\ Own(n, j, b, k) /\ l = LineOf(n, j, b, k) /\ f = job.bitcodes[n].order[j] /\ p = <<b, k>>
                       /\ Scan!At(job.bitcodes[n], f, p) = InstOf(n, j, b, k)
    BY <2>1, PlaceOfLine
  <2>3. Lost(n, j, b, k)
    BY <2>1, <2>2 DEF Lost
  <2>4. ASSUME NEW i, Hides(n, j, b, i), i < k PROVE FALSE
    <3>1. Own(n, j, b, i)
      BY <2>4 DEF Hides
    <3>2. /\ <<b, i>> \in Scan!OwnPlaces(job.bitcodes[n], f)
          /\ Scan!At(job.bitcodes[n], f, <<b, i>>) = InstOf(n, j, b, i)
      BY <2>2, <3>1, LineOfPlace DEF OnPlace
    <3>3. <<b, i>>[1] = p[1] /\ <<b, i>>[2] < p[2]
      BY <2>2, <2>4
    <3>4. "unwrapped" \in InstOf(n, j, b, i).facts
      BY <2>1, <2>4, <3>2, <3>3 DEF Hides
    <3> QED
      BY <2>4, <3>4 DEF Hides
  <2>5. Visible(n, j, b, k)
    BY <2>3, <2>4 DEF Visible
  <2>6. Behind(n, j, b, k)
    BY <1>1, <2>2, AllPassed DEF Own
  <2> QED
    BY <1>4, <2>2, <2>5, <2>6
<1> QED
  BY <1>5, <1>6

-----------------------------------------------------------------------------
(* The blocks that are reached from a block by branches: the block itself, *)
(* what its branches and theirs lead to, and nothing else.                 *)
BranchesTo(body, d, c) ==
  \E k \in 1..Len(body[d]) :
    body[d][k].op = "br" /\ c \in {body[d][k].to[n] : n \in 1..Len(body[d][k].to)}

ReachStep(body, S) == S \cup {c \in 1..Len(body) : \E d \in S : \E k \in 1..Len(body[d]) :
  body[d][k].op = "br" /\ c \in {body[d][k].to[n] : n \in 1..Len(body[d][k].to)}}

ReachLevels(body, b, h) == h = [n \in Nat |-> IF n = 0 THEN {b} ELSE ReachStep(body, h[n - 1])]

LEMMA ReachLevelsExist ==
  ASSUME NEW body, NEW b \in 1..Len(body)
  PROVE  \E h \in [Nat -> SUBSET (1..Len(body))] : ReachLevels(body, b, h)
<1> DEFINE D == SUBSET (1..Len(body))
           s == [X \in D |-> ReachStep(body, X)]
<1>1. s \in [D -> D]
  BY DEF ReachStep
<1>2. \A X \in D : s[X] = ReachStep(body, X)
  OBVIOUS
<1>3. {b} \in D
  OBVIOUS
<1> HIDE DEF s, D
<1>4. PICK h \in [Nat -> D] : Recursive({b}, s, h)
  BY <1>1, <1>3, Recursion
<1>5. \A n \in Nat : n # 0 => n - 1 \in Nat
  OBVIOUS
<1>6. \A n \in Nat : n # 0 => s[h[n - 1]] = ReachStep(body, h[n - 1])
  BY <1>2, <1>4, <1>5
<1> QED
  BY <1>4, <1>6 DEF Recursive, ReachLevels, D

(* As many steps as there are blocks find them all: a step that finds no   *)
(* other is followed by none that does.                                    *)
LEMMA ReachedIs ==
  ASSUME NEW body, Len(body) \in Nat, NEW b \in 1..Len(body)
  PROVE  /\ b \in Scan!Reached(body, b) /\ Scan!Reached(body, b) \subseteq 1..Len(body)
         /\ \A d \in Scan!Reached(body, b) : \A c \in 1..Len(body) : BranchesTo(body, d, c) => c \in Scan!Reached(body, b)
         /\ \A V : /\ b \in V
                   /\ \A d \in V : \A c \in 1..Len(body) : BranchesTo(body, d, c) => c \in V
                   => Scan!Reached(body, b) \subseteq V
<1> DEFINE w == CHOOSE h : ReachLevels(body, b, h)
           L == Len(body)
<1>1. ReachLevels(body, b, w) /\ w \in [Nat -> SUBSET (1..L)]
  <2>1. PICK h \in [Nat -> SUBSET (1..L)] : ReachLevels(body, b, h)
    BY ReachLevelsExist
  <2>2. ReachLevels(body, b, w)
    BY <2>1
  <2> DEFINE B == {n \in Nat : w[n] # h[n]}
  <2> HIDE DEF w
  <2>3. \A n \in Nat : w[n] = IF n = 0 THEN {b} ELSE ReachStep(body, w[n - 1])
    BY <2>2 DEF ReachLevels
  <2>4. \A n \in Nat : h[n] = IF n = 0 THEN {b} ELSE ReachStep(body, h[n - 1])
    BY <2>1 DEF ReachLevels
  <2>5. B = {}
    <3>1. SUFFICES ASSUME B # {} PROVE FALSE
      OBVIOUS
    <3>2. B \in SUBSET Nat
      OBVIOUS
    <3>3. PICK n \in B : n = 0 \/ n - 1 \notin B
      <4> HIDE DEF B
      <4> QED
        BY <3>1, <3>2, LeastNat
    <3>4. n \in Nat /\ w[n] # h[n] /\ n # 0
      BY <2>3, <2>4
    <3>5. n - 1 \in Nat
      BY <3>4
    <3>6. w[n - 1] = h[n - 1]
      BY <3>3, <3>4, <3>5
    <3> QED
      BY <2>3, <2>4, <3>4, <3>6
  <2>6. \A n \in Nat : w[n] = h[n]
    BY <2>5
  <2>7. w = [n \in Nat |-> w[n]]
    <3>1. w = [n \in Nat |-> IF n = 0 THEN {b} ELSE ReachStep(body, w[n - 1])]
      BY <2>2 DEF ReachLevels
    <3> QED
      BY <3>1
  <2> QED
    BY <2>1, <2>2, <2>6, <2>7
<1>2. Scan!Reached(body, b) = w[L]
  BY DEF Scan!Reached, ReachLevels, ReachStep
<1> HIDE DEF w
<1>3. /\ w[0] = {b} /\ \A n \in Nat : n # 0 => w[n] = ReachStep(body, w[n - 1])
      /\ \A n \in Nat : w[n] \subseteq 1..L
  BY <1>1 DEF ReachLevels
<1>4. \A X : X \subseteq ReachStep(body, X)
  BY DEF ReachStep
<1>5. IsFiniteSet(1..L) /\ Cardinality(1..L) = L
  <2>1. L \in Nat
    OBVIOUS
  <2> HIDE DEF L
  <2>2. 1 \in Int /\ L \in Int
    BY <2>1
  <2>3. IsFiniteSet(1..L) /\ Cardinality(1..L) = IF 1 > L THEN 0 ELSE L - 1 + 1
    BY <2>2, FS_Interval
  <2> QED
    BY <2>1, <2>3
<1>6. \A n \in Nat : IsFiniteSet(w[n]) /\ Cardinality(w[n]) \in Nat /\ Cardinality(w[n]) <= L
  BY <1>3, <1>5, FS_Subset, FS_CardinalityType
<1>7. b \in w[L]
  <2> DEFINE B == {n \in Nat : b \notin w[n]}
  <2>1. B = {}
    <3>1. SUFFICES ASSUME B # {} PROVE FALSE
      OBVIOUS
    <3>2. B \in SUBSET Nat
      OBVIOUS
    <3>3. PICK n \in B : n = 0 \/ n - 1 \notin B
      <4> HIDE DEF B
      <4> QED
        BY <3>1, <3>2, LeastNat
    <3>4. n \in Nat /\ b \notin w[n] /\ n # 0
      BY <1>3
    <3>5. n - 1 \in Nat
      BY <3>4
    <3> QED
      BY <1>3, <1>4, <3>3, <3>4, <3>5
  <2> QED
    BY <2>1
<1>8. ReachStep(body, w[L]) = w[L]
  <2> DEFINE grown(n) == ReachStep(body, w[n]) = w[n] \/ Cardinality(w[n]) >= n + 1
             B == {n \in Nat : ~grown(n)}
  <2>1. B = {}
    <3>1. SUFFICES ASSUME B # {} PROVE FALSE
      OBVIOUS
    <3>2. B \in SUBSET Nat
      OBVIOUS
    <3>3. PICK n \in B : n = 0 \/ n - 1 \notin B
      <4> HIDE DEF B
      <4> QED
        BY <3>1, <3>2, LeastNat
    <3>4. n \in Nat /\ ~grown(n)
      OBVIOUS
    <3>5. n # 0
      <4>1. Cardinality(w[0]) = 1
        BY <1>3, FS_Singleton
      <4> QED
        BY <3>4, <4>1
    <3>6. n - 1 \in Nat /\ w[n] = ReachStep(body, w[n - 1])
      BY <1>3, <3>4, <3>5
    <3>7. grown(n - 1)
      BY <3>3, <3>5, <3>6
    <3>8. w[n] # w[n - 1] /\ w[n - 1] \subseteq w[n]
      <4>1. w[n - 1] \subseteq w[n]
        BY <1>4, <3>6
      <4>2. w[n] = w[n - 1] => ReachStep(body, w[n]) = w[n]
        BY <3>6
      <4> QED
        BY <3>4, <4>1, <4>2
    <3>9. Cardinality(w[n - 1]) >= n
      BY <3>4, <3>6, <3>7, <3>8
    <3>10. Cardinality(w[n - 1]) <= Cardinality(w[n]) /\ Cardinality(w[n - 1]) # Cardinality(w[n])
      BY <1>6, <3>4, <3>8, FS_Subset
    <3>11. Cardinality(w[n]) \in Nat /\ Cardinality(w[n - 1]) \in Nat
      BY <1>6, <3>4, <3>6
    <3>12. Cardinality(w[n]) >= n + 1
      BY <3>4, <3>9, <3>10, <3>11
    <3> QED
      BY <3>4, <3>12
  <2>2. grown(L)
    BY <2>1
  <2>3. Cardinality(w[L]) \in Nat /\ Cardinality(w[L]) <= L
    BY <1>6
  <2> QED
    BY <2>2, <2>3
<1>9. ASSUME NEW d \in w[L], NEW c \in 1..L, BranchesTo(body, d, c) PROVE c \in w[L]
  <2>1. c \in ReachStep(body, w[L])
    BY <1>9 DEF ReachStep, BranchesTo
  <2> QED
    BY <1>8, <2>1
<1>10. ASSUME NEW V, b \in V, \A d \in V : \A c \in 1..L : BranchesTo(body, d, c) => c \in V
       PROVE  w[L] \subseteq V
  <2> DEFINE B == {n \in Nat : ~(w[n] \subseteq V)}
  <2>1. B = {}
    <3>1. SUFFICES ASSUME B # {} PROVE FALSE
      OBVIOUS
    <3>2. B \in SUBSET Nat
      OBVIOUS
    <3>3. PICK n \in B : n = 0 \/ n - 1 \notin B
      <4> HIDE DEF B
      <4> QED
        BY <3>1, <3>2, LeastNat
    <3>4. n \in Nat /\ ~(w[n] \subseteq V) /\ n # 0
      BY <1>3, <1>10
    <3>5. n - 1 \in Nat /\ w[n] = ReachStep(body, w[n - 1])
      BY <1>3, <3>4
    <3>6. w[n - 1] \subseteq V
      BY <3>3, <3>4, <3>5
    <3>7. ReachStep(body, w[n - 1]) \subseteq V
      BY <1>10, <3>6 DEF ReachStep, BranchesTo
    <3> QED
      BY <3>4, <3>5, <3>7
  <2>2. \A n \in Nat : w[n] \subseteq V
    BY <2>1
  <2> QED
    BY <2>2
<1> QED
  BY <1>2, <1>3, <1>7, <1>9, <1>10

(* The blocks a promise result leads to on success, and what is reached    *)
(* from there; whether a change of state is, with no choice on the way.    *)
Followed(n, j, b, k) == Own(n, j, b, k) /\ Scan!IsFollowed(InstOf(n, j, b, k))
Success(n, j, s) ==
  \E b, k : Followed(n, j, b, k) /\ \E i \in 1..Len(InstOf(n, j, b, k).to) : s = InstOf(n, j, b, k).to[i]

FromSuccess(n, j, b) == \E s : Success(n, j, s) /\ b \in Scan!Reached(CodeOf(n, j), s)

Straight(body, s) == \A c \in Scan!Reached(body, s) : \A k \in 1..Len(body[c]) : Len(body[c][k].to) < 2
Changes(body, c)  == \E k \in 1..Len(body[c]) : Scan!ChangesState(body[c][k])

MustReport(n, j) ==
  \E s : /\ \A t : Success(n, j, t) <=> t = s
         /\ Straight(CodeOf(n, j), s)
         /\ \E c \in Scan!Reached(CodeOf(n, j), s) : Changes(CodeOf(n, j), c)

ChangeLine(l, n, j, b, k) ==
  /\ Site(n, j, b, k) /\ Scan!ChangesState(InstOf(n, j, b, k)) /\ FromSuccess(n, j, b)
  /\ l = LineOf(n, j, b, k)

Reported(n, j) == \E l \in out : l.of = n /\ l.fn = job.bitcodes[n].order[j]

(* The walk from the success s has been in the blocks V, which do not      *)
(* change the state and lead to nowhere else than where it is now.         *)
Walked(body, s, V, c) ==
  /\ V \subseteq 1..Len(body) /\ s \in V \cup {c}
  /\ \A d \in V : ~Changes(body, d) /\ Scan!Successor(body, d) \in V \cup {c}

ChangesReported ==
  /\ \A l \in out : \E n, j, b, k : ChangeLine(l, n, j, b, k) /\ Passed(n, j)
  /\ \A l, h \in out : l.of = h.of /\ l.fn = h.fn => l = h
  /\ \A n, j : IsFunction(n, j) /\ Passed(n, j) /\ MustReport(n, j) => Reported(n, j)

NoneFollowed == \A n, j, b, k : n = bitcode /\ j = pos.fn /\ Followed(n, j, b, k) => ~Behind(n, j, b, k)

Walking ==
  \E n, j, s, V : /\ n = bitcode /\ j = pos.fn /\ Success(n, j, s)
                  /\ walk \in Scan!Reached(CodeOf(n, j), s) /\ Walked(CodeOf(n, j), s, V, walk)

ReentrancyInv ==
  detector = "reentrancy" =>
    /\ ChangesReported
    /\ at = "scan" => NoneFollowed
    /\ at = "walk" => Walking

LEMMA SuccessIs ==
  ASSUME Scan!JobsAssumption, ScanShape, NEW n, NEW j, NEW s, Success(n, j, s)
  PROVE  IsFunction(n, j) /\ Len(CodeOf(n, j)) \in Nat /\ s \in 1..Len(CodeOf(n, j))
<1>1. PICK b, k : Followed(n, j, b, k) /\ \E i \in 1..Len(InstOf(n, j, b, k).to) : s = InstOf(n, j, b, k).to[i]
  BY DEF Success
<1>2. IsFunction(n, j) /\ Site(n, j, b, k)
  BY <1>1 DEF Followed, Own, Site
<1>3. Scan!IsBitcode(job.bitcodes[n]) /\ job.bitcodes[n].order[j] \in ScanFunc /\ Len(CodeOf(n, j)) \in Nat
  BY <1>2, FunctionIs
<1>4. IsSite(job.bitcodes[n], job.bitcodes[n].order[j], b, k)
  BY <1>2 DEF Site, IsSite, CodeOf
<1>5. \A i \in 1..Len(InstOf(n, j, b, k).to) : InstOf(n, j, b, k).to[i] \in 1..Len(CodeOf(n, j))
  BY <1>3, <1>4, BitcodeBody DEF InstOf, CodeOf
<1> QED
  BY <1>1, <1>2, <1>3, <1>5

(* A walk that ends where no branch leads on has been in every block that  *)
(* is reached without a choice.                                            *)
LEMMA WalkedAll ==
  ASSUME NEW m, Scan!IsBitcode(m), NEW f \in ScanFunc, NEW body, body = m.body[f], NEW s \in 1..Len(body),
         NEW V, Walked(body, s, V, 0), Straight(body, s)
  PROVE  \A c \in Scan!Reached(body, s) : ~Changes(body, c)
<1>1. Len(body) \in Nat
  BY BitcodeBody
<1>2. V \subseteq 1..Len(body) /\ s \in V /\ \A d \in V : ~Changes(body, d) /\ Scan!Successor(body, d) \in V \cup {0}
  BY <1>1 DEF Walked
<1> DEFINE R == Scan!Reached(body, s)
           W == V \cap R
<1>3. /\ s \in R /\ R \subseteq 1..Len(body)
      /\ \A d \in R : \A c \in 1..Len(body) : BranchesTo(body, d, c) => c \in R
      /\ \A U : /\ s \in U
                /\ \A d \in U : \A c \in 1..Len(body) : BranchesTo(body, d, c) => c \in U
                => R \subseteq U
  BY <1>1, ReachedIs
<1>4. ASSUME NEW d \in W, NEW c \in 1..Len(body), BranchesTo(body, d, c) PROVE c \in W
  <2>1. d \in 1..Len(body) /\ d \in R /\ d \in V
    BY <1>2, <1>4
  <2>2. PICK k, n : k \in 1..Len(body[d]) /\ n \in 1..Len(body[d][k].to) /\ body[d][k].op = "br" /\ c = body[d][k].to[n]
    BY <1>4 DEF BranchesTo
  <2>3. Len(body[d][k].to) < 2
    BY <2>1, <2>2 DEF Straight
  <2>4. body[d][k] \in Scan!Inst
    BY <2>1, <2>2, BitcodeBody DEF IsSite
  <2>5. body[d][k].to \in Seq(Nat)
    BY <2>4 DEF Scan!Inst
  <2>6. Len(body[d][k].to) \in Nat /\ n = 1 /\ Len(body[d][k].to) = 1 /\ body[d][k].to # <<>>
    <3> DEFINE t == body[d][k].to
    <3>1. t \in Seq(Nat) /\ n \in 1..Len(t) /\ Len(t) < 2
      BY <2>2, <2>3, <2>5
    <3> HIDE DEF t
    <3>2. Len(t) \in Nat
      BY <3>1
    <3> DEFINE l == Len(t)
    <3>3. l \in Nat /\ n \in 1..l /\ l < 2
      BY <3>1, <3>2
    <3> HIDE DEF l
    <3>4. n = 1 /\ l = 1
      BY <3>3
    <3>5. t # <<>>
      <4>1. Len(t) # 0
        BY <3>4 DEF l
      <4> QED
        BY <3>1, <4>1, EmptySeq
    <3> QED
      BY <3>2, <3>4, <3>5 DEF l, t
  <2>7. c = Scan!Successor(body, d)
    <3>1. \/ \A i \in 1..Len(body[d]) : ~(body[d][i].op = "br" /\ body[d][i].to # <<>>)
          \/ \E i \in 1..Len(body[d]) :
               /\ Scan!Successor(body, d) = body[d][i].to[Len(body[d][i].to)]
               /\ \A h \in 1..Len(body[d]) : body[d][h].op = "br" => h = i
      <4>1. d \in 1..Len(m.body[f])
        BY <2>1
      <4>2. \/ /\ Scan!Successor(m.body[f], d) = 0
               /\ \A i \in 1..Len(m.body[f][d]) : ~(m.body[f][d][i].op = "br" /\ m.body[f][d][i].to # <<>>)
            \/ \E i \in 1..Len(m.body[f][d]) :
                 /\ m.body[f][d][i].op = "br" /\ m.body[f][d][i].to # <<>>
                 /\ Len(m.body[f][d][i].to) \in Nat \ {0}
                 /\ Scan!Successor(m.body[f], d) = m.body[f][d][i].to[Len(m.body[f][d][i].to)]
                 /\ Scan!Successor(m.body[f], d) \in 1..Len(m.body[f])
                 /\ \A h \in 1..Len(m.body[f][d]) : m.body[f][d][h].op = "br" => h = i
        BY <4>1, SuccessorIs
      <4> QED
        BY <4>2
    <3>2. PICK i \in 1..Len(body[d]) :
            /\ Scan!Successor(body, d) = body[d][i].to[Len(body[d][i].to)]
            /\ \A h \in 1..Len(body[d]) : body[d][h].op = "br" => h = i
      BY <2>2, <2>6, <3>1
    <3>3. k = i
      BY <2>2, <3>2
    <3> QED
      BY <2>2, <2>6, <3>2, <3>3
  <2>8. c \in V
    BY <1>1, <1>2, <1>4, <2>1, <2>7
  <2>9. c \in R
    BY <1>3, <1>4, <2>1
  <2> QED
    BY <2>8, <2>9
<1>5. s \in W
  BY <1>2, <1>3
<1> HIDE DEF W, R
<1>6. R \subseteq W
  BY <1>3, <1>4, <1>5
<1> QED
  BY <1>2, <1>6 DEF W, R

LEMMA SameReach ==
  ASSUME UNCHANGED job
  PROVE  /\ \A n, j, b, k : Followed(n, j, b, k)' <=> Followed(n, j, b, k)
         /\ \A n, j, s : Success(n, j, s)' <=> Success(n, j, s)
         /\ \A n, j : MustReport(n, j)' <=> MustReport(n, j)
         /\ \A l, n, j, b, k : ChangeLine(l, n, j, b, k)' <=> ChangeLine(l, n, j, b, k)
<1>1. \A n, j, b, k : Followed(n, j, b, k)' <=> Followed(n, j, b, k)
  BY SitesStay DEF SameSites, Followed, Scan!IsFollowed
<1>2. \A n, j, s : Success(n, j, s)' <=> Success(n, j, s)
  BY <1>1, SitesStay DEF SameSites, Success
<1>3. \A n, j : CodeOf(n, j)' = CodeOf(n, j)
  BY SitesStay DEF SameSites
<1>4. \A n, j : MustReport(n, j)' <=> MustReport(n, j)
  BY <1>2, <1>3 DEF MustReport
<1>5. \A n, j, b : FromSuccess(n, j, b)' <=> FromSuccess(n, j, b)
  BY <1>2, <1>3 DEF FromSuccess
<1>6. \A n, j, b, k : (Site(n, j, b, k)' <=> Site(n, j, b, k)) /\ InstOf(n, j, b, k)' = InstOf(n, j, b, k)
  BY SitesStay DEF SameSites
<1>7. \A l, n, j, b, k : ChangeLine(l, n, j, b, k)' <=> ChangeLine(l, n, j, b, k)
  BY <1>5, <1>6, LineOfStays DEF ChangeLine, Scan!ChangesState
<1> QED
  BY <1>1, <1>2, <1>4, <1>7

LEMMA SameReported ==
  ASSUME UNCHANGED <<job, out>>
  PROVE  \A n, j : Reported(n, j)' <=> Reported(n, j)
BY DEF Reported

(* The lines stay, and the functions that are passed.                      *)
LEMMA ReportsStay ==
  ASSUME ChangesReported, UNCHANGED <<job, out>>, \A n, j : IsFunction(n, j) => (Passed(n, j)' <=> Passed(n, j))
  PROVE  ChangesReported'
<1>1. \A l, n, j, b, k : ChangeLine(l, n, j, b, k) => IsFunction(n, j)
  BY DEF ChangeLine, Site
<1>2. \A l \in out' : \E n, j, b, k : ChangeLine(l, n, j, b, k)' /\ Passed(n, j)'
  BY <1>1, SameReach DEF ChangesReported
<1>3. \A l, h \in out' : l.of = h.of /\ l.fn = h.fn => l = h
  BY DEF ChangesReported
<1>4. \A n, j : IsFunction(n, j)' /\ Passed(n, j)' /\ MustReport(n, j)' => Reported(n, j)'
  BY SameReach, SameReported, SitesStay DEF SameSites, ChangesReported
<1> QED
  BY <1>2, <1>3, <1>4 DEF ChangesReported

(* A function is passed with a line or without.                            *)
LEMMA PassFunction ==
  ASSUME Scan!JobsAssumption, ScanShape, ChangesReported, InFunction, pos' = Scan!NextFunction,
         UNCHANGED <<job, bitcode>>, NEW n, NEW j, n = bitcode, j = pos.fn, NEW X, out' = out \cup X,
         \A l \in X : \E b, k : ChangeLine(l, n, j, b, k),
         \A l, h \in X : l = h,
         MustReport(n, j) => X # {}
  PROVE  ChangesReported' /\ NoneFollowed'
<1>1. \A i, h : IsFunction(i, h) => (Passed(i, h)' <=> Passed(i, h) \/ (i = n /\ h = j))
  BY OverFunction
<1>2. \A l, i, h, b, k : ChangeLine(l, i, h, b, k) =>
        IsFunction(i, h) /\ l.of = i /\ l.fn = job.bitcodes[i].order[h]
  BY DEF ChangeLine, Site, LineOf
<1>3. IsFunction(n, j) /\ ~Passed(n, j)
  BY CursorHere
<1>4. \A l \in out : \E i, h, b, k : ChangeLine(l, i, h, b, k) /\ Passed(i, h)
  BY DEF ChangesReported
<1>5. ASSUME NEW l \in out' PROVE \E i, h, b, k : ChangeLine(l, i, h, b, k)' /\ Passed(i, h)'
  <2>1. CASE l \in out
    <3>1. PICK i, h, b, k : ChangeLine(l, i, h, b, k) /\ Passed(i, h)
      BY <1>4, <2>1
    <3>2. ChangeLine(l, i, h, b, k)' /\ Passed(i, h)'
      BY <1>1, <1>2, <3>1, SameReach
    <3> QED
      BY <3>2
  <2>2. CASE l \in X
    <3>1. PICK b, k : ChangeLine(l, n, j, b, k)
      BY <2>2
    <3>2. ChangeLine(l, n, j, b, k)' /\ Passed(n, j)'
      BY <1>1, <1>3, <3>1, SameReach
    <3> QED
      BY <3>2
  <2> QED
    BY <2>1, <2>2
<1>6. ASSUME NEW l \in out, NEW h \in X, l.of = h.of, l.fn = h.fn PROVE FALSE
  <2>1. PICK i, g, b, k : ChangeLine(l, i, g, b, k) /\ Passed(i, g)
    BY <1>4
  <2>2. \E c, d : ChangeLine(h, n, j, c, d)
    OBVIOUS
  <2>3. i = n /\ job.bitcodes[n].order[g] = job.bitcodes[n].order[j] /\ IsFunction(n, g)
    BY <1>2, <1>6, <2>1, <2>2
  <2>4. g = j
    BY <1>3, <2>3, OneOrder DEF ScanShape
  <2> QED
    BY <1>3, <2>1, <2>3, <2>4
<1>7. \A l, h \in out' : l.of = h.of /\ l.fn = h.fn => l = h
  <2>1. \A l, h \in out : l.of = h.of /\ l.fn = h.fn => l = h
    BY DEF ChangesReported
  <2>2. SUFFICES ASSUME NEW l \in out', NEW h \in out', l.of = h.of, l.fn = h.fn PROVE l = h
    BY Zenon
  <2>3. CASE l \in out /\ h \in out
    BY <2>1, <2>2, <2>3
  <2>4. CASE l \in X /\ h \in X
    BY <2>4
  <2>5. CASE l \in out /\ h \in X
    BY <1>6, <2>2, <2>5
  <2>6. CASE l \in X /\ h \in out
    BY <1>6, <2>2, <2>6
  <2> QED
    BY <2>2, <2>3, <2>4, <2>5, <2>6
<1>8. ASSUME NEW i, NEW h, IsFunction(i, h)', Passed(i, h)', MustReport(i, h)' PROVE Reported(i, h)'
  <2>1. IsFunction(i, h) /\ MustReport(i, h)
    BY <1>8, SameReach, SitesStay DEF SameSites
  <2>2. CASE Passed(i, h)
    <3>1. Reported(i, h)
      BY <2>1, <2>2 DEF ChangesReported
    <3> QED
      BY <3>1 DEF Reported
  <2>3. CASE i = n /\ h = j
    <3>1. PICK l \in X : TRUE
      BY <2>1, <2>3
    <3>2. l \in out' /\ l.of = i /\ l.fn = job.bitcodes[i].order[h]
      BY <1>2, <2>3, <3>1
    <3> QED
      BY <3>2 DEF Reported
  <2> QED
    BY <1>1, <1>8, <2>1, <2>2, <2>3
<1>9. ChangesReported'
  BY <1>5, <1>7, <1>8 DEF ChangesReported
<1>10. NoneFollowed'
  <2>1. \A i, h, b, k : Site(i, h, b, k) /\ i = bitcode' /\ h = pos'.fn => ~Behind(i, h, b, k)'
    BY Fresh
  <2>2. \A i, h, b, k : Followed(i, h, b, k)' => Site(i, h, b, k)
    BY SameReach DEF Followed, Own
  <2> QED
    BY <2>1, <2>2 DEF NoneFollowed
<1> QED
  BY <1>9, <1>10

LEMMA ReentrancySteps ==
  ASSUME ScanShape, detector = "reentrancy", [Scan!Next]_Scan!vars
  PROVE  \/ UNCHANGED Scan!vars \/ Scan!SkipInst \/ Scan!ScanResult \/ Scan!BeginWalk \/ Scan!WalkOn \/ Scan!WalkReports
         \/ Scan!WalkCrashes \/ Scan!EndFunction \/ Scan!NextBitcode \/ Scan!Finish
BY StepOf DEF Scan!Next, Scan!LineDetectors

(* The cursor goes over an instruction that is not followed.               *)
LEMMA OverResult ==
  ASSUME Scan!JobsAssumption, ScanShape, ChangesReported, NoneFollowed, InBlock, UNCHANGED <<job, bitcode, out>>,
         pos' = Scan!NextInst, Scan!I.loc = "own" => ~Scan!IsFollowed(Scan!I)
  PROVE  ChangesReported' /\ NoneFollowed'
<1>1. pos'.fn = pos.fn
  BY MovesInFunction DEF InBlock, InFunction
<1>2. /\ \A n, j : Passed(n, j)' <=> Passed(n, j)
      /\ \A n, j, b, k : Site(n, j, b, k) => (Behind(n, j, b, k)' <=> Behind(n, j, b, k) \/ AtSite(n, j, b, k))
  BY OverInst
<1>3. \A n, j, b, k : Followed(n, j, b, k) => Site(n, j, b, k) /\ ~AtSite(n, j, b, k)
  BY OnlyHere DEF Followed, Own
<1>4. \A n, j, b, k : n = bitcode /\ j = pos.fn /\ Followed(n, j, b, k) => ~Behind(n, j, b, k)'
  BY <1>2, <1>3 DEF NoneFollowed
<1>5. NoneFollowed'
  BY <1>1, <1>4, SameReach DEF NoneFollowed
<1> QED
  BY <1>2, <1>5, ReportsStay

LEMMA BeginWalkIs ==
  ASSUME Scan!JobsAssumption, ScanShape, ChangesReported, detector = "reentrancy", Scan!BeginWalk
  PROVE  ReentrancyInv'
<1>1. /\ InBlock /\ Scan!I.loc = "own" /\ Scan!IsFollowed(Scan!I) /\ \E i \in 1..Len(Scan!I.to) : walk' = Scan!I.to[i]
      /\ at' = "walk" /\ UNCHANGED <<job, detector, bitcode, pos, out>>
  BY DEF Scan!BeginWalk, Scan!AtOwn, Scan!AtInst, Scan!InModule, Scan!Fixed, InBlock, InFunction
<1>2. PICK n, j, b, k : n = bitcode /\ j = pos.fn /\ b = pos.block /\ k = pos.inst
  OBVIOUS
<1>3. /\ InstOf(n, j, b, k) = Scan!I /\ Own(n, j, b, k)
  BY <1>1, <1>2, OnlyHere DEF AtSite, Own
<1>4. PICK s : s = walk'
  OBVIOUS
<1>5. Success(n, j, s)
  BY <1>1, <1>3, <1>4 DEF Success, Followed
<1>6. s \in Scan!Reached(CodeOf(n, j), s)
  BY <1>5, SuccessIs, ReachedIs
<1>7. Walked(CodeOf(n, j), s, {}, s)
  BY DEF Walked
<1>8. CodeOf(n, j)' = CodeOf(n, j) /\ Success(n, j, s)'
  BY <1>1, <1>5, SitesStay, SameReach DEF SameSites
<1>9. Walking'
  <2>1. n = bitcode' /\ j = pos'.fn
    BY <1>1, <1>2
  <2>2. walk' \in Scan!Reached(CodeOf(n, j), s)' /\ Walked(CodeOf(n, j), s, {}, walk)'
    BY <1>4, <1>6, <1>7, <1>8 DEF Walked, Changes, Scan!ChangesState
  <2> QED
    BY <1>8, <2>1, <2>2 DEF Walking
<1>10. \A n1, j1 : Passed(n1, j1)' <=> Passed(n1, j1)
  BY <1>1 DEF Passed
<1>11. ChangesReported'
  BY <1>1, <1>10, ReportsStay
<1> QED
  BY <1>1, <1>9, <1>11 DEF ReentrancyInv

LEMMA EndsAre ==
  ASSUME Scan!JobsAssumption, ScanShape, at = "walk"
  PROVE  /\ InFunction /\ walk \in 1..Len(Scan!Body) /\ detector = "reentrancy"
         /\ Scan!Ends(walk) = {} => ~Changes(Scan!Body, walk)
         /\ Scan!Ends(walk) # {} =>
              /\ Scan!Min(Scan!Ends(walk)) \in 1..Len(Scan!Body[walk])
              /\ ~Scan!Dies(walk, Scan!Min(Scan!Ends(walk))) =>
                   Scan!ChangesState(Scan!Body[walk][Scan!Min(Scan!Ends(walk))])
<1>1. InFunction /\ walk \in 1..Len(Scan!Body) /\ detector = "reentrancy"
  BY DEF ScanShape, InFunction
<1>2. Scan!Ends(walk) = {k \in 1..Len(Scan!Body[walk]) :
         /\ Scan!Body[walk][k].op = "store"
         /\ Scan!ChangesState(Scan!Body[walk][k]) \/ Scan!Here \in Scan!Bitcode.noargs}
  BY DEF Scan!Ends
<1>3. Scan!Ends(walk) = {} => ~Changes(Scan!Body, walk)
  BY <1>2 DEF Changes, Scan!ChangesState
<1>4. ASSUME Scan!Ends(walk) # {}
      PROVE  /\ Scan!Min(Scan!Ends(walk)) \in 1..Len(Scan!Body[walk])
             /\ ~Scan!Dies(walk, Scan!Min(Scan!Ends(walk))) =>
                  Scan!ChangesState(Scan!Body[walk][Scan!Min(Scan!Ends(walk))])
  <2>1. Len(Scan!Body[walk]) \in Nat
    <3>1. IsFunction(bitcode, pos.fn) /\ CodeOf(bitcode, pos.fn) = Scan!Body
      BY <1>1, CursorHere
    <3> QED
      BY <1>1, <3>1, FunctionIs
  <2>2. Scan!Ends(walk) \in SUBSET Nat
    BY <1>2, <2>1
  <2>3. Scan!Min(Scan!Ends(walk)) \in Scan!Ends(walk)
    BY <1>4, <2>2, LeastIs
  <2> DEFINE k == Scan!Min(Scan!Ends(walk))
  <2>4. k \in 1..Len(Scan!Body[walk]) /\ (Scan!ChangesState(Scan!Body[walk][k]) \/ Scan!Here \in Scan!Bitcode.noargs)
    BY <1>2, <2>3
  <2>5. ~Scan!Dies(walk, k) => Scan!Here \notin Scan!Bitcode.noargs
    BY DEF Scan!Dies
  <2> QED
    BY <2>4, <2>5
<1> QED
  BY <1>1, <1>3, <1>4

LEMMA WalkOnIs ==
  ASSUME Scan!JobsAssumption, ScanShape, ChangesReported, Walking, Scan!WalkOn
  PROVE  ReentrancyInv'
<1>1. /\ at = "walk" /\ Scan!Ends(walk) = {} /\ walk' = Scan!Successor(Scan!Body, walk)
      /\ UNCHANGED <<job, detector, bitcode, out>>
      /\ walk' # 0 => UNCHANGED <<at, pos>>
      /\ walk' = 0 => at' = "scan" /\ pos' = Scan!NextFunction
  BY DEF Scan!WalkOn, Scan!Fixed
<1>2. InFunction /\ walk \in 1..Len(Scan!Body) /\ ~Changes(Scan!Body, walk)
  BY <1>1, EndsAre
<1>3. PICK n, j, s, V : /\ n = bitcode /\ j = pos.fn /\ Success(n, j, s)
                        /\ walk \in Scan!Reached(CodeOf(n, j), s) /\ Walked(CodeOf(n, j), s, V, walk)
  BY DEF Walking
<1>4. /\ CodeOf(n, j) = Scan!Body /\ IsFunction(n, j)
      /\ Scan!IsBitcode(job.bitcodes[n]) /\ job.bitcodes[n].order[j] \in ScanFunc /\ Len(CodeOf(n, j)) \in Nat
  BY <1>2, <1>3, CursorHere, FunctionIs
<1> DEFINE body == CodeOf(n, j)
<1>5. PICK c, x : c = walk /\ x = walk'
  OBVIOUS
<1>6. c \in 1..Len(body) /\ ~Changes(body, c) /\ x = Scan!Successor(body, c) /\ c \in Scan!Reached(body, s)
      /\ s \in 1..Len(body)
  BY <1>1, <1>2, <1>3, <1>4, <1>5, SuccessIs
<1>7. Walked(body, s, V \cup {c}, x)
  <2>1. V \subseteq 1..Len(body) /\ s \in V \cup {c} /\ \A d \in V : ~Changes(body, d) /\ Scan!Successor(body, d) \in V \cup {c}
    BY <1>3, <1>5 DEF Walked
  <2> HIDE DEF body
  <2> QED
    BY <1>6, <2>1 DEF Walked
<1>8. CASE x # 0
  <2>1. x \in 1..Len(body) /\ BranchesTo(body, c, x)
    <3>1. body = job.bitcodes[n].body[job.bitcodes[n].order[j]]
      BY DEF CodeOf
    <3> DEFINE m == job.bitcodes[n]
               f == job.bitcodes[n].order[j]
    <3>2. \/ Scan!Successor(m.body[f], c) = 0 /\ \A k \in 1..Len(m.body[f][c]) : ~(m.body[f][c][k].op = "br" /\ m.body[f][c][k].to # <<>>)
          \/ \E k \in 1..Len(m.body[f][c]) :
               /\ m.body[f][c][k].op = "br" /\ m.body[f][c][k].to # <<>>
               /\ Len(m.body[f][c][k].to) \in Nat \ {0}
               /\ Scan!Successor(m.body[f], c) = m.body[f][c][k].to[Len(m.body[f][c][k].to)]
               /\ Scan!Successor(m.body[f], c) \in 1..Len(m.body[f])
               /\ \A i \in 1..Len(m.body[f][c]) : m.body[f][c][i].op = "br" => i = k
      <4>1. c \in 1..Len(m.body[f])
        BY <1>6, <3>1
      <4>2. Scan!IsBitcode(m) /\ f \in ScanFunc
        BY <1>4
      <4> HIDE DEF m, f
      <4> QED
        BY <4>1, <4>2, SuccessorIs
    <3> HIDE DEF body
    <3>3. body = m.body[f]
      BY <3>1
    <3> HIDE DEF m, f
    <3>4. PICK k \in 1..Len(body[c]) :
               /\ body[c][k].op = "br" /\ Len(body[c][k].to) \in Nat \ {0}
               /\ Scan!Successor(body, c) = body[c][k].to[Len(body[c][k].to)]
               /\ Scan!Successor(body, c) \in 1..Len(body)
      BY <1>6, <1>8, <3>2, <3>3
    <3>5. Len(body[c][k].to) \in 1..Len(body[c][k].to)
      BY <3>4
    <3> QED
      BY <1>6, <3>4, <3>5 DEF BranchesTo
  <2>2. x \in Scan!Reached(body, s)
    BY <1>4, <1>6, <2>1, ReachedIs
  <2>3. /\ at' = "walk" /\ UNCHANGED <<job, detector, bitcode, pos, out>>
    BY <1>1, <1>5, <1>8
  <2>4. CodeOf(n, j)' = CodeOf(n, j) /\ Success(n, j, s)' /\ n = bitcode' /\ j = pos'.fn
    BY <1>3, <2>3, SitesStay, SameReach DEF SameSites
  <2>5. walk' \in Scan!Reached(CodeOf(n, j), s)' /\ Walked(CodeOf(n, j), s, V \cup {c}, walk)'
    BY <1>5, <1>7, <2>2, <2>4 DEF Walked, Changes, Scan!ChangesState
  <2>6. Walking'
    <3>1. PICK W : W = V \cup {c}
      OBVIOUS
    <3>2. Walked(CodeOf(n, j), s, W, walk)'
      BY <2>5, <3>1
    <3> QED
      BY <2>4, <2>5, <3>2 DEF Walking
  <2>7. \A n1, j1 : Passed(n1, j1)' <=> Passed(n1, j1)
    BY <2>3 DEF Passed
  <2>8. ChangesReported'
    BY <2>3, <2>7, ReportsStay
  <2> QED
    BY <2>3, <2>6, <2>8 DEF ReentrancyInv
<1>9. CASE x = 0
  <2>1. at' = "scan" /\ pos' = Scan!NextFunction /\ UNCHANGED <<job, detector, bitcode, out>>
    BY <1>1, <1>5, <1>9
  <2>2. ~MustReport(n, j)
    <3>1. SUFFICES ASSUME MustReport(n, j) PROVE FALSE
      OBVIOUS
    <3>2. Straight(body, s) /\ \E d \in Scan!Reached(body, s) : Changes(body, d)
      BY <1>3, <3>1 DEF MustReport
    <3>3. body = job.bitcodes[n].body[job.bitcodes[n].order[j]]
      BY DEF CodeOf
    <3>4. Walked(body, s, V \cup {c}, 0)
      BY <1>7, <1>9
    <3>5. PICK W : W = V \cup {c}
      OBVIOUS
    <3>6. Walked(body, s, W, 0)
      BY <3>4, <3>5
    <3> HIDE DEF body
    <3> QED
      BY <1>4, <1>6, <3>2, <3>3, <3>6, WalkedAll
  <2>3. out' = out \cup {}
    BY <2>1
  <2>4. ChangesReported' /\ NoneFollowed'
    <3> HIDE DEF body
    <3>1. PICK X : X = {}
      OBVIOUS
    <3>2. /\ out' = out \cup X /\ (\A l \in X : \E b, k : ChangeLine(l, n, j, b, k)) /\ (\A l, h \in X : l = h)
          /\ (MustReport(n, j) => X # {})
      BY <2>2, <2>3, <3>1
    <3> QED
      BY <1>2, <1>3, <2>1, <3>2, PassFunction
  <2> QED
    BY <2>1, <2>4 DEF ReentrancyInv
<1> QED
  BY <1>8, <1>9

LEMMA WalkReportsIs ==
  ASSUME Scan!JobsAssumption, ScanShape, ChangesReported, Walking, Scan!WalkReports
  PROVE  ReentrancyInv'
<1>1. /\ at = "walk" /\ Scan!Ends(walk) # {} /\ ~Scan!Dies(walk, Scan!Min(Scan!Ends(walk)))
      /\ out' = out \cup {[of |-> bitcode, fn |-> Scan!Here, place |-> <<walk, Scan!Min(Scan!Ends(walk))>>]}
      /\ at' = "scan" /\ pos' = Scan!NextFunction /\ UNCHANGED <<job, detector, bitcode>>
  BY DEF Scan!WalkReports, Scan!Fixed
<1>2. PICK n, j, s, V : /\ n = bitcode /\ j = pos.fn /\ Success(n, j, s)
                        /\ walk \in Scan!Reached(CodeOf(n, j), s) /\ Walked(CodeOf(n, j), s, V, walk)
  BY DEF Walking
<1>3. PICK b, k : b = walk /\ k = Scan!Min(Scan!Ends(walk))
  OBVIOUS
<1>4. InFunction /\ b \in 1..Len(Scan!Body) /\ k \in 1..Len(Scan!Body[b]) /\ Scan!ChangesState(Scan!Body[b][k])
  BY <1>1, <1>3, EndsAre
<1>5. IsFunction(n, j) /\ CodeOf(n, j) = Scan!Body /\ job.bitcodes[n].order[j] = Scan!Here
  BY <1>2, <1>4, CursorHere
<1>6. PICK l : l = LineOf(n, j, b, k)
  OBVIOUS
<1>7. ChangeLine(l, n, j, b, k)
  BY <1>2, <1>3, <1>4, <1>5, <1>6 DEF ChangeLine, Site, InstOf, FromSuccess
<1>8. PICK X : X = {l}
  OBVIOUS
<1>9. out' = out \cup X
  BY <1>1, <1>2, <1>3, <1>5, <1>6, <1>8 DEF LineOf
<1>10. ChangesReported' /\ NoneFollowed'
  <2>1. (\A h \in X : \E c, d : ChangeLine(h, n, j, c, d)) /\ (\A g, h \in X : g = h) /\ X # {}
    BY <1>7, <1>8
  <2> QED
    BY <1>1, <1>2, <1>4, <1>9, <2>1, PassFunction
<1> QED
  BY <1>1, <1>10 DEF ReentrancyInv

LEMMA EndWithoutWalk ==
  ASSUME Scan!JobsAssumption, ScanShape, ChangesReported, NoneFollowed, Scan!EndFunction
  PROVE  ChangesReported' /\ NoneFollowed'
<1>1. /\ InFunction /\ pos.block > Len(Scan!Body) /\ pos' = Scan!NextFunction
      /\ UNCHANGED <<job, bitcode, out>>
  BY EndFunctionIs
<1>2. PICK n, j : n = bitcode /\ j = pos.fn
  OBVIOUS
<1>3. \A b, k : ~Followed(n, j, b, k)
  BY <1>1, <1>2, WholeFunction DEF NoneFollowed, Followed, Own
<1>4. ~MustReport(n, j)
  BY <1>3 DEF MustReport, Success
<1>5. PICK X : X = {}
  OBVIOUS
<1>6. /\ out' = out \cup X /\ (\A l \in X : \E b, k : ChangeLine(l, n, j, b, k)) /\ (\A l, h \in X : l = h)
  BY <1>1, <1>5
<1> QED
  BY <1>1, <1>2, <1>4, <1>6, PassFunction

LEMMA ReentrancyStep ==
  ASSUME Scan!JobsAssumption, ScanShape, ReentrancyInv, detector = "reentrancy", [Scan!Next]_Scan!vars
  PROVE  ReentrancyInv'
<1>1. ChangesReported /\ (at = "scan" => NoneFollowed) /\ (at = "walk" => Walking)
  BY DEF ReentrancyInv
<1>2. CASE UNCHANGED Scan!vars
  <2>1. UNCHANGED <<job, detector, bitcode, pos, walk, out, at>>
    BY <1>2 DEF Scan!vars
  <2>2. \A n, j : Passed(n, j)' <=> Passed(n, j)
    BY <2>1 DEF Passed
  <2>3. ChangesReported'
    BY <1>1, <2>1, <2>2, ReportsStay
  <2>4. NoneFollowed => NoneFollowed'
    <3>1. \A n, j, b, k : Behind(n, j, b, k)' <=> Behind(n, j, b, k)
      BY <2>1, <2>2 DEF Behind
    <3> QED
      BY <2>1, <3>1, SameReach DEF NoneFollowed
  <2>5. Walking => Walking'
    <3>1. SUFFICES ASSUME Walking PROVE Walking'
      OBVIOUS
    <3>2. PICK n, j, s, V : /\ n = bitcode /\ j = pos.fn /\ Success(n, j, s)
                            /\ walk \in Scan!Reached(CodeOf(n, j), s) /\ Walked(CodeOf(n, j), s, V, walk)
      BY <3>1 DEF Walking
    <3>3. CodeOf(n, j)' = CodeOf(n, j) /\ Success(n, j, s)'
      BY <2>1, <3>2, SitesStay, SameReach DEF SameSites
    <3>4. walk' \in Scan!Reached(CodeOf(n, j), s)' /\ Walked(CodeOf(n, j), s, V, walk)'
      BY <2>1, <3>2, <3>3 DEF Walked, Changes, Scan!ChangesState
    <3> QED
      BY <2>1, <3>2, <3>3, <3>4 DEF Walking
  <2> QED
    BY <1>1, <2>1, <2>3, <2>4, <2>5 DEF ReentrancyInv
<1>3. CASE Scan!SkipInst
  <2>1. /\ InBlock /\ Scan!I.loc # "own" /\ pos' = Scan!NextInst /\ at = "scan" /\ at' = "scan"
        /\ UNCHANGED <<job, detector, bitcode, out>>
    BY <1>3, SkipIs DEF Scan!SkipInst
  <2> QED
    BY <1>1, <2>1, OverResult DEF ReentrancyInv
<1>4. CASE Scan!ScanResult
  <2>1. /\ InBlock /\ ~Scan!IsFollowed(Scan!I) /\ pos' = Scan!NextInst /\ at = "scan" /\ at' = "scan"
        /\ UNCHANGED <<job, detector, bitcode, out>>
    BY <1>4 DEF Scan!ScanResult, Scan!AtOwn, Scan!AtInst, Scan!InModule, Scan!Fixed, InBlock, InFunction
  <2> QED
    BY <1>1, <2>1, OverResult DEF ReentrancyInv
<1>5. CASE Scan!BeginWalk
  BY <1>1, <1>5, BeginWalkIs
<1>6. CASE Scan!WalkOn
  <2>1. at = "walk"
    BY <1>6 DEF Scan!WalkOn
  <2> QED
    BY <1>1, <1>6, <2>1, WalkOnIs
<1>7. CASE Scan!WalkReports
  <2>1. at = "walk"
    BY <1>7 DEF Scan!WalkReports
  <2> QED
    BY <1>1, <1>7, <2>1, WalkReportsIs
<1>8. CASE Scan!WalkCrashes \/ Scan!Finish
  <2>1. UNCHANGED <<job, detector, bitcode, pos, out>> /\ at' \notin {"scan", "walk"}
    BY <1>8 DEF Scan!WalkCrashes, Scan!Finish, Scan!Fixed
  <2>2. \A n, j : Passed(n, j)' <=> Passed(n, j)
    BY <2>1 DEF Passed
  <2>3. ChangesReported'
    BY <1>1, <2>1, <2>2, ReportsStay
  <2> QED
    BY <2>1, <2>3 DEF ReentrancyInv
<1>9. CASE Scan!EndFunction
  <2>1. at = "scan" /\ at' = "scan"
    BY <1>9 DEF Scan!EndFunction, Scan!AtFunctionEnd, Scan!InModule
  <2>2. ChangesReported' /\ NoneFollowed'
    BY <1>1, <1>9, <2>1, EndWithoutWalk
  <2> QED
    BY <2>1, <2>2 DEF ReentrancyInv
<1>10. CASE Scan!NextBitcode
  <2>1. /\ ~InFunction /\ bitcode' = bitcode + 1 /\ pos' = Scan!Start /\ UNCHANGED <<job, out>>
    BY <1>10, NextBitcodeIs
  <2>2. at' = "scan"
    BY <1>10 DEF Scan!NextBitcode
  <2>3. ChangesReported'
    BY <1>1, <2>1, OverBitcode, ReportsStay
  <2>4. \A n, j, b, k : Site(n, j, b, k) /\ n = bitcode' /\ j = pos'.fn => ~Behind(n, j, b, k)'
    BY <2>1, Fresh
  <2>5. \A n, j, b, k : Followed(n, j, b, k)' => Site(n, j, b, k)
    BY <2>1, SameReach DEF Followed, Own
  <2>6. NoneFollowed'
    BY <2>4, <2>5 DEF NoneFollowed
  <2> QED
    BY <2>2, <2>3, <2>6 DEF ReentrancyInv
<1> QED
  BY <1>2, <1>3, <1>4, <1>5, <1>6, <1>7, <1>8, <1>9, <1>10, ReentrancySteps

LEMMA ReentrancyInit ==
  ASSUME Scan!JobsAssumption, Scan!Init
  PROVE  ReentrancyInv
<1>1. ScanShape /\ pos = Scan!Start /\ bitcode = 1 /\ out = {} /\ at = "scan"
  BY ShapeInit DEF Scan!Init
<1>2. \A n, j : IsFunction(n, j) => ~Passed(n, j)
  BY <1>1, NothingPassed
<1>3. ChangesReported
  BY <1>1, <1>2 DEF ChangesReported
<1>4. NoneFollowed
  BY <1>1, NothingPassed DEF NoneFollowed, Followed, Own
<1> QED
  BY <1>1, <1>3, <1>4 DEF ReentrancyInv

LEMMA ReentrancyAlways ==
  ASSUME Scan!JobsAssumption, ScanShape, ReentrancyInv, [Scan!Next]_Scan!vars
  PROVE  ReentrancyInv'
<1>1. CASE detector = "reentrancy"
  BY <1>1, ReentrancyStep
<1>2. CASE detector # "reentrancy"
  <2>1. Scan!BeginExtCall => detector' = "ext-call"
    BY DEF Scan!BeginExtCall
  <2>2. detector' # "reentrancy"
    BY <1>2, <2>1, SameDetector
  <2> QED
    BY <2>2 DEF ReentrancyInv
<1> QED
  BY <1>1, <1>2

LEMMA SuccessesAre ==
  ASSUME NEW n, NEW j, IsFunction(n, j), NEW m, NEW f, m = job.bitcodes[n], f = m.order[j]
  PROVE  \A s : s \in Scan!Successes(m, f) <=> Success(n, j, s)
<1>1. /\ \A p \in Scan!OwnPlaces(m, f) : Own(n, j, p[1], p[2]) /\ Scan!At(m, f, p) = InstOf(n, j, p[1], p[2])
      /\ \A b, k : Own(n, j, b, k) =>
              <<b, k>> \in Scan!OwnPlaces(m, f) /\ Scan!At(m, f, <<b, k>>) = InstOf(n, j, b, k)
  BY OwnPlacesAre
<1>2. \A s : s \in Scan!Successes(m, f) <=>
        \E p \in Scan!OwnPlaces(m, f) : Scan!IsFollowed(Scan!At(m, f, p)) /\
          \E i \in 1..Len(Scan!At(m, f, p).to) : s = Scan!At(m, f, p).to[i]
  BY DEF Scan!Successes, Scan!Results
<1>3. ASSUME NEW s, s \in Scan!Successes(m, f) PROVE Success(n, j, s)
  <2>1. PICK p \in Scan!OwnPlaces(m, f) : Scan!IsFollowed(Scan!At(m, f, p)) /\
          \E i \in 1..Len(Scan!At(m, f, p).to) : s = Scan!At(m, f, p).to[i]
    BY <1>2, <1>3
  <2>2. Own(n, j, p[1], p[2]) /\ Scan!At(m, f, p) = InstOf(n, j, p[1], p[2])
    BY <1>1
  <2>3. PICK b, k : b = p[1] /\ k = p[2]
    OBVIOUS
  <2>4. Followed(n, j, b, k) /\ \E i \in 1..Len(InstOf(n, j, b, k).to) : s = InstOf(n, j, b, k).to[i]
    BY <2>1, <2>2, <2>3 DEF Followed
  <2> QED
    BY <2>4 DEF Success
<1>4. ASSUME NEW s, Success(n, j, s) PROVE s \in Scan!Successes(m, f)
  <2>1. PICK b, k : Followed(n, j, b, k) /\ \E i \in 1..Len(InstOf(n, j, b, k).to) : s = InstOf(n, j, b, k).to[i]
    BY <1>4 DEF Success
  <2>2. <<b, k>> \in Scan!OwnPlaces(m, f) /\ Scan!At(m, f, <<b, k>>) = InstOf(n, j, b, k)
    BY <1>1, <2>1 DEF Followed
  <2>3. PICK p : p = <<b, k>>
    OBVIOUS
  <2>4. /\ p \in Scan!OwnPlaces(m, f) /\ Scan!IsFollowed(Scan!At(m, f, p))
        /\ \E i \in 1..Len(Scan!At(m, f, p).to) : s = Scan!At(m, f, p).to[i]
    BY <2>1, <2>2, <2>3 DEF Followed
  <2> QED
    BY <1>2, <2>4
<1> QED
  BY <1>3, <1>4

LEMMA JustifiedGiven ==
  ASSUME Scan!JobsAssumption, ScanShape, ReentrancyInv
  PROVE  Scan!ReentrancyJustified
<1>1. SUFFICES ASSUME detector = "reentrancy", NEW l \in out
               PROVE  /\ Scan!ChangesState(Scan!At(job.bitcodes[l.of], l.fn, l.place))
                      /\ \E b \in Scan!Successes(job.bitcodes[l.of], l.fn) :
                           l.place[1] \in Scan!Reached(job.bitcodes[l.of].body[l.fn], b)
                      /\ \A k \in out : k.of = l.of /\ k.fn = l.fn => k = l
  BY DEF Scan!ReentrancyJustified
<1>2. ChangesReported
  BY <1>1 DEF ReentrancyInv
<1>3. \A k \in out : k.of = l.of /\ k.fn = l.fn => k = l
  BY <1>2 DEF ChangesReported
<1>4. PICK n, j, b, k : ChangeLine(l, n, j, b, k)
  BY <1>2 DEF ChangesReported
<1>5. /\ Site(n, j, b, k) /\ IsFunction(n, j) /\ Scan!ChangesState(InstOf(n, j, b, k))
      /\ l.of = n /\ l.fn = job.bitcodes[n].order[j] /\ l.place = <<b, k>>
  BY <1>4 DEF ChangeLine, LineOf, Site
<1>6. PICK m, f : m = job.bitcodes[n] /\ f = m.order[j]
  OBVIOUS
<1>7. <<b, k>> \in Scan!Places(m, f) /\ Scan!At(m, f, <<b, k>>) = InstOf(n, j, b, k)
  BY <1>5, <1>6, PlacesAre
<1>8. PICK s : Success(n, j, s) /\ b \in Scan!Reached(CodeOf(n, j), s)
  BY <1>4 DEF ChangeLine, FromSuccess
<1>9. s \in Scan!Successes(m, f)
  BY <1>5, <1>6, <1>8, SuccessesAre
<1>10. CodeOf(n, j) = m.body[f]
  BY <1>6 DEF CodeOf
<1>11. b = l.place[1]
  BY <1>5
<1> QED
  BY <1>3, <1>5, <1>6, <1>7, <1>8, <1>9, <1>10, <1>11

LEMMA StraightGiven ==
  ASSUME Scan!JobsAssumption, ScanShape, ReentrancyInv
  PROVE  Scan!StraightReentrancyReported
<1>1. SUFFICES ASSUME at = "done", detector = "reentrancy", NEW n \in 1..Len(job.bitcodes), NEW f \in ScanFunc,
                      NEW s \in Scan!Successes(job.bitcodes[n], f),
                      Scan!Successes(job.bitcodes[n], f) = {s},
                      \A c \in Scan!Reached(job.bitcodes[n].body[f], s) :
                        \A k \in 1..Len(job.bitcodes[n].body[f][c]) : Len(job.bitcodes[n].body[f][c][k].to) < 2,
                      NEW p \in Scan!Places(job.bitcodes[n], f),
                      p[1] \in Scan!Reached(job.bitcodes[n].body[f], s),
                      Scan!ChangesState(Scan!At(job.bitcodes[n], f, p))
               PROVE  \E l \in out : l.of = n /\ l.fn = f
  BY DEF Scan!StraightReentrancyReported, Scan!Done
<1>2. ChangesReported
  BY <1>1 DEF ReentrancyInv
<1>3. PICK j : IsFunction(n, j) /\ f = job.bitcodes[n].order[j]
  BY InOrder DEF ScanShape
<1>4. Passed(n, j)
  BY <1>1, <1>3, AllPassed
<1>5. PICK m : m = job.bitcodes[n]
  OBVIOUS
<1>6. \A t : Success(n, j, t) <=> t = s
  BY <1>1, <1>3, <1>5, SuccessesAre
<1>7. Straight(CodeOf(n, j), s)
  BY <1>1, <1>3 DEF Straight, CodeOf
<1>8. Site(n, j, p[1], p[2]) /\ Scan!ChangesState(InstOf(n, j, p[1], p[2]))
  <2>1. f = m.order[j] /\ p \in Scan!Places(m, f) /\ Scan!ChangesState(Scan!At(m, f, p))
    BY <1>1, <1>3, <1>5
  <2>2. Site(n, j, p[1], p[2]) /\ Scan!At(m, f, p) = InstOf(n, j, p[1], p[2])
    BY <1>3, <1>5, <2>1, PlacesAre
  <2> QED
    BY <2>1, <2>2
<1>9. Changes(CodeOf(n, j), p[1])
  BY <1>8 DEF Changes, Site, InstOf
<1>10. p[1] \in Scan!Reached(CodeOf(n, j), s)
  BY <1>1, <1>3 DEF CodeOf
<1>11. MustReport(n, j)
  BY <1>6, <1>7, <1>9, <1>10 DEF MustReport
<1>12. Reported(n, j)
  BY <1>2, <1>3, <1>4, <1>11 DEF ChangesReported
<1> QED
  BY <1>3, <1>12 DEF Reported

-----------------------------------------------------------------------------
(* The size of a loop is the number of chains of calls, of at most three   *)
(* instructions, from one in the loop to one that is no call.              *)
Plain(i)       == i.op \notin {"call", "indirect"}
IsPlain(m, s)  == Plain(Scan!At(m, s[1], s[2]))
CallsAt(m, s)  == Scan!At(m, s[1], s[2]).calls \cap ScanFunc
SitesOf(m)     == UNION {{<<f, p>> : p \in Scan!Places(m, f)} : f \in ScanFunc}

(* What counts of a function, and of an instruction: w is the count of the *)
(* instructions of the functions that it calls.                            *)
Within(m, w)  ==
  [h \in ScanFunc |-> IF h \in m.lib THEN 0 ELSE SumOver([q \in Scan!Places(m, h) |-> w[<<h, q>>]], Scan!Places(m, h))]
Heavier(m, w) ==
  [s \in SitesOf(m) |-> IF IsPlain(m, s) THEN 1 ELSE SumOver([h \in CallsAt(m, s) |-> Within(m, w)[h]], CallsAt(m, s))]
Light(m)      == [s \in SitesOf(m) |-> IF IsPlain(m, s) THEN 1 ELSE 0]

(* functionInstNum of g, where v are the numbers of the functions called.  *)
NumOf(m, v, g) ==
  IF g \in m.lib THEN 0
  ELSE Scan!Sum([p \in Scan!Places(m, g) |->
         IF Plain(Scan!At(m, g, p)) THEN 1
         ELSE Scan!Sum([h \in Scan!At(m, g, p).calls \cap ScanFunc |-> v[h]])])

LEMMA ScanSum == \A f : Scan!Sum(f) = SumOver(f, DOMAIN f)
BY DEF Scan!Sum, Scan!MapThenSumSet, Scan!MapThenFoldSet, SumOver, MapThenSumSet, MapThenFoldSet

LEMMA PlacesFinite ==
  ASSUME NEW m, Scan!IsBitcode(m), NEW f \in ScanFunc
  PROVE  IsFiniteSet(Scan!Places(m, f))
<1> DEFINE N == Len(m.body[f])
           F == [b \in 1..N |-> {<<b, k>> : k \in 1..Len(m.body[f][b])}]
<1>1. N \in Nat /\ \A b \in 1..N : Len(m.body[f][b]) \in Nat
  BY BitcodeBody
<1>2. Scan!Places(m, f) = UNION {F[b] : b \in 1..N}
  BY DEF Scan!Places
<1>3. ASSUME NEW b \in 1..N PROVE IsFiniteSet(F[b])
  <2>1. F[b] = {b} \X (1..Len(m.body[f][b]))
    OBVIOUS
  <2>2. IsFiniteSet({b})
    BY FS_Singleton
  <2>3. PICK k : k = Len(m.body[f][b]) /\ k \in Nat
    BY <1>1
  <2>4. IsFiniteSet(1..k)
    BY <2>3, FS_Interval
  <2> HIDE DEF F
  <2> QED
    BY <2>1, <2>2, <2>3, <2>4, FS_Product
<1>4. \A a, b \in 1..N : a # b => F[a] \cap F[b] = {}
  OBVIOUS
<1>5. IsFiniteSet(1..N)
  BY <1>1, FS_Interval
<1> HIDE DEF F
<1>6. PICK S, c : S = 1..N /\ c = [b \in S |-> Cardinality(F[b])]
  OBVIOUS
<1>7. \A b \in S : c[b] = Cardinality(F[b])
  BY <1>6
<1>8. IsFiniteSet(UNION {F[b] : b \in 1..N})
  <2>1. IsFiniteSet(S) /\ (\A b \in S : IsFiniteSet(F[b])) /\ (\A a, b \in S : a # b => F[a] \cap F[b] = {})
    BY <1>3, <1>4, <1>5, <1>6
  <2> HIDE DEF N
  <2>2. IsFiniteSet(UNION {F[b] : b \in S})
    BY <1>7, <2>1, CountUnion
  <2> QED
    BY <1>6, <2>2
<1> QED
  BY <1>2, <1>8

LEMMA CallsFinite ==
  ASSUME IsFiniteSet(ScanFunc)
  PROVE  \A m, s : IsFiniteSet(CallsAt(m, s))
BY FS_Subset DEF CallsAt

(* The counts agree where those of the functions called do.                *)
LEMMA NumOfIs ==
  ASSUME NEW m, Scan!IsBitcode(m), IsFiniteSet(ScanFunc), NEW g \in ScanFunc, NEW v, NEW w,
         \A s \in SitesOf(m) : w[s] = IF IsPlain(m, s) THEN 1 ELSE SumOver([h \in CallsAt(m, s) |-> v[h]], CallsAt(m, s))
  PROVE  NumOf(m, v, g) = Within(m, w)[g]
<1> DEFINE P == Scan!Places(m, g)
           a == [p \in P |-> IF Plain(Scan!At(m, g, p)) THEN 1
                             ELSE Scan!Sum([h \in Scan!At(m, g, p).calls \cap ScanFunc |-> v[h]])]
           b == [p \in P |-> w[<<g, p>>]]
<1>1. ASSUME NEW p \in P PROVE a[p] = b[p]
  <2>1. PICK s : s = <<g, p>>
    OBVIOUS
  <2>2. s \in SitesOf(m) /\ s[1] = g /\ s[2] = p
    BY <2>1 DEF SitesOf
  <2>3. w[s] = IF IsPlain(m, s) THEN 1 ELSE SumOver([h \in CallsAt(m, s) |-> v[h]], CallsAt(m, s))
    BY <2>2
  <2>4. PICK c, C : C = CallsAt(m, s) /\ c = [h \in C |-> v[h]]
    OBVIOUS
  <2>5. Scan!Sum(c) = SumOver(c, C)
    BY <2>4, ScanSum
  <2>6. C = Scan!At(m, g, p).calls \cap ScanFunc
    BY <2>2, <2>4 DEF CallsAt
  <2>7. a[p] = IF Plain(Scan!At(m, g, p)) THEN 1 ELSE Scan!Sum(c)
    BY <2>4, <2>6
  <2>8. b[p] = w[s]
    BY <2>1
  <2>9. IsPlain(m, s) <=> Plain(Scan!At(m, g, p))
    BY <2>2 DEF IsPlain
  <2> HIDE DEF a, b
  <2> QED
    BY <2>3, <2>4, <2>5, <2>7, <2>8, <2>9
<1>2. IsFiniteSet(P)
  BY PlacesFinite
<1>3. NumOf(m, v, g) = IF g \in m.lib THEN 0 ELSE Scan!Sum(a)
  BY DEF NumOf
<1>4. Within(m, w)[g] = IF g \in m.lib THEN 0 ELSE SumOver(b, P)
  BY DEF Within
<1>5. DOMAIN a = P
  OBVIOUS
<1> HIDE DEF a, b, P
<1>6. Scan!Sum(a) = SumOver(a, P)
  BY <1>5, ScanSum
<1>7. SumOver(a, P) = SumOver(b, P)
  BY <1>1, <1>2, SumEqual
<1> QED
  BY <1>3, <1>4, <1>6, <1>7

(* The numbers of instructions that functionInstNum computes, by depth.    *)
NumsAre(m, num) ==
  num = [d \in 0..2 |-> [g \in ScanFunc |->
          IF d = 0 \/ g \in m.lib THEN 0
          ELSE Scan!Sum([p \in Scan!Places(m, g) |->
                 IF Plain(Scan!At(m, g, p)) THEN 1
                 ELSE Scan!Sum([h \in Scan!At(m, g, p).calls \cap ScanFunc |-> num[d - 1][h]])])]]

LEMMA NumsExist == ASSUME NEW m PROVE \E num : NumsAre(m, num)
<1> DEFINE none == [g \in ScanFunc |-> 0]
           one  == [g \in ScanFunc |-> NumOf(m, none, g)]
           two  == [g \in ScanFunc |-> NumOf(m, one, g)]
           e    == [d \in 0..2 |-> IF d = 0 THEN none ELSE IF d = 1 THEN one ELSE two]
           rhs(d, g) == IF d = 0 \/ g \in m.lib THEN 0
                        ELSE Scan!Sum([p \in Scan!Places(m, g) |->
                               IF Plain(Scan!At(m, g, p)) THEN 1
                               ELSE Scan!Sum([h \in Scan!At(m, g, p).calls \cap ScanFunc |-> e[d - 1][h]])])
<1>1. e[0] = none /\ e[1] = one /\ e[2] = two
  OBVIOUS
<1>2. \A g \in ScanFunc : one[g] = NumOf(m, none, g) /\ two[g] = NumOf(m, one, g)
  OBVIOUS
<1> HIDE DEF e, none, one, two
<1>3. ASSUME NEW d \in {1, 2}, NEW v, \A g \in ScanFunc : e[d - 1][g] = v[g], NEW g \in ScanFunc
      PROVE  rhs(d, g) = NumOf(m, v, g)
  <2>1. \A p : [h \in Scan!At(m, g, p).calls \cap ScanFunc |-> e[d - 1][h]]
                 = [h \in Scan!At(m, g, p).calls \cap ScanFunc |-> v[h]]
    BY <1>3
  <2>2. d # 0
    OBVIOUS
  <2> QED
    BY <2>1, <2>2, Zenon DEF NumOf
<1>4. \A g \in ScanFunc : rhs(0, g) = e[0][g]
  BY <1>1 DEF none
<1>5. \A g \in ScanFunc : rhs(1, g) = e[1][g]
  <2>1. \A g \in ScanFunc : e[1 - 1][g] = none[g]
    BY <1>1
  <2> HIDE DEF rhs
  <2>2. \A g \in ScanFunc : rhs(1, g) = NumOf(m, none, g)
    BY <1>3, <2>1
  <2> QED
    BY <1>1, <1>2, <2>2
<1>6. \A g \in ScanFunc : rhs(2, g) = e[2][g]
  <2>1. \A g \in ScanFunc : e[2 - 1][g] = one[g]
    BY <1>1
  <2> HIDE DEF rhs
  <2>2. \A g \in ScanFunc : rhs(2, g) = NumOf(m, one, g)
    BY <1>3, <2>1
  <2> QED
    BY <1>1, <1>2, <2>2
<1>7. /\ e = [d \in 0..2 |-> e[d]]
      /\ \A d \in 0..2 : e[d] = [g \in ScanFunc |-> e[d][g]]
  BY DEF e, none, one, two
<1> HIDE DEF rhs
<1>8. \A d \in 0..2 : d = 0 \/ d = 1 \/ d = 2
  OBVIOUS
<1>9. \A d \in 0..2 : \A g \in ScanFunc : rhs(d, g) = e[d][g]
  BY <1>4, <1>5, <1>6, <1>8
<1>10. \A d \in 0..2 : e[d] = [g \in ScanFunc |-> rhs(d, g)]
  BY <1>7, <1>9
<1>11. e = [d \in 0..2 |-> [g \in ScanFunc |-> rhs(d, g)]]
  BY <1>7, <1>10
<1> QED
  BY <1>11, Zenon DEF NumsAre, rhs

LEMMA NumsStep ==
  ASSUME NEW m, NEW num, NumsAre(m, num), NEW d \in {1, 2}, NEW g \in ScanFunc
  PROVE  num[d][g] = NumOf(m, num[d - 1], g)
<1>1. d \in 0..2 /\ d # 0
  OBVIOUS
<1> DEFINE value(e, k) == IF e = 0 \/ k \in m.lib THEN 0
                          ELSE Scan!Sum([p \in Scan!Places(m, k) |->
                                 IF Plain(Scan!At(m, k, p)) THEN 1
                                 ELSE Scan!Sum([h \in Scan!At(m, k, p).calls \cap ScanFunc |-> num[e - 1][h]])])
<1>2. num[d][g] = value(d, g)
  <2>1. num = [e \in 0..2 |-> [k \in ScanFunc |-> value(e, k)]]
    BY Zenon DEF NumsAre
  <2> HIDE DEF value
  <2> QED
    BY <1>1, <2>1
<1> QED
  BY <1>1, <1>2, Zenon DEF NumOf

(* The count that the instructions of a function have, and those it calls. *)
LEMMA InstNumIs ==
  ASSUME NEW m, Scan!IsBitcode(m), IsFiniteSet(ScanFunc), NEW f \in ScanFunc
  PROVE  Scan!InstNum(m, f) = Within(m, Heavier(m, Light(m)))[f]
<1> DEFINE num == CHOOSE num : NumsAre(m, num)
<1>1. NumsAre(m, num)
  BY NumsExist
<1>2. Scan!InstNum(m, f) = num[2][f]
  BY Zenon DEF Scan!InstNum, Scan!Recursions, NumsAre, Plain
<1> HIDE DEF num
<1>3. \A g \in ScanFunc : num[0][g] = 0
  <2>1. 0 \in 0..2
    OBVIOUS
  <2> QED
    BY <1>1, <2>1, Zenon DEF NumsAre
<1>4. \A g \in ScanFunc : num[1][g] = Within(m, Light(m))[g]
  <2>1. TAKE g \in ScanFunc
  <2>2. PICK v : v = num[0]
    OBVIOUS
  <2>3. num[1][g] = NumOf(m, v, g)
    <3>1. num[1][g] = NumOf(m, num[1 - 1], g)
      BY <1>1, NumsStep
    <3> QED
      BY <2>2, <3>1
  <2>4. ASSUME NEW s \in SitesOf(m)
        PROVE  Light(m)[s] = IF IsPlain(m, s) THEN 1 ELSE SumOver([h \in CallsAt(m, s) |-> v[h]], CallsAt(m, s))
    <3>1. PICK C, c : C = CallsAt(m, s) /\ c = [h \in C |-> v[h]]
      OBVIOUS
    <3>2. IsFiniteSet(C)
      BY <3>1, CallsFinite
    <3>3. \A h \in C : c[h] = 0
      BY <1>3, <2>2, <3>1 DEF CallsAt
    <3>4. SumOver(c, C) = 0
      BY <3>2, <3>3, SumZero
    <3>5. Light(m)[s] = IF IsPlain(m, s) THEN 1 ELSE 0
      BY DEF Light
    <3> QED
      BY <3>1, <3>4, <3>5
  <2>5. NumOf(m, v, g) = Within(m, Light(m))[g]
    BY <2>4, NumOfIs
  <2> QED
    BY <2>3, <2>5
<1>5. num[2][f] = NumOf(m, num[1], f)
  <2>1. num[2][f] = NumOf(m, num[2 - 1], f)
    BY <1>1, NumsStep
  <2>2. 2 - 1 = 1
    OBVIOUS
  <2> QED
    BY <2>1, <2>2
<1>6. PICK v : v = num[1]
  OBVIOUS
<1>7. ASSUME NEW s \in SitesOf(m)
      PROVE  Heavier(m, Light(m))[s] =
               IF IsPlain(m, s) THEN 1 ELSE SumOver([h \in CallsAt(m, s) |-> v[h]], CallsAt(m, s))
  <2>1. [h \in CallsAt(m, s) |-> v[h]] = [h \in CallsAt(m, s) |-> Within(m, Light(m))[h]]
    BY <1>4, <1>6 DEF CallsAt
  <2> QED
    BY <2>1 DEF Heavier
<1>8. NumOf(m, v, f) = Within(m, Heavier(m, Light(m)))[f]
  BY <1>7, NumOfIs
<1> QED
  BY <1>2, <1>5, <1>6, <1>8

LoopPlaces(m, f, l) == {q \in Scan!Places(m, f) : q[1] \in l.blocks}

LEMMA LoopSizeIs ==
  ASSUME NEW m, Scan!IsBitcode(m), IsFiniteSet(ScanFunc), NEW f \in ScanFunc, NEW l
  PROVE  Scan!LoopSize(m, f, l) =
           SumOver([p \in LoopPlaces(m, f, l) |-> Heavier(m, Heavier(m, Light(m)))[<<f, p>>]], LoopPlaces(m, f, l))
<1> DEFINE P == LoopPlaces(m, f, l)
           w == Heavier(m, Heavier(m, Light(m)))
           a == [p \in P |-> IF Plain(Scan!At(m, f, p)) THEN 1
                             ELSE Scan!Sum([h \in Scan!At(m, f, p).calls \cap ScanFunc |-> Scan!InstNum(m, h)])]
           b == [p \in P |-> w[<<f, p>>]]
<1>1. Scan!LoopSize(m, f, l) = Scan!Sum(a)
  BY DEF Scan!LoopSize, Plain, LoopPlaces
<1>2. ASSUME NEW p \in P PROVE a[p] = b[p]
  <2>1. PICK s : s = <<f, p>>
    OBVIOUS
  <2>2. s \in SitesOf(m) /\ s[1] = f /\ s[2] = p
    BY <2>1 DEF SitesOf, LoopPlaces
  <2>3. PICK c, C : C = CallsAt(m, s) /\ c = [h \in C |-> Within(m, Heavier(m, Light(m)))[h]]
    OBVIOUS
  <2>4. w[s] = IF IsPlain(m, s) THEN 1 ELSE SumOver(c, C)
    BY <2>2, <2>3, Zenon DEF Heavier
  <2>5. Scan!Sum(c) = SumOver(c, C)
    BY <2>3, ScanSum
  <2>6. c = [h \in C |-> Scan!InstNum(m, h)]
    <3>1. \A h \in C : Scan!InstNum(m, h) = Within(m, Heavier(m, Light(m)))[h]
      BY <2>3, InstNumIs DEF CallsAt
    <3> QED
      BY <2>3, <3>1
  <2>7. C = Scan!At(m, f, p).calls \cap ScanFunc
    BY <2>2, <2>3 DEF CallsAt
  <2>8. a[p] = IF Plain(Scan!At(m, f, p)) THEN 1 ELSE Scan!Sum(c)
    BY <2>6, <2>7
  <2>9. b[p] = w[s]
    BY <2>1
  <2>10. IsPlain(m, s) <=> Plain(Scan!At(m, f, p))
    BY <2>2 DEF IsPlain
  <2> HIDE DEF a, b, w
  <2> QED
    BY <2>4, <2>5, <2>8, <2>9, <2>10
<1>3. IsFiniteSet(P)
  <2>1. P \subseteq Scan!Places(m, f)
    BY DEF LoopPlaces
  <2> HIDE DEF P
  <2> QED
    BY <2>1, PlacesFinite, FS_Subset
<1>4. DOMAIN a = P
  OBVIOUS
<1> HIDE DEF a, P
<1>5. Scan!Sum(a) = SumOver(a, P)
  BY <1>4, ScanSum
<1>6. SumOver(a, P) = SumOver(b, P)
  <2> HIDE DEF b
  <2> QED
    BY <1>2, <1>3, SumEqual
<1> QED
  BY <1>1, <1>5, <1>6 DEF P

(* The chains of calls, and those that go on from one: each ends with an   *)
(* instruction that is no call.                                            *)
Chains(m) == Seq(SitesOf(m))

CalledAt(m, s)  == IF IsPlain(m, s) THEN {} ELSE CallsAt(m, s) \ m.lib
NextSites(m, s) == UNION {{<<g, q>> : q \in Scan!Places(m, g)} : g \in CalledAt(m, s)}

Tip(m)      == [e \in Chains(m) |-> IF IsPlain(m, e[Len(e)]) THEN {e} ELSE {}]
Grown(m, x) == [e \in Chains(m) |-> IF IsPlain(m, e[Len(e)]) THEN {e}
                                    ELSE UNION {x[Append(e, s)] : s \in NextSites(m, e[Len(e)])}]

Prolongs(c, e) == Len(e) <= Len(c) /\ \A i \in 1..Len(e) : c[i] = e[i]

Counted(m, x, w) ==
  \A e \in Chains(m) : e # <<>> =>
    /\ IsFiniteSet(x[e]) /\ Cardinality(x[e]) = w[e[Len(e)]]
    /\ \A c \in x[e] : c \in Chains(m) /\ Prolongs(c, e)

LEMMA LastOf ==
  ASSUME NEW T, NEW e \in Seq(T), e # <<>>
  PROVE  /\ Len(e) \in Nat \ {0} /\ e[Len(e)] \in T
         /\ \A s \in T : /\ Append(e, s) \in Seq(T) /\ Append(e, s) # <<>>
                         /\ Len(Append(e, s)) = Len(e) + 1 /\ Append(e, s)[Len(e) + 1] = s
                         /\ \A c \in Seq(T) : Prolongs(c, Append(e, s)) => Prolongs(c, e) /\ c[Len(e) + 1] = s
<1>1. Len(e) \in Nat \ {0}
  BY EmptySeq
<1>2. e[Len(e)] \in T
  BY <1>1
<1>3. ASSUME NEW s \in T
      PROVE  /\ Append(e, s) \in Seq(T) /\ Append(e, s) # <<>>
             /\ Len(Append(e, s)) = Len(e) + 1 /\ Append(e, s)[Len(e) + 1] = s
             /\ \A i \in 1..Len(e) : Append(e, s)[i] = e[i]
  <2>1. Append(e, s) \in Seq(T) /\ Len(Append(e, s)) = Len(e) + 1
    OBVIOUS
  <2>2. Append(e, s)[Len(e) + 1] = s /\ \A i \in 1..Len(e) : Append(e, s)[i] = e[i]
    OBVIOUS
  <2>3. Append(e, s) # <<>>
    <3>1. Len(Append(e, s)) # 0
      BY <1>1, <2>1
    <3> QED
      BY <3>1
  <2> QED
    BY <2>1, <2>2, <2>3
<1>4. ASSUME NEW s \in T, NEW c \in Seq(T), Prolongs(c, Append(e, s)) PROVE Prolongs(c, e) /\ c[Len(e) + 1] = s
  <2>1. PICK k, a : k = Len(e) /\ a = Append(e, s)
    OBVIOUS
  <2>2. Len(a) = k + 1 /\ a[k + 1] = s /\ (\A i \in 1..k : a[i] = e[i]) /\ k \in Nat
    BY <1>1, <1>3, <2>1
  <2>3. Len(a) <= Len(c) /\ \A i \in 1..Len(a) : c[i] = a[i]
    BY <1>4, <2>1 DEF Prolongs
  <2>4. Len(c) \in Nat
    OBVIOUS
  <2>5. k <= Len(c) /\ (\A i \in 1..k : c[i] = e[i]) /\ c[k + 1] = s
    BY <2>2, <2>3, <2>4
  <2> QED
    BY <2>1, <2>5 DEF Prolongs
<1> QED
  BY <1>1, <1>2, <1>3, <1>4

LEMMA TipCounted ==
  ASSUME NEW m
  PROVE  Counted(m, Tip(m), Light(m))
<1>1. SUFFICES ASSUME NEW e \in Chains(m), e # <<>>
               PROVE  /\ IsFiniteSet(Tip(m)[e]) /\ Cardinality(Tip(m)[e]) = Light(m)[e[Len(e)]]
                      /\ \A c \in Tip(m)[e] : c \in Chains(m) /\ Prolongs(c, e)
  BY DEF Counted
<1>2. PICK s : s = e[Len(e)] /\ s \in SitesOf(m) /\ Len(e) \in Nat
  BY <1>1, LastOf DEF Chains
<1>3. Tip(m)[e] = (IF IsPlain(m, s) THEN {e} ELSE {}) /\ Light(m)[s] = IF IsPlain(m, s) THEN 1 ELSE 0
  BY <1>2 DEF Tip, Light
<1>4. Prolongs(e, e)
  BY <1>2 DEF Prolongs
<1>5. IsFiniteSet({e}) /\ Cardinality({e}) = 1 /\ IsFiniteSet({}) /\ Cardinality({}) = 0
  BY FS_Singleton, FS_EmptySet
<1> QED
  BY <1>2, <1>3, <1>4, <1>5

(* The chains that go on at the function h.                                *)
LEMMA CalleeCounted ==
  ASSUME NEW m, Scan!IsBitcode(m), NEW x, NEW w, Counted(m, x, w), NEW e \in Chains(m), e # <<>>,
         NEW h \in ScanFunc, NEW Z, Z = IF h \in m.lib THEN {} ELSE UNION {x[Append(e, <<h, q>>)] : q \in Scan!Places(m, h)}
  PROVE  /\ IsFiniteSet(Z) /\ Cardinality(Z) = Within(m, w)[h]
         /\ \A c \in Z : c \in Chains(m) /\ Prolongs(c, e) /\ c[Len(e) + 1][1] = h
<1> DEFINE P == Scan!Places(m, h)
<1>1. \A q \in P : <<h, q>> \in SitesOf(m)
  BY DEF SitesOf
<1>2. ASSUME NEW q \in P
      PROVE  /\ IsFiniteSet(x[Append(e, <<h, q>>)]) /\ Cardinality(x[Append(e, <<h, q>>)]) = w[<<h, q>>]
             /\ \A c \in x[Append(e, <<h, q>>)] : c \in Chains(m) /\ Prolongs(c, e) /\ c[Len(e) + 1] = <<h, q>>
  <2>1. PICK s, k, a : s = <<h, q>> /\ k = Len(e) /\ a = Append(e, s)
    OBVIOUS
  <2>2. s \in SitesOf(m)
    BY <1>1, <2>1
  <2>3. /\ a \in Chains(m) /\ a # <<>> /\ Len(a) = k + 1 /\ a[k + 1] = s
        /\ \A c \in Chains(m) : Prolongs(c, a) => Prolongs(c, e) /\ c[k + 1] = s
    <3>1. PICK T : T = SitesOf(m)
      OBVIOUS
    <3>2. e \in Seq(T) /\ s \in T /\ Chains(m) = Seq(T)
      BY <2>2, <3>1 DEF Chains
    <3>3. /\ Append(e, s) \in Seq(T) /\ Append(e, s) # <<>>
          /\ Len(Append(e, s)) = Len(e) + 1 /\ Append(e, s)[Len(e) + 1] = s
          /\ \A c \in Seq(T) : Prolongs(c, Append(e, s)) => Prolongs(c, e) /\ c[Len(e) + 1] = s
      BY <3>2, LastOf
    <3> QED
      BY <2>1, <3>2, <3>3
  <2>4. /\ IsFiniteSet(x[a]) /\ Cardinality(x[a]) = w[a[Len(a)]]
        /\ \A c \in x[a] : c \in Chains(m) /\ Prolongs(c, a)
    BY <2>3 DEF Counted
  <2> QED
    BY <2>1, <2>3, <2>4
<1>3. CASE h \in m.lib
  <2>1. Z = {} /\ Within(m, w)[h] = 0
    BY <1>3 DEF Within
  <2> QED
    BY <2>1, FS_EmptySet
<1>4. CASE h \notin m.lib
  <2>1. PICK S, F, f : S = P /\ F = [q \in S |-> x[Append(e, <<h, q>>)]] /\ f = [q \in S |-> w[<<h, q>>]]
    OBVIOUS
  <2>2. Z = UNION {F[q] : q \in S}
    BY <1>4, <2>1
  <2>3. Within(m, w)[h] = SumOver(f, S)
    BY <1>4, <2>1 DEF Within
  <2>4. \A q \in S : /\ IsFiniteSet(F[q]) /\ f[q] = Cardinality(F[q])
                     /\ \A c \in F[q] : c \in Chains(m) /\ Prolongs(c, e) /\ c[Len(e) + 1] = <<h, q>>
    BY <1>2, <2>1
  <2>5. \A p, q \in S : p # q => F[p] \cap F[q] = {}
    <3>1. SUFFICES ASSUME NEW p \in S, NEW q \in S, NEW c \in F[p], c \in F[q] PROVE p = q
      BY Zenon
    <3>2. c[Len(e) + 1] = <<h, p>> /\ c[Len(e) + 1] = <<h, q>>
      BY <2>4, <3>1
    <3> QED
      BY <3>2
  <2>6. IsFiniteSet(S)
    BY <2>1, PlacesFinite
  <2>7. IsFiniteSet(Z) /\ Cardinality(Z) = SumOver(f, S)
    <3>1. (\A q \in S : IsFiniteSet(F[q])) /\ (\A q \in S : f[q] = Cardinality(F[q]))
      BY <2>4
    <3>2. IsFiniteSet(UNION {F[q] : q \in S}) /\ Cardinality(UNION {F[q] : q \in S}) = SumOver(f, S)
      BY <2>5, <2>6, <3>1, CountUnion
    <3> QED
      BY <2>2, <3>2
  <2>8. \A c \in Z : c \in Chains(m) /\ Prolongs(c, e) /\ c[Len(e) + 1][1] = h
    <3>1. TAKE c \in Z
    <3>2. PICK q \in S : c \in F[q]
      BY <2>2
    <3>3. c \in Chains(m) /\ Prolongs(c, e) /\ c[Len(e) + 1] = <<h, q>>
      BY <2>4, <3>2
    <3> QED
      BY <3>3
  <2> QED
    BY <2>3, <2>7, <2>8
<1> QED
  BY <1>3, <1>4

(* One call more.                                                          *)
LEMMA GrownCounted ==
  ASSUME NEW m, Scan!IsBitcode(m), IsFiniteSet(ScanFunc), NEW x, NEW w, Counted(m, x, w)
  PROVE  Counted(m, Grown(m, x), Heavier(m, w))
<1>1. SUFFICES ASSUME NEW e \in Chains(m), e # <<>>
               PROVE  /\ IsFiniteSet(Grown(m, x)[e]) /\ Cardinality(Grown(m, x)[e]) = Heavier(m, w)[e[Len(e)]]
                      /\ \A c \in Grown(m, x)[e] : c \in Chains(m) /\ Prolongs(c, e)
  BY DEF Counted
<1>2. PICK s : s = e[Len(e)] /\ s \in SitesOf(m) /\ Len(e) \in Nat
  BY <1>1, LastOf DEF Chains
<1>3. /\ Grown(m, x)[e] = IF IsPlain(m, s) THEN {e} ELSE UNION {x[Append(e, t)] : t \in NextSites(m, s)}
      /\ Heavier(m, w)[s] = IF IsPlain(m, s) THEN 1 ELSE SumOver([h \in CallsAt(m, s) |-> Within(m, w)[h]], CallsAt(m, s))
  BY <1>2 DEF Grown, Heavier
<1>4. CASE IsPlain(m, s)
  <2>1. Prolongs(e, e)
    BY <1>2 DEF Prolongs
  <2>2. IsFiniteSet({e}) /\ Cardinality({e}) = 1
    BY FS_Singleton
  <2> QED
    BY <1>2, <1>3, <1>4, <2>1, <2>2
<1>5. CASE ~IsPlain(m, s)
  <2>1. PICK C : C = CallsAt(m, s) /\ C \subseteq ScanFunc
    BY DEF CallsAt
  <2>2. PICK Z : Z = [h \in C |-> IF h \in m.lib THEN {} ELSE UNION {x[Append(e, <<h, q>>)] : q \in Scan!Places(m, h)}]
    OBVIOUS
  <2>3. PICK f : f = [h \in C |-> Within(m, w)[h]]
    OBVIOUS
  <2>4. \A h \in C : /\ IsFiniteSet(Z[h]) /\ f[h] = Cardinality(Z[h])
                     /\ \A c \in Z[h] : c \in Chains(m) /\ Prolongs(c, e) /\ c[Len(e) + 1][1] = h
    <3>1. TAKE h \in C
    <3>2. PICK Y : Y = Z[h]
      OBVIOUS
    <3>3. Y = IF h \in m.lib THEN {} ELSE UNION {x[Append(e, <<h, q>>)] : q \in Scan!Places(m, h)}
      BY <2>2, <3>2
    <3>4. /\ IsFiniteSet(Y) /\ Cardinality(Y) = Within(m, w)[h]
          /\ \A c \in Y : c \in Chains(m) /\ Prolongs(c, e) /\ c[Len(e) + 1][1] = h
      BY <1>1, <2>1, <3>3, CalleeCounted
    <3> QED
      BY <2>3, <3>2, <3>4
  <2>5. \A g, h \in C : g # h => Z[g] \cap Z[h] = {}
    <3>1. SUFFICES ASSUME NEW g \in C, NEW h \in C, NEW c \in Z[g], c \in Z[h] PROVE g = h
      BY Zenon
    <3> QED
      BY <2>4, <3>1
  <2>6. IsFiniteSet(C)
    BY <2>1, CallsFinite
  <2>7. IsFiniteSet(UNION {Z[h] : h \in C}) /\ Cardinality(UNION {Z[h] : h \in C}) = SumOver(f, C)
    <3>1. (\A h \in C : IsFiniteSet(Z[h])) /\ (\A h \in C : f[h] = Cardinality(Z[h]))
      BY <2>4
    <3> QED
      BY <2>5, <2>6, <3>1, CountUnion
  <2>8. Grown(m, x)[e] = UNION {Z[h] : h \in C}
    <3>1. Grown(m, x)[e] = UNION {x[Append(e, t)] : t \in NextSites(m, s)}
      BY <1>3, <1>5
    <3>2. \A t : t \in NextSites(m, s) <=> \E h \in C : h \notin m.lib /\ \E q \in Scan!Places(m, h) : t = <<h, q>>
      BY <1>5, <2>1 DEF NextSites, CalledAt
    <3>3. \A h \in C : \A c : c \in Z[h] <=> h \notin m.lib /\ \E q \in Scan!Places(m, h) : c \in x[Append(e, <<h, q>>)]
      BY <2>2
    <3>4. ASSUME NEW c, c \in Grown(m, x)[e] PROVE c \in UNION {Z[h] : h \in C}
      <4>1. PICK t \in NextSites(m, s) : c \in x[Append(e, t)]
        BY <3>1, <3>4
      <4>2. PICK h \in C : h \notin m.lib /\ \E q \in Scan!Places(m, h) : t = <<h, q>>
        BY <3>2
      <4>3. c \in Z[h]
        BY <3>3, <4>1, <4>2
      <4> QED
        BY <4>3
    <3>5. ASSUME NEW h \in C, NEW c \in Z[h] PROVE c \in Grown(m, x)[e]
      <4>1. PICK q \in Scan!Places(m, h) : c \in x[Append(e, <<h, q>>)] /\ h \notin m.lib
        BY <3>3
      <4>2. <<h, q>> \in NextSites(m, s)
        BY <3>2, <4>1
      <4> QED
        BY <3>1, <4>1, <4>2
    <3> QED
      BY <3>4, <3>5
  <2>9. \A c \in Grown(m, x)[e] : c \in Chains(m) /\ Prolongs(c, e)
    BY <2>4, <2>8
  <2>10. Heavier(m, w)[s] = SumOver(f, C)
    BY <1>3, <1>5, <2>1, <2>3
  <2> QED
    BY <1>2, <2>7, <2>8, <2>9, <2>10
<1> QED
  BY <1>4, <1>5

(* The chains from the instructions of a loop.                             *)
LoopChains(m, f, l) == {<<<<f, p>>>> : p \in LoopPlaces(m, f, l)}
Longer(m, C)        == UNION {{Append(c, s) : s \in NextSites(m, c[Len(c)])} : c \in C}
ChainsOf(m, f, l)   == LET one == Longer(m, LoopChains(m, f, l)) IN LoopChains(m, f, l) \cup one \cup Longer(m, one)
Ending(m, C)        == {c \in C : IsPlain(m, c[Len(c)])}

(* The chains that x prolongs from the instructions of a loop.             *)
EndsOf(m, f, l, x) == UNION {x[<<<<f, p>>>>] : p \in LoopPlaces(m, f, l)}

LEMMA ChainsEnding ==
  ASSUME NEW m, NEW f \in ScanFunc, NEW l, NEW x, x = Grown(m, Grown(m, Tip(m)))
  PROVE  Ending(m, ChainsOf(m, f, l)) = EndsOf(m, f, l, x)
<1> DEFINE P == LoopPlaces(m, f, l)
           y == Grown(m, Tip(m))
           one == Longer(m, LoopChains(m, f, l))
<1>1. \A s : IsPlain(m, s) => NextSites(m, s) = {}
  BY DEF NextSites, CalledAt
<1>2. \A s : NextSites(m, s) \subseteq SitesOf(m)
  BY DEF NextSites, CalledAt, CallsAt, SitesOf
<1>3. ASSUME NEW p \in P
      PROVE  /\ <<<<f, p>>>> \in Chains(m) /\ <<<<f, p>>>> # <<>>
             /\ Len(<<<<f, p>>>>) = 1 /\ <<<<f, p>>>>[1] = <<f, p>> /\ <<f, p>> \in SitesOf(m)
  <2>1. <<f, p>> \in SitesOf(m)
    BY DEF SitesOf, LoopPlaces
  <2> QED
    BY <2>1 DEF Chains
<1>4. ASSUME NEW e \in Chains(m), e # <<>>
      PROVE  /\ \A s \in NextSites(m, e[Len(e)]) :
                  /\ Append(e, s) \in Chains(m) /\ Append(e, s) # <<>> /\ Append(e, s)[Len(Append(e, s))] = s
             /\ \A c : c \in Tip(m)[e] <=> IsPlain(m, e[Len(e)]) /\ c = e
             /\ \A c : c \in y[e] <=> \/ IsPlain(m, e[Len(e)]) /\ c = e
                                      \/ \E s \in NextSites(m, e[Len(e)]) : c \in Tip(m)[Append(e, s)]
             /\ \A c : c \in x[e] <=> \/ IsPlain(m, e[Len(e)]) /\ c = e
                                      \/ \E s \in NextSites(m, e[Len(e)]) : c \in y[Append(e, s)]
  <2>1. PICK T : T = SitesOf(m)
    OBVIOUS
  <2>2. e \in Seq(T) /\ Chains(m) = Seq(T)
    BY <2>1 DEF Chains
  <2>3. \A s \in T : /\ Append(e, s) \in Seq(T) /\ Append(e, s) # <<>>
                     /\ Len(Append(e, s)) = Len(e) + 1 /\ Append(e, s)[Len(e) + 1] = s
    BY <1>4, <2>2, LastOf
  <2>4. \A s \in NextSites(m, e[Len(e)]) :
          Append(e, s) \in Chains(m) /\ Append(e, s) # <<>> /\ Append(e, s)[Len(Append(e, s))] = s
    BY <1>2, <2>1, <2>2, <2>3
  <2>5. PICK N : N = NextSites(m, e[Len(e)]) /\ (IsPlain(m, e[Len(e)]) => N = {})
    BY <1>1
  <2>6. \A c : c \in Tip(m)[e] <=> IsPlain(m, e[Len(e)]) /\ c = e
    BY DEF Tip
  <2>7. \A z : Grown(m, z)[e] = IF IsPlain(m, e[Len(e)]) THEN {e} ELSE UNION {z[Append(e, s)] : s \in N}
    BY <2>5 DEF Grown
  <2>8. \A z, c : c \in Grown(m, z)[e] <=> \/ IsPlain(m, e[Len(e)]) /\ c = e
                                           \/ \E s \in N : c \in z[Append(e, s)]
    <3>1. TAKE z
    <3>2. PICK g : g = Grown(m, z)[e]
      OBVIOUS
    <3>3. g = IF IsPlain(m, e[Len(e)]) THEN {e} ELSE UNION {z[Append(e, s)] : s \in N}
      BY <2>7, <3>2
    <3>4. CASE IsPlain(m, e[Len(e)])
      BY <2>5, <3>2, <3>3, <3>4
    <3>5. CASE ~IsPlain(m, e[Len(e)])
      <4>1. g = UNION {z[Append(e, s)] : s \in N}
        BY <3>3, <3>5
      <4>2. \A c : c \in g <=> \E s \in N : c \in z[Append(e, s)]
        BY <4>1
      <4> QED
        BY <3>2, <3>5, <4>2
    <3> QED
      BY <3>4, <3>5
  <2> QED
    BY <2>4, <2>5, <2>6, <2>8
<1> HIDE DEF y
<1>5. ASSUME NEW p \in P, NEW c, c \in x[<<<<f, p>>>>] PROVE c \in Ending(m, ChainsOf(m, f, l))
  <2>1. PICK e : e = <<<<f, p>>>>
    OBVIOUS
  <2>2. e \in Chains(m) /\ e # <<>> /\ e \in LoopChains(m, f, l)
    BY <1>3, <2>1 DEF LoopChains
  <2>3. CASE IsPlain(m, e[Len(e)]) /\ c = e
    BY <2>2, <2>3 DEF Ending, ChainsOf
  <2>4. ASSUME NEW s \in NextSites(m, e[Len(e)]), c \in y[Append(e, s)] PROVE c \in Ending(m, ChainsOf(m, f, l))
    <3>1. PICK g : g = Append(e, s)
      OBVIOUS
    <3>2. g \in Chains(m) /\ g # <<>> /\ g \in one
      BY <1>4, <2>2, <3>1 DEF Longer
    <3>3. CASE IsPlain(m, g[Len(g)]) /\ c = g
      BY <3>2, <3>3 DEF Ending, ChainsOf
    <3>4. ASSUME NEW t \in NextSites(m, g[Len(g)]), c \in Tip(m)[Append(g, t)] PROVE c \in Ending(m, ChainsOf(m, f, l))
      <4>1. PICK h : h = Append(g, t)
        OBVIOUS
      <4>2. h \in Chains(m) /\ h # <<>> /\ h \in Longer(m, one)
        BY <1>4, <3>2, <4>1 DEF Longer
      <4>3. IsPlain(m, h[Len(h)]) /\ c = h
        BY <1>4, <3>4, <4>1, <4>2
      <4> QED
        BY <4>2, <4>3 DEF Ending, ChainsOf
    <3> QED
      BY <1>4, <2>4, <3>1, <3>2, <3>3, <3>4
  <2> QED
    BY <1>4, <1>5, <2>1, <2>2, <2>3, <2>4
<1>6. ASSUME NEW c, c \in Ending(m, ChainsOf(m, f, l)) PROVE \E p \in P : c \in x[<<<<f, p>>>>]
  <2>1. IsPlain(m, c[Len(c)]) /\ (c \in LoopChains(m, f, l) \/ c \in one \/ c \in Longer(m, one))
    BY <1>6 DEF Ending, ChainsOf
  <2>2. ASSUME NEW e, e \in LoopChains(m, f, l)
        PROVE  /\ e \in Chains(m) /\ e # <<>>
               /\ c \in x[e] => \E p \in P : c \in x[<<<<f, p>>>>]
    <3>1. PICK p \in P : e = <<<<f, p>>>>
      BY <2>2 DEF LoopChains
    <3> QED
      BY <1>3, <3>1
  <2>3. CASE c \in LoopChains(m, f, l)
    BY <1>4, <2>1, <2>2, <2>3
  <2>4. CASE c \in one
    <3>1. PICK e \in LoopChains(m, f, l) : \E s \in NextSites(m, e[Len(e)]) : c = Append(e, s)
      BY <2>4 DEF Longer
    <3>2. e \in Chains(m) /\ e # <<>>
      BY <2>2
    <3>3. c \in Chains(m) /\ c # <<>>
      BY <1>4, <3>1, <3>2
    <3>4. c \in y[c]
      BY <1>4, <2>1, <3>3
    <3>5. c \in x[e]
      BY <1>4, <3>1, <3>2, <3>4
    <3> QED
      BY <2>2, <3>5
  <2>5. CASE c \in Longer(m, one)
    <3>1. PICK g \in one : \E t \in NextSites(m, g[Len(g)]) : c = Append(g, t)
      BY <2>5 DEF Longer
    <3>2. PICK e \in LoopChains(m, f, l) : \E s \in NextSites(m, e[Len(e)]) : g = Append(e, s)
      BY DEF Longer
    <3>3. e \in Chains(m) /\ e # <<>>
      BY <2>2
    <3>4. g \in Chains(m) /\ g # <<>>
      BY <1>4, <3>2, <3>3
    <3>5. c \in Chains(m) /\ c # <<>>
      BY <1>4, <3>1, <3>4
    <3>6. c \in Tip(m)[c]
      BY <1>4, <2>1, <3>5
    <3>7. c \in y[g]
      BY <1>4, <3>1, <3>4, <3>6
    <3>8. c \in x[e]
      BY <1>4, <3>2, <3>3, <3>7
    <3> QED
      BY <2>2, <3>8
  <2> QED
    BY <2>1, <2>3, <2>4, <2>5
<1> QED
  BY <1>5, <1>6 DEF EndsOf

LEMMA LoopCounted ==
  ASSUME NEW m, Scan!IsBitcode(m), IsFiniteSet(ScanFunc), NEW f \in ScanFunc, NEW l
  PROVE  Scan!LoopSize(m, f, l) = Cardinality(Ending(m, ChainsOf(m, f, l)))
<1>1. PICK x, w : x = Grown(m, Grown(m, Tip(m))) /\ w = Heavier(m, Heavier(m, Light(m)))
  OBVIOUS
<1>2. Counted(m, x, w)
  BY <1>1, TipCounted, GrownCounted
<1>3. PICK P, F, k : /\ P = LoopPlaces(m, f, l)
                     /\ F = [p \in P |-> x[<<<<f, p>>>>]] /\ k = [p \in P |-> w[<<f, p>>]]
  OBVIOUS
<1>4. ASSUME NEW p \in P
      PROVE  /\ IsFiniteSet(F[p]) /\ k[p] = Cardinality(F[p])
             /\ \A c \in F[p] : c[1] = <<f, p>>
  <2>1. PICK e : e = <<<<f, p>>>>
    OBVIOUS
  <2>2. <<f, p>> \in SitesOf(m)
    BY <1>3 DEF SitesOf, LoopPlaces
  <2>3. e \in Chains(m) /\ e # <<>> /\ Len(e) = 1 /\ e[1] = <<f, p>>
    BY <2>1, <2>2 DEF Chains
  <2>4. IsFiniteSet(x[e]) /\ Cardinality(x[e]) = w[e[Len(e)]] /\ \A c \in x[e] : Prolongs(c, e)
    BY <1>2, <2>3 DEF Counted
  <2>5. \A c \in x[e] : c[1] = <<f, p>>
    BY <2>3, <2>4 DEF Prolongs
  <2> QED
    BY <1>3, <2>1, <2>3, <2>4, <2>5
<1>5. \A p, q \in P : p # q => F[p] \cap F[q] = {}
  <2>1. SUFFICES ASSUME NEW p \in P, NEW q \in P, NEW c \in F[p], c \in F[q] PROVE p = q
    BY Zenon
  <2>2. c[1] = <<f, p>> /\ c[1] = <<f, q>>
    BY <1>4, <2>1
  <2> QED
    BY <2>2
<1>6. IsFiniteSet(P)
  <2>1. P \subseteq Scan!Places(m, f)
    BY <1>3 DEF LoopPlaces
  <2> QED
    BY <2>1, PlacesFinite, FS_Subset
<1>7. (\A p \in P : IsFiniteSet(F[p])) /\ (\A p \in P : k[p] = Cardinality(F[p]))
  BY <1>4
<1>8. Cardinality(UNION {F[p] : p \in P}) = SumOver(k, P)
  BY <1>5, <1>6, <1>7, CountUnion
<1>9. Ending(m, ChainsOf(m, f, l)) = UNION {F[p] : p \in P}
  <2>1. Ending(m, ChainsOf(m, f, l)) = UNION {x[<<<<f, p>>>>] : p \in P}
    <3>1. x = Grown(m, Grown(m, Tip(m)))
      BY <1>1
    <3>2. Ending(m, ChainsOf(m, f, l)) = EndsOf(m, f, l, x)
      BY <3>1, ChainsEnding, Zenon
    <3> QED
      BY <1>3, <3>2 DEF EndsOf
  <2> QED
    BY <1>3, <2>1
<1>10. Scan!LoopSize(m, f, l) = SumOver(k, P)
  BY <1>1, <1>3, LoopSizeIs
<1> QED
  BY <1>8, <1>9, <1>10

(* complex-loop has a line on each complex loop of the functions it has    *)
(* passed.                                                                 *)
LoopLine(l, n, j) ==
  /\ IsFunction(n, j)
  /\ \E c \in Scan!ComplexLoops(job.bitcodes[n], job.bitcodes[n].order[j]) :
       l = [of |-> n, fn |-> job.bitcodes[n].order[j], place |-> c.blocks]

LoopsBehind ==
  detector = "complex-loop" =>
    /\ pos.block = 1
    /\ \A l : l \in out <=> \E n, j : LoopLine(l, n, j) /\ Passed(n, j)

LEMMA SameLoops ==
  ASSUME UNCHANGED job
  PROVE  \A l, n, j : LoopLine(l, n, j)' <=> LoopLine(l, n, j)
<1>1. \A n, j : IsFunction(n, j)' <=> IsFunction(n, j)
  BY SitesStay DEF SameSites
<1> QED
  BY <1>1 DEF LoopLine

LEMMA LoopSteps ==
  ASSUME ScanShape, detector = "complex-loop", [Scan!Next]_Scan!vars
  PROVE  Stays \/ Scan!LeaveFunction \/ Scan!EndFunction \/ Scan!NextBitcode
<1>1. ~Scan!SkipInst
  BY DEF Scan!SkipInst, Scan!LeavesFunction
<1> QED
  BY <1>1, StepOf, StayingSteps DEF Scan!Next, Scan!LineDetectors

(* A function without a body has no complex loop.                          *)
LEMMA NoLoops ==
  ASSUME Scan!JobsAssumption, NEW m, Scan!IsBitcode(m), NEW f \in ScanFunc, Len(m.body[f]) = 0
  PROVE  Scan!ComplexLoops(m, f) = {}
<1>1. IsFiniteSet(ScanFunc) /\ MIN_INST_NUM_FOR_LOOP \in Nat
  BY ScanSets DEF Scan!JobsAssumption
<1>2. ASSUME NEW l PROVE ~(Scan!LoopSize(m, f, l) > MIN_INST_NUM_FOR_LOOP)
  <2>1. Scan!Places(m, f) = {}
    BY DEF Scan!Places
  <2>2. LoopPlaces(m, f, l) = {}
    BY <2>1 DEF LoopPlaces
  <2>3. Scan!LoopSize(m, f, l) = 0
    BY <1>1, <2>2, LoopSizeIs, SumEmpty
  <2> QED
    BY <1>1, <2>3
<1> QED
  BY <1>2 DEF Scan!ComplexLoops

LEMMA LoopsStep ==
  ASSUME Scan!JobsAssumption, ScanShape, LoopsBehind, detector = "complex-loop", [Scan!Next]_Scan!vars
  PROVE  LoopsBehind'
<1>1. pos.block = 1 /\ \A l : l \in out <=> \E n, j : LoopLine(l, n, j) /\ Passed(n, j)
  BY DEF LoopsBehind
<1>2. CASE Stays
  <2>1. UNCHANGED <<job, detector, bitcode, pos, out>>
    BY <1>2 DEF Stays
  <2>2. \A n, j : Passed(n, j)' <=> Passed(n, j)
    BY <2>1 DEF Passed
  <2> QED
    BY <1>1, <2>1, <2>2, SameLoops DEF LoopsBehind
<1>3. ASSUME InFunction, pos' = Scan!NextFunction, UNCHANGED <<job, detector, bitcode>>,
             out' = out \cup {[of |-> bitcode, fn |-> Scan!Here, place |-> c.blocks] : c \in Scan!ComplexLoops(Scan!Bitcode, Scan!Here)}
      PROVE  LoopsBehind'
  <2>1. PICK n, j : n = bitcode /\ j = pos.fn
    OBVIOUS
  <2>2. /\ IsFunction(n, j) /\ job.bitcodes[n] = Scan!Bitcode /\ job.bitcodes[n].order[j] = Scan!Here
    BY <1>3, <2>1, CursorHere
  <2>3. \A l : LoopLine(l, n, j) <=> l \in {[of |-> bitcode, fn |-> Scan!Here, place |-> c.blocks] : c \in Scan!ComplexLoops(Scan!Bitcode, Scan!Here)}
    BY <2>1, <2>2 DEF LoopLine
  <2>4. \A i, h : IsFunction(i, h) => (Passed(i, h)' <=> Passed(i, h) \/ (i = n /\ h = j))
    BY <1>3, <2>1, OverFunction
  <2>5. \A l, i, h : LoopLine(l, i, h) => IsFunction(i, h)
    BY DEF LoopLine
  <2>6. \A l : l \in out' <=> l \in out \/ LoopLine(l, n, j)
    BY <1>3, <2>3
  <2>7. \A l : l \in out' <=> \E i, h : LoopLine(l, i, h)' /\ Passed(i, h)'
    <3>1. \A l, i, h : LoopLine(l, i, h)' <=> LoopLine(l, i, h)
      BY <1>3, SameLoops
    <3> QED
      BY <1>1, <2>2, <2>4, <2>5, <2>6, <3>1, Zenon
  <2>8. pos'.block = 1
    BY <1>3 DEF Scan!NextFunction, Scan!Start
  <2> QED
    BY <2>7, <2>8 DEF LoopsBehind
<1>4. CASE Scan!LeaveFunction
  <2>1. /\ InFunction /\ pos' = Scan!NextFunction /\ UNCHANGED <<job, detector, bitcode>>
        /\ out' = out \cup {[of |-> bitcode, fn |-> Scan!Here, place |-> c.blocks] : c \in Scan!ComplexLoops(Scan!Bitcode, Scan!Here)}
    BY <1>4 DEF Scan!LeaveFunction, Scan!AtInst, Scan!InModule, Scan!Fixed, InFunction
  <2> QED
    BY <1>3, <2>1
<1>5. CASE Scan!EndFunction
  <2>1. InFunction /\ pos.block > Len(Scan!Body) /\ pos' = Scan!NextFunction /\ UNCHANGED <<job, detector, bitcode, out>>
    BY <1>5, EndFunctionIs
  <2>2. PICK m, f : m = Scan!Bitcode /\ f = Scan!Here
    OBVIOUS
  <2>3. Scan!IsBitcode(m) /\ f \in ScanFunc /\ Scan!Body = m.body[f] /\ Len(Scan!Body) \in Nat
    BY <2>1, <2>2, CursorIs DEF InFunction
  <2>4. Len(m.body[f]) = 0
    <3>1. Len(Scan!Body) = 0
      BY <1>1, <2>1, <2>3
    <3> QED
      BY <2>3, <3>1
  <2>5. Scan!ComplexLoops(Scan!Bitcode, Scan!Here) = {}
    BY <2>2, <2>3, <2>4, NoLoops
  <2>6. out' = out \cup {[of |-> bitcode, fn |-> Scan!Here, place |-> c.blocks] : c \in Scan!ComplexLoops(Scan!Bitcode, Scan!Here)}
    BY <2>1, <2>5
  <2> QED
    BY <1>3, <2>1, <2>6
<1>6. CASE Scan!NextBitcode
  <2>1. /\ ~InFunction /\ bitcode' = bitcode + 1 /\ pos' = Scan!Start /\ UNCHANGED <<job, detector, out>>
    BY <1>6, NextBitcodeIs
  <2>2. \A n, j : IsFunction(n, j) => (Passed(n, j)' <=> Passed(n, j))
    BY <2>1, OverBitcode
  <2>3. pos'.block = 1
    BY <2>1 DEF Scan!Start
  <2>4. \A l, i, h : LoopLine(l, i, h) => IsFunction(i, h)
    BY DEF LoopLine
  <2>5. \A l, i, h : LoopLine(l, i, h)' <=> LoopLine(l, i, h)
    BY <2>1, SameLoops
  <2>6. \A l : l \in out' <=> \E i, h : LoopLine(l, i, h)' /\ Passed(i, h)'
    BY <1>1, <2>1, <2>2, <2>4, <2>5
  <2> QED
    BY <2>3, <2>6 DEF LoopsBehind
<1> QED
  BY <1>2, <1>4, <1>5, <1>6, LoopSteps

LEMMA LoopsInit ==
  ASSUME Scan!JobsAssumption, Scan!Init
  PROVE  LoopsBehind
<1>1. ScanShape /\ pos = Scan!Start /\ bitcode = 1 /\ out = {}
  BY ShapeInit DEF Scan!Init
<1>2. \A l, n, j : LoopLine(l, n, j) => ~Passed(n, j)
  BY <1>1, NothingPassed DEF LoopLine
<1>3. pos.block = 1
  BY <1>1 DEF Scan!Start
<1> QED
  BY <1>1, <1>2, <1>3 DEF LoopsBehind

LEMMA LoopsAlways ==
  ASSUME Scan!JobsAssumption, ScanShape, LoopsBehind, [Scan!Next]_Scan!vars
  PROVE  LoopsBehind'
<1>1. CASE detector = "complex-loop"
  BY <1>1, LoopsStep
<1>2. CASE detector # "complex-loop"
  <2>1. Scan!BeginExtCall => detector' = "ext-call"
    BY DEF Scan!BeginExtCall
  <2>2. detector' # "complex-loop"
    BY <1>2, <2>1, SameDetector
  <2> QED
    BY <2>2 DEF LoopsBehind
<1> QED
  BY <1>1, <1>2

LEMMA LoopsGiven ==
  ASSUME Scan!JobsAssumption, ScanShape, LoopsBehind
  PROVE  Scan!LoopsCounted
<1> DEFINE large(m, f, l) == Scan!Cardinality(Ending(m, ChainsOf(m, f, l))) > MIN_INST_NUM_FOR_LOOP
           lines == UNION {UNION {{[of |-> n, fn |-> f, place |-> l.blocks] :
                               l \in {k \in job.bitcodes[n].loops[f] :
                                        /\ f \notin job.bitcodes[n].lib /\ k.loc = "own"
                                        /\ large(job.bitcodes[n], f, k)}} :
                            f \in ScanFunc} : n \in 1..Len(job.bitcodes)}
<1>1. Scan!LoopsCounted <=> (at = "done" /\ detector = "complex-loop" => out = lines)
  BY Zenon DEF Scan!LoopsCounted, Scan!Done, Ending, ChainsOf, Longer, LoopChains, LoopPlaces, NextSites, CalledAt, CallsAt,
               IsPlain, Plain
<1> HIDE DEF large
<1>2. SUFFICES ASSUME at = "done", detector = "complex-loop" PROVE out = lines
  BY <1>1
<1>3. IsFiniteSet(ScanFunc) /\ MIN_INST_NUM_FOR_LOOP \in Nat
  BY ScanSets DEF Scan!JobsAssumption
<1>4. ASSUME NEW n, NEW j, IsFunction(n, j), NEW m, m = job.bitcodes[n], NEW f, f = m.order[j], NEW k
      PROVE  large(m, f, k) <=> Scan!LoopSize(m, f, k) > MIN_INST_NUM_FOR_LOOP
  <2>1. Scan!IsBitcode(m) /\ f \in ScanFunc
    BY <1>4, FunctionIs
  <2>2. Scan!LoopSize(m, f, k) = Cardinality(Ending(m, ChainsOf(m, f, k)))
    BY <1>3, <2>1, LoopCounted
  <2> QED
    BY <2>2, ScanSets DEF large
<1>5. \A l : l \in out <=> \E n, j : LoopLine(l, n, j)
  BY <1>2, AllPassed DEF LoopsBehind, LoopLine
<1>6. ASSUME NEW l, NEW n, NEW j, LoopLine(l, n, j) PROVE l \in lines
  <2>1. PICK m, f : m = job.bitcodes[n] /\ f = m.order[j]
    OBVIOUS
  <2>2. IsFunction(n, j) /\ n \in 1..Len(job.bitcodes) /\ f \in ScanFunc
    BY <1>6, <2>1, FunctionIs DEF LoopLine, IsFunction
  <2>3. PICK c \in Scan!ComplexLoops(m, f) : l = [of |-> n, fn |-> f, place |-> c.blocks]
    BY <1>6, <2>1 DEF LoopLine
  <2>4. c \in m.loops[f] /\ f \notin m.lib /\ c.loc = "own" /\ large(m, f, c)
    BY <1>4, <2>1, <2>2, <2>3 DEF Scan!ComplexLoops
  <2> QED
    BY <2>1, <2>2, <2>3, <2>4
<1>7. ASSUME NEW l \in lines PROVE \E n, j : LoopLine(l, n, j)
  <2>1. PICK n \in 1..Len(job.bitcodes) :
          \E f \in ScanFunc : \E c \in job.bitcodes[n].loops[f] :
            /\ f \notin job.bitcodes[n].lib /\ c.loc = "own" /\ large(job.bitcodes[n], f, c)
            /\ l = [of |-> n, fn |-> f, place |-> c.blocks]
    OBVIOUS
  <2>2. PICK f \in ScanFunc : \E c \in job.bitcodes[n].loops[f] :
            /\ f \notin job.bitcodes[n].lib /\ c.loc = "own" /\ large(job.bitcodes[n], f, c)
            /\ l = [of |-> n, fn |-> f, place |-> c.blocks]
    BY <2>1
  <2>3. PICK j : IsFunction(n, j) /\ f = job.bitcodes[n].order[j]
    BY InOrder DEF ScanShape
  <2>4. PICK m : m = job.bitcodes[n]
    OBVIOUS
  <2>5. PICK c \in m.loops[f] : /\ f \notin m.lib /\ c.loc = "own" /\ large(m, f, c)
                                /\ l = [of |-> n, fn |-> f, place |-> c.blocks]
    BY <2>2, <2>4
  <2>6. c \in Scan!ComplexLoops(m, f)
    BY <1>4, <2>3, <2>4, <2>5 DEF Scan!ComplexLoops
  <2> QED
    BY <2>3, <2>4, <2>5, <2>6 DEF LoopLine
<1> HIDE DEF lines
<1> QED
  BY <1>5, <1>6, <1>7

-----------------------------------------------------------------------------
(* The process that runs keeps its invariant.                              *)
ScanInv ==
  /\ ScanShape
  /\ LinesBehind /\ TraitsFound
  /\ UpgradesBehind /\ JudgementsBehind
  /\ LoopsBehind /\ UnsavedBehind
  /\ ReentrancyInv

DetectorsInv ==
  /\ process \in {"storage-gas", "privileges", "scan", "call-graph"}
  /\ process = "storage-gas" => GasInv
  /\ process = "privileges" => PrivilegeInv
  /\ process = "scan" => ScanInv
  /\ process = "call-graph" => CallGraphInv

LEMMA ScanInit ==
  ASSUME Scan!JobsAssumption, Scan!Init
  PROVE  ScanInv
BY ShapeInit, LinesInit, TraitsInit, VerdictsInit, LoopsInit, UnsavedInit, ReentrancyInit DEF ScanInv

LEMMA ScanNext ==
  ASSUME Scan!JobsAssumption, ScanInv, [Scan!Next]_Scan!vars
  PROVE  ScanInv'
<1>1. /\ ScanShape /\ LinesBehind /\ TraitsFound /\ UpgradesBehind /\ JudgementsBehind
      /\ LoopsBehind /\ UnsavedBehind /\ ReentrancyInv
  BY DEF ScanInv
<1>2. ScanShape'
  BY <1>1, ShapeNext
<1>3. LinesBehind' /\ TraitsFound'
  BY <1>1, LinesAlways, TraitsAlways
<1>4. UpgradesBehind' /\ JudgementsBehind'
  BY <1>1, VerdictsAlways
<1>5. LoopsBehind' /\ UnsavedBehind' /\ ReentrancyInv'
  BY <1>1, LoopsAlways, UnsavedAlways, ReentrancyAlways
<1> QED
  BY <1>2, <1>3, <1>4, <1>5 DEF ScanInv

LEMMA DetectorsInit == Init => DetectorsInv
<1> USE DetectorsAssumption DEF DetectorsAssumption
<1> SUFFICES ASSUME Init PROVE DetectorsInv
  OBVIOUS
<1>1. CASE process = "storage-gas" /\ Gas!Init
  BY <1>1, GasInit DEF DetectorsInv
<1>2. CASE process = "privileges" /\ Privileges!Init
  BY <1>2, PrivilegeInit DEF DetectorsInv
<1>3. CASE process = "scan" /\ Scan!Init
  BY <1>3, ScanInit DEF DetectorsInv
<1>4. CASE process = "call-graph" /\ CallGraph!Init
  BY <1>4, CallGraphInit DEF DetectorsInv
<1> QED
  BY <1>1, <1>2, <1>3, <1>4 DEF Init

LEMMA DetectorsNext == DetectorsInv /\ [Next]_vars => DetectorsInv'
<1> SUFFICES ASSUME DetectorsInv, [Next]_vars PROVE DetectorsInv'
  OBVIOUS
<1>1. process' = process /\ process \in {"storage-gas", "privileges", "scan", "call-graph"}
  BY DEF DetectorsInv, Next, vars
<1>2. CASE process = "storage-gas"
  <2>1. [Gas!Next]_Gas!vars
    BY <1>2 DEF Next, vars, OfGas, Gas!vars
  <2>2. GasInv'
    BY <1>2, <2>1, GasNext DEF DetectorsInv
  <2> QED
    BY <1>1, <1>2, <2>2 DEF DetectorsInv
<1>3. CASE process = "privileges"
  <2>1. [Privileges!Next]_Privileges!vars
    BY <1>3 DEF Next, vars, OfPrivileges, Privileges!vars
  <2>2. PrivilegeInv'
    BY <1>3, <2>1, PrivilegeNext DEF DetectorsInv
  <2> QED
    BY <1>1, <1>3, <2>2 DEF DetectorsInv
<1>4. CASE process = "scan"
  <2>1. [Scan!Next]_Scan!vars
    BY <1>4 DEF Next, vars, OfScan, Scan!vars
  <2>2. Scan!JobsAssumption
    BY DetectorsAssumption DEF DetectorsAssumption
  <2>3. ScanInv'
    BY <1>4, <2>1, <2>2, ScanNext DEF DetectorsInv
  <2> QED
    BY <1>1, <1>4, <2>3 DEF DetectorsInv
<1>5. CASE process = "call-graph"
  <2>1. [CallGraph!Next]_CallGraph!vars
    BY <1>5 DEF Next, vars, OfCallGraph, CallGraph!vars
  <2>2. CallGraphInv'
    BY <1>5, <2>1, CallGraphNext DEF DetectorsInv
  <2> QED
    BY <1>1, <1>5, <2>2 DEF DetectorsInv
<1> QED
  BY <1>1, <1>2, <1>3, <1>4, <1>5

(* The process that runs keeps its invariant in every state.               *)
THEOREM DetectorsInvariance == Spec => []DetectorsInv
<1>1. Spec => Init /\ [][Next]_vars
  BY PTL DEF Spec
<1> QED
  BY <1>1, DetectorsInit, DetectorsNext, PTL

LEMMA DetectorsTyped == DetectorsInv => TypeOK
<1> SUFFICES ASSUME DetectorsInv PROVE TypeOK
  OBVIOUS
<1>1. process = "storage-gas" => Gas!TypeOK
  BY GasTyping DEF DetectorsInv
<1>2. process = "privileges" => Privileges!TypeOK
  BY DEF DetectorsInv, PrivilegeInv
<1>3. process = "scan" => Scan!TypeOK
  BY DetectorsAssumption, ScanTyping DEF DetectorsAssumption, DetectorsInv, ScanInv
<1>4. process = "call-graph" => CallGraph!TypeOK
  BY CallGraphTyped DEF DetectorsInv
<1> QED
  BY <1>1, <1>2, <1>3, <1>4, Zenon DEF DetectorsInv, TypeOK

LEMMA DetectorsReport ==
  DetectorsInv => StorageGasReports /\ PrivilegeReports /\ ScanReports /\ ReentrancyReports
<1> SUFFICES ASSUME DetectorsInv PROVE StorageGasReports /\ PrivilegeReports /\ ScanReports /\ ReentrancyReports
  OBVIOUS
<1>1. Gas!ModulesAssumption /\ Scan!JobsAssumption
  BY DetectorsAssumption DEF DetectorsAssumption
<1>2. StorageGasReports
  BY <1>1, GasGives DEF DetectorsInv, StorageGasReports
<1>3. PrivilegeReports
  BY PrivilegeGives DEF DetectorsInv, PrivilegeReports
<1>4. ASSUME process = "scan"
      PROVE  /\ ScanShape /\ LinesBehind /\ TraitsFound /\ UpgradesBehind /\ JudgementsBehind
             /\ LoopsBehind /\ UnsavedBehind /\ ReentrancyInv
  BY <1>4 DEF DetectorsInv, ScanInv
<1>5. ScanReports
  BY <1>1, <1>4, MatchesGiven, ExtCallsGiven, VerdictsGiven, LoopsGiven, UnsavedGiven DEF ScanReports
<1>6. ReentrancyReports
  BY <1>1, <1>4, JustifiedGiven, StraightGiven DEF ReentrancyReports
<1> QED
  BY <1>2, <1>3, <1>5, <1>6

(* The state of the process that runs is well formed: the cursor of a scan *)
(* is in its bitcode whichever loop it leaves (timestamp.cpp:40-60 and its *)
(* like, ext_call_trait.cpp:54-57), and the search of storage-gas is at a  *)
(* function with the callers it still has to visit (near_core.cpp); the    *)
(* call stack of a query names its activations (near_core.cpp:195-198).    *)
THEOREM DetectorsTyping == Spec => []TypeOK
BY DetectorsInvariance, DetectorsTyped, PTL

(* storage-gas passes a function only for a look at the storage usage that *)
(* is in reach, warns of none that has one close by, and has one line for  *)
(* every function that expands the storage (storage_gas.cpp:66-92).        *)
THEOREM StorageGasReported == Spec => []StorageGasReports
BY DetectorsInvariance, DetectorsReport, PTL

(* yocto-attach reports what lacks the check and is no callback, and       *)
(* misses none before the first callback of the module; nft-owner-check    *)
(* has the verdict of the owner check in reach (yocto_attach.cpp:52-88,    *)
(* nft_owner_check.cpp:52-69).                                             *)
THEOREM PrivilegesReported == Spec => []PrivilegeReports
BY DetectorsInvariance, DetectorsReport, PTL

(* Every scan reports what it looks for, and nothing else, wherever it     *)
(* leaves its loops, ext-call only of the traits that come first in their  *)
(* bitcodes (timestamp.cpp:40-60 and its like, ext_call_trait.cpp:54-57,   *)
(* upgrade_func.cpp:62, complex_loop.cpp:43-98, unsaved_changes.cpp:       *)
(* 67-126).                                                                *)
THEOREM ScansReported == Spec => []ScanReports
BY DetectorsInvariance, DetectorsReport, PTL

(* reentrancy reports changes of state that are reached after a success,   *)
(* one in a function, and none is missed where no branch has a choice,     *)
(* whichever way the branches lead back (reentrancy.cpp:77-130).           *)
THEOREM ReentrancyReported == Spec => []ReentrancyReports
BY DetectorsInvariance, DetectorsReport, PTL

(* isFuncCallFuncRec answers about the target and its direct callees only  *)
(* (near_core.cpp:188-200).                                                *)
THEOREM OneCallAnswers == Spec => []AnswersOneCall
<1>1. DetectorsInv => AnswersOneCall
  BY DEF DetectorsInv, AnswersOneCall, CallGraphInv, CallGraph!AnswersOneCall
<1> QED
  BY <1>1, DetectorsInvariance, PTL

(* The recursion of isFuncCallFuncRec never takes place                    *)
(* (near_core.cpp:191-199).                                                *)
THEOREM NeverDescends == Spec => [](process = "call-graph" => CallGraph!OneLevel)
<1>1. DetectorsInv => (process = "call-graph" => CallGraph!OneLevel)
  BY CallGraphLevel DEF DetectorsInv
<1> QED
  BY <1>1, DetectorsInvariance, PTL
=============================================================================
