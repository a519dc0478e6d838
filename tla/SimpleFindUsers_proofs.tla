----------------------- MODULE SimpleFindUsers_proofs -----------------------
(***************************************************************************)
(* Theorems about SimpleFindUsers for every program, mode and use-list     *)
(* order: type correctness, soundness, completeness on return, bounded     *)
(* recursion, and the implementation of UserClosure.                       *)
(*                                                                         *)
(* The inductive invariant says where the work that is still missing is    *)
(* kept: a value of the set without an activation has all its followers    *)
(* in the set, and an activation has handled what its body has passed.     *)
(***************************************************************************)
EXTENDS SimpleFindUsers, SequenceTheorems, TLAPS

(* v is in S, or is a label, which a search ignores.                       *)
Covers(j, S, v) == IsLabel(j, v) \/ v \in S

(* Has the argument loop of activation f passed argument k?                *)
Passed(f, k) == f.at = "users" \/ k < f.i \/ (f.at = "into" /\ k = f.i)

(* The users an activation has left are users of its value.                *)
LeftUsers(j, f) == f.left \subseteq Users(j, f.value)

(* What the activation f has handled is in S.                              *)
HandledUsers(j, S, f) == \A u \in Users(j, f.value) \ f.left : Covers(j, S, u)

HandledPointer(j, S, f) ==
  IsStore(j, f.value) /\ f.at = "users" => Covers(j, S, Pointer(j, f.value))

HandledParams(j, S, f) ==
  IsDirect(j, f.value) /\ ~j.disable /\ ~j.restrict =>
    \A k \in 1..Len(j.ops[f.value]) : Passed(f, k) => Covers(j, S, j.params[f.value][k])

(* Where the body of an activation can be.                                 *)
InBody(j, f) ==
  /\ f.at = "cross" => IsCall(j, f.value)
  /\ f.at = "into" => IsCall(j, f.value) /\ f.i \in 1..Len(j.ops[f.value])
  /\ f.at = "pointer" => IsStore(j, f.value)
  /\ f.i > 0

Sound(j, S, f) ==
  /\ f.value \in S
  /\ InBody(j, f)
  /\ LeftUsers(j, f)
  /\ HandledUsers(j, S, f)
  /\ HandledPointer(j, S, f)
  /\ HandledParams(j, S, f)

FramesSound == \A k \in 1..Len(stack) : Sound(job, set, stack[k])

Active(v) == \E k \in 1..Len(stack) : stack[k].value = v

FinishedFollowed == \A v \in set : Active(v) \/ MustFollow(job, v) \subseteq set

NoLabels == \A v \in set : ~IsLabel(job, v)

IInv ==
  /\ TypeOK
  /\ FramesSound
  /\ FinishedFollowed
  /\ NoLabels
  /\ Start(job) \subseteq set
  /\ OnlyUsers
  /\ OneActivation

-----------------------------------------------------------------------------
(* The three changes of the stack, seen element by element.                *)
LEMMA ReplaceTop ==
  ASSUME NEW S, NEW s \in Seq(S), s # <<>>, NEW f \in S
  PROVE  LET t == [s EXCEPT ![Len(s)] = f]
         IN  /\ t \in Seq(S) /\ t # <<>> /\ Len(t) = Len(s)
             /\ t[Len(s)] = f
             /\ \A k \in 1..Len(s) - 1 : t[k] = s[k]
<1>1. Len(s) \in Nat \ {0}
  BY EmptySeq
<1>2. Len(s) \in 1..Len(s)
  BY <1>1
<1> QED
  BY <1>1, <1>2, ExceptSeq, EmptySeq

LEMMA PushTop ==
  ASSUME NEW S, NEW s \in Seq(S), NEW f \in S
  PROVE  /\ Append(s, f) \in Seq(S) /\ Append(s, f) # <<>>
         /\ Len(Append(s, f)) = Len(s) + 1
         /\ Append(s, f)[Len(s) + 1] = f
         /\ \A k \in 1..Len(s) : Append(s, f)[k] = s[k]
  OBVIOUS

LEMMA PopTop ==
  ASSUME NEW S, NEW s \in Seq(S), s # <<>>
  PROVE  LET t == SubSeq(s, 1, Len(s) - 1)
         IN  /\ t \in Seq(S)
             /\ Len(t) = Len(s) - 1
             /\ \A k \in 1..Len(s) - 1 : t[k] = s[k]
<1>1. Len(s) \in Nat \ {0}
  BY EmptySeq
<1>2. PICK n \in Nat : Len(s) - 1 = n /\ Len(s) = n + 1
  BY <1>1
<1>3. \A k \in 1..n : s[k] \in S
  BY <1>2, ElementOfSeq
<1>4. /\ SubSeq(s, 1, n) \in Seq(S)
      /\ Len(SubSeq(s, 1, n)) = IF 1 <= n THEN n - 1 + 1 ELSE 0
      /\ \A k \in 1..(n - 1 + 1) : SubSeq(s, 1, n)[k] = s[1 + k - 1]
  BY <1>3, SubSeqProperties
<1>5. n - 1 + 1 = n /\ (~(1 <= n) => n = 0) /\ \A k \in 1..n : 1 + k - 1 = k
  OBVIOUS
<1>6. /\ Len(SubSeq(s, 1, n)) = n
      /\ \A k \in 1..n : SubSeq(s, 1, n)[k] = s[k]
  BY <1>4, <1>5
<1> QED
  BY <1>2, <1>4, <1>6

-----------------------------------------------------------------------------
(* What the step facts are proved from.                                    *)
LEMMA JobFacts ==
  ASSUME NEW j, IsJob(j), NEW v \in Value
  PROVE  /\ j.ops[v] \in Seq(Value) /\ j.params[v] \in Seq(Value)
         /\ Len(j.ops[v]) \in Nat
         /\ Users(j, v) \subseteq Value
         /\ IsStore(j, v) => Pointer(j, v) \in Value
         /\ IsDirect(j, v) => \A k \in 1..Len(j.ops[v]) : j.params[v][k] \in Value
         /\ IsCall(j, v) => ~IsStore(j, v)
         /\ IsInto(j, v) => j.ops[v][1] \in Value
<1>1. /\ j.ops[v] \in Seq(Value) /\ j.params[v] \in Seq(Value)
      /\ IsStore(j, v) => Len(j.ops[v]) = 2
      /\ IsDirect(j, v) => Len(j.params[v]) = Len(j.ops[v])
  BY DEF IsJob, IsProgram, IsStore, IsDirect
<1>2. Len(j.ops[v]) \in Nat
  BY <1>1
<1>3. IsStore(j, v) => Pointer(j, v) \in Value
  BY <1>1, ElementOfSeq DEF Pointer
<1>4. IsDirect(j, v) => \A k \in 1..Len(j.ops[v]) : j.params[v][k] \in Value
  BY <1>1, ElementOfSeq
<1>5. IsInto(j, v) => j.ops[v][1] \in Value
  BY <1>1, <1>2, ElementOfSeq DEF IsInto
<1> QED
  BY <1>1, <1>2, <1>3, <1>4, <1>5 DEF Users, IsCall, IsStore

(* The activation of a value that has just been inserted is sound.         *)
LEMMA EnterSound ==
  ASSUME NEW j, IsJob(j), NEW v \in Value, NEW S, v \in S
  PROVE  Enter(j, v) \in Frame /\ Enter(j, v).value = v /\ Sound(j, S, Enter(j, v))
<1>1. Enter(j, v) \in Frame /\ Enter(j, v).value = v
  BY JobFacts DEF Enter, Frame, Phases
<1>2. InBody(j, Enter(j, v)) /\ LeftUsers(j, Enter(j, v)) /\ HandledUsers(j, S, Enter(j, v))
  BY DEF InBody, LeftUsers, HandledUsers, Enter
<1>3. HandledPointer(j, S, Enter(j, v))
  BY JobFacts DEF HandledPointer, Enter
<1>4. HandledParams(j, S, Enter(j, v))
  BY JobFacts DEF HandledParams, Passed, Enter, IsDirect
<1> QED
  BY <1>1, <1>2, <1>3, <1>4 DEF Sound

(* A larger set keeps an activation sound.                                 *)
LEMMA SoundMonotonic ==
  ASSUME NEW j, NEW f, NEW S, NEW T, S \subseteq T, Sound(j, S, f)
  PROVE  Sound(j, T, f)
BY DEF Sound, HandledUsers, HandledPointer, HandledParams, Covers

(* An activation that has passed its whole body has handled everything     *)
(* that must follow from its value.                                        *)
LEMMA HandledFollows ==
  ASSUME NEW j, NEW S, NEW f, IsJob(j), f.value \in Value,
         Sound(j, S, f), f.at = "users", f.left = {}
  PROVE  MustFollow(j, f.value) \subseteq S
BY DEF MustFollow, Sound, HandledUsers, HandledPointer, HandledParams, Passed, Covers

(* What may be added on account of a value may be added on account of it   *)
(* to a larger set.                                                        *)
LEMMA MayFollowMonotonic ==
  ASSUME NEW j, NEW S, NEW T, S \subseteq T, NEW u
  PROVE  MayFollow(j, S, u) \subseteq MayFollow(j, T, u)
BY DEF MayFollow

-----------------------------------------------------------------------------
(* A step that only advances the innermost activation keeps the invariant. *)
LEMMA NoVisitStep ==
  ASSUME IInv, stack # <<>>, NEW f \in Frame, f.value = Top.value,
         Sound(job, set, f), NoVisit(f), UNCHANGED job
  PROVE  IInv'
<1>0. stack \in Seq(Frame) /\ Len(stack) \in Nat \ {0}
  BY EmptySeq DEF IInv, TypeOK
<1>1. /\ stack' \in Seq(Frame) /\ Len(stack') = Len(stack)
      /\ stack'[Len(stack)] = f
      /\ \A k \in 1..Len(stack) - 1 : stack'[k] = stack[k]
  BY <1>0, ReplaceTop DEF NoVisit, Advance
<1>2. \A k \in 1..Len(stack) : stack'[k].value = stack[k].value
  BY <1>0, <1>1 DEF Top
<1>3. TypeOK'
  BY <1>1 DEF IInv, TypeOK, NoVisit
<1>4. FramesSound'
  <2> SUFFICES ASSUME NEW k \in 1..Len(stack)
               PROVE  Sound(job, set, stack'[k])
    BY <1>1 DEF FramesSound, NoVisit
  <2>1. CASE k = Len(stack)
    BY <2>1, <1>1
  <2>2. CASE k # Len(stack)
    BY <2>2, <1>0, <1>1 DEF IInv, FramesSound
  <2> QED
    BY <2>1, <2>2
<1>5. FinishedFollowed' /\ OneActivation'
  BY <1>1, <1>2 DEF IInv, FinishedFollowed, Active, OneActivation, NoVisit
<1>6. NoLabels' /\ (Start(job) \subseteq set)' /\ OnlyUsers'
  BY DEF IInv, NoLabels, OnlyUsers, NoVisit
<1> QED
  BY <1>3, <1>4, <1>5, <1>6 DEF IInv

(* A recursive call for a value that may be added keeps the invariant.     *)
LEMMA VisitStep ==
  ASSUME IInv, stack # <<>>, NEW f \in Frame, f.value = Top.value,
         NEW v \in Value, IsLabel(job, v) \/ v \in MayFollow(job, set, Top.value),
         \A S : set \subseteq S /\ Covers(job, S, v) => Sound(job, S, f),
         Visit(v, f), UNCHANGED job
  PROVE  IInv'
<1>0. /\ stack \in Seq(Frame) /\ Len(stack) \in Nat \ {0} /\ IsJob(job)
      /\ set \subseteq Value
  BY EmptySeq DEF IInv, TypeOK
<1>a. CASE IsLabel(job, v) \/ v \in set
  <2>1. NoVisit(f) /\ Sound(job, set, f)
    BY <1>a DEF Visit, NoVisit, Covers
  <2> QED
    BY <2>1, NoVisitStep
<1>b. CASE ~(IsLabel(job, v) \/ v \in set)
  <2> DEFINE e == Enter(job, v)
  <2>1. stack' = Append(Advance(f), e) /\ set' = set \cup {v} /\ job' = job
    BY <1>b DEF Visit
  <2>2. e \in Frame /\ e.value = v /\ Sound(job, set', e)
    BY <1>0, <2>1, EnterSound
  <2>3. /\ Advance(f) \in Seq(Frame) /\ Len(Advance(f)) = Len(stack)
        /\ Advance(f)[Len(stack)] = f
        /\ \A k \in 1..Len(stack) - 1 : Advance(f)[k] = stack[k]
    BY <1>0, ReplaceTop DEF Advance
  <2>4. /\ stack' \in Seq(Frame) /\ Len(stack') = Len(stack) + 1
        /\ stack'[Len(stack) + 1] = e
        /\ stack'[Len(stack)] = f
        /\ \A k \in 1..Len(stack) - 1 : stack'[k] = stack[k]
    <3> HIDE DEF e
    <3>1. /\ stack' \in Seq(Frame) /\ Len(stack') = Len(Advance(f)) + 1
          /\ stack'[Len(Advance(f)) + 1] = e
          /\ \A k \in 1..Len(Advance(f)) : stack'[k] = Advance(f)[k]
      BY <2>1, <2>2, <2>3, PushTop
    <3> QED
      BY <1>0, <2>3, <3>1
  <2>5. \A k \in 1..Len(stack) : stack'[k].value = stack[k].value
    BY <1>0, <2>4 DEF Top
  <2>6. TypeOK'
    BY <1>0, <2>1, <2>4 DEF TypeOK
  <2>7. FramesSound'
    <3> SUFFICES ASSUME NEW k \in 1..Len(stack) + 1
                 PROVE  Sound(job, set', stack'[k])
      BY <2>1, <2>4 DEF FramesSound
    <3>1. CASE k = Len(stack) + 1
      BY <3>1, <2>2, <2>4
    <3>2. CASE k = Len(stack)
      BY <3>2, <2>1, <2>4 DEF Covers
    <3>3. CASE k \in 1..Len(stack) - 1
      <4>1. Sound(job, set, stack[k]) /\ stack'[k] = stack[k]
        BY <3>3, <1>0, <2>4 DEF IInv, FramesSound
      <4> QED
        BY <4>1, <2>1, SoundMonotonic
    <3> QED
      BY <1>0, <3>1, <3>2, <3>3
  <2>8. FinishedFollowed'
    <3> SUFFICES ASSUME NEW w \in set', ~Active(w)'
                 PROVE  MustFollow(job, w) \subseteq set'
      BY <2>1 DEF FinishedFollowed
    <3>1. w # v
      BY <1>0, <2>2, <2>4 DEF Active
    <3>2. ~Active(w)
      BY <1>0, <2>4, <2>5 DEF Active
    <3> QED
      BY <3>1, <3>2, <2>1 DEF IInv, FinishedFollowed
  <2>9. OneActivation'
    <3>1. \A k \in 1..Len(stack) : stack'[k].value \in set
      BY <2>5 DEF IInv, FramesSound, Sound
    <3> SUFFICES ASSUME NEW k \in 1..Len(stack) + 1, NEW m \in 1..Len(stack) + 1,
                        stack'[k].value = stack'[m].value
                 PROVE  k = m
      BY <2>4 DEF OneActivation
    <3>2. stack'[Len(stack) + 1].value \notin set
      BY <1>b, <2>2, <2>4
    <3>3. CASE k \in 1..Len(stack) /\ m \in 1..Len(stack)
      BY <3>3, <2>5 DEF IInv, OneActivation
    <3> QED
      BY <1>0, <3>1, <3>2, <3>3
  <2>10. NoLabels' /\ (Start(job) \subseteq set)'
    BY <1>b, <2>1 DEF IInv, NoLabels
  <2>11. OnlyUsers'
    <3> SUFFICES ASSUME NEW S \in SUBSET Value, Start(job) \subseteq S, ClosedUnderMay(job, S)
                 PROVE  set' \subseteq S
      BY <2>1 DEF OnlyUsers
    <3>1. set \subseteq S
      BY DEF IInv, OnlyUsers
    <3>2. Top.value \in set
      BY <1>0 DEF IInv, FramesSound, Sound, Top
    <3>3. v \in MayFollow(job, S, Top.value)
      BY <1>b, <3>1, MayFollowMonotonic
    <3> QED
      BY <3>1, <3>2, <3>3, <2>1 DEF ClosedUnderMay
  <2> QED
    BY <2>6, <2>7, <2>8, <2>9, <2>10, <2>11 DEF IInv
<1> QED
  BY <1>a, <1>b

-----------------------------------------------------------------------------
(* The innermost activation and its job, as the action lemmas use them.    *)
LEMMA TopFacts ==
  ASSUME IInv, stack # <<>>
  PROVE  /\ IsJob(job) /\ Top \in Frame /\ Top.value \in Value
         /\ Top.value \in set /\ Sound(job, set, Top)
<1>1. stack \in Seq(Frame) /\ Len(stack) \in 1..Len(stack) /\ IsJob(job)
  BY EmptySeq DEF IInv, TypeOK
<1>2. Top \in Frame
  BY <1>1, ElementOfSeq DEF Top
<1>3. Sound(job, set, Top)
  BY <1>1 DEF IInv, FramesSound, Top
<1> QED
  BY <1>1, <1>2, <1>3 DEF Sound, Frame

(* What an action visits may follow from the innermost activation's value. *)
MayVisit(v) == v \in Value /\ (IsLabel(job, v) \/ v \in MayFollow(job, set, Top.value))

LEMMA CrossTarget ==
  ASSUME IInv, stack # <<>>, Top.at = "cross", MoreArgs(Top), Crosses(Top)
  PROVE  MayVisit(job.params[Top.value][Top.i])
<1>1. /\ IsJob(job) /\ Top \in Frame /\ Top.value \in Value /\ Sound(job, set, Top)
  BY TopFacts
<1>2. IsDirect(job, Top.value) /\ Top.i \in 1..Len(job.ops[Top.value])
  BY <1>1, JobFacts DEF Sound, InBody, MoreArgs, Frame, Crosses
<1>3. job.params[Top.value][Top.i] \in Value
  BY <1>1, <1>2, JobFacts
<1> QED
  BY <1>2, <1>3 DEF MayVisit, Crosses, MayFollow, MustFollow

LEMMA ConvertTarget ==
  ASSUME IInv, stack # <<>>, Converts(Top)
  PROVE  MayVisit(job.ops[Top.value][1])
BY TopFacts, JobFacts DEF MayVisit, Converts, MayFollow

LEMMA PointerTarget ==
  ASSUME IInv, stack # <<>>, Top.at = "pointer"
  PROVE  MayVisit(Pointer(job, Top.value))
BY TopFacts, JobFacts DEF MayVisit, Sound, InBody, MayFollow, MustFollow

LEMMA UserTarget ==
  ASSUME IInv, stack # <<>>, NEW v \in Top.left
  PROVE  MayVisit(v)
BY TopFacts DEF MayVisit, Sound, LeftUsers, Frame, Users, MayFollow, MustFollow

LEMMA CrossFunctionStep == ASSUME IInv, CrossFunction PROVE IInv'
<1> DEFINE u == Top.value
           f == [Top EXCEPT !.at = "into"]
           v == job.params[u][Top.i]
<1>1. /\ stack # <<>> /\ Top.at = "cross" /\ MoreArgs(Top) /\ UNCHANGED job
      /\ IF Crosses(Top) THEN Visit(v, f) ELSE NoVisit(f)
  BY DEF CrossFunction
<1>2. /\ IsJob(job) /\ Top \in Frame /\ u \in Value /\ u \in set /\ Sound(job, set, Top)
  BY <1>1, TopFacts
<1>3. /\ f \in Frame /\ f.value = u /\ f.at = "into" /\ f.i = Top.i /\ f.left = Top.left
  BY <1>2 DEF Frame, Phases
<1>4. IsCall(job, u) /\ ~IsStore(job, u) /\ Top.i \in 1..Len(job.ops[u])
  BY <1>1, <1>2, JobFacts DEF Sound, InBody, LeftUsers, MoreArgs, Frame
<1>5. ASSUME NEW S, set \subseteq S, Crosses(Top) => Covers(job, S, v)
      PROVE  Sound(job, S, f)
  <2>1. u \in S /\ InBody(job, f) /\ LeftUsers(job, f)
    BY <1>2, <1>3, <1>4, <1>5 DEF Sound, InBody, LeftUsers, Frame
  <2>2. HandledUsers(job, S, f) /\ HandledPointer(job, S, f)
    BY <1>2, <1>3, <1>4, <1>5 DEF Sound, HandledUsers, HandledPointer, Covers
  <2>3. HandledParams(job, S, f)
    <3> SUFFICES ASSUME IsDirect(job, u), ~job.disable, ~job.restrict,
                        NEW k \in 1..Len(job.ops[u]), Passed(f, k)
                 PROVE  Covers(job, S, job.params[u][k])
      BY <1>3 DEF HandledParams
    <3>1. CASE k = Top.i
      BY <3>1, <1>5 DEF Crosses
    <3>2. CASE k # Top.i
      BY <3>2, <1>1, <1>2, <1>3, <1>4, <1>5 DEF Passed, Sound, HandledParams, Covers
    <3> QED
      BY <3>1, <3>2
  <2> QED
    BY <2>1, <2>2, <2>3, <1>3 DEF Sound
<1>6. CASE Crosses(Top)
  <2>1. MayVisit(v) /\ Visit(v, f)
    BY <1>1, <1>6, CrossTarget
  <2> HIDE DEF u, f, v
  <2> QED
    BY <2>1, <1>1, <1>3, <1>5, <1>6, VisitStep DEF u, MayVisit
<1>7. CASE ~Crosses(Top)
  BY <1>1, <1>3, <1>5, <1>7, NoVisitStep
<1> QED
  BY <1>6, <1>7

LEMMA ConvertIntoStep == ASSUME IInv, ConvertInto PROVE IInv'
<1> DEFINE u == Top.value
           f == [Top EXCEPT !.at = "cross", !.i = @ + 1]
           v == job.ops[u][1]
<1>1. /\ stack # <<>> /\ Top.at = "into" /\ UNCHANGED job
      /\ IF Converts(Top) THEN Visit(v, f) ELSE NoVisit(f)
  BY DEF ConvertInto
<1>2. /\ IsJob(job) /\ Top \in Frame /\ u \in Value /\ u \in set /\ Sound(job, set, Top)
  BY <1>1, TopFacts
<1>3. /\ f \in Frame /\ f.value = u /\ f.at = "cross" /\ f.i = Top.i + 1 /\ f.left = Top.left
  <2> DEFINE g == [Top EXCEPT !.at = "cross"]
  <2>1. /\ g \in Frame /\ g.value = u /\ g.at = "cross" /\ g.i = Top.i /\ g.left = Top.left
    BY <1>2 DEF Frame, Phases
  <2>2. f = [g EXCEPT !.i = g.i + 1]
    BY <2>1
  <2> HIDE DEF f, g
  <2> QED
    BY <2>1, <2>2 DEF Frame
<1>4. IsCall(job, u) /\ ~IsStore(job, u) /\ Top.i \in 1..Len(job.ops[u]) /\ Top.i \in Nat
  BY <1>1, <1>2, JobFacts DEF Sound, InBody, LeftUsers, Frame
<1>5. ASSUME NEW S, set \subseteq S
      PROVE  Sound(job, S, f)
  <2>1. Sound(job, S, Top)
    BY <1>2, <1>5, SoundMonotonic
  <2>2. InBody(job, f) /\ LeftUsers(job, f) /\ HandledUsers(job, S, f) /\ HandledPointer(job, S, f)
    BY <2>1, <1>3, <1>4 DEF Sound, InBody, LeftUsers, HandledUsers, HandledPointer
  <2>3. HandledParams(job, S, f)
    BY <2>1, <1>1, <1>3, <1>4 DEF Sound, HandledParams, Passed
  <2> QED
    BY <2>1, <2>2, <2>3, <1>3 DEF Sound
<1>6. CASE Converts(Top)
  <2>1. MayVisit(v) /\ Visit(v, f)
    BY <1>1, <1>6, ConvertTarget
  <2> HIDE DEF u, f, v
  <2> QED
    BY <2>1, <1>1, <1>3, <1>5, VisitStep DEF u, MayVisit
<1>7. CASE ~Converts(Top)
  BY <1>1, <1>3, <1>5, <1>7, NoVisitStep
<1> QED
  BY <1>6, <1>7

LEMMA ArgsDoneStep == ASSUME IInv, ArgsDone PROVE IInv'
<1> DEFINE f == [Top EXCEPT !.at = "users"]
<1>1. stack # <<>> /\ Top.at = "cross" /\ ~MoreArgs(Top) /\ NoVisit(f) /\ UNCHANGED job
  BY DEF ArgsDone
<1>2. /\ IsJob(job) /\ Top \in Frame /\ Top.value \in Value /\ Sound(job, set, Top)
  BY <1>1, TopFacts
<1>3. /\ f \in Frame /\ f.value = Top.value /\ f.at = "users" /\ f.i = Top.i /\ f.left = Top.left
  BY <1>2 DEF Frame, Phases
<1>4. Len(job.ops[Top.value]) \in Nat /\ Top.i \in Nat /\ ~IsStore(job, Top.value)
  BY <1>1, <1>2, JobFacts DEF Frame, Sound, InBody
<1>5. InBody(job, f) /\ LeftUsers(job, f) /\ HandledUsers(job, set, f) /\ HandledPointer(job, set, f)
  BY <1>2, <1>3, <1>4 DEF Sound, InBody, LeftUsers, HandledUsers, HandledPointer
<1>6. HandledParams(job, set, f)
  BY <1>1, <1>2, <1>3, <1>4 DEF Sound, HandledParams, Passed, MoreArgs
<1> QED
  BY <1>1, <1>2, <1>3, <1>5, <1>6, NoVisitStep DEF Sound

LEMMA StorePointerStep == ASSUME IInv, StorePointer PROVE IInv'
<1> DEFINE u == Top.value
           f == [Top EXCEPT !.at = "users"]
           v == Pointer(job, u)
<1>1. stack # <<>> /\ Top.at = "pointer" /\ Visit(v, f) /\ UNCHANGED job
  BY DEF StorePointer
<1>2. /\ IsJob(job) /\ Top \in Frame /\ u \in Value /\ u \in set /\ Sound(job, set, Top)
  BY <1>1, TopFacts
<1>3. /\ f \in Frame /\ f.value = u /\ f.at = "users" /\ f.i = Top.i /\ f.left = Top.left
  BY <1>2 DEF Frame, Phases
<1>4. IsStore(job, u) /\ ~IsDirect(job, u) /\ v \in Value
  BY <1>1, <1>2, JobFacts DEF Sound, InBody, LeftUsers, IsDirect
<1>5. ASSUME NEW S, set \subseteq S, Covers(job, S, v)
      PROVE  Sound(job, S, f)
  <2>1. Sound(job, S, Top)
    BY <1>2, <1>5, SoundMonotonic
  <2> QED
    BY <2>1, <1>3, <1>4, <1>5
    DEF Sound, InBody, LeftUsers, HandledUsers, HandledPointer, HandledParams
<1>6. MayVisit(v)
  BY <1>1, PointerTarget
<1> HIDE DEF u, f, v
<1> QED
  BY <1>1, <1>3, <1>5, <1>6, VisitStep DEF u, MayVisit

LEMMA VisitUserStep == ASSUME IInv, VisitUser PROVE IInv'
<1>1. stack # <<>> /\ Top.at = "users" /\ UNCHANGED job
  BY DEF VisitUser
<1>2. PICK v \in Top.left : Visit(v, [Top EXCEPT !.left = @ \ {v}])
  BY DEF VisitUser
<1> DEFINE u == Top.value
           f == [Top EXCEPT !.left = @ \ {v}]
<1>3. /\ IsJob(job) /\ Top \in Frame /\ u \in Value /\ u \in set /\ Sound(job, set, Top)
  BY <1>1, TopFacts
<1>4. /\ f \in Frame /\ f.value = u /\ f.at = "users" /\ f.i = Top.i
      /\ f.left = Top.left \ {v} /\ v \in Value
  BY <1>1, <1>2, <1>3 DEF Frame, Phases
<1>5. ASSUME NEW S, set \subseteq S, Covers(job, S, v)
      PROVE  Sound(job, S, f)
  <2>1. Sound(job, S, Top)
    BY <1>3, <1>5, SoundMonotonic
  <2>2. HandledUsers(job, S, f)
    BY <2>1, <1>4, <1>5 DEF Sound, HandledUsers
  <2> QED
    BY <2>1, <2>2, <1>1, <1>4 DEF Sound, InBody, LeftUsers, HandledPointer, HandledParams, Passed
<1>6. MayVisit(v)
  BY <1>1, UserTarget
<1> HIDE DEF u, f
<1> QED
  BY <1>1, <1>2, <1>4, <1>5, <1>6, VisitStep DEF u, f, MayVisit

LEMMA ReturnStep == ASSUME IInv, Return PROVE IInv'
<1>1. /\ stack # <<>> /\ Top.at = "users" /\ Top.left = {}
      /\ stack' = SubSeq(stack, 1, Len(stack) - 1) /\ UNCHANGED <<job, set>>
  BY DEF Return
<1>2. stack \in Seq(Frame) /\ Len(stack) \in Nat \ {0}
  BY <1>1, EmptySeq DEF IInv, TypeOK
<1>3. /\ stack' \in Seq(Frame) /\ Len(stack') = Len(stack) - 1
      /\ \A k \in 1..Len(stack) - 1 : stack'[k] = stack[k]
  BY <1>1, <1>2, PopTop
<1>4. TypeOK' /\ FramesSound' /\ OneActivation'
  BY <1>1, <1>2, <1>3 DEF IInv, TypeOK, FramesSound, OneActivation
<1>5. FinishedFollowed'
  <2> SUFFICES ASSUME NEW w \in set, ~Active(w)'
               PROVE  MustFollow(job, w) \subseteq set
    BY <1>1 DEF FinishedFollowed
  <2>1. CASE w = Top.value
    BY <2>1, <1>1, TopFacts, HandledFollows
  <2>2. CASE w # Top.value
    BY <2>2, <1>2, <1>3 DEF IInv, FinishedFollowed, Active, Top
  <2> QED
    BY <2>1, <2>2
<1>6. NoLabels' /\ (Start(job) \subseteq set)' /\ OnlyUsers'
  BY <1>1 DEF IInv, NoLabels, OnlyUsers
<1> QED
  BY <1>4, <1>5, <1>6 DEF IInv

LEMMA InitInv == Init => IInv
<1> SUFFICES ASSUME Init PROVE IInv
  OBVIOUS
<1>1. IsJob(job) /\ set = Start(job) /\ set \subseteq {job.root} /\ job.root \in Value
  BY JobsAssumption DEF Init, IsJob, Start
<1>2. CASE set = {}
  <2>1. stack = <<>> /\ Len(stack) = 0
    BY <1>2 DEF Init
  <2> QED
    BY <1>1, <1>2, <2>1, EmptySeq DEF IInv, TypeOK, FramesSound, FinishedFollowed,
      NoLabels, OnlyUsers, OneActivation
<1>3. CASE set # {}
  <2>1. set = {job.root} /\ ~IsLabel(job, job.root)
    BY <1>1, <1>3 DEF Start
  <2>2. stack = <<Enter(job, job.root)>> /\ Len(stack) = 1 /\ stack[1] = Enter(job, job.root)
    BY <1>3 DEF Init
  <2>3. /\ Enter(job, job.root) \in Frame /\ Enter(job, job.root).value = job.root
        /\ Sound(job, set, Enter(job, job.root))
    BY <1>1, <2>1, EnterSound
  <2>4. TypeOK /\ FramesSound /\ FinishedFollowed
    BY <1>1, <2>1, <2>2, <2>3 DEF TypeOK, FramesSound, FinishedFollowed, Active
  <2>5. NoLabels /\ OnlyUsers /\ OneActivation
    BY <1>1, <2>1, <2>2 DEF NoLabels, OnlyUsers, OneActivation
  <2> QED
    BY <1>1, <2>4, <2>5 DEF IInv
<1> QED
  BY <1>2, <1>3

LEMMA NextInv == IInv /\ [Next]_vars => IInv'
<1> SUFFICES ASSUME IInv, [Next]_vars PROVE IInv'
  OBVIOUS
<1>1. CASE CrossFunction
  BY <1>1, CrossFunctionStep
<1>2. CASE ConvertInto
  BY <1>2, ConvertIntoStep
<1>3. CASE ArgsDone
  BY <1>3, ArgsDoneStep
<1>4. CASE StorePointer
  BY <1>4, StorePointerStep
<1>5. CASE VisitUser
  BY <1>5, VisitUserStep
<1>6. CASE Return
  BY <1>6, ReturnStep
<1>7. CASE UNCHANGED vars
  BY <1>7 DEF vars, IInv, TypeOK, FramesSound, FinishedFollowed, Active, NoLabels,
    OnlyUsers, OneActivation
<1> QED
  BY <1>1, <1>2, <1>3, <1>4, <1>5, <1>6, <1>7 DEF Next

-----------------------------------------------------------------------------
(* The inductive invariant holds of every search.                          *)
THEOREM Invariance == Spec => []IInv
BY InitInv, NextInv, PTL DEF Spec

(* The state of the search is always well formed: near_core.cpp:8-35 reads *)
(* only arguments and parameters that exist.                               *)
THEOREM TypeCorrect == Spec => []TypeOK
<1>1. IInv => TypeOK
  BY DEF IInv
<1> QED
  BY <1>1, Invariance, PTL

(* Nothing enters the result of simpleFindUsers but what flows from the    *)
(* value asked about, whatever the order of the use lists.                 *)
THEOREM Soundness == Spec => []OnlyUsers
<1>1. IInv => OnlyUsers
  BY DEF IInv
<1> QED
  BY <1>1, Invariance, PTL

(* When simpleFindUsers returns, no user, no store pointer and, in the     *)
(* unrestricted mode, no parameter is missing from its result.             *)
THEOREM Completeness == Spec => []NothingMissing
<1>1. IInv => NothingMissing
  BY EmptySeq DEF IInv, NothingMissing, Done, FinishedFollowed, Active, ClosedUnderMust
<1> QED
  BY <1>1, Invariance, PTL

(* No value has two activations of simpleFindUsers, so that the recursion  *)
(* is never deeper than the module has values.                             *)
THEOREM BoundedRecursion == Spec => []OneActivation
<1>1. IInv => OneActivation
  BY DEF IInv
<1> QED
  BY <1>1, Invariance, PTL

-----------------------------------------------------------------------------
(* The closure's notions of the flow are the search's.                     *)
LEMMA SameFlow ==
  /\ \A j : Closure!Start(j) = Start(j)
  /\ \A j, u : Closure!MustFollow(j, u) = MustFollow(j, u)
  /\ \A j, S, u : Closure!MayFollow(j, S, u) = MayFollow(j, S, u)
  /\ \A j, S : Closure!ClosedUnderMust(j, S) = ClosedUnderMust(j, S)
<1>1. \A j : Closure!Start(j) = Start(j)
  BY DEF Closure!Start, Start, Closure!IsLabel, IsLabel
<1>2. \A j, u : Closure!MustFollow(j, u) = MustFollow(j, u)
  BY DEF Closure!MustFollow, MustFollow, Closure!IsLabel, IsLabel, Closure!Users, Users,
    Closure!IsStore, IsStore, Closure!Pointer, Pointer, Closure!IsDirect, IsDirect,
    Closure!IsCall, IsCall
<1>3. \A j, S, u : Closure!MayFollow(j, S, u) = MayFollow(j, S, u)
  BY <1>2 DEF Closure!MayFollow, MayFollow, Closure!IsLabel, IsLabel, Closure!IsInto, IsInto,
    Closure!IsDirect, IsDirect, Closure!IsCall, IsCall
<1>4. \A j, S : Closure!ClosedUnderMust(j, S) = ClosedUnderMust(j, S)
  BY <1>2 DEF Closure!ClosedUnderMust, ClosedUnderMust
<1> QED
  BY <1>1, <1>2, <1>3, <1>4

(* A recursive call does to the set what a step of the closure does, or    *)
(* nothing, and the search goes on.                                        *)
LEMMA VisitGrows ==
  ASSUME IInv, stack # <<>>, NEW f, NEW v, MayVisit(v), Visit(v, f), UNCHANGED job
  PROVE  [Closure!Next]_<<job, set, Done>>
<1>1. stack \in Seq(Frame \cup {f})
  BY SeqMonotonic DEF IInv, TypeOK
<1>2. Advance(f) \in Seq(Frame \cup {f}) /\ Advance(f) # <<>>
  BY <1>1, ReplaceTop DEF Advance
<1>3. Append(Advance(f), Enter(job, v)) # <<>>
  BY <1>2, SeqMonotonic
<1>4. Top.value \in set
  BY TopFacts
<1>5. CASE IsLabel(job, v) \/ v \in set
  BY <1>2, <1>5 DEF Visit, Done
<1>6. CASE ~(IsLabel(job, v) \/ v \in set)
  <2>1. set' = set \cup {v} /\ stack' # <<>> /\ UNCHANGED job
    BY <1>3, <1>6 DEF Visit
  <2>2. v \in Closure!MayFollow(job, set, Top.value)
    BY <1>6, SameFlow DEF MayVisit
  <2> QED
    BY <2>1, <2>2, <1>4 DEF Done, Closure!Next, Closure!Grow
<1> QED
  BY <1>5, <1>6

LEMMA NoVisitStutters ==
  ASSUME IInv, stack # <<>>, NEW f, NoVisit(f), UNCHANGED job
  PROVE  UNCHANGED <<job, set, Done>>
<1>1. stack \in Seq(Frame \cup {f})
  BY SeqMonotonic DEF IInv, TypeOK
<1> QED
  BY <1>1, ReplaceTop DEF NoVisit, Advance, Done

LEMMA ReturnReports ==
  ASSUME IInv, IInv', Return
  PROVE  [Closure!Next]_<<job, set, Done>>
<1>1. stack # <<>> /\ UNCHANGED <<job, set>>
  BY DEF Return
<1>2. CASE stack' # <<>>
  BY <1>1, <1>2 DEF Done
<1>3. CASE stack' = <<>>
  <2>1. ClosedUnderMust(job, set)
    BY <1>1, <1>3, EmptySeq DEF IInv, FinishedFollowed, Active, ClosedUnderMust
  <2> QED
    BY <2>1, <1>1, <1>3, SameFlow DEF Done, Closure!Next, Closure!Report
<1> QED
  BY <1>2, <1>3

(* simpleFindUsers implements the growth of a user closure: it adds what   *)
(* may follow from what it has, and returns when nothing that must follow  *)
(* is missing.                                                             *)
THEOREM Refinement == Spec => ClosureSpec
<1>1. Init => Closure!Init
  <2> SUFFICES ASSUME Init PROVE Closure!Init
    OBVIOUS
  <2>1. job \in Jobs /\ set = Closure!Start(job)
    BY SameFlow DEF Init
  <2>2. Done = FALSE \/ Done = (set = {})
    BY DEF Init, Done
  <2> QED
    BY <2>1, <2>2 DEF Closure!Init
<1>2. IInv /\ IInv' /\ [Next]_vars => [Closure!Next]_(Closure!vars)
  <2> SUFFICES ASSUME IInv, IInv', [Next]_vars
               PROVE  [Closure!Next]_<<job, set, Done>>
    BY DEF Closure!vars
  <2>1. CASE CrossFunction
    BY <2>1, CrossTarget, VisitGrows, NoVisitStutters DEF CrossFunction
  <2>2. CASE ConvertInto
    BY <2>2, ConvertTarget, VisitGrows, NoVisitStutters DEF ConvertInto
  <2>3. CASE ArgsDone
    BY <2>3, NoVisitStutters DEF ArgsDone
  <2>4. CASE StorePointer
    BY <2>4, PointerTarget, VisitGrows DEF StorePointer
  <2>5. CASE VisitUser
    BY <2>5, UserTarget, VisitGrows DEF VisitUser
  <2>6. CASE Return
    BY <2>6, ReturnReports
  <2>7. CASE UNCHANGED vars
    BY <2>7 DEF vars, Done
  <2> QED
    BY <2>1, <2>2, <2>3, <2>4, <2>5, <2>6, <2>7 DEF Next
<1> QED
  BY <1>1, <1>2, Invariance, PTL DEF Spec, ClosureSpec, Closure!Spec
=============================================================================
