--------------------------- MODULE Pipeline_proofs ---------------------------
(***************************************************************************)
(* Theorems about the driver and its intermediate files, for any number of *)
(* runs, seconds, bitcodes and lists of detectors.                         *)
(*                                                                         *)
(* First the lists: what the substitutions of the groups make of them, a   *)
(* fold whose steps replace one group each.  Then the files of a directory *)
(* as a make goes on (Kept).  Last the runs: each step changes one run and *)
(* its directory only (Local) and gives them values that fit (Values), so  *)
(* that runs with another directory keep what is said of them.             *)
(***************************************************************************)
EXTENDS Pipeline, SumTheorems, SequenceTheorems

-----------------------------------------------------------------------------
(* The substitutions of the groups (rustle:179-192) make a list of a list. *)
(* First what FlattenSeq computes: f[i] joins the first i sequences.       *)
JoinedTo(ss, f, i) == IF i = 1 THEN ss[i] ELSE f[i - 1] \o ss[i]
Joins(ss, f, n) == f = [i \in 1..n |-> JoinedTo(ss, f, i)]

LEMMA JoinsExist ==
  ASSUME NEW ss, NEW n \in Nat
  PROVE  \E f : Joins(ss, f, n)
<1> DEFINE B == {m \in Nat : ~ \E f : Joins(ss, f, m)}
<1>1. Joins(ss, [i \in 1..0 |-> 0], 0)
  BY DEF Joins
<1>2. ASSUME NEW m \in Nat, NEW f, Joins(ss, f, m) PROVE \E h : Joins(ss, h, m + 1)
  <2> DEFINE h == [i \in 1..(m + 1) |-> JoinedTo(ss, f, i)]
  <2>1. \A i \in 1..m : h[i] = f[i]
    BY <1>2 DEF Joins
  <2> HIDE DEF h
  <2>2. \A i \in 1..(m + 1) : i # 1 => i - 1 \in 1..m
    OBVIOUS
  <2>3. \A i \in 1..(m + 1) : JoinedTo(ss, h, i) = JoinedTo(ss, f, i)
    BY <2>1, <2>2 DEF JoinedTo
  <2>4. Joins(ss, h, m + 1)
    BY <2>3 DEF Joins, h
  <2> QED
    BY <2>4
<1>3. SUFFICES ASSUME B # {} PROVE FALSE
  OBVIOUS
<1>4. PICK m \in B : m = 0 \/ m - 1 \notin B
  <2>1. B \in SUBSET Nat
    OBVIOUS
  <2> HIDE DEF B
  <2> QED
    BY <1>3, <2>1, LeastNat
<1>5. m # 0 /\ m - 1 \in Nat /\ m - 1 \notin B
  BY <1>1, <1>4
<1>6. \E f : Joins(ss, f, m - 1)
  BY <1>5
<1>7. \E h : Joins(ss, h, (m - 1) + 1)
  BY <1>2, <1>5, <1>6
<1>8. (m - 1) + 1 = m
  BY <1>4
<1> QED
  BY <1>4, <1>7, <1>8

LEMMA RangeOfJoined ==
  ASSUME NEW s \in Seq(UserNames), NEW t \in Seq(UserNames)
  PROVE  s \o t \in Seq(UserNames) /\ \A x : x \in RangeOf(s \o t) <=> x \in RangeOf(s) \/ x \in RangeOf(t)
<1>1. s \o t \in Seq(UserNames) /\ Len(s \o t) = Len(s) + Len(t) /\ Len(s) \in Nat /\ Len(t) \in Nat
  OBVIOUS
<1>2. \A k \in 1..Len(s) : (s \o t)[k] = s[k]
  OBVIOUS
<1>3. \A k \in 1..Len(t) : (s \o t)[Len(s) + k] = t[k]
  OBVIOUS
<1>4. ASSUME NEW x, x \in RangeOf(s \o t) PROVE x \in RangeOf(s) \/ x \in RangeOf(t)
  <2>1. PICK k \in 1..Len(s \o t) : x = (s \o t)[k]
    BY <1>4 DEF RangeOf
  <2>2. CASE k <= Len(s)
    BY <1>1, <1>2, <2>1, <2>2 DEF RangeOf
  <2>3. CASE ~(k <= Len(s))
    <3>1. k - Len(s) \in 1..Len(t) /\ Len(s) + (k - Len(s)) = k
      BY <1>1, <2>1, <2>3
    <3> QED
      BY <1>3, <2>1, <3>1 DEF RangeOf
  <2> QED
    BY <2>2, <2>3
<1>5. ASSUME NEW x, x \in RangeOf(s) PROVE x \in RangeOf(s \o t)
  BY <1>1, <1>2, <1>5 DEF RangeOf
<1>6. ASSUME NEW x, x \in RangeOf(t) PROVE x \in RangeOf(s \o t)
  <2>1. PICK k \in 1..Len(t) : x = t[k]
    BY <1>6 DEF RangeOf
  <2>2. Len(s) + k \in 1..Len(s \o t)
    BY <1>1
  <2> QED
    BY <1>3, <2>1, <2>2 DEF RangeOf
<1> QED
  BY <1>1, <1>4, <1>5, <1>6

(* What has been joined up to i.                                           *)
Joined(ss, s, i) ==
  s \in Seq(UserNames) /\ \A x : x \in RangeOf(s) <=> \E j \in 1..i : x \in RangeOf(ss[j])

LEMMA JoinsNames ==
  ASSUME NEW n \in Nat, NEW ss, \A i \in 1..n : ss[i] \in Seq(UserNames), NEW f, Joins(ss, f, n)
  PROVE  \A i \in 1..n : Joined(ss, f[i], i)
<1> DEFINE B == {i \in 1..n : ~Joined(ss, f[i], i)}
<1>1. SUFFICES ASSUME B # {} PROVE FALSE
  OBVIOUS
<1>2. PICK i \in B : i = 0 \/ i - 1 \notin B
  <2>1. B \in SUBSET Nat
    OBVIOUS
  <2> HIDE DEF B
  <2> QED
    BY <1>1, <2>1, LeastNat
<1>3. i \in 1..n /\ f[i] = IF i = 1 THEN ss[i] ELSE f[i - 1] \o ss[i]
  BY <1>2 DEF Joins, JoinedTo
<1>4. CASE i = 1
  BY <1>2, <1>3, <1>4 DEF Joined
<1>5. CASE i # 1
  <2>1. i - 1 \in 1..n /\ Joined(ss, f[i - 1], i - 1)
    BY <1>2, <1>3, <1>5
  <2>2. f[i] = f[i - 1] \o ss[i] /\ f[i - 1] \in Seq(UserNames) /\ ss[i] \in Seq(UserNames)
    BY <1>3, <1>5, <2>1 DEF Joined
  <2>3. f[i] \in Seq(UserNames) /\ \A x : x \in RangeOf(f[i]) <=> x \in RangeOf(f[i - 1]) \/ x \in RangeOf(ss[i])
    BY <2>2, RangeOfJoined
  <2>4. \A j : j \in 1..i <=> j \in 1..(i - 1) \/ j = i
    BY <1>3, <2>1
  <2>5. Joined(ss, f[i], i)
    BY <2>1, <2>3, <2>4 DEF Joined
  <2> QED
    BY <1>2, <2>5
<1> QED
  BY <1>4, <1>5

LEMMA Flattened ==
  ASSUME NEW ss \in Seq(Seq(UserNames))
  PROVE  Joined(ss, FlattenSeq(ss), Len(ss))
<1>1. Len(ss) \in Nat /\ \A i \in 1..Len(ss) : ss[i] \in Seq(UserNames)
  OBVIOUS
<1>2. CASE Len(ss) = 0
  BY <1>2 DEF FlattenSeq, Joined, RangeOf
<1>3. CASE Len(ss) # 0
  <2> DEFINE f == CHOOSE f : Joins(ss, f, Len(ss))
  <2>1. Joins(ss, f, Len(ss))
    BY <1>1, JoinsExist
  <2>2. FlattenSeq(ss) = f[Len(ss)]
    BY <1>3 DEF FlattenSeq, Joins, JoinedTo
  <2> HIDE DEF f
  <2>3. Joined(ss, f[Len(ss)], Len(ss))
    BY <1>1, <1>3, <2>1, JoinsNames
  <2> QED
    BY <2>2, <2>3
<1> QED
  BY <1>2, <1>3

-----------------------------------------------------------------------------
(* One substitution: the names of the list but the group, and those the    *)
(* group stands for if the list has it.                                    *)
Names(list, group) ==
  (RangeOf(list) \ {group}) \cup (IF group \in RangeOf(list) THEN RangeOf(Expansion(group)) ELSE {})

LEMMA ExpandedNames ==
  ASSUME NEW list \in Seq(UserNames), NEW group, Expansion(group) \in Seq(UserNames)
  PROVE  Expanded(list, group) \in Seq(UserNames) /\ RangeOf(Expanded(list, group)) = Names(list, group)
<1> DEFINE ss == [k \in 1..Len(list) |-> IF list[k] = group THEN Expansion(group) ELSE <<list[k]>>]
<1>1. ss \in Seq(Seq(UserNames)) /\ Len(ss) = Len(list)
  <2>1. \A k \in 1..Len(list) : list[k] \in UserNames /\ <<list[k]>> \in Seq(UserNames)
    OBVIOUS
  <2>2. Len(list) \in Nat
    OBVIOUS
  <2>3. \A k \in 1..Len(list) : (IF list[k] = group THEN Expansion(group) ELSE <<list[k]>>) \in Seq(UserNames)
    BY <2>1
  <2> QED
    BY <2>2, <2>3
<1>2. \A j \in 1..Len(list) : ss[j] = IF list[j] = group THEN Expansion(group) ELSE <<list[j]>>
  OBVIOUS
<1>3. Expanded(list, group) = FlattenSeq(ss)
  BY DEF Expanded
<1> HIDE DEF ss
<1>4. Joined(ss, FlattenSeq(ss), Len(ss))
  BY <1>1, Flattened
<1>5. \A y, x : x \in RangeOf(<<y>>) <=> x = y
  BY DEF RangeOf
<1>6. ASSUME NEW x PROVE x \in RangeOf(Expanded(list, group)) <=> x \in Names(list, group)
  <2>1. x \in RangeOf(Expanded(list, group)) <=> \E j \in 1..Len(list) : x \in RangeOf(ss[j])
    BY <1>1, <1>3, <1>4 DEF Joined
  <2>2. \A j \in 1..Len(list) :
          x \in RangeOf(ss[j]) <=> IF list[j] = group THEN x \in RangeOf(Expansion(group)) ELSE x = list[j]
    <3> SUFFICES ASSUME NEW j \in 1..Len(list)
                 PROVE  x \in RangeOf(ss[j]) <=>
                          IF list[j] = group THEN x \in RangeOf(Expansion(group)) ELSE x = list[j]
      OBVIOUS
    <3>1. CASE list[j] = group
      BY <1>2, <3>1
    <3>2. CASE list[j] # group
      <4>1. ss[j] = <<list[j]>>
        BY <1>2, <3>2
      <4> QED
        BY <1>5, <3>2, <4>1
    <3> QED
      BY <3>1, <3>2
  <2>3. \A y : y \in RangeOf(list) <=> \E j \in 1..Len(list) : y = list[j]
    BY DEF RangeOf
  <2> QED
    BY <2>1, <2>2, <2>3 DEF Names
<1> QED
  BY <1>3, <1>4, <1>6 DEF Joined

(* The fold over the substitutions: g[s] is the list after those in s.     *)
After(q, g, s) == IF s = {} THEN q ELSE Expanded(g[s \ {Max(s)}], Substitutions[Max(s)])
Replaces(q, g, F) == g = [s \in F |-> After(q, g, s)]

LEMMA MaxIsIn ==
  ASSUME NEW s \in SUBSET (1..9), s # {}
  PROVE  Max(s) \in s /\ \A y \in s : Max(s) >= y
<1>1. \E x \in s : \A y \in s : x >= y
  <2> DEFINE B == {n \in Nat : \A y \in s : n >= y}
  <2>1. 9 \in B /\ B \in SUBSET Nat
    OBVIOUS
  <2>2. PICK n \in B : n = 0 \/ n - 1 \notin B
    <3> HIDE DEF B
    <3> QED
      BY <2>1, LeastNat
  <2>3. n # 0
    <3>1. PICK y \in s : y \in 1..9
      OBVIOUS
    <3>2. n >= y
      BY <2>2
    <3> QED
      BY <2>2, <3>1, <3>2
  <2>4. PICK y \in s : ~(n - 1 >= y)
    BY <2>2, <2>3
  <2>5. y = n
    BY <2>2, <2>4
  <2> QED
    BY <2>2, <2>5
<1> QED
  BY <1>1 DEF Max

LEMMA ReplacesExist ==
  ASSUME NEW q
  PROVE  \E g : Replaces(q, g, SUBSET (1..9))
<1> DEFINE F(n) == {s \in SUBSET (1..9) : \A y \in s : y <= n}
           B == {n \in Nat : ~ \E g : Replaces(q, g, F(n))}
<1>1. \E g : Replaces(q, g, F(0))
  <2> DEFINE g == [s \in F(0) |-> q]
  <2>1. \A s \in F(0) : s = {}
    OBVIOUS
  <2>2. \A s \in F(0) : After(q, g, s) = q
    BY <2>1 DEF After
  <2> QED
    BY <2>2 DEF Replaces
<1>2. ASSUME NEW n \in Nat, NEW g, Replaces(q, g, F(n)) PROVE \E h : Replaces(q, h, F(n + 1))
  <2> DEFINE h == [s \in F(n + 1) |-> After(q, g, s)]
  <2>1. \A s \in F(n) : h[s] = g[s]
    <3>1. \A s \in F(n) : s \in F(n + 1)
      OBVIOUS
    <3>2. \A s \in F(n) : g[s] = After(q, g, s)
      BY <1>2 DEF Replaces
    <3> QED
      BY <3>1, <3>2
  <2>2. ASSUME NEW s \in F(n + 1), s # {} PROVE s \ {Max(s)} \in F(n)
    <3>1. Max(s) \in s /\ \A y \in s : Max(s) >= y
      BY <2>2, MaxIsIn
    <3>2. ASSUME NEW y \in s, y # Max(s) PROVE y <= n
      <4>1. y \in 1..9 /\ Max(s) \in 1..9 /\ y <= n + 1 /\ Max(s) <= n + 1 /\ Max(s) >= y
        BY <3>1
      <4> QED
        BY <3>2, <4>1
    <3> QED
      BY <3>2
  <2> HIDE DEF F
  <2>3. ASSUME NEW s \in F(n + 1) PROVE After(q, h, s) = After(q, g, s)
    <3>1. CASE s = {}
      BY <3>1 DEF After
    <3>2. CASE s # {}
      <4>1. h[s \ {Max(s)}] = g[s \ {Max(s)}]
        BY <2>1, <2>2, <3>2
      <4> QED
        BY <4>1 DEF After
    <3> QED
      BY <3>1, <3>2
  <2>4. Replaces(q, h, F(n + 1))
    BY <2>3 DEF Replaces
  <2> QED
    BY <2>4
<1>3. B = {}
  <2>1. SUFFICES ASSUME B # {} PROVE FALSE
    OBVIOUS
  <2> HIDE DEF F
  <2>2. PICK n \in B : n = 0 \/ n - 1 \notin B
    BY <2>1, LeastNat
  <2>3. n # 0 /\ n - 1 \in Nat
    BY <1>1, <2>2
  <2>4. \E g : Replaces(q, g, F(n - 1))
    BY <2>2, <2>3
  <2>5. \E h : Replaces(q, h, F((n - 1) + 1))
    BY <1>2, <2>3, <2>4
  <2>6. (n - 1) + 1 = n
    BY <2>2
  <2> QED
    BY <2>2, <2>5, <2>6
<1>4. F(9) = SUBSET (1..9)
  OBVIOUS
<1> HIDE DEF F
<1>5. \E g : Replaces(q, g, F(9))
  BY <1>3
<1> QED
  BY <1>4, <1>5

LEMMA SubstitutedIsFold ==
  ASSUME NEW q
  PROVE  \E g : Replaces(q, g, SUBSET (1..9)) /\ Substituted(q) = g[1..9]
<1> DEFINE g == CHOOSE g : Replaces(q, g, SUBSET (1..9))
<1>1. Replaces(q, g, SUBSET (1..9))
  BY ReplacesExist
<1>2. DOMAIN Substitutions = 1..9
  BY DEF Substitutions
<1>3. Substituted(q) = g[1..9]
  BY <1>2 DEF Substituted, FoldLeft, MapThenFoldSet, Replaces, After
<1> QED
  BY <1>1, <1>3

(* What each group stands for.                                             *)
LEMMA TupleIsList ==
  ASSUME NEW n \in Nat, NEW s, DOMAIN s = 1..n, s = [k \in DOMAIN s |-> s[k]], \A k \in 1..n : s[k] \in UserNames
  PROVE  s \in Seq(UserNames) /\ Len(s) = n
<1>1. s \in [1..n -> UserNames]
  OBVIOUS
<1> QED
  BY <1>1, SeqDef

LEMMA Names_all ==
  /\ Expansion("all") \in Seq(UserNames)
  /\ RangeOf(Expansion("all")) =
       {"high", "medium", "low", "info"}
<1> DEFINE s == <<"high", "medium", "low", "info">>
<1>1. Expansion("all") = s
  BY DEF Expansion, MediumList
<1>2. DOMAIN s = 1..4 /\ s = [k \in DOMAIN s |-> s[k]]
  OBVIOUS
<1>3. s[1] = "high" /\ s[2] = "medium" /\ s[3] = "low" /\ s[4] = "info"
  OBVIOUS
<1>4. \A k : k \in 1..4 <=> k \in {1, 2, 3, 4}
  OBVIOUS
<1> HIDE DEF s
<1>5. \A k \in 1..4 : s[k] \in UserNames
  BY <1>3, <1>4 DEF UserNames, Groups, builtin_detectors, Interfaces
<1>6. s \in Seq(UserNames) /\ Len(s) = 4
  BY <1>2, <1>5, TupleIsList
<1>7. \A x : x \in RangeOf(s) <=>
        x \in {"high", "medium", "low", "info"}
  BY <1>3, <1>4, <1>6 DEF RangeOf
<1> QED
  BY <1>1, <1>6, <1>7

LEMMA Names_high ==
  /\ Expansion("high") \in Seq(UserNames)
  /\ RangeOf(Expansion("high")) =
       {"unhandled-promise", "non-private-callback", "reentrancy", "unsafe-math",
        "self-transfer", "incorrect-json-type", "unsaved-changes", "nft-approval-check",
        "nft-owner-check"}
<1> DEFINE s == <<"unhandled-promise", "non-private-callback", "reentrancy", "unsafe-math",
                  "self-transfer", "incorrect-json-type", "unsaved-changes",
                  "nft-approval-check", "nft-owner-check">>
<1>1. Expansion("high") = s
  BY DEF Expansion, MediumList
<1>2. DOMAIN s = 1..9 /\ s = [k \in DOMAIN s |-> s[k]]
  OBVIOUS
<1>3. s[1] = "unhandled-promise" /\ s[2] = "non-private-callback" /\ s[3] = "reentrancy" /\
      s[4] = "unsafe-math" /\ s[5] = "self-transfer" /\ s[6] = "incorrect-json-type" /\
      s[7] = "unsaved-changes" /\ s[8] = "nft-approval-check" /\ s[9] = "nft-owner-check"
  OBVIOUS
<1>4. \A k : k \in 1..9 <=> k \in {1, 2, 3, 4, 5, 6, 7, 8, 9}
  OBVIOUS
<1> HIDE DEF s
<1>5. \A k \in 1..9 : s[k] \in UserNames
  BY <1>3, <1>4 DEF UserNames, Groups, builtin_detectors, Interfaces
<1>6. s \in Seq(UserNames) /\ Len(s) = 9
  BY <1>2, <1>5, TupleIsList
<1>7. \A x : x \in RangeOf(s) <=>
        x \in {"unhandled-promise", "non-private-callback", "reentrancy", "unsafe-math",
              "self-transfer", "incorrect-json-type", "unsaved-changes", "nft-approval-check",
              "nft-owner-check"}
  BY <1>3, <1>4, <1>6 DEF RangeOf
<1> QED
  BY <1>1, <1>6, <1>7

LEMMA Names_medium ==
  /\ Expansion("medium") \in Seq(UserNames)
  /\ RangeOf(Expansion("medium")) =
       {"div-before-mul", "round", "lock-callback", "yocto-attach", "dup-collection-id",
        "unregistered-receiver"}
<1> DEFINE s == <<"div-before-mul", "round", "lock-callback", "yocto-attach",
                  "dup-collection-id", "unregistered-receiver">>
<1>1. Expansion("medium") = s
  BY DEF Expansion, MediumList
<1>2. DOMAIN s = 1..6 /\ s = [k \in DOMAIN s |-> s[k]]
  OBVIOUS
<1>3. s[1] = "div-before-mul" /\ s[2] = "round" /\ s[3] = "lock-callback" /\
      s[4] = "yocto-attach" /\ s[5] = "dup-collection-id" /\ s[6] = "unregistered-receiver"
  OBVIOUS
<1>4. \A k : k \in 1..6 <=> k \in {1, 2, 3, 4, 5, 6}
  OBVIOUS
<1> HIDE DEF s
<1>5. \A k \in 1..6 : s[k] \in UserNames
  BY <1>3, <1>4 DEF UserNames, Groups, builtin_detectors, Interfaces
<1>6. s \in Seq(UserNames) /\ Len(s) = 6
  BY <1>2, <1>5, TupleIsList
<1>7. \A x : x \in RangeOf(s) <=>
        x \in {"div-before-mul", "round", "lock-callback", "yocto-attach", "dup-collection-id",
              "unregistered-receiver"}
  BY <1>3, <1>4, <1>6 DEF RangeOf
<1> QED
  BY <1>1, <1>6, <1>7

LEMMA Names_low ==
  /\ Expansion("low") \in Seq(UserNames)
  /\ RangeOf(Expansion("low")) =
       {"prepaid-gas", "non-callback-private", "unused-ret", "upgrade-func", "tautology",
        "storage-gas", "unclaimed-storage-fee"}
<1> DEFINE s == <<"prepaid-gas", "non-callback-private", "unused-ret", "upgrade-func",
                  "tautology", "storage-gas", "unclaimed-storage-fee">>
<1>1. Expansion("low") = s
  BY DEF Expansion, MediumList
<1>2. DOMAIN s = 1..7 /\ s = [k \in DOMAIN s |-> s[k]]
  OBVIOUS
<1>3. s[1] = "prepaid-gas" /\ s[2] = "non-callback-private" /\ s[3] = "unused-ret" /\
      s[4] = "upgrade-func" /\ s[5] = "tautology" /\ s[6] = "storage-gas" /\
      s[7] = "unclaimed-storage-fee"
  OBVIOUS
<1>4. \A k : k \in 1..7 <=> k \in {1, 2, 3, 4, 5, 6, 7}
  OBVIOUS
<1> HIDE DEF s
<1>5. \A k \in 1..7 : s[k] \in UserNames
  BY <1>3, <1>4 DEF UserNames, Groups, builtin_detectors, Interfaces
<1>6. s \in Seq(UserNames) /\ Len(s) = 7
  BY <1>2, <1>5, TupleIsList
<1>7. \A x : x \in RangeOf(s) <=>
        x \in {"prepaid-gas", "non-callback-private", "unused-ret", "upgrade-func", "tautology",
              "storage-gas", "unclaimed-storage-fee"}
  BY <1>3, <1>4, <1>6 DEF RangeOf
<1> QED
  BY <1>1, <1>6, <1>7

LEMMA Names_info ==
  /\ Expansion("info") \in Seq(UserNames)
  /\ RangeOf(Expansion("info")) =
       {"inconsistency", "timestamp", "ext-call", "promise-result", "transfer", "complex-loop",
        "public-interface"}
<1> DEFINE s == <<"inconsistency", "timestamp", "ext-call", "promise-result", "transfer",
                  "complex-loop", "public-interface">>
<1>1. Expansion("info") = s
  BY DEF Expansion, MediumList
<1>2. DOMAIN s = 1..7 /\ s = [k \in DOMAIN s |-> s[k]]
  OBVIOUS
<1>3. s[1] = "inconsistency" /\ s[2] = "timestamp" /\ s[3] = "ext-call" /\
      s[4] = "promise-result" /\ s[5] = "transfer" /\ s[6] = "complex-loop" /\
      s[7] = "public-interface"
  OBVIOUS
<1>4. \A k : k \in 1..7 <=> k \in {1, 2, 3, 4, 5, 6, 7}
  OBVIOUS
<1> HIDE DEF s
<1>5. \A k \in 1..7 : s[k] \in UserNames
  BY <1>3, <1>4 DEF UserNames, Groups, builtin_detectors, Interfaces
<1>6. s \in Seq(UserNames) /\ Len(s) = 7
  BY <1>2, <1>5, TupleIsList
<1>7. \A x : x \in RangeOf(s) <=>
        x \in {"inconsistency", "timestamp", "ext-call", "promise-result", "transfer",
              "complex-loop", "public-interface"}
  BY <1>3, <1>4, <1>6 DEF RangeOf
<1> QED
  BY <1>1, <1>6, <1>7

LEMMA Names_nep_interface ==
  /\ Expansion("nep-interface") \in Seq(UserNames)
  /\ RangeOf(Expansion("nep-interface")) =
       {"nep141-interface", "nep145-interface", "nep148-interface", "nep171-interface",
        "nep177-interface", "nep178-interface", "nep181-interface", "nep245-interface"}
<1> DEFINE s == <<"nep141-interface", "nep145-interface", "nep148-interface", "nep171-interface",
                  "nep177-interface", "nep178-interface", "nep181-interface", "nep245-interface">>
<1>1. Expansion("nep-interface") = s
  BY DEF Expansion, MediumList
<1>2. DOMAIN s = 1..8 /\ s = [k \in DOMAIN s |-> s[k]]
  OBVIOUS
<1>3. s[1] = "nep141-interface" /\ s[2] = "nep145-interface" /\ s[3] = "nep148-interface" /\
      s[4] = "nep171-interface" /\ s[5] = "nep177-interface" /\ s[6] = "nep178-interface" /\
      s[7] = "nep181-interface" /\ s[8] = "nep245-interface"
  OBVIOUS
<1>4. \A k : k \in 1..8 <=> k \in {1, 2, 3, 4, 5, 6, 7, 8}
  OBVIOUS
<1> HIDE DEF s
<1>5. \A k \in 1..8 : s[k] \in UserNames
  BY <1>3, <1>4 DEF UserNames, Groups, builtin_detectors, Interfaces
<1>6. s \in Seq(UserNames) /\ Len(s) = 8
  BY <1>2, <1>5, TupleIsList
<1>7. \A x : x \in RangeOf(s) <=>
        x \in {"nep141-interface", "nep145-interface", "nep148-interface", "nep171-interface",
              "nep177-interface", "nep178-interface", "nep181-interface", "nep245-interface"}
  BY <1>3, <1>4, <1>6 DEF RangeOf
<1> QED
  BY <1>1, <1>6, <1>7

LEMMA Names_nep_ft ==
  /\ Expansion("nep-ft") \in Seq(UserNames)
  /\ RangeOf(Expansion("nep-ft")) =
       {"nep141-interface", "self-transfer", "unregistered-receiver"}
<1> DEFINE s == <<"nep141-interface", "self-transfer", "unregistered-receiver">>
<1>1. Expansion("nep-ft") = s
  BY DEF Expansion, MediumList
<1>2. DOMAIN s = 1..3 /\ s = [k \in DOMAIN s |-> s[k]]
  OBVIOUS
<1>3. s[1] = "nep141-interface" /\ s[2] = "self-transfer" /\ s[3] = "unregistered-receiver"
  OBVIOUS
<1>4. \A k : k \in 1..3 <=> k \in {1, 2, 3}
  OBVIOUS
<1> HIDE DEF s
<1>5. \A k \in 1..3 : s[k] \in UserNames
  BY <1>3, <1>4 DEF UserNames, Groups, builtin_detectors, Interfaces
<1>6. s \in Seq(UserNames) /\ Len(s) = 3
  BY <1>2, <1>5, TupleIsList
<1>7. \A x : x \in RangeOf(s) <=>
        x \in {"nep141-interface", "self-transfer", "unregistered-receiver"}
  BY <1>3, <1>4, <1>6 DEF RangeOf
<1> QED
  BY <1>1, <1>6, <1>7

LEMMA Names_nep_storage ==
  /\ Expansion("nep-storage") \in Seq(UserNames)
  /\ RangeOf(Expansion("nep-storage")) =
       {"nep145-interface", "unclaimed-storage-fee"}
<1> DEFINE s == <<"nep145-interface", "unclaimed-storage-fee">>
<1>1. Expansion("nep-storage") = s
  BY DEF Expansion, MediumList
<1>2. DOMAIN s = 1..2 /\ s = [k \in DOMAIN s |-> s[k]]
  OBVIOUS
<1>3. s[1] = "nep145-interface" /\ s[2] = "unclaimed-storage-fee"
  OBVIOUS
<1>4. \A k : k \in 1..2 <=> k \in {1, 2}
  OBVIOUS
<1> HIDE DEF s
<1>5. \A k \in 1..2 : s[k] \in UserNames
  BY <1>3, <1>4 DEF UserNames, Groups, builtin_detectors, Interfaces
<1>6. s \in Seq(UserNames) /\ Len(s) = 2
  BY <1>2, <1>5, TupleIsList
<1>7. \A x : x \in RangeOf(s) <=>
        x \in {"nep145-interface", "unclaimed-storage-fee"}
  BY <1>3, <1>4, <1>6 DEF RangeOf
<1> QED
  BY <1>1, <1>6, <1>7

LEMMA Names_nep_nft ==
  /\ Expansion("nep-nft") \in Seq(UserNames)
  /\ RangeOf(Expansion("nep-nft")) =
       {"nep171-interface", "nft-approval-check", "nft-owner-check"}
<1> DEFINE s == <<"nep171-interface", "nft-approval-check", "nft-owner-check">>
<1>1. Expansion("nep-nft") = s
  BY DEF Expansion, MediumList
<1>2. DOMAIN s = 1..3 /\ s = [k \in DOMAIN s |-> s[k]]
  OBVIOUS
<1>3. s[1] = "nep171-interface" /\ s[2] = "nft-approval-check" /\ s[3] = "nft-owner-check"
  OBVIOUS
<1>4. \A k : k \in 1..3 <=> k \in {1, 2, 3}
  OBVIOUS
<1> HIDE DEF s
<1>5. \A k \in 1..3 : s[k] \in UserNames
  BY <1>3, <1>4 DEF UserNames, Groups, builtin_detectors, Interfaces
<1>6. s \in Seq(UserNames) /\ Len(s) = 3
  BY <1>2, <1>5, TupleIsList
<1>7. \A x : x \in RangeOf(s) <=>
        x \in {"nep171-interface", "nft-approval-check", "nft-owner-check"}
  BY <1>3, <1>4, <1>6 DEF RangeOf
<1> QED
  BY <1>1, <1>6, <1>7

LEMMA ExpansionLists ==
  ASSUME NEW k \in 1..9
  PROVE  Expansion(Substitutions[k]) \in Seq(UserNames)
<1>1. Substitutions[k] \in {"all", "high", "medium", "low", "info", "nep-interface", "nep-ft", "nep-storage", "nep-nft"}
  BY DEF Substitutions
<1> QED
  BY <1>1, Names_all, Names_high, Names_medium, Names_low, Names_info,
     Names_nep_interface, Names_nep_ft, Names_nep_storage, Names_nep_nft

(* The list after the first n substitutions.                               *)
LEMMA AfterFirst ==
  ASSUME NEW q \in Seq(UserNames), NEW g, Replaces(q, g, SUBSET (1..9))
  PROVE  /\ g[{}] = q
         /\ \A n \in 1..9 : g[1..n] = Expanded(g[1..(n - 1)], Substitutions[n])
<1>1. g[{}] = q
  BY DEF Replaces, After
<1>2. ASSUME NEW n \in 1..9 PROVE g[1..n] = Expanded(g[1..(n - 1)], Substitutions[n])
  <2>1. 1..n \in SUBSET (1..9) /\ 1..n # {}
    <3>1. \A x \in 1..n : x \in 1..9
      OBVIOUS
    <3>2. 1 \in 1..n
      OBVIOUS
    <3> QED
      BY <3>1, <3>2
  <2>2. Max(1..n) = n
    <3> DEFINE s == 1..n
    <3>1. s \in SUBSET (1..9) /\ s # {} /\ n \in s
      BY <2>1
    <3>2. Max(s) \in s /\ \A y \in s : Max(s) >= y
      <4> HIDE DEF s
      <4> QED
        BY <3>1, MaxIsIn
    <3>3. Max(s) \in 1..n /\ Max(s) >= n
      BY <3>1, <3>2
    <3> QED
      BY <3>3
  <2>3. (1..n) \ {n} = 1..(n - 1)
    OBVIOUS
  <2>4. g[1..n] = After(q, g, 1..n)
    BY <2>1 DEF Replaces
  <2> QED
    BY <2>1, <2>2, <2>3, <2>4 DEF After
<1> QED
  BY <1>1, <1>2

(* Each of them is a list, and its names are known from those before.      *)
LEMMA AfterEach ==
  ASSUME NEW q \in Seq(UserNames), NEW g, Replaces(q, g, SUBSET (1..9))
  PROVE  /\ g[{}] = q
         /\ \A n \in 0..9 : g[1..n] \in Seq(UserNames)
         /\ \A n \in 1..9 : RangeOf(g[1..n]) = Names(g[1..(n - 1)], Substitutions[n])
<1> DEFINE B == {n \in 0..9 : g[1..n] \notin Seq(UserNames)}
<1>1. g[{}] = q /\ 1..0 = {} /\ \A n \in 1..9 : g[1..n] = Expanded(g[1..(n - 1)], Substitutions[n])
  BY AfterFirst
<1>2. \A n \in 1..9 : n - 1 \in 0..9 /\ Expansion(Substitutions[n]) \in Seq(UserNames)
  <2>1. \A n \in 1..9 : n - 1 \in 0..9
    OBVIOUS
  <2>2. \A n \in 1..9 : Expansion(Substitutions[n]) \in Seq(UserNames)
    BY ExpansionLists
  <2> QED
    BY <2>1, <2>2
<1>3. B = {}
  <2>1. SUFFICES ASSUME B # {} PROVE FALSE
    OBVIOUS
  <2>2. PICK n \in B : n = 0 \/ n - 1 \notin B
    <3>1. B \in SUBSET Nat
      OBVIOUS
    <3> HIDE DEF B
    <3> QED
      BY <2>1, <3>1, LeastNat
  <2>3. n # 0
    BY <1>1, <2>2
  <2>4. n \in 1..9 /\ g[1..(n - 1)] \in Seq(UserNames)
    BY <2>2, <2>3
  <2>5. Expanded(g[1..(n - 1)], Substitutions[n]) \in Seq(UserNames)
    BY <1>2, <2>4, ExpandedNames
  <2> QED
    BY <1>1, <2>2, <2>4, <2>5
<1>4. ASSUME NEW n \in 1..9 PROVE RangeOf(g[1..n]) = Names(g[1..(n - 1)], Substitutions[n])
  <2>1. g[1..(n - 1)] \in Seq(UserNames)
    BY <1>2, <1>3
  <2> QED
    BY <1>1, <1>2, <2>1, ExpandedNames
<1> QED
  BY <1>1, <1>3, <1>4

LEMMA SubstitutedIsList ==
  ASSUME NEW q \in Seq(UserNames) PROVE Substituted(q) \in Seq(UserNames)
<1>1. PICK g : Replaces(q, g, SUBSET (1..9)) /\ Substituted(q) = g[1..9]
  BY SubstitutedIsFold
<1> QED
  BY <1>1, AfterEach

-----------------------------------------------------------------------------
(* What becomes of a list, name by name.                                   *)
Stands(names, group) ==
  group \in names \/ ("all" \in names /\ group \in {"high", "medium", "low", "info"})

LEMMA ValidIsNoGroup == \A x : IsValid(x) => x # "all" /\ x \notin Groups
BY DEF IsValid, Groups, builtin_detectors, Interfaces, Fragments

LEMMA NoGroupInside ==
  ASSUME NEW group \in Groups, NEW x \in RangeOf(Expansion(group))
  PROVE  x # "all" /\ x \notin Groups /\ IsValid(x)
<1>1. x \in builtin_detectors \cup Interfaces
  BY Names_high, Names_medium, Names_low, Names_info,
     Names_nep_interface, Names_nep_ft, Names_nep_storage, Names_nep_nft DEF Groups, builtin_detectors, Interfaces
<1> QED
  BY <1>1, ValidIsNoGroup DEF IsValid

LEMMA SubstitutedNames ==
  ASSUME NEW q \in Seq(UserNames), NEW x, IsValid(x)
  PROVE  x \in RangeOf(Substituted(q)) <=>
           \/ x \in RangeOf(q)
           \/ \E group \in Groups : Stands(RangeOf(q), group) /\ x \in RangeOf(Expansion(group))
<1>1. PICK g : Replaces(q, g, SUBSET (1..9)) /\ Substituted(q) = g[1..9]
  BY SubstitutedIsFold
<1> DEFINE R(n) == RangeOf(g[1..n])
           E(n) == RangeOf(Expansion(Substitutions[n]))
           S(n) == Substitutions[n]
<1>2. R(0) = RangeOf(q)
  <2>1. 1..0 = {}
    OBVIOUS
  <2> QED
    BY <1>1, <2>1, AfterEach
<1>3. ASSUME NEW n \in 1..9, NEW y
      PROVE  y \in R(n) <=> (y \in R(n - 1) /\ y # S(n)) \/ (S(n) \in R(n - 1) /\ y \in E(n))
  <2>1. RangeOf(g[1..n]) = Names(g[1..(n - 1)], Substitutions[n])
    BY <1>1, AfterEach
  <2> QED
    BY <2>1 DEF Names
<1>4. /\ S(1) = "all" /\ S(2) = "high" /\ S(3) = "medium" /\ S(4) = "low" /\ S(5) = "info"
      /\ S(6) = "nep-interface" /\ S(7) = "nep-ft" /\ S(8) = "nep-storage" /\ S(9) = "nep-nft"
  BY DEF Substitutions
<1>5. E(1) = {"high", "medium", "low", "info"}
  BY <1>4, Names_all
<1>6. ASSUME NEW n \in 2..9, NEW y \in E(n) PROVE y # "all" /\ y \notin Groups
  <2>1. S(n) \in Groups
    BY <1>4 DEF Groups
  <2> QED
    BY <2>1, NoGroupInside
<1> HIDE DEF R, E, S
<1>7. \A y : y \in R(1) <=> (y \in R(0) /\ y # "all") \/ ("all" \in R(0) /\ y \in {"high", "medium", "low", "info"})
  BY <1>3, <1>4, <1>5
<1>8. \A y : y \in R(2) <=> (y \in R(1) /\ y # "high") \/ ("high" \in R(1) /\ y \in E(2))
  BY <1>3, <1>4
<1>9. \A y : y \in R(3) <=> (y \in R(2) /\ y # "medium") \/ ("medium" \in R(2) /\ y \in E(3))
  BY <1>3, <1>4
<1>10. \A y : y \in R(4) <=> (y \in R(3) /\ y # "low") \/ ("low" \in R(3) /\ y \in E(4))
  BY <1>3, <1>4
<1>11. \A y : y \in R(5) <=> (y \in R(4) /\ y # "info") \/ ("info" \in R(4) /\ y \in E(5))
  BY <1>3, <1>4
<1>12. \A y : y \in R(6) <=> (y \in R(5) /\ y # "nep-interface") \/ ("nep-interface" \in R(5) /\ y \in E(6))
  BY <1>3, <1>4
<1>13. \A y : y \in R(7) <=> (y \in R(6) /\ y # "nep-ft") \/ ("nep-ft" \in R(6) /\ y \in E(7))
  BY <1>3, <1>4
<1>14. \A y : y \in R(8) <=> (y \in R(7) /\ y # "nep-storage") \/ ("nep-storage" \in R(7) /\ y \in E(8))
  BY <1>3, <1>4
<1>15. \A y : y \in R(9) <=> (y \in R(8) /\ y # "nep-nft") \/ ("nep-nft" \in R(8) /\ y \in E(9))
  BY <1>3, <1>4
<1>16. ASSUME NEW y, y # "all", y \notin Groups
       PROVE  y \in R(9) <=>
                \/ y \in R(0)
                \/ ("high" \in R(1) /\ y \in E(2)) \/ ("medium" \in R(2) /\ y \in E(3))
                \/ ("low" \in R(3) /\ y \in E(4)) \/ ("info" \in R(4) /\ y \in E(5))
                \/ ("nep-interface" \in R(5) /\ y \in E(6)) \/ ("nep-ft" \in R(6) /\ y \in E(7))
                \/ ("nep-storage" \in R(7) /\ y \in E(8)) \/ ("nep-nft" \in R(8) /\ y \in E(9))
  BY <1>7, <1>8, <1>9, <1>10, <1>11, <1>12, <1>13, <1>14, <1>15, <1>16 DEF Groups
<1>17. \A n \in 2..9 : "all" \notin E(n) /\ \A group \in Groups : group \notin E(n)
  BY <1>6
<1>18. /\ "high" \in R(1) <=> Stands(R(0), "high")
       /\ "medium" \in R(2) <=> Stands(R(0), "medium")
       /\ "low" \in R(3) <=> Stands(R(0), "low")
       /\ "info" \in R(4) <=> Stands(R(0), "info")
  BY <1>7, <1>8, <1>9, <1>10, <1>17 DEF Groups, Stands
<1>19. /\ "nep-interface" \in R(5) <=> Stands(R(0), "nep-interface")
       /\ "nep-ft" \in R(6) <=> Stands(R(0), "nep-ft")
       /\ "nep-storage" \in R(7) <=> Stands(R(0), "nep-storage")
       /\ "nep-nft" \in R(8) <=> Stands(R(0), "nep-nft")
  BY <1>7, <1>8, <1>9, <1>10, <1>11, <1>12, <1>13, <1>14, <1>17 DEF Groups, Stands
<1>20. x # "all" /\ x \notin Groups
  BY ValidIsNoGroup
<1>21. x \in R(9) <=> \/ x \in R(0)
                      \/ \E group \in Groups : Stands(R(0), group) /\ x \in RangeOf(Expansion(group))
  BY <1>4, <1>16, <1>18, <1>19, <1>20 DEF Groups, E, S
<1> QED
  BY <1>1, <1>2, <1>21 DEF R

(* The names of the documentation, without the interfaces of the groups.   *)
DocumentedGroup == Groups \ {"nep-interface"}

LEMMA SeverityGroups ==
  /\ DOMAIN Severity = {"high", "medium", "low", "info"}
  /\ Severity["high"] = RangeOf(Expansion("high"))
  /\ Severity["medium"] = RangeOf(Expansion("medium")) \cup Interfaces
  /\ Severity["low"] = RangeOf(Expansion("low"))
  /\ Severity["info"] = RangeOf(Expansion("info"))
<1>1. DOMAIN Severity = {"high", "medium", "low", "info"}
  BY DEF Severity
<1>2. Severity["high"] = RangeOf(Expansion("high"))
  BY Names_high DEF Severity
<1>3. Severity["medium"] = RangeOf(Expansion("medium")) \cup Interfaces
  BY Names_medium DEF Severity
<1>4. Severity["low"] = RangeOf(Expansion("low"))
  BY Names_low DEF Severity
<1>5. Severity["info"] = RangeOf(Expansion("info"))
  BY Names_info DEF Severity
<1> QED
  BY <1>1, <1>2, <1>3, <1>4, <1>5

LEMMA TableIs ==
  /\ \A x : x \in Table <=> \/ x \in Interfaces
                            \/ \E group \in {"high", "medium", "low", "info"} : x \in RangeOf(Expansion(group))
  /\ builtin_detectors \cup Interfaces = Table
<1>1. \A x : x \in Table <=> \/ x \in Interfaces
                             \/ \E group \in {"high", "medium", "low", "info"} : x \in RangeOf(Expansion(group))
  BY SeverityGroups DEF Table
<1>2. builtin_detectors = RangeOf(Expansion("high")) \cup RangeOf(Expansion("medium"))
                            \cup RangeOf(Expansion("low")) \cup RangeOf(Expansion("info"))
  BY Names_high, Names_medium, Names_low, Names_info DEF builtin_detectors
<1>3. \A x : x \in builtin_detectors <=> \E group \in {"high", "medium", "low", "info"} : x \in RangeOf(Expansion(group))
  BY <1>2
<1> QED
  BY <1>1, <1>3

LEMMA InterfacesApart ==
  \A group \in {"high", "medium", "low", "info"} : \A x \in RangeOf(Expansion(group)) : x \notin Interfaces
BY Names_high, Names_medium, Names_low, Names_info DEF Interfaces

LEMMA DocumentedGroups ==
  /\ \A group \in DocumentedGroup : \A x : x \in Documented(group) \ LeftOut(group) <=> x \in RangeOf(Expansion(group))
  /\ \A x : x \in Documented("all") \ LeftOut("all") <=>
              \E group \in {"high", "medium", "low", "info"} : x \in RangeOf(Expansion(group))
  /\ \A n : n # "all" /\ n \notin Groups => Documented(n) = (IF n \in Table THEN {n} ELSE {}) /\ LeftOut(n) = {}
<1> DEFINE severities == {"high", "medium", "low", "info"}
<1>a. DOMAIN Severity = severities
  BY SeverityGroups
<1>b. ASSUME NEW n, n = "all" \/ n \in Groups PROVE n \notin Table
  BY <1>b, ValidIsNoGroup, TableIs DEF IsValid
<1>1. ASSUME NEW group \in severities PROVE Documented(group) = Severity[group]
  <2>1. group \notin Table
    BY <1>b DEF Groups
  <2> QED
    BY <1>a, <2>1 DEF Documented
<1>2. ASSUME NEW group \in severities, NEW x
      PROVE  x \in Severity[group] \ LeftOut(group) <=> x \in RangeOf(Expansion(group))
  BY SeverityGroups, InterfacesApart DEF LeftOut
<1>3. /\ \A x : x \in Documented("nep-ft") <=> x \in RangeOf(Expansion("nep-ft"))
      /\ \A x : x \in Documented("nep-storage") <=> x \in RangeOf(Expansion("nep-storage"))
      /\ \A x : x \in Documented("nep-nft") <=> x \in RangeOf(Expansion("nep-nft"))
  <2>0. "nep-ft" \notin Table /\ "nep-storage" \notin Table /\ "nep-nft" \notin Table
    BY <1>b DEF Groups
  <2>1. Documented("nep-ft") = RangeOf(Expansion("nep-ft"))
    BY <1>a, <2>0, Names_nep_ft DEF Documented
  <2>2. Documented("nep-storage") = RangeOf(Expansion("nep-storage"))
    BY <1>a, <2>0, Names_nep_storage DEF Documented
  <2>3. Documented("nep-nft") = RangeOf(Expansion("nep-nft"))
    BY <1>a, <2>0, Names_nep_nft DEF Documented
  <2> QED
    BY <2>1, <2>2, <2>3
<1>4. LeftOut("nep-ft") = {} /\ LeftOut("nep-storage") = {} /\ LeftOut("nep-nft") = {}
  BY DEF LeftOut
<1>5. \A group \in DocumentedGroup : \A x : x \in Documented(group) \ LeftOut(group) <=> x \in RangeOf(Expansion(group))
  BY <1>1, <1>2, <1>3, <1>4 DEF DocumentedGroup, Groups
<1>6. Documented("all") = Table /\ LeftOut("all") = Interfaces
  <2>1. "all" \notin Table
    BY <1>b
  <2> QED
    BY <1>a, <2>1 DEF Documented, LeftOut
<1>7. \A x : x \in Documented("all") \ LeftOut("all") <=>
               \E group \in severities : x \in RangeOf(Expansion(group))
  BY <1>6, TableIs, InterfacesApart
<1>8. ASSUME NEW n, n # "all", n \notin Groups
      PROVE  Documented(n) = (IF n \in Table THEN {n} ELSE {}) /\ LeftOut(n) = {}
  BY <1>8, <1>a DEF Documented, LeftOut, Groups
<1> QED
  BY <1>5, <1>7, <1>8

(* The detectors that the loop makes are promised for the argument of -d,  *)
(* and of those that are promised only the interfaces of `all' and         *)
(* `medium' are left out, for every argument of documented names           *)
(* (rustle:179-192, README.md:92-96, 120-166).                             *)
THEOREM DetectorsAsDocumented ==
  ASSUME NEW q \in Seq(UserNames \ Undocumented)
  PROVE  LET made == {d \in RangeOf(Substituted(q)) : IsValid(d)}
         IN  /\ UNION {Documented(n) \ LeftOut(n) : n \in RangeOf(q)} \subseteq made
             /\ made \subseteq UNION {Documented(n) : n \in RangeOf(q)}
<1>1. q \in Seq(UserNames)
  BY SeqMonotonic
<1>2. ASSUME NEW n \in RangeOf(q) PROVE n \in UserNames /\ n \notin Undocumented
  BY <1>2 DEF RangeOf
<1>3. ASSUME NEW x, x \in RangeOf(Substituted(q)), IsValid(x)
      PROVE  \E n \in RangeOf(q) : x \in Documented(n)
  <2>1. CASE x \in RangeOf(q)
    <3>1. x # "all" /\ x \notin Groups
      BY <1>3, ValidIsNoGroup
    <3>2. x \in Table
      BY <1>2, <1>3, <2>1, TableIs DEF IsValid, Undocumented
    <3> QED
      BY <2>1, <3>1, <3>2, DocumentedGroups
  <2>2. CASE \E group \in Groups : Stands(RangeOf(q), group) /\ x \in RangeOf(Expansion(group))
    <3>1. PICK group \in Groups : Stands(RangeOf(q), group) /\ x \in RangeOf(Expansion(group))
      BY <2>2
    <3>2. CASE group \in RangeOf(q)
      <4>1. group \in DocumentedGroup
        BY <1>2, <3>2 DEF DocumentedGroup, Undocumented
      <4> QED
        BY <3>1, <3>2, <4>1, DocumentedGroups
    <3>3. CASE "all" \in RangeOf(q) /\ group \in {"high", "medium", "low", "info"}
      BY <3>1, <3>3, DocumentedGroups
    <3> QED
      BY <3>1, <3>2, <3>3 DEF Stands
  <2> QED
    BY <1>1, <1>3, <2>1, <2>2, SubstitutedNames
<1>4. ASSUME NEW n \in RangeOf(q), NEW x \in Documented(n) \ LeftOut(n)
      PROVE  x \in RangeOf(Substituted(q)) /\ IsValid(x)
  <2>1. CASE n # "all" /\ n \notin Groups
    <3>1. n \in Table /\ x = n
      BY <2>1, DocumentedGroups
    <3>2. IsValid(x)
      BY <3>1, TableIs DEF IsValid
    <3> QED
      BY <1>1, <3>1, <3>2, SubstitutedNames
  <2>2. ASSUME NEW group \in Groups, Stands(RangeOf(q), group), x \in RangeOf(Expansion(group))
        PROVE  x \in RangeOf(Substituted(q)) /\ IsValid(x)
    <3>1. IsValid(x)
      BY <2>2, NoGroupInside
    <3> QED
      BY <1>1, <2>2, <3>1, SubstitutedNames
  <2>3. CASE n \in Groups
    <3>1. n \in DocumentedGroup
      BY <1>2, <2>3 DEF DocumentedGroup, Undocumented
    <3>2. x \in RangeOf(Expansion(n)) /\ Stands(RangeOf(q), n)
      BY <3>1, DocumentedGroups DEF Stands
    <3> QED
      BY <2>2, <2>3, <3>2
  <2>4. CASE n = "all"
    <3>1. PICK group \in {"high", "medium", "low", "info"} : x \in RangeOf(Expansion(group))
      BY <2>4, DocumentedGroups
    <3>2. group \in Groups /\ Stands(RangeOf(q), group)
      BY <2>4, <3>1 DEF Groups, Stands
    <3> QED
      BY <2>2, <3>1, <3>2
  <2> QED
    BY <2>1, <2>3, <2>4
<1> QED
  BY <1>3, <1>4

(* The same, as the property of the runs.                                  *)
THEOREM DocumentedMade == Spec => []DocumentedDetectorsMade
<1>1. \A q \in Arguments : q \in Seq(UserNames \ Undocumented)
  BY PipelineAssumption
<1>2. DocumentedDetectorsMade
  BY <1>1, DetectorsAsDocumented DEF DocumentedDetectorsMade
<1> QED
  BY <1>2, PTL
-----------------------------------------------------------------------------
(* The rules (Makefile:55-391): what the proofs use of them.               *)
Known == Passes \cup Scripts

LEMMA KnownNames ==
  /\ "tg_ir" \notin Known /\ "bitcodes" \notin Known
  /\ Passes \cap Scripts = {}
  /\ NeverRemoved \subseteq Passes /\ "ext-call" \in Passes
  /\ "callback" \in Passes /\ "all-call" \in Passes /\ "find-struct" \in Scripts
  /\ CallbackScripts \subseteq Scripts /\ SourceOnly \subseteq Scripts
  /\ "incorrect-json-type" \in Scripts /\ "unused-ret" \in Scripts /\ "yocto-attach" \in Passes
BY DEF Known, Passes, Scripts, NeverRemoved, CallbackScripts, SourceOnly, builtin_detectors, Interfaces

LEMMA Inputs ==
  /\ \A t : t \in CallbackScripts \cup {"yocto-attach"} => Input(t) = {"callback"}
  /\ Input("ext-call") = {"ext-call-trait"}
  /\ Input("unused-ret") = {"all-call"}
  /\ Input("incorrect-json-type") = {"find-struct"}
  /\ \A t : t \notin CallbackScripts \cup {"yocto-attach", "ext-call", "unused-ret", "incorrect-json-type"}
              => Input(t) = {}
BY DEF Input, CallbackScripts

LEMMA InputFacts ==
  ASSUME NEW t, NEW f \in Input(t)
  PROVE  /\ t \in Known /\ f \in Known /\ f # t /\ Input(f) = {} /\ Input(t) = {f}
         /\ f \in Scripts => t \in Scripts
         /\ f # "ext-call"
         /\ f = "ext-call-trait" <=> t = "ext-call"
         /\ f # "round"
<1>1. CASE t \in CallbackScripts \cup {"yocto-attach"}
  BY <1>1, Inputs, KnownNames DEF Known, CallbackScripts
<1>2. CASE t = "ext-call"
  BY <1>2, Inputs, KnownNames DEF Known, CallbackScripts, NeverRemoved
<1>3. CASE t = "unused-ret"
  BY <1>3, Inputs, KnownNames DEF Known, CallbackScripts
<1>4. CASE t = "incorrect-json-type"
  BY <1>4, Inputs, KnownNames DEF Known, CallbackScripts
<1> QED
  BY <1>1, <1>2, <1>3, <1>4, Inputs

LEMMA RemovesFacts ==
  /\ Removes("ext-call-trait") = {"ext-call"}
  /\ \A t \in Scripts : Removes(t) \subseteq {t}
  /\ \A t \in Passes \ {"ext-call-trait"} : Removes(t) \subseteq {t}
  /\ \A t \in Passes \ (NeverRemoved \cup {"ext-call"}) : t \in Removes(t)
  /\ Removes("round") = {}
BY KnownNames DEF Removes, Scripts, NeverRemoved

LEMMA DemanglesFacts ==
  ASSUME NEW t, NEW f \in Input(t)
  PROVE  /\ Demangles(t) \subseteq Input(t)
         /\ t \in Scripts /\ f \notin Demangles(t) => f \in Scripts
         /\ f \in Demangles(t) => f \in Passes \ NeverRemoved
<1>1. CASE t \in CallbackScripts \cup {"yocto-attach"}
  BY <1>1, Inputs, KnownNames DEF Demangles, CallbackScripts, NeverRemoved
<1>2. CASE t = "ext-call"
  BY <1>2, Inputs, KnownNames DEF Demangles, CallbackScripts, NeverRemoved
<1>3. CASE t = "unused-ret"
  BY <1>3, Inputs, KnownNames DEF Demangles, CallbackScripts, NeverRemoved
<1>4. CASE t = "incorrect-json-type"
  BY <1>4, Inputs, KnownNames DEF Demangles, CallbackScripts, NeverRemoved
<1> QED
  BY <1>1, <1>2, <1>3, <1>4, Inputs

(* What is left of the targets of d: all, all but tg_ir, or d alone.       *)
Remaining(d, mk) ==
  /\ Len(mk) \in 1..3
  /\ mk[Len(mk)] = d
  /\ Len(mk) = 3 => mk[1] = "tg_ir" /\ mk[2] \in Input(d)
  /\ Len(mk) = 2 => mk[1] \in Input(d) \/ (mk[1] = "tg_ir" /\ Input(d) = {})

LEMMA One ==
  ASSUME NEW S, NEW x \in S, NEW s, s = <<x>>
  PROVE  s \in Seq(S) /\ Len(s) = 1 /\ s[1] = x /\ RangeOf(s) = {x}
BY DEF RangeOf

LEMMA Two ==
  ASSUME NEW S, NEW x \in S, NEW y \in S, NEW s, s = <<x, y>>
  PROVE  s \in Seq(S) /\ Len(s) = 2 /\ s[1] = x /\ s[2] = y /\ RangeOf(s) = {x, y}
<1>1. RangeOf(s) = {x, y}
  <2>1. Len(s) = 2 /\ 1..2 = {1, 2}
    OBVIOUS
  <2> QED
    BY <2>1 DEF RangeOf
<1> QED
  BY <1>1

LEMMA Three ==
  ASSUME NEW S, NEW x \in S, NEW y \in S, NEW z \in S, NEW s, s = <<x, y, z>>
  PROVE  /\ s \in Seq(S) /\ Len(s) = 3 /\ s[1] = x /\ s[2] = y /\ s[3] = z
         /\ RangeOf(s) = {x, y, z}
<1>1. RangeOf(s) = {x, y, z}
  <2>1. Len(s) = 3 /\ 1..3 = {1, 2, 3}
    OBVIOUS
  <2> QED
    BY <2>1 DEF RangeOf
<1> QED
  BY <1>1

(* The targets of a valid name, as far as the proofs look at them.         *)
WellMade(d, s) ==
  /\ s \in Seq(Known \cup {"tg_ir"})
  /\ Remaining(d, s)
  /\ Input(d) \cup {d} \subseteq RangeOf(s)
  /\ s[1] \in Scripts \cup {"tg_ir"}
  /\ Input(s[1]) = {}

LEMMA TargetsShape ==
  ASSUME NEW d, IsValid(d), HasRule(d)
  PROVE  WellMade(d, Targets(d))
<1> DEFINE S == Known \cup {"tg_ir"}
<1>0. d \in Known /\ d # "ext-call-trait" /\ d # "all-call" /\ d # "find-struct"
  BY DEF HasRule, Known, IsValid, builtin_detectors, Interfaces, Fragments
<1>t. "tg_ir" \in S /\ d \in S /\ Input("tg_ir") = {}
  BY <1>0, Inputs DEF CallbackScripts
<1> HIDE DEF S
<1>1. ASSUME NEW f \in Input(d) PROVE WellMade(d, <<"tg_ir", f, d>>)
  <2>1. f \in S /\ Input(d) = {f}
    BY <1>1, InputFacts DEF S
  <2> DEFINE s == <<"tg_ir", f, d>>
  <2>2. s \in Seq(S) /\ Len(s) = 3 /\ s[1] = "tg_ir" /\ s[2] = f /\ s[3] = d /\ RangeOf(s) = {"tg_ir", f, d}
    BY <1>t, <2>1, Three
  <2> HIDE DEF s
  <2> QED
    BY <1>t, <2>1, <2>2 DEF WellMade, Remaining, S
<1>2. ASSUME Input(d) = {} PROVE WellMade(d, <<"tg_ir", d>>)
  <2> DEFINE s == <<"tg_ir", d>>
  <2>2. s \in Seq(S) /\ Len(s) = 2 /\ s[1] = "tg_ir" /\ s[2] = d /\ RangeOf(s) = {"tg_ir", d}
    BY <1>t, Two
  <2> HIDE DEF s
  <2> QED
    BY <1>t, <1>2, <2>2 DEF WellMade, Remaining, S
<1>3. ASSUME Input(d) = {}, d \in Scripts PROVE WellMade(d, <<d>>)
  <2> DEFINE s == <<d>>
  <2>2. s \in Seq(S) /\ Len(s) = 1 /\ s[1] = d /\ RangeOf(s) = {d}
    BY <1>t, One
  <2> HIDE DEF s
  <2> QED
    BY <1>t, <1>3, <2>2 DEF WellMade, Remaining, S
<1>4. ASSUME NEW f \in Input(d), f \in Scripts PROVE WellMade(d, <<f, d>>)
  <2>1. f \in S /\ Input(d) = {f} /\ Input(f) = {}
    BY <1>4, InputFacts DEF S
  <2> DEFINE s == <<f, d>>
  <2>2. s \in Seq(S) /\ Len(s) = 2 /\ s[1] = f /\ s[2] = d /\ RangeOf(s) = {f, d}
    BY <1>t, <2>1, Two
  <2> HIDE DEF s
  <2> QED
    BY <1>4, <2>1, <2>2 DEF WellMade, Remaining, S
<1>5. CASE d = "ext-call"
  <2>1. Targets(d) = <<"tg_ir", "ext-call-trait", d>>
    BY <1>5 DEF Targets, SourceOnly
  <2> QED
    BY <1>1, <1>5, <2>1, Inputs
<1>6. CASE d \in CallbackScripts \cup {"yocto-attach"}
  <2>1. Targets(d) = <<"tg_ir", "callback", d>>
    BY <1>6 DEF Targets, SourceOnly, CallbackScripts
  <2> QED
    BY <1>1, <1>6, <2>1, Inputs
<1>7. CASE d = "unused-ret"
  <2>1. Targets(d) = <<"tg_ir", "all-call", d>>
    BY <1>7 DEF Targets, SourceOnly
  <2> QED
    BY <1>1, <1>7, <2>1, Inputs
<1>8. CASE d = "incorrect-json-type"
  <2>1. Targets(d) = <<"find-struct", d>>
    BY <1>8 DEF Targets, SourceOnly
  <2> QED
    BY <1>4, <1>8, <2>1, Inputs, KnownNames
<1>9. CASE d \in SourceOnly
  <2>1. Targets(d) = <<d>>
    BY <1>9 DEF Targets, SourceOnly
  <2>2. Input(d) = {} /\ d \in Scripts
    BY <1>9, Inputs DEF SourceOnly, CallbackScripts, Scripts
  <2> QED
    BY <1>3, <2>1, <2>2
<1>10. CASE d \notin CallbackScripts \cup SourceOnly
                     \cup {"yocto-attach", "ext-call", "unused-ret", "incorrect-json-type"}
  <2>1. Targets(d) = <<"tg_ir", d>>
    BY <1>10 DEF Targets, CallbackScripts
  <2>2. Input(d) = {}
    BY <1>10, Inputs
  <2> QED
    BY <1>2, <2>1, <2>2
<1> QED
  BY <1>5, <1>6, <1>7, <1>8, <1>9, <1>10

-----------------------------------------------------------------------------
(* Files: what the operations of the recipes make of their lines.          *)
FilesOK(fs) == \A f \in DOMAIN fs : fs[f] \in Seq(Line)

LEMMA ContentOK ==
  ASSUME NEW fs, FilesOK(fs), NEW f
  PROVE  Content(fs, f) \in Seq(Line)
BY DEF FilesOK, Content

LEMMA EmptyFiles == FilesOK(NoFiles) /\ DOMAIN NoFiles = {} /\ \A f : Content(NoFiles, f) = <<>>
BY DEF FilesOK, NoFiles, Content

IsWithout(fs, F, gs) ==
  /\ FilesOK(gs)
  /\ DOMAIN gs = DOMAIN fs \ F
  /\ \A f \in DOMAIN fs \ F : gs[f] = fs[f]
  /\ \A f : f \notin F => Content(gs, f) = Content(fs, f)
  /\ \A f \in F : Content(gs, f) = <<>>

LEMMA WithoutFiles ==
  ASSUME NEW fs, FilesOK(fs), NEW F, NEW gs, gs = Without(fs, F)
  PROVE  IsWithout(fs, F, gs)
BY DEF FilesOK, Without, Content, IsWithout

IsReplaced(fs, g, s, gs) ==
  /\ FilesOK(gs)
  /\ DOMAIN gs = DOMAIN fs \cup {g}
  /\ gs[g] = s
  /\ \A f \in DOMAIN fs \ {g} : gs[f] = fs[f]
  /\ Content(gs, g) = s
  /\ \A f : f # g => Content(gs, f) = Content(fs, f)

LEMMA ReplacedFiles ==
  ASSUME NEW fs, FilesOK(fs), NEW g, NEW s \in Seq(Line), NEW gs, gs = Replaced(fs, g, s)
  PROVE  IsReplaced(fs, g, s, gs)
BY DEF FilesOK, Replaced, Content, IsReplaced

(* A file that lines are appended to keeps the lines it has.               *)
IsAppended(fs, g, l, gs) ==
  /\ FilesOK(gs)
  /\ DOMAIN gs = DOMAIN fs \cup {g}
  /\ gs[g] \in {Content(fs, g), Append(Content(fs, g), l)}
  /\ ~Broken(Content(fs, g)) => Content(gs, g) = Append(Content(fs, g), l)
  /\ \A f \in DOMAIN fs \ {g} : gs[f] = fs[f]
  /\ \A f : f # g => Content(gs, f) = Content(fs, f)

LEMMA AppendedFiles ==
  ASSUME NEW fs, FilesOK(fs), NEW g, NEW l \in Line, NEW gs, gs = Appended(fs, g, l)
  PROVE  IsAppended(fs, g, l, gs)
<1> DEFINE s == IF Broken(Content(fs, g)) THEN Content(fs, g) ELSE Append(Content(fs, g), l)
<1>1. Content(fs, g) \in Seq(Line)
  BY ContentOK
<1>2. s \in Seq(Line) /\ s \in {Content(fs, g), Append(Content(fs, g), l)}
  BY <1>1
<1>3. ~Broken(Content(fs, g)) => s = Append(Content(fs, g), l)
  OBVIOUS
<1>4. gs = Replaced(fs, g, s)
  BY DEF Appended
<1> HIDE DEF s
<1>5. s \in Seq(Line)
  BY <1>2
<1> QED
  <2>1. IsReplaced(fs, g, s, gs)
    BY <1>4, <1>5, ReplacedFiles
  <2> QED
    BY <1>2, <1>3, <2>1 DEF IsReplaced, IsAppended

LEMMA DemangledLines ==
  ASSUME NEW s \in Seq(Line)
  PROVE  /\ Demangled(s) \in Seq(Line) /\ Len(Demangled(s)) = Len(s)
         /\ \A k \in 1..Len(s) :
              /\ Demangled(s)[k].by = s[k].by
              /\ Demangled(s)[k].ok = s[k].ok
              /\ Demangled(s)[k].of = s[k].of
              /\ s[k].form \in {"raw", "plain"} => Demangled(s)[k].form = "plain"
              /\ Demangled(s)[k].form # "raw"
<1> DEFINE d(k) == IF s[k].form = "raw" THEN [s[k] EXCEPT !.form = "plain"] ELSE s[k]
<1>1. \A k \in 1..Len(s) : s[k] \in Line
  OBVIOUS
<1>2. \A k \in 1..Len(s) :
        /\ d(k) \in Line /\ d(k).by = s[k].by /\ d(k).ok = s[k].ok /\ d(k).of = s[k].of
        /\ s[k].form \in {"raw", "plain"} => d(k).form = "plain"
        /\ d(k).form # "raw"
  BY <1>1 DEF Line
<1>3. Demangled(s) = [k \in 1..Len(s) |-> d(k)]
  BY DEF Demangled
<1> HIDE DEF d
<1>4. Demangled(s) \in Seq(Line) /\ Len(Demangled(s)) = Len(s)
  BY <1>2, <1>3
<1> QED
  BY <1>2, <1>3, <1>4

LEMMA DemangledNothing == Demangled(<<>>) = <<>>
BY DEF Demangled

(* Some files are demangled in place.                                      *)
IsDemangled(fs, D, gs) ==
  /\ FilesOK(gs) /\ DOMAIN gs = DOMAIN fs
  /\ \A f \in D : Content(gs, f) = Demangled(Content(fs, f))
  /\ \A f : f \notin D => Content(gs, f) = Content(fs, f)
  /\ \A f \in DOMAIN fs : \A k \in 1..Len(gs[f]) :
       k \in 1..Len(fs[f]) /\ gs[f][k].by = fs[f][k].by
  /\ \A f \in DOMAIN fs \ D : gs[f] = fs[f]

LEMMA DemangledFiles ==
  ASSUME NEW fs, FilesOK(fs), NEW D,
         NEW gs, gs = [f \in DOMAIN fs |-> IF f \in D THEN Demangled(fs[f]) ELSE fs[f]]
  PROVE  IsDemangled(fs, D, gs)
<1>1. \A f \in DOMAIN fs : /\ Demangled(fs[f]) \in Seq(Line) /\ Len(Demangled(fs[f])) = Len(fs[f])
                           /\ \A k \in 1..Len(fs[f]) : Demangled(fs[f])[k].by = fs[f][k].by
  BY DemangledLines DEF FilesOK
<1>2. FilesOK(gs) /\ DOMAIN gs = DOMAIN fs
  BY <1>1 DEF FilesOK
<1>3. ASSUME NEW f \in D PROVE Content(gs, f) = Demangled(Content(fs, f))
  BY DemangledNothing DEF Content
<1>4. ASSUME NEW f, f \notin D PROVE Content(gs, f) = Content(fs, f)
  BY <1>4 DEF Content
<1>5. ASSUME NEW f \in DOMAIN fs, NEW k \in 1..Len(gs[f])
      PROVE  k \in 1..Len(fs[f]) /\ gs[f][k].by = fs[f][k].by
  BY <1>1
<1> QED
  BY <1>2, <1>3, <1>4, <1>5 DEF IsDemangled

-----------------------------------------------------------------------------
Fine(r, l) == l.by = r /\ l.ok

(* A complete file: every line is of the run and made from complete        *)
(* inputs, and there is one for each member of S.                          *)
Whole(r, s, S, forms) ==
  /\ \A k \in 1..Len(s) : Fine(r, s[k]) /\ s[k].form \in forms
  /\ {s[k].of : k \in 1..Len(s)} = S

(* A file that a pass writes, after all bitcodes but those of lf.          *)
Sound(r, s, lf) ==
  /\ \A k \in 1..Len(s) : Fine(r, s[k]) /\ s[k].form = "raw" /\ s[k].of \in Bitcode
  /\ \A b \in Bitcode \ lf : \E k \in 1..Len(s) : s[k].of = b

LEMMA SoundFacts ==
  ASSUME NEW r, NEW s \in Seq(Line), NEW lf \in SUBSET Bitcode, Sound(r, s, lf)
  PROVE  /\ Sound(r, s, Bitcode)
         /\ ~Broken(s)
         /\ lf = {} => Whole(r, s, Bitcode, {"raw"})
BY DEF Sound, Broken, Whole

LEMMA SoundNothing == \A r : Sound(r, <<>>, Bitcode)
BY DEF Sound

LEMMA SoundAppended ==
  ASSUME NEW r, NEW s \in Seq(Line), NEW lf \in SUBSET Bitcode, Sound(r, s, lf),
         NEW l \in Line, Fine(r, l), l.form = "raw", l.of \in lf
  PROVE  Sound(r, Append(s, l), lf \ {l.of})
<1>1. /\ Append(s, l) \in Seq(Line) /\ Len(Append(s, l)) = Len(s) + 1 /\ Len(s) \in Nat
      /\ Append(s, l)[Len(s) + 1] = l
      /\ \A k \in 1..Len(s) : Append(s, l)[k] = s[k]
  OBVIOUS
<1> DEFINE t == Append(s, l)
<1> HIDE DEF t
<1>2. \A k \in 1..Len(t) : k = Len(s) + 1 \/ k \in 1..Len(s)
  BY <1>1 DEF t
<1>3. \A k \in 1..Len(t) : Fine(r, t[k]) /\ t[k].form = "raw" /\ t[k].of \in Bitcode
  BY <1>1, <1>2 DEF t, Sound
<1>4. ASSUME NEW b \in Bitcode \ (lf \ {l.of}) PROVE \E k \in 1..Len(t) : t[k].of = b
  <2>1. CASE b = l.of
    BY <1>1, <2>1 DEF t
  <2>2. CASE b # l.of
    <3>1. PICK k \in 1..Len(s) : s[k].of = b
      BY <1>4, <2>2 DEF Sound
    <3>2. k \in 1..Len(t) /\ t[k] = s[k]
      BY <1>1 DEF t
    <3> QED
      BY <3>1, <3>2
  <2> QED
    BY <2>1, <2>2
<1> QED
  BY <1>3, <1>4 DEF Sound, t

LEMMA WholeDemangled ==
  ASSUME NEW r, NEW s \in Seq(Line), NEW S, NEW forms \in SUBSET {"raw", "plain"}, Whole(r, s, S, forms)
  PROVE  Whole(r, Demangled(s), S, {"plain"})
<1> DEFINE t == Demangled(s)
<1>1. Len(t) = Len(s) /\ \A k \in 1..Len(s) :
        t[k].by = s[k].by /\ t[k].ok = s[k].ok /\ t[k].of = s[k].of
        /\ (s[k].form \in {"raw", "plain"} => t[k].form = "plain")
  BY DemangledLines
<1> HIDE DEF t
<1>2. {t[k].of : k \in 1..Len(t)} = {s[k].of : k \in 1..Len(s)}
  BY <1>1
<1>3. \A k \in 1..Len(t) : Fine(r, t[k]) /\ t[k].form = "plain"
  BY <1>1 DEF Whole, Fine
<1>4. Whole(r, t, S, {"plain"})
  BY <1>2, <1>3 DEF Whole
<1> QED
  BY <1>4 DEF t

(* All that a target reads is there, in the form it needs.                 *)
Supplied(r, fs, t, form) ==
  \A f \in Input(t) : Whole(r, Content(fs, f), Expected(f), IF f \in Scripts THEN {"plain"} ELSE {form})

LEMMA SuppliedIsComplete ==
  ASSUME NEW r, NEW fs, NEW t, Supplied(r, fs, t, InputForm(t))
  PROVE  InputComplete(r, fs, t)
BY DEF Supplied, InputComplete, Whole, Fine

-----------------------------------------------------------------------------
(* The invariants of a run are stated about the values that it alone can   *)
(* change: its stage a, the rest td of its list, the targets mk of its     *)
(* make, the bitcodes lf that it has not seen, the failed targets fl, the  *)
(* names N it is to make and the files fs of its directory.                *)
Stages  == {"idle", "clean", "loop", "recipe", "bitcodes", "audit", "sweep", "done", "killed"}
Making  == {"recipe", "bitcodes"}
Holding == {"loop", "recipe", "bitcodes", "audit", "sweep"}

Shape(a, td, mk, N) ==
  /\ RangeOf(td) \subseteq N
  /\ a = "clean" => RangeOf(td) = N
  /\ a \in Making => td # <<>> /\ IsValid(td[1]) /\ HasRule(td[1]) /\ Remaining(td[1], mk)
  /\ a = "bitcodes" => mk[1] \in Passes
  /\ a = "audit" => td = <<>>
  /\ a \notin Making \cup {"killed"} => mk = <<>>

(* What the run has still to make.                                         *)
Pending(td, mk) == RangeOf(td) \cup RangeOf(mk)

(* The file of a target that failed is not known to be complete, nor that  *)
(* of a target that reads what no recipe removes after a failure.          *)
Claim(fl, f) == (f \in NeverRemoved => f \notin fl) /\ (f = "ext-call" => "ext-call-trait" \notin fl)

(* A directory holds files of its run only, for what it was asked to make. *)
Own(r, N, fs) ==
  \A f \in DOMAIN fs :
    /\ f = "bitcodes" => fs[f] = <<>>
    /\ f # "bitcodes" => \E d \in N : HasRule(d) /\ f \in RangeOf(Targets(d))
    /\ \A k \in 1..Len(fs[f]) : fs[f][k].by = r

(* What was made and has not failed is complete.                           *)
Finished(r, td, mk, fl, N, fs) ==
  \A d \in N \ Pending(td, mk) :
    IsValid(d) /\ HasRule(d) /\ d \notin fl /\ Claim(fl, d)
      => Whole(r, Content(fs, d), Expected(d), {"raw", "plain"})

(* A file that is never removed can be appended to.                        *)
Sticky(r, a, fl, fs) ==
  a \in {"loop", "recipe", "bitcodes"} => \A f \in NeverRemoved \ fl : Sound(r, Content(fs, f), Bitcode)

(* A pass finds the list of bitcodes.                                      *)
Listed(a, mk, fs) == a \in Making /\ mk[1] \in Passes => "bitcodes" \in DOMAIN fs

(* ext-call, which removes no file, finds none of its own.                 *)
Cleared(a, mk, fs) ==
  (a = "recipe" /\ mk[1] = "ext-call") \/ (a = "bitcodes" /\ mk[1] = "ext-call-trait")
    => "ext-call" \notin DOMAIN fs

(* The target that is made finds what it reads.                            *)
Ready(r, a, mk, fl, fs) == a \in Making /\ Claim(fl, mk[1]) => Supplied(r, fs, mk[1], "raw")

Progress(r, a, mk, lf, fl, fs) ==
  a = "bitcodes" => mk[1] \in Passes /\ (Claim(fl, mk[1]) => Sound(r, Content(fs, mk[1]), lf))

(* audit.py reads demangled lines.                                         *)
Readable(a, fs) == a = "audit" => \A f \in DOMAIN fs : \A k \in 1..Len(fs[f]) : fs[f][k].form # "raw"

Kept(r, a, td, mk, lf, fl, N, fs) ==
  a \in Holding =>
    /\ Own(r, N, fs)
    /\ Finished(r, td, mk, fl, N, fs)
    /\ Sticky(r, a, fl, fs)
    /\ Listed(a, mk, fs)
    /\ Cleared(a, mk, fs)
    /\ Ready(r, a, mk, fl, fs)
    /\ Progress(r, a, mk, lf, fl, fs)
    /\ Readable(a, fs)

(* The rest of a list.                                                     *)
LEMMA TailNames ==
  ASSUME NEW S, NEW s \in Seq(S), s # <<>>
  PROVE  /\ Tail(s) \in Seq(S) /\ Len(Tail(s)) = Len(s) - 1 /\ Head(s) = s[1] /\ Len(s) \in Nat \ {0}
         /\ \A k \in 1..Len(Tail(s)) : Tail(s)[k] = s[k + 1]
         /\ RangeOf(s) = {s[1]} \cup RangeOf(Tail(s))
         /\ s[1] \in S
         /\ Len(s) = 1 => Tail(s) = <<>>
<1>1. /\ Tail(s) \in Seq(S) /\ Len(Tail(s)) = Len(s) - 1 /\ Head(s) = s[1] /\ Len(s) \in Nat \ {0}
      /\ \A k \in 1..Len(Tail(s)) : Tail(s)[k] = s[k + 1]
      /\ s[1] \in S
  OBVIOUS
<1> DEFINE t == Tail(s)
<1> HIDE DEF t
<1>2. \A x : x \in RangeOf(s) <=> x = s[1] \/ x \in RangeOf(t)
  <2>1. \A k \in 1..Len(s) : k = 1 \/ (k - 1 \in 1..Len(t) /\ t[k - 1] = s[k])
    BY <1>1 DEF t
  <2>2. \A k \in 1..Len(t) : k + 1 \in 1..Len(s) /\ s[k + 1] = t[k]
    BY <1>1 DEF t
  <2>3. 1 \in 1..Len(s)
    BY <1>1
  <2>4. ASSUME NEW x \in RangeOf(s) PROVE x = s[1] \/ x \in RangeOf(t)
    <3>1. PICK k \in 1..Len(s) : x = s[k]
      BY <2>4 DEF RangeOf
    <3>2. k = 1 \/ (k - 1 \in 1..Len(t) /\ t[k - 1] = s[k])
      BY <2>1
    <3> QED
      BY <3>1, <3>2 DEF RangeOf
  <2>5. ASSUME NEW x \in RangeOf(t) PROVE x \in RangeOf(s)
    <3>1. PICK k \in 1..Len(t) : x = t[k]
      BY <2>5 DEF RangeOf
    <3>2. k + 1 \in 1..Len(s) /\ s[k + 1] = t[k]
      BY <2>2
    <3> QED
      BY <3>1, <3>2 DEF RangeOf
  <2>6. s[1] \in RangeOf(s)
    BY <2>3 DEF RangeOf
  <2> QED
    BY <2>4, <2>5, <2>6
<1>3. Len(s) = 1 => t = <<>>
  <2>1. t \in Seq(S) /\ (Len(s) = 1 => Len(t) = 0)
    BY <1>1 DEF t
  <2> QED
    BY <2>1, EmptySeq
<1> QED
  BY <1>1, <1>2, <1>3 DEF t

LEMMA NoNames == RangeOf(<<>>) = {}
BY DEF RangeOf

(* What is known of the make that is running.                              *)
Made(td, mk, N) ==
  /\ td[1] \in N /\ td[1] \in RangeOf(td) /\ td[1] \in Known /\ mk # <<>> /\ td # <<>>
  /\ mk[1] \in RangeOf(mk) /\ Head(mk) = mk[1] /\ Head(td) = td[1]
  /\ td[1] \in RangeOf(mk)
  /\ mk[1] = "tg_ir" \/ mk[1] = td[1] \/ mk[1] \in Input(td[1])
  /\ mk[1] # "tg_ir" => RangeOf(mk) \subseteq {mk[1], td[1]}
  /\ mk[1] # "tg_ir" => mk[1] \in RangeOf(Targets(td[1]))
  /\ Len(mk) = 1 => mk[1] = td[1]
  /\ Len(mk) > 1 /\ mk[1] # "tg_ir" => mk[1] \in Input(td[1]) /\ mk[2] = td[1]
  /\ Len(mk) > 1 /\ mk[1] = "tg_ir" => Input(mk[2]) = {} /\ mk[2] # "ext-call"
  /\ mk[1] = "ext-call-trait" => td[1] = "ext-call"
  /\ mk[1] = "ext-call" => td[1] = "ext-call"

LEMMA MakingFacts ==
  ASSUME NEW a \in Making, NEW td \in Seq(UserNames), NEW mk \in Seq(Known \cup {"tg_ir"}), NEW N, Shape(a, td, mk, N)
  PROVE  Made(td, mk, N)
<1> DEFINE d == td[1]
<1>1. td # <<>> /\ IsValid(d) /\ HasRule(d) /\ Remaining(d, mk) /\ RangeOf(td) \subseteq N
  BY DEF Shape
<1>2. d \in RangeOf(td) /\ d \in Known /\ Head(td) = d /\ d # "tg_ir"
  BY <1>1, TailNames, KnownNames DEF HasRule, Known
<1>3. Len(mk) \in 1..3 /\ mk # <<>> /\ Head(mk) = mk[1] /\ mk[1] \in RangeOf(mk) /\ mk[Len(mk)] \in RangeOf(mk)
  BY <1>1 DEF Remaining, RangeOf
<1>4. d # "ext-call-trait" /\ \A f \in Input(d) : f # "tg_ir" /\ f # "ext-call" /\ Input(f) = {}
                              /\ (f = "ext-call-trait" => d = "ext-call")
  BY <1>1, KnownNames, InputFacts DEF IsValid, builtin_detectors, Interfaces, Fragments
<1>5. RangeOf(mk) = {mk[k] : k \in 1..Len(mk)}
  BY DEF RangeOf
<1>6. Input(d) \cup {d} \subseteq RangeOf(Targets(d))
  BY <1>1, TargetsShape DEF WellMade
<1>7. d = "ext-call" => Input(d) # {}
  BY Inputs
<1> HIDE DEF d
<1>8. CASE Len(mk) = 1
  BY <1>1, <1>2, <1>3, <1>4, <1>5, <1>6, <1>8 DEF Remaining, Made, d
<1>9. CASE Len(mk) = 2
  <2>1. 1..2 = {1, 2}
    OBVIOUS
  <2> QED
    BY <1>1, <1>2, <1>3, <1>4, <1>5, <1>6, <1>7, <1>9, <2>1 DEF Remaining, Made, d
<1>10. CASE Len(mk) = 3
  BY <1>1, <1>2, <1>3, <1>4, <1>5, <1>6, <1>10 DEF Remaining, Made, d
<1> QED
  BY <1>3, <1>8, <1>9, <1>10

-----------------------------------------------------------------------------
(* How each step changes the values of its run.                            *)
LEMMA CleanStep ==
  ASSUME NEW r, NEW td, NEW lf, NEW fl, NEW N, Shape("clean", td, <<>>, N)
  PROVE  Shape("loop", td, <<>>, N) /\ Kept(r, "loop", td, <<>>, lf, fl, N, NoFiles)
<1>1. Shape("loop", td, <<>>, N) /\ RangeOf(td) = N
  BY DEF Shape, Making
<1>2. Own(r, N, NoFiles) /\ Sticky(r, "loop", fl, NoFiles)
  BY EmptyFiles, SoundNothing DEF Own, Sticky
<1>3. Finished(r, td, <<>>, fl, N, NoFiles)
  BY <1>1 DEF Finished, Pending
<1> QED
  BY <1>1, <1>2, <1>3 DEF Kept, Listed, Cleared, Ready, Progress, Readable, Making

LEMMA SkipStep ==
  ASSUME NEW r, NEW td \in Seq(UserNames), NEW lf, NEW fl, NEW N, NEW fs,
         Shape("loop", td, <<>>, N), Kept(r, "loop", td, <<>>, lf, fl, N, fs),
         td # <<>>, ~IsValid(td[1]) \/ ~HasRule(td[1]), NEW fl2, fl \subseteq fl2
  PROVE  Shape("loop", Tail(td), <<>>, N) /\ Kept(r, "loop", Tail(td), <<>>, lf, fl2, N, fs)
<1>1. RangeOf(td) = {td[1]} \cup RangeOf(Tail(td))
  BY TailNames
<1>2. Own(r, N, fs) /\ Finished(r, td, <<>>, fl, N, fs) /\ Sticky(r, "loop", fl, fs)
  BY DEF Kept, Holding
<1>3. Finished(r, Tail(td), <<>>, fl2, N, fs)
  <2>1. Pending(td, <<>>) \subseteq Pending(Tail(td), <<>>) \cup {td[1]}
    BY <1>1 DEF Pending
  <2> QED
    BY <1>2, <2>1 DEF Finished, Claim
<1>4. Sticky(r, "loop", fl2, fs)
  BY <1>2 DEF Sticky
<1>5. Shape("loop", Tail(td), <<>>, N)
  BY <1>1 DEF Shape, Making
<1> QED
  BY <1>2, <1>3, <1>4, <1>5 DEF Kept, Listed, Cleared, Ready, Progress, Readable, Making

LEMMA MadeShape ==
  ASSUME NEW td \in Seq(UserNames), NEW N, Shape("loop", td, <<>>, N), td # <<>>, IsValid(td[1]), HasRule(td[1])
  PROVE  Targets(td[1]) \in Seq(Known \cup {"tg_ir"}) /\ Shape("recipe", td, Targets(td[1]), N)
<1>1. WellMade(td[1], Targets(td[1]))
  BY TargetsShape
<1> QED
  BY <1>1 DEF Shape, Making, WellMade

LEMMA MakeStep ==
  ASSUME NEW r, NEW td \in Seq(UserNames), NEW lf, NEW fl, NEW N, NEW fs,
         Shape("loop", td, <<>>, N), Kept(r, "loop", td, <<>>, lf, fl, N, fs),
         td # <<>>, IsValid(td[1]), HasRule(td[1])
  PROVE  Kept(r, "recipe", td, Targets(td[1]), lf, fl, N, fs)
<1> DEFINE mk == Targets(td[1])
<1>1. WellMade(td[1], mk)
  BY TargetsShape
<1>2. mk[1] \notin Passes /\ Input(mk[1]) = {} /\ mk[1] # "ext-call"
  BY <1>1, KnownNames DEF WellMade, Known
<1>3. Own(r, N, fs) /\ Finished(r, td, <<>>, fl, N, fs) /\ Sticky(r, "loop", fl, fs)
  BY DEF Kept, Holding
<1> HIDE DEF mk
<1>5. Finished(r, td, mk, fl, N, fs)
  BY <1>3, NoNames DEF Finished, Pending
<1>6. Sticky(r, "recipe", fl, fs) /\ Ready(r, "recipe", mk, fl, fs)
  BY <1>2, <1>3 DEF Sticky, Ready, Supplied
<1>7. Kept(r, "recipe", td, mk, lf, fl, N, fs)
  BY <1>2, <1>3, <1>5, <1>6 DEF Kept, Listed, Cleared, Progress, Readable, Making
<1> QED
  BY <1>7 DEF mk

Advanced(td, mk, N, a2, td2) ==
  /\ Shape(a2, td2, Tail(mk), N)
  /\ Pending(td, mk) \subseteq Pending(td2, Tail(mk)) \cup {mk[1]}
  /\ Tail(mk) \in Seq(Known \cup {"tg_ir"}) /\ td2 \in Seq(UserNames)
  /\ Len(mk) > 1 => Tail(mk)[1] = mk[2]

LEMMA AdvanceShape ==
  ASSUME NEW a \in Making, NEW td \in Seq(UserNames), NEW mk \in Seq(Known \cup {"tg_ir"}), NEW N, Shape(a, td, mk, N),
         NEW a2, a2 = IF Len(mk) > 1 THEN "recipe" ELSE "loop",
         NEW td2, td2 = IF Len(mk) > 1 THEN td ELSE Tail(td)
  PROVE  Advanced(td, mk, N, a2, td2)
<1> DEFINE d == td[1]
           t == Tail(mk)
<1>1. td # <<>> /\ IsValid(d) /\ HasRule(d) /\ Remaining(d, mk) /\ RangeOf(td) \subseteq N /\ mk # <<>>
  <2>1. Made(td, mk, N)
    BY MakingFacts
  <2> QED
    BY <2>1 DEF Shape, Made, Making
<1>2. /\ t \in Seq(Known \cup {"tg_ir"}) /\ Len(t) = Len(mk) - 1 /\ Len(mk) \in 1..3
      /\ \A k \in 1..Len(t) : t[k] = mk[k + 1]
      /\ RangeOf(mk) = {mk[1]} \cup RangeOf(t)
      /\ Len(mk) = 1 => t = <<>>
  BY <1>1, TailNames DEF Remaining
<1>3. Tail(td) \in Seq(UserNames) /\ RangeOf(td) = {d} \cup RangeOf(Tail(td))
  BY <1>1, TailNames
<1>d. d # "tg_ir" /\ \A f \in Input(d) : f # "tg_ir"
  BY <1>1, KnownNames, InputFacts DEF HasRule, Known
<1>4. CASE Len(mk) = 1
  <2>1. a2 = "loop" /\ td2 = Tail(td) /\ mk[1] = d /\ t = <<>>
    BY <1>1, <1>2, <1>4 DEF Remaining
  <2> HIDE DEF t, d
  <2>2. Shape(a2, td2, t, N)
    BY <1>1, <1>3, <2>1 DEF Shape, Making
  <2>3. Pending(td, mk) \subseteq Pending(td2, t) \cup {mk[1]}
    BY <1>2, <1>3, <2>1 DEF Pending
  <2> QED
    BY <1>2, <1>3, <1>4, <2>1, <2>2, <2>3 DEF t, Advanced
<1>5. CASE Len(mk) # 1
  <2>1. a2 = "recipe" /\ td2 = td /\ Len(mk) > 1
    BY <1>2, <1>5
  <2>2. Len(t) \in 1..2 /\ t[Len(t)] = mk[Len(mk)] /\ t[1] = mk[2]
    BY <1>2, <2>1
  <2> HIDE DEF t, d
  <2>3. Len(t) = 2 => Len(mk) = 3
    BY <1>2
  <2>4. Remaining(d, t)
    BY <1>1, <1>2, <2>2, <2>3 DEF Remaining
  <2>5. Shape(a2, td2, t, N)
    BY <1>1, <2>1, <2>4 DEF Shape, Making, d
  <2>6. Pending(td, mk) \subseteq Pending(td2, t) \cup {mk[1]}
    BY <1>2, <2>1 DEF Pending
  <2> QED
    BY <1>2, <2>1, <2>2, <2>5, <2>6 DEF t, Advanced
<1> QED
  BY <1>4, <1>5

LEMMA GiveUpShape ==
  ASSUME NEW a \in Making, NEW td \in Seq(UserNames), NEW mk \in Seq(Known \cup {"tg_ir"}), NEW N, Shape(a, td, mk, N),
         mk[1] # "tg_ir"
  PROVE  /\ Shape("loop", Tail(td), <<>>, N)
         /\ Pending(td, mk) \subseteq Pending(Tail(td), <<>>) \cup {mk[1], td[1]}
         /\ Tail(td) \in Seq(UserNames)
<1>1. td # <<>> /\ RangeOf(td) \subseteq N /\ RangeOf(mk) \subseteq {mk[1], td[1]}
  <2>1. Made(td, mk, N)
    BY MakingFacts
  <2> QED
    BY <2>1 DEF Shape, Made, Making
<1>2. Tail(td) \in Seq(UserNames) /\ RangeOf(td) = {td[1]} \cup RangeOf(Tail(td))
  BY <1>1, TailNames
<1> QED
  BY <1>1, <1>2 DEF Shape, Pending, Making

LEMMA BuildStep ==
  ASSUME NEW a, a = "recipe", NEW r, NEW td \in Seq(UserNames), NEW mk \in Seq(Known \cup {"tg_ir"}), NEW lf, NEW fl, NEW N, NEW fs, FilesOK(fs),
         Shape(a, td, mk, N), Kept(r, a, td, mk, lf, fl, N, fs), mk[1] = "tg_ir",
         NEW a2, a2 = IF Len(mk) > 1 THEN "recipe" ELSE "loop",
         NEW td2, td2 = IF Len(mk) > 1 THEN td ELSE Tail(td),
         NEW fl2, fl2 = fl \ ({mk[1]} \ NeverRemoved),
         NEW fs2, fs2 = Replaced(fs, "bitcodes", <<>>)
  PROVE  Kept(r, a2, td2, Tail(mk), lf, fl2, N, fs2) /\ FilesOK(fs2)
<1>1. a \in Making /\ a \in Holding
  BY DEF Making, Holding
<1>2. Own(r, N, fs) /\ Finished(r, td, mk, fl, N, fs) /\ Sticky(r, a, fl, fs)
  BY <1>1 DEF Kept
<1>b. PICK bc : bc = "bitcodes"
  OBVIOUS
<1>3. <<>> \in Seq(Line) /\ fs2 = Replaced(fs, bc, <<>>)
  BY <1>b
<1>4. /\ FilesOK(fs2) /\ DOMAIN fs2 = DOMAIN fs \cup {"bitcodes"} /\ fs2["bitcodes"] = <<>>
      /\ \A f \in DOMAIN fs \ {"bitcodes"} : fs2[f] = fs[f]
      /\ \A f : f # "bitcodes" => Content(fs2, f) = Content(fs, f)
  <2>1. /\ FilesOK(fs2) /\ DOMAIN fs2 = DOMAIN fs \cup {bc} /\ fs2[bc] = <<>>
        /\ \A f \in DOMAIN fs \ {bc} : fs2[f] = fs[f]
        /\ \A f : f # bc => Content(fs2, f) = Content(fs, f)
    <3>1. IsReplaced(fs, bc, <<>>, fs2)
      BY <1>3, ReplacedFiles
    <3> QED
      BY <3>1 DEF IsReplaced
  <2> QED
    BY <1>b, <2>1
<1>5. /\ Pending(td, mk) \subseteq Pending(td2, Tail(mk)) \cup {"tg_ir"}
      /\ Len(mk) > 1 => Tail(mk)[1] = mk[2]
  <2>1. Advanced(td, mk, N, a2, td2)
    BY <1>1, AdvanceShape
  <2> QED
    BY <2>1 DEF Advanced
<1>6. Len(mk) > 1 /\ Input(mk[2]) = {} /\ mk[2] # "ext-call"
  <2>1. /\ Len(mk) = 1 => mk[1] = td[1]
        /\ Len(mk) > 1 /\ mk[1] = "tg_ir" => Input(mk[2]) = {} /\ mk[2] # "ext-call"
        /\ td[1] \in Known /\ mk # <<>>
    <3>1. Made(td, mk, N)
      BY <1>1, MakingFacts
    <3> QED
      BY <3>1 DEF Made
  <2>2. Len(mk) \in Nat \ {0}
    BY <2>1
  <2>3. mk[1] \notin Known
    BY KnownNames
  <2>4. Len(mk) > 1
    <3>1. Len(mk) # 1
      BY <2>1, <2>3
    <3>2. \A n \in Nat \ {0} : n # 1 => n > 1
      OBVIOUS
    <3> QED
      BY <2>2, <3>1, <3>2, Zenon
  <2> QED
    BY <2>1, <2>4, Zenon
<1>7. a2 = "recipe" /\ Input(Tail(mk)[1]) = {} /\ Tail(mk)[1] # "ext-call"
  BY <1>5, <1>6
<1>8. Own(r, N, fs2)
  BY <1>2, <1>4 DEF Own
<1>9. Finished(r, td2, Tail(mk), fl2, N, fs2)
  <2>1. ASSUME NEW d, HasRule(d) PROVE d \notin {"tg_ir", "bitcodes"}
    BY <2>1, KnownNames DEF HasRule, Known
  <2> QED
    BY <1>2, <1>4, <1>5, <2>1 DEF Finished, Claim, NeverRemoved
<1>10. Sticky(r, a2, fl2, fs2)
  BY <1>2, <1>4, <1>7, KnownNames DEF Sticky, NeverRemoved
<1> HIDE DEF Known
<1>11. Ready(r, a2, Tail(mk), fl2, fs2)
  BY <1>7 DEF Ready, Supplied
<1> QED
  BY <1>4, <1>7, <1>8, <1>9, <1>10, <1>11 DEF Kept, Listed, Cleared, Progress, Readable

(* The list of bitcodes is found, and the file is removed if any pass is.  *)
LEMMA BeginStep ==
  ASSUME NEW a, a = "recipe", NEW r, NEW td \in Seq(UserNames), NEW mk \in Seq(Known \cup {"tg_ir"}), NEW lf, NEW fl, NEW N, NEW fs, FilesOK(fs),
         Shape(a, td, mk, N), Kept(r, a, td, mk, lf, fl, N, fs), mk[1] \in Passes,
         NEW fs2, fs2 = Without(fs, Removes(mk[1]))
  PROVE  /\ "bitcodes" \in DOMAIN fs
         /\ Shape("bitcodes", td, mk, N)
         /\ Kept(r, "bitcodes", td, mk, Bitcode, fl, N, fs2) /\ FilesOK(fs2)
<1> DEFINE t == mk[1]
           F == Removes(t)
<1>1. a \in Making /\ a \in Holding /\ "bitcodes" \in Making
  BY DEF Making, Holding
<1>2. /\ Own(r, N, fs) /\ Finished(r, td, mk, fl, N, fs) /\ Sticky(r, a, fl, fs)
      /\ Listed(a, mk, fs) /\ Cleared(a, mk, fs) /\ Ready(r, a, mk, fl, fs)
  BY <1>1 DEF Kept
<1>3. /\ FilesOK(fs2) /\ DOMAIN fs2 = DOMAIN fs \ F
      /\ \A f \in DOMAIN fs \ F : fs2[f] = fs[f]
      /\ \A f : f \notin F => Content(fs2, f) = Content(fs, f)
      /\ \A f \in F : Content(fs2, f) = <<>>
  <2> HIDE DEF F
  <2>1. fs2 = Without(fs, F)
    BY DEF F
  <2>2. IsWithout(fs, F, fs2)
    BY <2>1, WithoutFiles
  <2> QED
    BY <2>2 DEF IsWithout
<1>4. t \in RangeOf(mk) /\ td[1] \in RangeOf(mk) /\ (t = "ext-call-trait" => td[1] = "ext-call") /\ t # "tg_ir"
  <2>1. Made(td, mk, N)
    BY <1>1, MakingFacts
  <2>2. t # "tg_ir"
    BY KnownNames DEF Known
  <2> QED
    BY <2>1, <2>2 DEF Made
<1>5. F \subseteq RangeOf(mk) /\ F \subseteq {t, "ext-call"} /\ (t = "ext-call-trait" => F = {"ext-call"})
      /\ (t # "ext-call-trait" => F \subseteq {t})
  BY <1>4, RemovesFacts
<1>6. "bitcodes" \in DOMAIN fs /\ "bitcodes" \in DOMAIN fs2
  <2>1. "bitcodes" \notin F
    BY <1>5, KnownNames DEF Known
  <2> QED
    BY <1>1, <1>2, <1>3, <2>1 DEF Listed
<1>7. Shape("bitcodes", td, mk, N)
  BY DEF Shape, Making
<1>8. Own(r, N, fs2)
  BY <1>2, <1>3 DEF Own
<1>9. Finished(r, td, mk, fl, N, fs2)
  BY <1>2, <1>3, <1>5 DEF Finished, Pending
<1>10. Sound(r, <<>>, Bitcode)
  BY SoundNothing
<1>11. Sticky(r, "bitcodes", fl, fs2)
  BY <1>2, <1>3, <1>10 DEF Sticky
<1>12. Ready(r, "bitcodes", mk, fl, fs2)
  <2>1. \A f \in Input(t) : f \notin F
    <3>1. \A f \in Input(t) : f # t /\ f # "ext-call"
      BY InputFacts
    <3> QED
      BY <1>5, <3>1
  <2> QED
    BY <1>1, <1>2, <1>3, <2>1 DEF Ready, Supplied
<1>13. Cleared("bitcodes", mk, fs2)
  BY <1>3, <1>5 DEF Cleared
<1>14. Progress(r, "bitcodes", mk, Bitcode, fl, fs2)
  <2>1. CASE t \in NeverRemoved
    BY <1>11, <2>1 DEF Progress, Claim, Sticky
  <2>2. CASE t = "ext-call"
    <3>1. Content(fs2, t) = <<>>
      BY <1>2, <1>3, <2>2 DEF Cleared, Content
    <3> QED
      BY <1>10, <3>1 DEF Progress
  <2>3. CASE t \notin NeverRemoved \cup {"ext-call"}
    <3>1. t \in F
      BY <2>3, RemovesFacts
    <3>2. Content(fs2, t) = <<>>
      BY <1>3, <3>1
    <3> QED
      BY <1>10, <3>2 DEF Progress
  <2> QED
    BY <2>1, <2>2, <2>3
<1> HIDE DEF t, F
<1> QED
  BY <1>3, <1>6, <1>7, <1>8, <1>9, <1>11, <1>12, <1>13, <1>14 DEF Kept, Listed, Readable

(* The line a recipe of run r writes for the target t that reads fs.       *)
Written(r, fs, t, x, form, l) == l = [by |-> r, of |-> x, form |-> form, ok |-> InputComplete(r, fs, t)]

(* Every line of the file of a pass is written with complete inputs.       *)
LEMMA RunStep ==
  ASSUME NEW r \in Run, NEW a, a = "bitcodes",
         NEW td \in Seq(UserNames), NEW mk \in Seq(Known \cup {"tg_ir"}),
         NEW lf \in SUBSET Bitcode, NEW fl, NEW N, NEW fs, FilesOK(fs),
         Shape(a, td, mk, N), Kept(r, a, td, mk, lf, fl, N, fs), NEW b \in lf,
         NEW l, Written(r, fs, mk[1], b, "raw", l),
         NEW fs2, fs2 = Appended(fs, mk[1], l)
  PROVE  /\ Kept(r, a, td, mk, lf \ {b}, fl, N, fs2) /\ FilesOK(fs2)
         /\ "bitcodes" \in DOMAIN fs
<1> DEFINE t == mk[1]
<1>1. a \in Making /\ a \in Holding
  BY DEF Making, Holding
<1>2. /\ Own(r, N, fs) /\ Finished(r, td, mk, fl, N, fs) /\ Sticky(r, a, fl, fs)
      /\ Listed(a, mk, fs) /\ Cleared(a, mk, fs) /\ Ready(r, a, mk, fl, fs)
      /\ Progress(r, a, mk, lf, fl, fs)
  BY <1>1 DEF Kept
<1>3. /\ t \in Passes /\ t \notin Scripts /\ t # "bitcodes" /\ t # "tg_ir"
      /\ Claim(fl, t) => Sound(r, Content(fs, t), lf)
      /\ "bitcodes" \in DOMAIN fs
  BY <1>1, <1>2, KnownNames DEF Progress, Listed, Known
<1>4. l \in Line /\ l.by = r /\ l.of = b /\ l.form = "raw" /\ l.ok = InputComplete(r, fs, t)
  <2>1. InputComplete(r, fs, t) \in BOOLEAN
    BY DEF InputComplete
  <2> QED
    BY <2>1 DEF Line, Written
<1>5. t \in RangeOf(mk) /\ td[1] \in N /\ HasRule(td[1]) /\ t \in RangeOf(Targets(td[1]))
  <2>1. Made(td, mk, N)
    BY <1>1, MakingFacts
  <2> QED
    BY <1>1, <1>3, <2>1 DEF Made, Shape
<1>6. IsAppended(fs, t, l, fs2)
  BY <1>4, AppendedFiles
<1>7. Content(fs, t) \in Seq(Line)
  BY ContentOK
<1> HIDE DEF t
<1>8. Own(r, N, fs2)
  <2>1. \A k \in 1..Len(Content(fs, t)) : Content(fs, t)[k].by = r
    BY <1>2 DEF Own, Content
  <2>2. \A k \in 1..Len(Append(Content(fs, t), l)) : Append(Content(fs, t), l)[k].by = r
    BY <1>4, <1>7, <2>1
  <2>3. \A k \in 1..Len(fs2[t]) : fs2[t][k].by = r
    BY <1>6, <2>1, <2>2 DEF IsAppended
  <2>4. ASSUME NEW f \in DOMAIN fs2
        PROVE  /\ f = "bitcodes" => fs2[f] = <<>>
               /\ f # "bitcodes" => \E d \in N : HasRule(d) /\ f \in RangeOf(Targets(d))
               /\ \A k \in 1..Len(fs2[f]) : fs2[f][k].by = r
    <3>1. CASE f = t
      BY <1>3, <1>5, <2>3, <3>1
    <3>2. CASE f # t
      <4>1. f \in DOMAIN fs /\ fs2[f] = fs[f]
        BY <1>6, <3>2 DEF IsAppended
      <4> QED
        BY <1>2, <4>1 DEF Own
    <3> QED
      BY <3>1, <3>2
  <2> QED
    BY <2>4 DEF Own
<1>9. Finished(r, td, mk, fl, N, fs2)
  BY <1>2, <1>5, <1>6 DEF Finished, Pending, IsAppended
<1>10. Claim(fl, t) => Sound(r, Content(fs2, t), lf \ {b})
  <2>1. SUFFICES ASSUME Claim(fl, t) PROVE Sound(r, Content(fs2, t), lf \ {b})
    OBVIOUS
  <2>2. Supplied(r, fs, t, "raw") /\ InputForm(t) = "raw"
    BY <1>1, <1>2, <1>3, <2>1 DEF Ready, InputForm, t
  <2>3. InputComplete(r, fs, t)
    BY <2>2, SuppliedIsComplete
  <2>4. Sound(r, Content(fs, t), lf) /\ ~Broken(Content(fs, t))
    BY <1>3, <1>7, <2>1, SoundFacts
  <2>5. Content(fs2, t) = Append(Content(fs, t), l)
    BY <1>6, <2>4 DEF IsAppended
  <2>6. Fine(r, l)
    BY <1>4, <2>3 DEF Fine
  <2>7. Sound(r, Append(Content(fs, t), l), lf \ {l.of})
    BY <1>4, <1>7, <2>4, <2>6, SoundAppended
  <2> QED
    BY <1>4, <2>5, <2>7
<1>11. Content(fs2, t) \in Seq(Line) /\ FilesOK(fs2)
  BY <1>6, ContentOK DEF IsAppended
<1>12. Sticky(r, a, fl, fs2)
  <2>1. ASSUME NEW f \in NeverRemoved \ fl PROVE Sound(r, Content(fs2, f), Bitcode)
    <3>1. CASE f = t
      <4>1. Claim(fl, t)
        BY <2>1, <3>1 DEF Claim, NeverRemoved
      <4>2. lf \ {b} \in SUBSET Bitcode /\ Sound(r, Content(fs2, t), lf \ {b})
        BY <1>10, <4>1
      <4> QED
        BY <1>11, <3>1, <4>2, SoundFacts
    <3>2. CASE f # t
      BY <1>1, <1>2, <1>6, <2>1, <3>2 DEF Sticky, IsAppended
    <3> QED
      BY <3>1, <3>2
  <2> QED
    BY <2>1 DEF Sticky
<1>13. Ready(r, a, mk, fl, fs2)
  <2>1. \A f \in Input(t) : f # t
    BY InputFacts
  <2> QED
    BY <1>2, <1>6, <2>1 DEF Ready, Supplied, IsAppended, t
<1>14. Cleared(a, mk, fs2) /\ Listed(a, mk, fs2)
  BY <1>2, <1>6 DEF Cleared, Listed, IsAppended, t
<1>15. Progress(r, a, mk, lf \ {b}, fl, fs2)
  BY <1>3, <1>10 DEF Progress, t
<1> QED
  BY <1>3, <1>8, <1>9, <1>11, <1>12, <1>13, <1>14, <1>15 DEF Kept, Readable

(* What a crash leaves of the files of run r in the file of target t.      *)
Crashed(r, fs, t, fs2) == \E l \in Line : l.by = r /\ (fs2 = fs \/ fs2 = Appended(fs, t, l))

(* make gives up: what fails and what it was made for are not claimed.     *)
LEMMA CrashStep ==
  ASSUME NEW r \in Run, NEW a, a = "bitcodes",
         NEW td \in Seq(UserNames), NEW mk \in Seq(Known \cup {"tg_ir"}),
         NEW lf, NEW fl, NEW N, NEW fs, FilesOK(fs),
         Shape(a, td, mk, N), Kept(r, a, td, mk, lf, fl, N, fs),
         NEW fs2, Crashed(r, fs, mk[1], fs2),
         NEW fl2, fl2 = fl \cup {mk[1], td[1]}
  PROVE  Kept(r, "loop", Tail(td), <<>>, {}, fl2, N, fs2)
<1> DEFINE t == mk[1]
<1>l. PICK l \in Line : l.by = r /\ (fs2 = fs \/ fs2 = Appended(fs, t, l))
  BY DEF Crashed
<1>1. a \in Making /\ a \in Holding
  BY DEF Making, Holding
<1>2. Own(r, N, fs) /\ Finished(r, td, mk, fl, N, fs) /\ Sticky(r, a, fl, fs) /\ Progress(r, a, mk, lf, fl, fs)
  BY <1>1 DEF Kept
<1>3. t \in Passes /\ t # "bitcodes" /\ t # "tg_ir"
  BY <1>2, KnownNames DEF Progress, Known
<1>4. t \in RangeOf(mk) /\ td[1] \in N /\ HasRule(td[1]) /\ t \in RangeOf(Targets(td[1]))
  <2>1. Made(td, mk, N)
    BY <1>1, MakingFacts
  <2> QED
    BY <1>1, <1>3, <2>1 DEF Made, Shape
<1>5. /\ Shape("loop", Tail(td), <<>>, N) /\ Tail(td) \in Seq(UserNames)
      /\ Pending(td, mk) \subseteq Pending(Tail(td), <<>>) \cup {t, td[1]}
  BY <1>1, <1>3, GiveUpShape
<1>6. Content(fs, t) \in Seq(Line)
  BY ContentOK
<1>7. fs2 = fs \/ IsAppended(fs, t, l, fs2)
  BY <1>l, AppendedFiles
<1>9. \A f : f # t => Content(fs2, f) = Content(fs, f)
  BY <1>7 DEF IsAppended
<1> HIDE DEF t
<1>10. Own(r, N, fs2)
  <2>1. \A k \in 1..Len(Content(fs, t)) : Content(fs, t)[k].by = r
    BY <1>2 DEF Own, Content
  <2>2. \A k \in 1..Len(Append(Content(fs, t), l)) : Append(Content(fs, t), l)[k].by = r
    BY <1>l, <1>6, <2>1
  <2>4. ASSUME NEW f \in DOMAIN fs2, IsAppended(fs, t, l, fs2)
        PROVE  /\ f = "bitcodes" => fs2[f] = <<>>
               /\ f # "bitcodes" => \E d \in N : HasRule(d) /\ f \in RangeOf(Targets(d))
               /\ \A k \in 1..Len(fs2[f]) : fs2[f][k].by = r
    <3>1. CASE f = t
      <4>1. \A k \in 1..Len(fs2[t]) : fs2[t][k].by = r
        BY <2>1, <2>2, <2>4 DEF IsAppended
      <4> QED
        BY <1>3, <1>4, <3>1, <4>1
    <3>2. CASE f # t
      <4>1. f \in DOMAIN fs /\ fs2[f] = fs[f]
        BY <2>4, <3>2 DEF IsAppended
      <4> QED
        BY <1>2, <4>1 DEF Own
    <3> QED
      BY <3>1, <3>2
  <2> QED
    BY <1>2, <1>7, <2>4 DEF Own
<1>11. Finished(r, Tail(td), <<>>, fl2, N, fs2)
  BY <1>2, <1>5, <1>9 DEF Finished, Claim, t
<1>12. Sticky(r, "loop", fl2, fs2)
  BY <1>2, <1>9 DEF Sticky, t
<1> QED
  BY <1>10, <1>11, <1>12 DEF Kept, Listed, Cleared, Ready, Progress, Readable, Making

(* A pass ends with a line for each bitcode.                               *)
LEMMA EndStep ==
  ASSUME NEW r \in Run, NEW a, a = "bitcodes",
         NEW td \in Seq(UserNames), NEW mk \in Seq(Known \cup {"tg_ir"}),
         NEW lf, lf = {}, NEW fl, NEW N, NEW fs, FilesOK(fs),
         Shape(a, td, mk, N), Kept(r, a, td, mk, lf, fl, N, fs),
         NEW a2, a2 = IF Len(mk) > 1 THEN "recipe" ELSE "loop",
         NEW td2, td2 = IF Len(mk) > 1 THEN td ELSE Tail(td),
         NEW fl2, fl2 = fl \ ({mk[1]} \ NeverRemoved)
  PROVE  Kept(r, a2, td2, Tail(mk), lf, fl2, N, fs)
<1> DEFINE t == mk[1]
           mk2 == Tail(mk)
<1>1. a \in Making /\ a \in Holding /\ a2 \in {"recipe", "loop"}
  BY DEF Making, Holding
<1>2. /\ Own(r, N, fs) /\ Finished(r, td, mk, fl, N, fs) /\ Sticky(r, a, fl, fs)
      /\ Listed(a, mk, fs) /\ Cleared(a, mk, fs) /\ Progress(r, a, mk, lf, fl, fs)
  BY <1>1 DEF Kept
<1>3. t \in Passes /\ t \notin Scripts /\ t # "tg_ir" /\ (Claim(fl, t) => Sound(r, Content(fs, t), {}))
      /\ "bitcodes" \in DOMAIN fs
  BY <1>1, <1>2, KnownNames DEF Progress, Known, Listed
<1>4. /\ Pending(td, mk) \subseteq Pending(td2, mk2) \cup {t}
      /\ Len(mk) > 1 => mk2[1] = mk[2]
  <2>1. Advanced(td, mk, N, a2, td2)
    BY <1>1, AdvanceShape
  <2> QED
    BY <2>1 DEF Advanced
<1>5. Len(mk) > 1 => t \in Input(td[1]) /\ mk[2] = td[1]
  <2>1. Made(td, mk, N)
    BY <1>1, MakingFacts
  <2> QED
    BY <1>3, <2>1 DEF Made
<1>6. a2 = "recipe" => t \in Input(mk2[1])
  BY <1>4, <1>5
<1>7. Content(fs, t) \in Seq(Line)
  BY ContentOK
<1>8. Claim(fl2, t) => Whole(r, Content(fs, t), Bitcode, {"raw"})
  <2>1. SUFFICES ASSUME Claim(fl2, t) PROVE Whole(r, Content(fs, t), Bitcode, {"raw"})
    OBVIOUS
  <2>2. Claim(fl, t)
    BY <2>1 DEF Claim, NeverRemoved
  <2> QED
    BY <1>3, <1>7, <2>2, SoundFacts
<1>9. Expected(t) = Bitcode
  BY <1>3 DEF Expected
<1>10. fl2 = fl \ ({t} \ NeverRemoved)
  OBVIOUS
<1> HIDE DEF t, mk2
<1>11. Finished(r, td2, mk2, fl2, N, fs)
  <2>1. Claim(fl2, t) => Whole(r, Content(fs, t), Expected(t), {"raw", "plain"})
    BY <1>8, <1>9 DEF Whole
  <2>2. ASSUME NEW d \in N, d \notin Pending(td2, mk2), IsValid(d), HasRule(d), d \notin fl2, Claim(fl2, d)
        PROVE  Whole(r, Content(fs, d), Expected(d), {"raw", "plain"})
    <3>1. CASE d = t
      BY <2>1, <2>2, <3>1
    <3>2. CASE d # t
      <4>1. d \notin Pending(td, mk) /\ d \notin fl /\ Claim(fl, d)
        BY <1>4, <1>10, <2>2, <3>2 DEF Claim, NeverRemoved
      <4> QED
        BY <1>2, <2>2, <4>1 DEF Finished
    <3> QED
      BY <3>1, <3>2
  <2> QED
    BY <2>2 DEF Finished
<1>12. Sticky(r, a2, fl2, fs)
  BY <1>1, <1>2, <1>10 DEF Sticky
<1>13. Ready(r, a2, mk2, fl2, fs)
  <2>1. SUFFICES ASSUME a2 = "recipe", Claim(fl2, mk2[1]) PROVE Supplied(r, fs, mk2[1], "raw")
    BY <1>1 DEF Ready, Making
  <2>2. t \in Input(mk2[1])
    BY <1>6, <2>1
  <2>3. Input(mk2[1]) = {t} /\ t # "ext-call" /\ t # "round" /\ (t = "ext-call-trait" <=> mk2[1] = "ext-call")
    BY <2>2, InputFacts
  <2>4. Claim(fl2, t)
    BY <2>1, <2>3 DEF Claim, NeverRemoved
  <2> QED
    BY <1>3, <1>8, <1>9, <2>3, <2>4 DEF Supplied
<1>14. Cleared(a2, mk2, fs)
  <2>1. SUFFICES ASSUME a2 = "recipe", mk2[1] = "ext-call" PROVE "ext-call" \notin DOMAIN fs
    BY <1>1 DEF Cleared
  <2>2. t = "ext-call-trait"
    <3>1. t \in Input(mk2[1])
      BY <1>6, <2>1
    <3> QED
      BY <2>1, <3>1, InputFacts
  <2> QED
    BY <1>2, <2>2 DEF Cleared, t
<1>15. Listed(a2, mk2, fs) /\ Progress(r, a2, mk2, lf, fl2, fs) /\ Readable(a2, fs)
  BY <1>1, <1>3 DEF Listed, Progress, Readable
<1> QED
  BY <1>2, <1>11, <1>12, <1>13, <1>14, <1>15 DEF Kept, mk2

(* What a script leaves of the files: its own removed, the one it reads    *)
(* demangled.                                                              *)
ScriptReads(fs, t, gs) ==
  gs = [f \in DOMAIN Without(fs, Removes(t)) |->
         IF f \in Demangles(t) THEN Demangled(Without(fs, Removes(t))[f]) ELSE Without(fs, Removes(t))[f]]

ScriptHas(r, t, fl, N, fs, gs) ==
  /\ FilesOK(gs) /\ Own(r, N, gs)
  /\ \A d \in N \ {t} : Whole(r, Content(fs, d), Expected(d), {"raw", "plain"})
                          => Whole(r, Content(gs, d), Expected(d), {"raw", "plain"})
  /\ \A f \in NeverRemoved : Content(gs, f) = Content(fs, f)
  /\ Claim(fl, t) => InputComplete(r, gs, t)

LEMMA OneLine ==
  ASSUME NEW r, NEW l, Fine(r, l), l.form = "plain"
  PROVE  Whole(r, <<l>>, {l.of}, {"plain"})
<1>1. Len(<<l>>) = 1 /\ <<l>>[1] = l
  OBVIOUS
<1>2. {<<l>>[k].of : k \in 1..Len(<<l>>)} = {l.of}
  BY <1>1
<1> QED
  BY <1>1, <1>2 DEF Whole

LEMMA ScriptFiles ==
  ASSUME NEW r, NEW a, a = "recipe",
         NEW td \in Seq(UserNames), NEW mk \in Seq(Known \cup {"tg_ir"}),
         NEW lf, NEW fl, NEW N, NEW fs, FilesOK(fs),
         Shape(a, td, mk, N), Kept(r, a, td, mk, lf, fl, N, fs), mk[1] \in Scripts,
         NEW gs, ScriptReads(fs, mk[1], gs)
  PROVE  ScriptHas(r, mk[1], fl, N, fs, gs)
<1> DEFINE t == mk[1]
           F == Removes(t)
           D == Demangles(t)
           hs == Without(fs, F)
<1>1. a \in Making /\ a \in Holding
  BY DEF Making, Holding
<1>2. Own(r, N, fs) /\ Ready(r, a, mk, fl, fs)
  BY <1>1 DEF Kept
<1>3. F \subseteq {t} /\ t \notin Passes /\ t # "bitcodes"
  BY RemovesFacts, KnownNames DEF Known
<1>4. \A f \in D : f \in Input(t) /\ f \in Passes \ NeverRemoved /\ f # t
  <2>1. Input(t) = {} => D = {}
    BY DEF Demangles
  <2>2. \A f \in Input(t) : D \subseteq Input(t) /\ (f \in D => f \in Passes \ NeverRemoved)
    BY DemanglesFacts
  <2> QED
    BY <1>3, <2>1, <2>2
<1>5. \A f \in Input(t) \ D : f \in Scripts
  BY DemanglesFacts
<1> HIDE DEF F, D
<1>6. IsWithout(fs, F, hs)
  BY WithoutFiles
<1> HIDE DEF hs
<1>7. IsDemangled(hs, D, gs)
  <2>1. FilesOK(hs)
    BY <1>6 DEF IsWithout
  <2>2. gs = [f \in DOMAIN hs |-> IF f \in D THEN Demangled(hs[f]) ELSE hs[f]]
    BY DEF ScriptReads, hs, F, D
  <2> QED
    BY <2>1, <2>2, DemangledFiles
<1>8. \A f : f # t => Content(hs, f) = Content(fs, f)
  BY <1>3, <1>6 DEF IsWithout
<1>9. Own(r, N, gs)
  <2>1. "bitcodes" \notin D
    BY <1>4, KnownNames DEF Known
  <2>2. ASSUME NEW f \in DOMAIN gs
        PROVE  /\ f \in DOMAIN fs
               /\ f = "bitcodes" => gs[f] = fs[f]
               /\ \A k \in 1..Len(gs[f]) : gs[f][k].by = r
    <3>1. f \in DOMAIN hs /\ f \in DOMAIN fs /\ hs[f] = fs[f]
      BY <1>6, <1>7 DEF IsDemangled, IsWithout
    <3>2. \A k \in 1..Len(gs[f]) : gs[f][k].by = r
      BY <1>2, <1>7, <3>1 DEF IsDemangled, Own
    <3>3. f = "bitcodes" => gs[f] = hs[f]
      BY <1>7, <2>1, <3>1 DEF IsDemangled
    <3> QED
      BY <3>1, <3>2, <3>3
  <2> QED
    BY <1>2, <2>2 DEF Own
<1>10. ASSUME NEW d, d # t, Whole(r, Content(fs, d), Expected(d), {"raw", "plain"})
       PROVE  Whole(r, Content(gs, d), Expected(d), {"raw", "plain"})
  <2>1. CASE d \in D
    <3>1. Content(gs, d) = Demangled(Content(fs, d)) /\ Content(fs, d) \in Seq(Line)
      BY <1>7, <1>8, <1>10, <2>1, ContentOK DEF IsDemangled
    <3>2. Whole(r, Demangled(Content(fs, d)), Expected(d), {"plain"})
      BY <1>10, <3>1, WholeDemangled
    <3> QED
      BY <3>1, <3>2 DEF Whole
  <2>2. CASE d \notin D
    BY <1>7, <1>8, <1>10, <2>2 DEF IsDemangled
  <2> QED
    BY <2>1, <2>2
<1>11. \A f \in NeverRemoved : Content(gs, f) = Content(fs, f)
  <2>1. \A f \in NeverRemoved : f # t /\ f \notin D
    BY <1>3, <1>4, KnownNames
  <2> QED
    BY <1>7, <1>8, <2>1 DEF IsDemangled
<1>12. ASSUME Claim(fl, t) PROVE InputComplete(r, gs, t)
  <2>1. Supplied(r, fs, t, "raw")
    BY <1>1, <1>2, <1>12 DEF Ready
  <2>2. ASSUME NEW f \in Input(t)
        PROVE  Whole(r, Content(gs, f), Expected(f), IF f \in Scripts THEN {"plain"} ELSE {"plain"})
    <3>1. Whole(r, Content(fs, f), Expected(f), IF f \in Scripts THEN {"plain"} ELSE {"raw"}) /\ f # t
      BY <2>1, InputFacts DEF Supplied
    <3>2. Content(fs, f) \in Seq(Line)
      BY ContentOK
    <3>3. CASE f \in D
      <4>1. Content(gs, f) = Demangled(Content(fs, f))
        BY <1>7, <1>8, <3>1, <3>3 DEF IsDemangled
      <4>2. Whole(r, Content(fs, f), Expected(f), {"raw"}) \/ Whole(r, Content(fs, f), Expected(f), {"plain"})
        BY <3>1
      <4>3. Whole(r, Demangled(Content(fs, f)), Expected(f), {"plain"})
        BY <3>2, <4>2, WholeDemangled
      <4> QED
        BY <4>1, <4>3
    <3>4. CASE f \notin D
      <4>1. Content(gs, f) = Content(fs, f) /\ f \in Scripts
        BY <1>5, <1>7, <1>8, <3>1, <3>4 DEF IsDemangled
      <4> QED
        BY <3>1, <4>1
    <3> QED
      BY <3>3, <3>4
  <2>3. InputForm(t) = "plain"
    BY DEF InputForm
  <2>4. Supplied(r, gs, t, InputForm(t))
    BY <2>2, <2>3 DEF Supplied
  <2> QED
    BY <2>4, SuppliedIsComplete
<1> QED
  BY <1>7, <1>9, <1>10, <1>11, <1>12 DEF IsDemangled, ScriptHas

LEMMA ScriptDone ==
  ASSUME NEW r \in Run, NEW a, a = "recipe",
         NEW td \in Seq(UserNames), NEW mk \in Seq(Known \cup {"tg_ir"}),
         NEW lf, NEW fl, NEW N, NEW fs, FilesOK(fs),
         Shape(a, td, mk, N), Kept(r, a, td, mk, lf, fl, N, fs), mk[1] \in Scripts,
         NEW gs, ScriptReads(fs, mk[1], gs),
         NEW l, Written(r, gs, mk[1], Source, "plain", l),
         NEW fs2, fs2 = Replaced(gs, mk[1], <<l>>),
         NEW a2, a2 = IF Len(mk) > 1 THEN "recipe" ELSE "loop",
         NEW td2, td2 = IF Len(mk) > 1 THEN td ELSE Tail(td),
         NEW fl2, fl2 = fl \ ({mk[1]} \ NeverRemoved)
  PROVE  Kept(r, a2, td2, Tail(mk), lf, fl2, N, fs2) /\ FilesOK(fs2)
<1> DEFINE t == mk[1]
           mk2 == Tail(mk)
<1>1. a \in Making /\ a \in Holding /\ a2 \in {"recipe", "loop"}
  BY DEF Making, Holding
<1>2. Finished(r, td, mk, fl, N, fs) /\ Sticky(r, a, fl, fs)
  BY <1>1 DEF Kept
<1>3. /\ t \in Known /\ t \notin Passes /\ t \notin NeverRemoved /\ t # "ext-call" /\ t # "bitcodes" /\ t # "tg_ir"
      /\ Claim(fl, t)
  BY KnownNames DEF Known, Claim
<1>4. /\ FilesOK(gs) /\ Own(r, N, gs)
      /\ \A d \in N \ {t} : Whole(r, Content(fs, d), Expected(d), {"raw", "plain"})
                              => Whole(r, Content(gs, d), Expected(d), {"raw", "plain"})
      /\ \A f \in NeverRemoved : Content(gs, f) = Content(fs, f)
      /\ InputComplete(r, gs, t)
  <2>1. ScriptHas(r, t, fl, N, fs, gs)
    BY ScriptFiles
  <2> QED
    BY <1>3, <2>1 DEF ScriptHas
<1>5. l \in Line /\ l.by = r /\ l.of = Source /\ l.form = "plain" /\ l.ok
  BY <1>4 DEF Line, Written
<1>6. <<l>> \in Seq(Line) /\ Len(<<l>>) = 1 /\ <<l>>[1] = l
  BY <1>5
<1>7. IsReplaced(gs, t, <<l>>, fs2)
  BY <1>4, <1>6, ReplacedFiles
<1>8. Whole(r, Content(fs2, t), Expected(t), {"plain"})
  <2>1. Content(fs2, t) = <<l>> /\ Expected(t) = {Source}
    BY <1>7 DEF IsReplaced, Expected
  <2> QED
    BY <1>5, <2>1, OneLine DEF Fine
<1>9. /\ Pending(td, mk) \subseteq Pending(td2, mk2) \cup {t}
      /\ Len(mk) > 1 => mk2[1] = mk[2]
  <2>1. Advanced(td, mk, N, a2, td2)
    BY <1>1, AdvanceShape
  <2> QED
    BY <2>1 DEF Advanced
<1>10. /\ Len(mk) > 1 => t \in Input(td[1]) /\ mk[2] = td[1]
       /\ td[1] \in N /\ HasRule(td[1]) /\ t \in RangeOf(Targets(td[1]))
  <2>1. Made(td, mk, N)
    BY <1>1, MakingFacts
  <2> QED
    BY <1>1, <1>3, <2>1 DEF Made, Shape
<1>11. a2 = "recipe" => t \in Input(mk2[1])
  BY <1>9, <1>10
<1>12. fl2 = fl \ {t}
  BY <1>3
<1>t. t \in Scripts
  OBVIOUS
<1> HIDE DEF t, mk2
<1>13. Own(r, N, fs2)
  <2>1. ASSUME NEW f \in DOMAIN fs2
        PROVE  /\ f = "bitcodes" => fs2[f] = <<>>
               /\ f # "bitcodes" => \E d \in N : HasRule(d) /\ f \in RangeOf(Targets(d))
               /\ \A k \in 1..Len(fs2[f]) : fs2[f][k].by = r
    <3>1. CASE f = t
      <4>1. fs2[f] = <<l>>
        BY <1>7, <3>1 DEF IsReplaced
      <4>2. \A k \in 1..Len(fs2[f]) : fs2[f][k].by = r
        BY <1>5, <1>6, <4>1
      <4> QED
        BY <1>3, <1>10, <3>1, <4>2
    <3>2. CASE f # t
      <4>1. f \in DOMAIN gs /\ fs2[f] = gs[f]
        BY <1>7, <3>2 DEF IsReplaced
      <4> QED
        BY <1>4, <4>1 DEF Own
    <3> QED
      BY <3>1, <3>2
  <2> QED
    BY <2>1 DEF Own
<1>14. Finished(r, td2, mk2, fl2, N, fs2)
  <2>1. ASSUME NEW d \in N, d \notin Pending(td2, mk2), IsValid(d), HasRule(d), d \notin fl2, Claim(fl2, d)
        PROVE  Whole(r, Content(fs2, d), Expected(d), {"raw", "plain"})
    <3>1. CASE d = t
      BY <1>8, <3>1 DEF Whole
    <3>2. CASE d # t
      <4>1. d \notin Pending(td, mk) /\ d \notin fl /\ Claim(fl, d)
        BY <1>3, <1>9, <1>12, <2>1, <3>2 DEF Claim, NeverRemoved
      <4>2. Whole(r, Content(fs, d), Expected(d), {"raw", "plain"})
        BY <1>2, <2>1, <4>1 DEF Finished
      <4>3. Content(fs2, d) = Content(gs, d)
        BY <1>7, <3>2 DEF IsReplaced
      <4> QED
        BY <1>4, <3>2, <4>2, <4>3
    <3> QED
      BY <3>1, <3>2
  <2> QED
    BY <2>1 DEF Finished
<1>15. Sticky(r, a2, fl2, fs2)
  <2>1. \A f \in NeverRemoved : f # t /\ Content(fs2, f) = Content(fs, f)
    BY <1>3, <1>4, <1>7 DEF IsReplaced
  <2>2. \A f \in NeverRemoved \ fl2 : f \notin fl
    BY <1>12, <2>1
  <2> QED
    BY <1>1, <1>2, <2>1, <2>2 DEF Sticky
<1>16. a2 = "recipe" => Input(mk2[1]) = {t} /\ mk2[1] \in Scripts
  BY <1>t, <1>11, InputFacts
<1>17. Ready(r, a2, mk2, fl2, fs2)
  BY <1>1, <1>t, <1>8, <1>16 DEF Ready, Supplied, Making
<1>18. Cleared(a2, mk2, fs2) /\ Listed(a2, mk2, fs2)
  BY <1>1, <1>16, KnownNames DEF Cleared, Listed, Making
<1>19. Progress(r, a2, mk2, lf, fl2, fs2) /\ Readable(a2, fs2)
  BY <1>1 DEF Progress, Readable
<1>20. FilesOK(fs2)
  BY <1>7 DEF IsReplaced
<1> QED
  BY <1>13, <1>14, <1>15, <1>17, <1>18, <1>19, <1>20 DEF Kept, mk2

LEMMA ScriptFailed ==
  ASSUME NEW r \in Run, NEW a, a = "recipe",
         NEW td \in Seq(UserNames), NEW mk \in Seq(Known \cup {"tg_ir"}),
         NEW lf, NEW fl, NEW N, NEW fs, FilesOK(fs),
         Shape(a, td, mk, N), Kept(r, a, td, mk, lf, fl, N, fs), mk[1] \in Scripts,
         NEW gs, ScriptReads(fs, mk[1], gs),
         NEW fl2, fl2 = fl \cup {mk[1], td[1]}
  PROVE  /\ Shape("loop", Tail(td), <<>>, N) /\ Tail(td) \in Seq(UserNames)
         /\ Kept(r, "loop", Tail(td), <<>>, lf, fl2, N, gs) /\ FilesOK(gs)
<1> DEFINE t == mk[1]
<1>1. a \in Making /\ a \in Holding
  BY DEF Making, Holding
<1>2. Finished(r, td, mk, fl, N, fs) /\ Sticky(r, a, fl, fs)
  BY <1>1 DEF Kept
<1>3. t # "tg_ir"
  BY KnownNames DEF Known
<1>4. /\ FilesOK(gs) /\ Own(r, N, gs)
      /\ \A d \in N \ {t} : Whole(r, Content(fs, d), Expected(d), {"raw", "plain"})
                              => Whole(r, Content(gs, d), Expected(d), {"raw", "plain"})
      /\ \A f \in NeverRemoved : Content(gs, f) = Content(fs, f)
  <2>1. ScriptHas(r, t, fl, N, fs, gs)
    BY ScriptFiles
  <2> QED
    BY <2>1 DEF ScriptHas
<1>5. /\ Shape("loop", Tail(td), <<>>, N) /\ Tail(td) \in Seq(UserNames)
      /\ Pending(td, mk) \subseteq Pending(Tail(td), <<>>) \cup {t, td[1]}
  BY <1>1, <1>3, GiveUpShape
<1> HIDE DEF t
<1>6. Finished(r, Tail(td), <<>>, fl2, N, gs)
  BY <1>2, <1>4, <1>5 DEF Finished, Claim, t
<1>7. Sticky(r, "loop", fl2, gs)
  BY <1>2, <1>4 DEF Sticky
<1> QED
  BY <1>4, <1>5, <1>6, <1>7 DEF Kept, Listed, Cleared, Ready, Progress, Readable, Making

(* audit.py demangles every file, and reads them.                          *)
LEMMA AuditStep ==
  ASSUME NEW r \in Run, NEW lf, NEW fl, NEW N, NEW fs, FilesOK(fs),
         Kept(r, "loop", <<>>, <<>>, lf, fl, N, fs),
         NEW fs2, fs2 = [f \in DOMAIN fs |-> Demangled(fs[f])]
  PROVE  Kept(r, "audit", <<>>, <<>>, lf, fl, N, fs2) /\ FilesOK(fs2)
<1>1. Own(r, N, fs) /\ Finished(r, <<>>, <<>>, fl, N, fs)
  BY DEF Kept, Holding
<1>2. \A f \in DOMAIN fs : f \in DOMAIN fs2 /\ fs2[f] = Demangled(fs[f]) /\ fs[f] \in Seq(Line)
  BY DEF FilesOK
<1>3. DOMAIN fs2 = DOMAIN fs
  OBVIOUS
<1>4. FilesOK(fs2)
  BY <1>2, <1>3, DemangledLines DEF FilesOK
<1>5. \A f \in DOMAIN fs2 : \A k \in 1..Len(fs2[f]) : k \in 1..Len(fs[f]) /\ fs2[f][k].by = fs[f][k].by
                                                      /\ fs2[f][k].form # "raw"
  BY <1>2, <1>3, DemangledLines
<1>6. \A d : Content(fs2, d) = Demangled(Content(fs, d)) /\ Content(fs, d) \in Seq(Line)
  BY <1>2, <1>3, DemangledNothing, ContentOK DEF Content
<1>7. Own(r, N, fs2)
  BY <1>1, <1>2, <1>3, <1>5, DemangledNothing DEF Own
<1>8. Finished(r, <<>>, <<>>, fl, N, fs2)
  <2>1. ASSUME NEW d, Whole(r, Content(fs, d), Expected(d), {"raw", "plain"})
        PROVE  Whole(r, Content(fs2, d), Expected(d), {"raw", "plain"})
    <3>1. Whole(r, Demangled(Content(fs, d)), Expected(d), {"plain"})
      BY <1>6, <2>1, WholeDemangled
    <3> QED
      BY <1>6, <3>1 DEF Whole
  <2> QED
    BY <1>1, <2>1 DEF Finished
<1>9. Readable("audit", fs2)
  BY <1>5 DEF Readable
<1> QED
  BY <1>4, <1>7, <1>8, <1>9 DEF Kept, Sticky, Listed, Cleared, Ready, Progress, Making

LEMMA SweepStep ==
  ASSUME NEW r, NEW a \in {"loop", "audit"}, NEW lf, NEW fl, NEW N, NEW fs,
         Kept(r, a, <<>>, <<>>, lf, fl, N, fs)
  PROVE  Kept(r, "sweep", <<>>, <<>>, lf, fl, N, fs)
BY DEF Kept, Holding, Sticky, Listed, Cleared, Ready, Progress, Readable, Making

-----------------------------------------------------------------------------
(* What a report of run r says, when fl have failed and N was asked for:   *)
(* ReportComplete and ReportOwn for one run.                               *)
Says(found, d) == IF d \in DOMAIN found THEN found[d] ELSE {}

Complete(r, fl, N, found) ==
  \A d \in N : IsValid(d) /\ HasRule(d) /\ RangeOf(Targets(d)) \cap fl = {} =>
    Says(found, d) = {[by |-> r, of |-> b, form |-> "plain", ok |-> TRUE] : b \in Expected(d)}

OfRun(r, N, found) ==
  \A f \in DOMAIN found : \A l \in found[f] :
    l.by = r /\ \E d \in N : HasRule(d) /\ f \in RangeOf(Targets(d))

LEMMA PlainLines ==
  ASSUME NEW r, NEW S, NEW s \in Seq(Line), Whole(r, s, S, {"plain"})
  PROVE  Parsed(s) = {[by |-> r, of |-> b, form |-> "plain", ok |-> TRUE] : b \in S}
<1>1. Parsed(s) = {s[k] : k \in 1..Len(s)}
  <2>1. \A n \in 1..Len(s) : \A m \in 1..n : m \in 1..Len(s) /\ s[m].form # "cut"
    BY DEF Whole
  <2> QED
    BY <2>1 DEF Parsed
<1>2. \A k \in 1..Len(s) : s[k] = [by |-> r, of |-> s[k].of, form |-> "plain", ok |-> TRUE] /\ s[k].of \in S
  <2> TAKE k \in 1..Len(s)
  <2>1. s[k] \in Line
    OBVIOUS
  <2>2. s[k].by = r /\ s[k].ok = TRUE /\ s[k].form = "plain" /\ s[k].of \in S
    BY <2>1 DEF Whole, Fine, Line
  <2> QED
    BY <2>1, <2>2 DEF Line
<1>3. \A b \in S : \E k \in 1..Len(s) : s[k].of = b
  BY DEF Whole
<1> DEFINE line(b) == [by |-> r, of |-> b, form |-> "plain", ok |-> TRUE]
<1>4. \A k \in 1..Len(s) : s[k] = line(s[k].of)
  BY <1>2
<1> HIDE DEF line
<1>5. ASSUME NEW x \in {s[k] : k \in 1..Len(s)} PROVE x \in {line(b) : b \in S}
  <2>1. PICK k \in 1..Len(s) : x = s[k]
    OBVIOUS
  <2>2. x = line(s[k].of) /\ s[k].of \in S
    BY <1>2, <1>4, <2>1
  <2> QED
    BY <2>2
<1>6. ASSUME NEW b \in S PROVE line(b) \in {s[k] : k \in 1..Len(s)}
  <2>1. PICK k \in 1..Len(s) : s[k].of = b
    BY <1>3
  <2>2. s[k] = line(b)
    BY <1>4, <2>1
  <2> QED
    BY <2>2
<1>7. {s[k] : k \in 1..Len(s)} = {line(b) : b \in S}
  BY <1>5, <1>6
<1> QED
  BY <1>1, <1>7 DEF line

LEMMA ReportIsRight ==
  ASSUME NEW r, NEW lf, NEW fl, NEW N, NEW fs, FilesOK(fs), Kept(r, "audit", <<>>, <<>>, lf, fl, N, fs),
         NEW found, found = [f \in DOMAIN fs |-> Parsed(fs[f])]
  PROVE  Complete(r, fl, N, found) /\ OfRun(r, N, found)
<1>1. Own(r, N, fs) /\ Finished(r, <<>>, <<>>, fl, N, fs) /\ Readable("audit", fs)
  BY DEF Kept, Holding
<1>2. ASSUME NEW d \in N, IsValid(d), HasRule(d), RangeOf(Targets(d)) \cap fl = {}
      PROVE  Says(found, d) = {[by |-> r, of |-> b, form |-> "plain", ok |-> TRUE] : b \in Expected(d)}
  <2>1. Input(d) \cup {d} \subseteq RangeOf(Targets(d))
    BY <1>2, TargetsShape DEF WellMade
  <2>2. d \notin fl /\ Claim(fl, d)
    <3>1. d = "ext-call" => "ext-call-trait" \in Input(d)
      BY Inputs
    <3> QED
      BY <1>2, <2>1, <3>1 DEF Claim
  <2>3. Pending(<<>>, <<>>) = {}
    BY NoNames DEF Pending
  <2>4. Whole(r, Content(fs, d), Expected(d), {"raw", "plain"})
    BY <1>1, <1>2, <2>2, <2>3 DEF Finished
  <2>5. \A k \in 1..Len(Content(fs, d)) : Content(fs, d)[k].form # "raw"
    BY <1>1 DEF Readable, Content
  <2>6. Whole(r, Content(fs, d), Expected(d), {"plain"})
    BY <2>4, <2>5 DEF Whole
  <2>7. Content(fs, d) \in Seq(Line)
    BY ContentOK
  <2>8. Parsed(Content(fs, d)) = {[by |-> r, of |-> b, form |-> "plain", ok |-> TRUE] : b \in Expected(d)}
    BY <2>6, <2>7, PlainLines
  <2>9. Parsed(<<>>) = {}
    BY DEF Parsed
  <2>10. Says(found, d) = Parsed(Content(fs, d))
    BY <2>9 DEF Says, Content
  <2> QED
    BY <2>8, <2>10
<1>3. ASSUME NEW f \in DOMAIN found, NEW l \in found[f]
      PROVE  l.by = r /\ \E d \in N : HasRule(d) /\ f \in RangeOf(Targets(d))
  <2>1. f \in DOMAIN fs /\ l \in Parsed(fs[f])
    OBVIOUS
  <2>2. PICK k \in 1..Len(fs[f]) : l = fs[f][k]
    BY <2>1 DEF Parsed
  <2>3. f # "bitcodes"
    BY <1>1, <2>1, <2>2 DEF Own
  <2> QED
    BY <1>1, <2>1, <2>2, <2>3 DEF Own
<1> QED
  BY <1>2, <1>3 DEF Complete, OfRun

-----------------------------------------------------------------------------
(* The inductive invariant.                                                *)
Typed ==
  /\ now \in Second /\ dirs \in SUBSET Second /\ shared \in SUBSET Run
  /\ dir \in [Run -> Second]
  /\ at \in [Run -> Stages]
  /\ todo \in [Run -> Seq(UserNames)]
  /\ make \in [Run -> Seq(Known \cup {"tg_ir"})]
  /\ left \in [Run -> SUBSET Bitcode]
  /\ ran \in [Run -> BOOLEAN]
  /\ DOMAIN asked = Run /\ DOMAIN failed = Run /\ DOMAIN report = Run /\ DOMAIN tmp = Second
  /\ \A d \in Second : FilesOK(tmp[d]) /\ (d \notin dirs => DOMAIN tmp[d] = {})

(* Two runs that go on in the same directory both count as sharing it.     *)
Exclusive ==
  \A r, q \in Run : r # q /\ Active(r) /\ Active(q) /\ dir[r] = dir[q] => r \in shared

Placed(r) ==
  /\ at[r] # "idle" => asked[r] \in DOMAIN Companions /\ Shape(at[r], todo[r], make[r], AskedFor(r))
  /\ at[r] = "idle" => make[r] = <<>> /\ report[r].state = "old"
  /\ at[r] = "audit" => ran[r]
  /\ report[r].state \in {"old", "empty", "new"}
  /\ report[r].state = "new" => at[r] \in {"sweep", "done", "killed"}
  /\ Alone(r) => Kept(r, at[r], todo[r], make[r], left[r], failed[r], AskedFor(r), Here(r))
  /\ Alone(r) /\ report[r].state = "new" =>
       Complete(r, failed[r], AskedFor(r), report[r].found) /\ OfRun(r, AskedFor(r), report[r].found)

IInv == Typed /\ Exclusive /\ NoLeftovers /\ \A r \in Run : Placed(r)

(* A step of run r changes the values of r and its directory only.         *)
Local(r) ==
  /\ UNCHANGED <<now, dir, asked, shared>>
  /\ at' = [at EXCEPT ![r] = at'[r]]
  /\ todo' = [todo EXCEPT ![r] = todo'[r]]
  /\ make' = [make EXCEPT ![r] = make'[r]]
  /\ left' = [left EXCEPT ![r] = left'[r]]
  /\ ran' = [ran EXCEPT ![r] = ran'[r]]
  /\ DOMAIN failed' = Run /\ \A q \in Run \ {r} : failed'[q] = failed[q]
  /\ DOMAIN report' = Run /\ \A q \in Run \ {r} : report'[q] = report[q]
  /\ DOMAIN tmp' = Second /\ \A d \in Second \ {dir[r]} : tmp'[d] = tmp[d]
  /\ dirs' \ {dir[r]} = dirs \ {dir[r]}

(* The values it gives them.                                               *)
Values(r) ==
  /\ Active(r)
  /\ at'[r] \in Stages \ {"idle"}
  /\ todo'[r] \in Seq(UserNames)
  /\ make'[r] \in Seq(Known \cup {"tg_ir"})
  /\ left'[r] \in SUBSET Bitcode
  /\ ran'[r] \in BOOLEAN
  /\ FilesOK(tmp'[dir[r]])
  /\ dir[r] \notin dirs' => DOMAIN tmp'[dir[r]] = {}
  /\ at'[r] = "done" => dir[r] \notin dirs'
  /\ Shape(at'[r], todo'[r], make'[r], AskedFor(r))
  /\ at'[r] = "audit" => ran'[r]
  /\ report'[r].state \in {"old", "empty", "new"}
  /\ report'[r].state = "new" => at'[r] \in {"sweep", "done", "killed"}
  /\ Alone(r) => Kept(r, at'[r], todo'[r], make'[r], left'[r], failed'[r], AskedFor(r), tmp'[dir[r]])
  /\ Alone(r) /\ report'[r].state = "new" =>
       Complete(r, failed'[r], AskedFor(r), report'[r].found) /\ OfRun(r, AskedFor(r), report'[r].found)

LEMMA ChangedIn ==
  ASSUME NEW S, NEW T, NEW f \in [S -> T], NEW x, NEW v \in T, NEW g, g = [f EXCEPT ![x] = v]
  PROVE  g \in [S -> T]
OBVIOUS

LEMMA LocalKeeps ==
  ASSUME IInv, NEW r \in Run, Local(r), Values(r)
  PROVE  IInv'
<1> USE DEF IInv
<1>1. /\ dir[r] \in Second /\ now' = now /\ dir' = dir /\ asked' = asked /\ shared' = shared
      /\ at[r] # "idle"
  BY DEF Local, Values, Typed, Active
<1>2. \A q \in Run \ {r} :
        /\ at'[q] = at[q] /\ todo'[q] = todo[q] /\ make'[q] = make[q] /\ left'[q] = left[q] /\ ran'[q] = ran[q]
        /\ failed'[q] = failed[q] /\ report'[q] = report[q]
  BY DEF Local, Typed
<1>3. \A d \in Second \ {dir[r]} : tmp'[d] = tmp[d] /\ (d \in dirs' <=> d \in dirs)
  BY <1>1 DEF Local, Typed
<1>4. dirs' \in SUBSET Second
  BY <1>1 DEF Local, Typed
<1>5. Typed'
  <2>1. at' \in [Run -> Stages]
    <3>1. at \in [Run -> Stages] /\ at'[r] \in Stages /\ at' = [at EXCEPT ![r] = at'[r]]
      BY DEF Local, Values, Typed
    <3> QED
      BY <3>1, ChangedIn
  <2>1b. todo' \in [Run -> Seq(UserNames)]
    <3>1. todo \in [Run -> Seq(UserNames)] /\ todo'[r] \in Seq(UserNames) /\ todo' = [todo EXCEPT ![r] = todo'[r]]
      BY DEF Local, Values, Typed
    <3> QED
      BY <3>1, ChangedIn
  <2>2. make' \in [Run -> Seq(Known \cup {"tg_ir"})]
    <3>1. make \in [Run -> Seq(Known \cup {"tg_ir"})] /\ make'[r] \in Seq(Known \cup {"tg_ir"}) /\ make' = [make EXCEPT ![r] = make'[r]]
      BY DEF Local, Values, Typed
    <3> QED
      BY <3>1, ChangedIn
  <2>2b. left' \in [Run -> SUBSET Bitcode]
    <3>1. left \in [Run -> SUBSET Bitcode] /\ left'[r] \in SUBSET Bitcode /\ left' = [left EXCEPT ![r] = left'[r]]
      BY DEF Local, Values, Typed
    <3> QED
      BY <3>1, ChangedIn
  <2>3. ran' \in [Run -> BOOLEAN]
    BY DEF Local, Values, Typed
  <2>4. DOMAIN failed' = Run /\ DOMAIN report' = Run /\ DOMAIN tmp' = Second
    BY DEF Local, Typed
  <2>5. ASSUME NEW d \in Second PROVE FilesOK(tmp'[d]) /\ (d \notin dirs' => DOMAIN tmp'[d] = {})
    <3>1. CASE d = dir[r]
      BY <3>1 DEF Values
    <3>2. CASE d # dir[r]
      BY <1>3, <3>2 DEF Typed
    <3> QED
      BY <3>1, <3>2
  <2> QED
    BY <1>1, <1>4, <2>1, <2>1b, <2>2, <2>2b, <2>3, <2>4, <2>5 DEF Typed
<1>6. Exclusive'
  <2>1. \A q \in Run : Active(q)' => Active(q)
    BY <1>2 DEF Active, Values
  <2> QED
    BY <1>1, <2>1 DEF Exclusive
<1>7. NoLeftovers'
  <2>1. ASSUME NEW d \in dirs' PROVE \E q \in Run : dir'[q] = d /\ at'[q] \notin {"idle", "done"}
    <3>1. CASE d = dir[r]
      BY <1>1, <2>1, <3>1 DEF Values
    <3>2. CASE d # dir[r]
      <4>1. d \in dirs
        BY <1>3, <1>4, <2>1, <3>2
      <4>2. PICK q \in Run : dir[q] = d /\ at[q] \notin {"idle", "done"}
        BY <4>1 DEF NoLeftovers
      <4>3. at'[q] = at[q]
        BY <1>2, <3>2, <4>2
      <4> QED
        BY <1>1, <4>2, <4>3
    <3> QED
      BY <3>1, <3>2
  <2> QED
    BY <2>1 DEF NoLeftovers
<1>8. ASSUME NEW q \in Run PROVE Placed(q)'
  <2>1. AskedFor(q)' = AskedFor(q) /\ asked'[q] = asked[q] /\ dir'[q] = dir[q] /\ (Alone(q)' <=> Alone(q))
    BY <1>1 DEF AskedFor, Alone
  <2>2. CASE q = r
    BY <1>1, <2>1, <2>2 DEF Placed, Values, Here
  <2>3. CASE q # r
    <3>1. /\ at'[q] = at[q] /\ todo'[q] = todo[q] /\ make'[q] = make[q] /\ left'[q] = left[q] /\ ran'[q] = ran[q]
          /\ failed'[q] = failed[q] /\ report'[q] = report[q]
      BY <1>2, <2>3
    <3>2. Alone(q) /\ at[q] \in Holding => Here(q)' = Here(q)
      <4>1. SUFFICES ASSUME Alone(q), at[q] \in Holding PROVE Here(q)' = Here(q)
        OBVIOUS
      <4>2. dir[q] # dir[r]
        BY <2>3, <4>1 DEF Exclusive, Values, Alone, Active, Holding
      <4> QED
        BY <1>3, <2>1, <4>2 DEF Here, Typed
    <3>3. Placed(q)
      OBVIOUS
    <3>4. Alone(q) => Kept(q, at[q], todo[q], make[q], left[q], failed[q], AskedFor(q), Here(q)')
      BY <3>2, <3>3 DEF Placed, Kept
    <3> QED
      BY <2>1, <3>1, <3>3, <3>4 DEF Placed
  <2> QED
    BY <2>2, <2>3
<1> QED
  BY <1>5, <1>6, <1>7, <1>8

(* What the invariant says of a run that goes on.                          *)
Going(r) ==
  /\ dir[r] \in Second /\ at[r] \in Stages \ {"idle", "done", "killed"}
  /\ todo[r] \in Seq(UserNames) /\ make[r] \in Seq(Known \cup {"tg_ir"})
  /\ left[r] \in SUBSET Bitcode /\ ran[r] \in BOOLEAN
  /\ FilesOK(Here(r)) /\ Here(r) = tmp[dir[r]] /\ (dir[r] \notin dirs => DOMAIN Here(r) = {})
  /\ Shape(at[r], todo[r], make[r], AskedFor(r))
  /\ Alone(r) => Kept(r, at[r], todo[r], make[r], left[r], failed[r], AskedFor(r), Here(r))
  /\ at[r] = "audit" => ran[r]
  /\ report[r].state \in {"old", "empty", "new"}
  /\ at[r] # "sweep" => report[r].state # "new"
  /\ Alone(r) /\ report[r].state = "new" =>
       Complete(r, failed[r], AskedFor(r), report[r].found) /\ OfRun(r, AskedFor(r), report[r].found)

LEMMA RunGoesOn ==
  ASSUME IInv, NEW r \in Run, Active(r)
  PROVE  Going(r)
BY DEF IInv, Typed, Placed, Going, Active, Here

(* Every table has a row for each run, the files one for each second.      *)
Tables ==
  /\ DOMAIN at = Run /\ DOMAIN todo = Run /\ DOMAIN make = Run /\ DOMAIN left = Run /\ DOMAIN ran = Run
  /\ DOMAIN failed = Run /\ DOMAIN report = Run /\ DOMAIN tmp = Second /\ dir \in [Run -> Second]

LEMMA TablesHold == IInv => Tables
BY DEF IInv, Typed, Tables

LEMMA CleanBeforeMoves ==
  ASSUME IInv, NEW r \in Run, CleanBefore(r)
  PROVE  Local(r) /\ Values(r)
<1>1. Active(r) /\ at[r] = "clean"
  BY DEF CleanBefore, Active
<1>2. Going(r)
  BY <1>1, RunGoesOn
<1>3. Local(r)
  BY <1>1 DEF CleanBefore, RemoveDir, Local, IInv, Typed, Hist, Files
<1>4. /\ at'[r] = "loop" /\ todo'[r] = todo[r] /\ make'[r] = make[r] /\ left'[r] = left[r] /\ ran'[r] = ran[r]
      /\ failed'[r] = failed[r] /\ report'[r] = report[r] /\ dir[r] \notin dirs' /\ tmp'[dir[r]] = NoFiles
  BY <1>2 DEF CleanBefore, RemoveDir, IInv, Typed, Going, Hist, Files
<1>5. make[r] = <<>>
  BY <1>1, <1>2 DEF Going, Shape, Making
<1>6. Shape("loop", todo[r], <<>>, AskedFor(r))
      /\ Kept(r, "loop", todo[r], <<>>, left[r], failed[r], AskedFor(r), NoFiles)
  BY <1>1, <1>2, <1>5, CleanStep DEF Going
<1>7. Values(r)
  BY <1>1, <1>2, <1>4, <1>5, <1>6, EmptyFiles DEF Values, Going, Stages
<1> QED
  BY <1>3, <1>7

LEMMA RefuseMoves ==
  ASSUME IInv, NEW r \in Run, Refuse(r) \/ NoRule(r)
  PROVE  Local(r) /\ Values(r)
<1> DEFINE td == todo[r]
<1>1. Active(r) /\ at[r] = "loop" /\ td # <<>>
  BY DEF Refuse, NoRule, Looping, Active
<1>2. Going(r)
  BY <1>1, RunGoesOn
<1>3. Local(r)
  BY DEF Refuse, NoRule, Local, IInv, Typed, Hist, Files
<1>4. /\ at'[r] = "loop" /\ todo'[r] = Tail(td) /\ make'[r] = make[r] /\ left'[r] = left[r]
      /\ ran'[r] \in BOOLEAN /\ failed[r] \subseteq failed'[r] /\ report'[r] = report[r]
      /\ tmp'[dir[r]] = Here(r) /\ dirs' = dirs
      /\ ~IsValid(Head(td)) \/ ~HasRule(Head(td))
  <2>t. Tables
    BY TablesHold
  <2>b. ran[r] \in BOOLEAN
    BY <1>2 DEF Going
  <2>1. CASE Refuse(r)
    BY <1>1, <2>1, <2>t, <2>b DEF Refuse, Looping, Tables, Hist, Files, Here
  <2>2. CASE NoRule(r)
    BY <1>1, <2>2, <2>t DEF NoRule, Looping, Tables, Files, Here
  <2> QED
    BY <2>1, <2>2
<1>5. make[r] = <<>>
  BY <1>1, <1>2 DEF Going, Shape, Making
<1>6. td \in Seq(UserNames) /\ Head(td) = td[1] /\ Tail(td) \in Seq(UserNames)
  <2>1. td \in Seq(UserNames)
    BY <1>2 DEF Going
  <2> QED
    BY <1>1, <2>1, TailNames
<1>7. Shape("loop", td, <<>>, AskedFor(r))
      /\ (Alone(r) => Kept(r, "loop", td, <<>>, left[r], failed[r], AskedFor(r), Here(r)))
  BY <1>1, <1>2, <1>5 DEF Going
<1>8. Shape("loop", Tail(td), <<>>, AskedFor(r))
  BY <1>1, <1>6, <1>7, TailNames DEF Shape, Making
<1> HIDE DEF td
<1>9. Alone(r) => Kept(r, "loop", Tail(td), <<>>, left[r], failed'[r], AskedFor(r), Here(r))
  BY <1>1, <1>4, <1>6, <1>7, SkipStep
<1>10. Values(r)
  BY <1>1, <1>2, <1>4, <1>5, <1>6, <1>8, <1>9 DEF Values, Going, Stages
<1> QED
  BY <1>3, <1>10

LEMMA MakeDetectorMoves ==
  ASSUME IInv, NEW r \in Run, MakeDetector(r)
  PROVE  Local(r) /\ Values(r)
<1> DEFINE td == todo[r]
           d == td[1]
<1>1. Active(r) /\ at[r] = "loop" /\ td # <<>> /\ IsValid(Head(td)) /\ HasRule(Head(td))
  BY DEF MakeDetector, Looping, Active
<1>2. Going(r)
  BY <1>1, RunGoesOn
<1>3. td \in Seq(UserNames) /\ Head(td) = d
  <2>1. td \in Seq(UserNames)
    BY <1>2 DEF Going
  <2> QED
    BY <1>1, <2>1, TailNames
<1>4. /\ at'[r] = "recipe" /\ todo'[r] = td /\ make'[r] = Targets(d) /\ left'[r] = left[r]
      /\ ran'[r] = TRUE /\ failed'[r] = failed[r] /\ report'[r] = report[r]
      /\ tmp'[dir[r]] = Here(r) /\ dirs' = dirs
  <2>1. Tables
    BY TablesHold
  <2> QED
    BY <1>3, <2>1 DEF MakeDetector, Tables, Hist, Files, Here
<1>5. make[r] = <<>>
  BY <1>1, <1>2 DEF Going, Shape, Making
<1>6. Shape("loop", td, <<>>, AskedFor(r)) /\ IsValid(d) /\ HasRule(d)
      /\ (Alone(r) => Kept(r, "loop", td, <<>>, left[r], failed[r], AskedFor(r), Here(r)))
  BY <1>1, <1>2, <1>3, <1>5 DEF Going
<1> HIDE DEF td, d
<1>7. Targets(d) \in Seq(Known \cup {"tg_ir"}) /\ Shape("recipe", td, Targets(d), AskedFor(r))
  BY <1>1, <1>3, <1>6, MadeShape DEF d
<1>8. Alone(r) => Kept(r, "recipe", td, Targets(d), left[r], failed[r], AskedFor(r), Here(r))
  BY <1>1, <1>3, <1>6, MakeStep DEF d
<1>9. Local(r)
  BY <1>4, <1>7 DEF MakeDetector, Local, IInv, Typed, Hist, Files
<1>10. Values(r)
  BY <1>1, <1>2, <1>3, <1>4, <1>7, <1>8 DEF Values, Going, Stages
<1> QED
  BY <1>9, <1>10

(* A recipe that ends well, or fails, moves the run on.                    *)
Goes(r) ==
  /\ at' = [at EXCEPT ![r] = at'[r]] /\ at'[r] \in {"recipe", "loop"}
  /\ todo' = [todo EXCEPT ![r] = todo'[r]] /\ todo'[r] \in Seq(UserNames)
  /\ make' = [make EXCEPT ![r] = make'[r]] /\ make'[r] \in Seq(Known \cup {"tg_ir"})
  /\ DOMAIN failed' = Run /\ \A q \in Run \ {r} : failed'[q] = failed[q]
  /\ Shape(at'[r], todo'[r], make'[r], AskedFor(r))

Succeeds(r) ==
  /\ Goes(r)
  /\ at'[r] = IF Len(make[r]) > 1 THEN "recipe" ELSE "loop"
  /\ todo'[r] = IF Len(make[r]) > 1 THEN todo[r] ELSE Tail(todo[r])
  /\ make'[r] = Tail(make[r])
  /\ failed'[r] = failed[r] \ ({make[r][1]} \ NeverRemoved)

LEMMA SucceedGoes ==
  ASSUME IInv, NEW r \in Run, Active(r), at[r] \in Making, Succeed(r)
  PROVE  Succeeds(r)
<1>1. Going(r) /\ Tables
  BY RunGoesOn, TablesHold
<1>2. Made(todo[r], make[r], AskedFor(r))
  BY <1>1, MakingFacts DEF Going
<1>3. /\ at'[r] = IF Len(make[r]) > 1 THEN "recipe" ELSE "loop"
      /\ todo'[r] = IF Len(make[r]) > 1 THEN todo[r] ELSE Tail(todo[r])
      /\ make'[r] = Tail(make[r])
      /\ failed'[r] = failed[r] \ ({make[r][1]} \ NeverRemoved)
      /\ DOMAIN failed' = Run /\ \A q \in Run \ {r} : failed'[q] = failed[q]
  BY <1>1, <1>2 DEF Succeed, Tables, Made
<1>4. Advanced(todo[r], make[r], AskedFor(r), at'[r], todo'[r])
  BY <1>1, <1>3, AdvanceShape DEF Going
<1>5. Shape(at'[r], todo'[r], make'[r], AskedFor(r)) /\ todo'[r] \in Seq(UserNames)
      /\ make'[r] \in Seq(Known \cup {"tg_ir"})
  BY <1>3, <1>4 DEF Advanced
<1>6. /\ at' = [at EXCEPT ![r] = at'[r]] /\ at'[r] \in {"recipe", "loop"}
      /\ todo' = [todo EXCEPT ![r] = todo'[r]]
      /\ make' = [make EXCEPT ![r] = make'[r]]
  BY <1>3 DEF Succeed, IInv, Typed
<1> QED
  BY <1>3, <1>5, <1>6 DEF Succeeds, Goes

Fails(r) ==
  /\ Goes(r)
  /\ at'[r] = "loop" /\ todo'[r] = Tail(todo[r]) /\ make'[r] = <<>>
  /\ failed'[r] = failed[r] \cup {make[r][1], todo[r][1]}

LEMMA FailGoes ==
  ASSUME IInv, NEW r \in Run, Active(r), at[r] \in Making, make[r][1] # "tg_ir", Fail(r)
  PROVE  Fails(r)
<1>1. Going(r) /\ Tables
  BY RunGoesOn, TablesHold
<1>2. Made(todo[r], make[r], AskedFor(r))
  BY <1>1, MakingFacts DEF Going
<1>3. /\ at'[r] = "loop" /\ todo'[r] = Tail(todo[r]) /\ make'[r] = <<>>
      /\ failed'[r] = failed[r] \cup {make[r][1], todo[r][1]}
      /\ DOMAIN failed' = Run /\ \A q \in Run \ {r} : failed'[q] = failed[q]
  BY <1>1, <1>2 DEF Fail, Tables, Made
<1>4. Shape("loop", Tail(todo[r]), <<>>, AskedFor(r)) /\ Tail(todo[r]) \in Seq(UserNames)
  BY <1>1, GiveUpShape DEF Going
<1>5. /\ at' = [at EXCEPT ![r] = at'[r]]
      /\ todo' = [todo EXCEPT ![r] = todo'[r]]
      /\ make' = [make EXCEPT ![r] = make'[r]]
  BY <1>3 DEF Fail, IInv, Typed
<1> QED
  BY <1>3, <1>4, <1>5 DEF Fails, Goes

LEMMA BuildIRMoves ==
  ASSUME IInv, NEW r \in Run, BuildIR(r)
  PROVE  Local(r) /\ Values(r)
<1> DEFINE td == todo[r]
           mk == make[r]
           fs == Here(r)
           fs2 == Replaced(fs, "bitcodes", <<>>)
<1>1. Active(r) /\ at[r] = "recipe" /\ at[r] \in Making
  BY DEF BuildIR, Recipe, Active, Making
<1>2. Going(r) /\ Tables
  BY <1>1, RunGoesOn, TablesHold
<1>3. Succeeds(r)
  BY <1>1, SucceedGoes DEF BuildIR
<1>4. Made(td, mk, AskedFor(r))
  BY <1>1, <1>2, MakingFacts DEF Going
<1>5. mk[1] = "tg_ir"
  BY <1>4 DEF BuildIR, Made
<1>6. /\ left'[r] = left[r] /\ ran'[r] = ran[r] /\ report'[r] = report[r]
      /\ tmp'[dir[r]] = fs2 /\ dirs' = dirs \cup {dir[r]}
  BY <1>2 DEF BuildIR, Tables, Here
<1>7. FilesOK(fs) /\ td \in Seq(UserNames) /\ mk \in Seq(Known \cup {"tg_ir"})
      /\ Shape(at[r], td, mk, AskedFor(r))
      /\ (Alone(r) => Kept(r, at[r], td, mk, left[r], failed[r], AskedFor(r), fs))
  BY <1>2 DEF Going
<1>8. FilesOK(fs2)
  <2>1. PICK bc : bc = "bitcodes"
    OBVIOUS
  <2>2. <<>> \in Seq(Line) /\ fs2 = Replaced(fs, bc, <<>>)
    BY <2>1
  <2> HIDE DEF fs2, fs
  <2>3. FilesOK(fs)
    BY <1>7 DEF fs
  <2>4. IsReplaced(fs, bc, <<>>, fs2)
    BY <2>2, <2>3, ReplacedFiles
  <2> QED
    BY <2>4 DEF IsReplaced
<1> HIDE DEF td, mk, fs, fs2
<1>9. ASSUME Alone(r)
      PROVE  Kept(r, at'[r], todo'[r], make'[r], left'[r], failed'[r], AskedFor(r), fs2)
  <2>1. /\ Kept(r, at[r], td, mk, left[r], failed[r], AskedFor(r), fs)
        /\ at'[r] = IF Len(mk) > 1 THEN "recipe" ELSE "loop"
        /\ todo'[r] = IF Len(mk) > 1 THEN td ELSE Tail(td)
        /\ make'[r] = Tail(mk) /\ left'[r] = left[r]
        /\ failed'[r] = failed[r] \ ({mk[1]} \ NeverRemoved)
        /\ fs2 = Replaced(fs, "bitcodes", <<>>)
    BY <1>3, <1>6, <1>7, <1>9 DEF Succeeds, td, mk, fs2
  <2> HIDE DEF AskedFor
  <2>2. Kept(r, at'[r], todo'[r], Tail(mk), left[r], failed'[r], AskedFor(r), fs2)
    BY <1>1, <1>5, <1>7, <2>1, BuildStep
  <2> QED
    BY <2>1, <2>2
<1>10. Local(r)
  BY <1>3 DEF BuildIR, Succeeds, Goes, Local, IInv, Typed
<1>11. Values(r)
  BY <1>1, <1>2, <1>3, <1>6, <1>8, <1>9 DEF Values, Going, Succeeds, Goes, Stages
<1> QED
  BY <1>10, <1>11

LEMMA BeginPassMoves ==
  ASSUME IInv, NEW r \in Run, BeginPass(r)
  PROVE  Local(r) /\ Values(r)
<1> DEFINE td == todo[r]
           mk == make[r]
           fs == Here(r)
           fs2 == Without(fs, Removes(mk[1]))
<1>1. Active(r) /\ at[r] = "recipe" /\ at[r] \in Making
  BY DEF BeginPass, Recipe, Active, Making
<1>2. Going(r) /\ Tables
  BY <1>1, RunGoesOn, TablesHold
<1>3. Made(td, mk, AskedFor(r))
  BY <1>1, <1>2, MakingFacts DEF Going
<1>4. mk[1] \in Passes /\ Head(mk) = mk[1]
  BY <1>3 DEF BeginPass, Made
<1>5. /\ at'[r] = "bitcodes" /\ todo'[r] = td /\ make'[r] = mk
      /\ left'[r] = (IF "bitcodes" \in DOMAIN fs THEN Bitcode ELSE {})
      /\ ran'[r] = ran[r] /\ report'[r] = report[r] /\ failed'[r] = failed[r]
      /\ tmp'[dir[r]] = fs2 /\ dirs' = dirs
  BY <1>2, <1>4 DEF BeginPass, Tables, Here, Hist
<1>6. FilesOK(fs) /\ td \in Seq(UserNames) /\ mk \in Seq(Known \cup {"tg_ir"})
      /\ Shape(at[r], td, mk, AskedFor(r))
      /\ (Alone(r) => Kept(r, at[r], td, mk, left[r], failed[r], AskedFor(r), fs))
  BY <1>2 DEF Going
<1>7. Local(r)
  BY <1>5 DEF BeginPass, Local, IInv, Typed, Hist
<1> HIDE DEF td, mk, fs, fs2
<1>8. FilesOK(fs2) /\ (dir[r] \notin dirs => DOMAIN fs2 = {})
  <2>1. IsWithout(fs, Removes(mk[1]), fs2)
    BY <1>6, WithoutFiles DEF fs2
  <2>2. dir[r] \notin dirs => DOMAIN fs = {}
    BY <1>2 DEF Going, fs
  <2> QED
    BY <2>1, <2>2 DEF IsWithout
<1>9. Shape("bitcodes", td, mk, AskedFor(r))
  BY <1>1, <1>4, <1>6 DEF Shape, Making
<1>10. ASSUME Alone(r)
       PROVE  Kept(r, "bitcodes", td, mk, left'[r], failed[r], AskedFor(r), fs2)
  <2>1. Kept(r, at[r], td, mk, left[r], failed[r], AskedFor(r), fs) /\ fs2 = Without(fs, Removes(mk[1]))
    BY <1>6, <1>10 DEF fs2
  <2> HIDE DEF AskedFor
  <2>2. "bitcodes" \in DOMAIN fs /\ Kept(r, "bitcodes", td, mk, Bitcode, failed[r], AskedFor(r), fs2)
    BY <1>1, <1>4, <1>6, <2>1, BeginStep
  <2> QED
    BY <1>5, <2>2
<1>11. Values(r)
  BY <1>1, <1>2, <1>5, <1>6, <1>8, <1>9, <1>10 DEF Values, Going, Stages
<1> QED
  BY <1>7, <1>11

LEMMA RunPassMoves ==
  ASSUME IInv, NEW r \in Run, RunPass(r)
  PROVE  Local(r) /\ Values(r)
<1> DEFINE td == todo[r]
           mk == make[r]
           fs == Here(r)
           lf == left[r]
<1>1. Active(r) /\ at[r] = "bitcodes" /\ at[r] \in Making
  BY DEF RunPass, Active, Making
<1>2. Going(r) /\ Tables
  BY <1>1, RunGoesOn, TablesHold
<1>3. Made(td, mk, AskedFor(r))
  BY <1>1, <1>2, MakingFacts DEF Going
<1>4. Head(mk) = mk[1]
  BY <1>3 DEF Made
<1>5. PICK b \in lf :
        /\ Write(r, [by |-> r, of |-> b, form |-> "raw", ok |-> InputComplete(r, fs, Head(mk))])
        /\ left' = [left EXCEPT ![r] = @ \ {b}]
  BY DEF RunPass
<1> DEFINE l == [by |-> r, of |-> b, form |-> "raw", ok |-> InputComplete(r, fs, mk[1])]
           fs2 == Appended(fs, mk[1], l)
<1>6. /\ at'[r] = at[r] /\ todo'[r] = td /\ make'[r] = mk /\ left'[r] = lf \ {b}
      /\ ran'[r] = ran[r] /\ report'[r] = report[r] /\ failed'[r] = failed[r] /\ dirs' = dirs
      /\ (dir[r] \in dirs => tmp'[dir[r]] = fs2) /\ (dir[r] \notin dirs => tmp'[dir[r]] = fs)
  BY <1>2, <1>4, <1>5 DEF RunPass, Write, Tables, Here, Hist
<1>7. FilesOK(fs) /\ td \in Seq(UserNames) /\ mk \in Seq(Known \cup {"tg_ir"}) /\ lf \in SUBSET Bitcode
      /\ Shape(at[r], td, mk, AskedFor(r))
      /\ (Alone(r) => Kept(r, at[r], td, mk, lf, failed[r], AskedFor(r), fs))
  BY <1>2 DEF Going
<1>8. Local(r)
  BY <1>5, <1>6 DEF RunPass, Write, Local, IInv, Typed, Hist
<1>9. l \in Line
  <2>1. InputComplete(r, fs, mk[1]) \in BOOLEAN
    BY DEF InputComplete
  <2>2. b \in Bitcode
    BY <1>7
  <2> HIDE DEF mk, fs
  <2> QED
    BY <2>1, <2>2 DEF Line
<1>10. Written(r, fs, mk[1], b, "raw", l) /\ fs2 = Appended(fs, mk[1], l)
  BY DEF Written
<1> HIDE DEF td, mk, fs, lf, l, fs2
<1>11. FilesOK(fs2)
  <2>1. IsAppended(fs, mk[1], l, fs2)
    BY <1>7, <1>9, <1>10, AppendedFiles
  <2> QED
    BY <2>1 DEF IsAppended
<1>12. ASSUME Alone(r)
       PROVE  /\ dir[r] \in dirs
              /\ Kept(r, at[r], td, mk, lf \ {b}, failed[r], AskedFor(r), fs2)
  <2>1. /\ Kept(r, at[r], td, mk, lf, failed[r], AskedFor(r), fs)
        /\ Shape(at[r], td, mk, AskedFor(r)) /\ FilesOK(fs) /\ at[r] = "bitcodes"
        /\ td \in Seq(UserNames) /\ mk \in Seq(Known \cup {"tg_ir"}) /\ lf \in SUBSET Bitcode /\ b \in lf
    BY <1>1, <1>7, <1>12
  <2> HIDE DEF AskedFor
  <2>2. "bitcodes" \in DOMAIN fs /\ Kept(r, at[r], td, mk, lf \ {b}, failed[r], AskedFor(r), fs2)
    BY <1>10, <2>1, RunStep
  <2> QED
    BY <1>2, <2>2 DEF Going, fs
<1>13. Kept(r, at[r], td, mk, lf \ {b}, failed[r], AskedFor(r), tmp'[dir[r]]) \/ ~Alone(r)
  BY <1>6, <1>12
<1>14. FilesOK(tmp'[dir[r]]) /\ (dir[r] \notin dirs' => DOMAIN tmp'[dir[r]] = {})
  BY <1>2, <1>6, <1>7, <1>11 DEF Going, fs
<1>15. Values(r)
  BY <1>1, <1>2, <1>6, <1>7, <1>13, <1>14 DEF Values, Going, Stages
<1> QED
  BY <1>8, <1>15

LEMMA CrashPassMoves ==
  ASSUME IInv, NEW r \in Run, CrashPass(r)
  PROVE  Local(r) /\ Values(r)
<1> DEFINE td == todo[r]
           mk == make[r]
           fs == Here(r)
<1>1. Active(r) /\ at[r] = "bitcodes" /\ at[r] \in Making
  BY DEF CrashPass, Active, Making
<1>2. Going(r) /\ Tables
  BY <1>1, RunGoesOn, TablesHold
<1>3. Made(td, mk, AskedFor(r))
  BY <1>1, <1>2, MakingFacts DEF Going
<1>4. Head(mk) = mk[1] /\ mk[1] # "tg_ir"
  <2>1. mk[1] \in Passes
    BY <1>1, <1>2 DEF Going, Shape
  <2> QED
    BY <1>3, <2>1, KnownNames DEF Made, Known
<1>5. Fails(r)
  BY <1>1, <1>4, FailGoes DEF CrashPass
<1> DEFINE fs2 == tmp'[dir[r]]
<1>6. PICK l \in Line : l.by = r /\ (fs2 = fs \/ (dir[r] \in dirs /\ fs2 = Appended(fs, mk[1], l)))
  <2>1. \A b \in left[r], form \in {"cut", "wrong"} :
          /\ [by |-> r, of |-> b, form |-> form, ok |-> FALSE] \in Line
          /\ [by |-> r, of |-> b, form |-> form, ok |-> FALSE].by = r
    BY <1>2 DEF Line, Going
  <2>2. CASE UNCHANGED tmp
    <3>1. PICK b \in left[r] : TRUE
      BY DEF CrashPass
    <3> QED
      BY <2>1, <2>2, <3>1 DEF Here
  <2>3. CASE ~UNCHANGED tmp
    <3>1. PICK b \in left[r], form \in {"cut", "wrong"} :
            Write(r, [by |-> r, of |-> b, form |-> form, ok |-> FALSE])
      BY <2>3 DEF CrashPass
    <3> DEFINE l == [by |-> r, of |-> b, form |-> form, ok |-> FALSE]
    <3>2. l \in Line /\ l.by = r
      BY <2>1
    <3>3. tmp' = IF dir[r] \in dirs THEN [tmp EXCEPT ![dir[r]] = Appended(@, Head(mk), l)] ELSE tmp
      BY <3>1 DEF Write
    <3> HIDE DEF l
    <3>4. dir[r] \in dirs /\ tmp' = [tmp EXCEPT ![dir[r]] = Appended(@, Head(mk), l)]
      BY <2>3, <3>3
    <3>5. fs2 = Appended(fs, mk[1], l)
      BY <1>2, <1>4, <3>4 DEF Tables, Here
    <3> QED
      BY <3>2, <3>4, <3>5
  <2> QED
    BY <2>2, <2>3
<1>7. left'[r] = {} /\ left' = [left EXCEPT ![r] = {}] /\ ran' = ran /\ report' = report /\ dirs' = dirs
      /\ UNCHANGED <<now, dir, asked, shared>>
  BY <1>2 DEF CrashPass, Tables
<1>8. DOMAIN tmp' = Second /\ \A d \in Second \ {dir[r]} : tmp'[d] = tmp[d]
  BY <1>2 DEF CrashPass, Write, Tables
<1>9. FilesOK(fs) /\ td \in Seq(UserNames) /\ mk \in Seq(Known \cup {"tg_ir"})
      /\ Shape(at[r], td, mk, AskedFor(r))
      /\ (Alone(r) => Kept(r, at[r], td, mk, left[r], failed[r], AskedFor(r), fs))
      /\ (dir[r] \notin dirs => DOMAIN fs = {})
  BY <1>2 DEF Going
<1>10. Local(r)
  BY <1>5, <1>7, <1>8 DEF Fails, Goes, Local, IInv, Typed
<1>11. at'[r] = "loop" /\ todo'[r] = Tail(td) /\ make'[r] = <<>> /\ failed'[r] = failed[r] \cup {mk[1], td[1]}
  BY <1>5 DEF Fails
<1> HIDE DEF td, mk, fs, fs2
<1>12. FilesOK(fs2) /\ (dir[r] \notin dirs => DOMAIN fs2 = {})
  <2>1. CASE fs2 = fs
    BY <1>9, <2>1
  <2>2. CASE dir[r] \in dirs /\ fs2 = Appended(fs, mk[1], l)
    <3>1. IsAppended(fs, mk[1], l, fs2)
      BY <1>6, <1>9, <2>2, AppendedFiles
    <3> QED
      BY <2>2, <3>1 DEF IsAppended
  <2> QED
    BY <1>6, <2>1, <2>2
<1>13. ASSUME Alone(r)
       PROVE  Kept(r, "loop", Tail(td), <<>>, {}, failed'[r], AskedFor(r), fs2)
  <2>1. /\ Kept(r, at[r], td, mk, left[r], failed[r], AskedFor(r), fs)
        /\ Shape(at[r], td, mk, AskedFor(r)) /\ FilesOK(fs) /\ at[r] = "bitcodes"
        /\ td \in Seq(UserNames) /\ mk \in Seq(Known \cup {"tg_ir"})
        /\ Crashed(r, fs, mk[1], fs2)
        /\ failed'[r] = failed[r] \cup {mk[1], td[1]}
    BY <1>1, <1>6, <1>9, <1>11, <1>13 DEF Crashed
  <2> HIDE DEF AskedFor
  <2> QED
    BY <2>1, CrashStep
<1>14. Values(r)
  BY <1>1, <1>2, <1>5, <1>7, <1>11, <1>12, <1>13 DEF Values, Going, Stages, Fails, Goes, fs2
<1> QED
  BY <1>10, <1>14

LEMMA EndPassMoves ==
  ASSUME IInv, NEW r \in Run, EndPass(r)
  PROVE  Local(r) /\ Values(r)
<1> DEFINE td == todo[r]
           mk == make[r]
           fs == Here(r)
<1>1. Active(r) /\ at[r] = "bitcodes" /\ at[r] \in Making /\ left[r] = {}
  BY DEF EndPass, Active, Making
<1>2. Going(r) /\ Tables
  BY <1>1, RunGoesOn, TablesHold
<1>3. Succeeds(r)
  BY <1>1, SucceedGoes DEF EndPass
<1>4. /\ left' = left /\ ran' = ran /\ report' = report /\ tmp' = tmp /\ dirs' = dirs
      /\ UNCHANGED <<now, dir, asked, shared>>
  BY DEF EndPass, Files
<1>5. Local(r)
  BY <1>3, <1>4 DEF Succeeds, Goes, Local, IInv, Typed
<1>6. FilesOK(fs) /\ td \in Seq(UserNames) /\ mk \in Seq(Known \cup {"tg_ir"})
      /\ Shape(at[r], td, mk, AskedFor(r))
      /\ (Alone(r) => Kept(r, at[r], td, mk, left[r], failed[r], AskedFor(r), fs))
      /\ (dir[r] \notin dirs => DOMAIN fs = {}) /\ fs = tmp[dir[r]]
  BY <1>2 DEF Going
<1>7. /\ at'[r] = IF Len(mk) > 1 THEN "recipe" ELSE "loop"
      /\ todo'[r] = IF Len(mk) > 1 THEN td ELSE Tail(td)
      /\ make'[r] = Tail(mk)
      /\ failed'[r] = failed[r] \ ({mk[1]} \ NeverRemoved)
  BY <1>3 DEF Succeeds
<1> HIDE DEF td, mk, fs
<1>8. ASSUME Alone(r)
      PROVE  Kept(r, at'[r], todo'[r], make'[r], left[r], failed'[r], AskedFor(r), fs)
  <2>1. /\ Kept(r, at[r], td, mk, left[r], failed[r], AskedFor(r), fs)
        /\ Shape(at[r], td, mk, AskedFor(r)) /\ FilesOK(fs) /\ at[r] = "bitcodes" /\ left[r] = {}
        /\ td \in Seq(UserNames) /\ mk \in Seq(Known \cup {"tg_ir"})
    BY <1>1, <1>6, <1>8
  <2> HIDE DEF AskedFor
  <2>2. Kept(r, at'[r], todo'[r], Tail(mk), left[r], failed'[r], AskedFor(r), fs)
    BY <1>7, <2>1, EndStep
  <2> QED
    BY <1>7, <2>2
<1>9. Values(r)
  BY <1>1, <1>2, <1>3, <1>4, <1>6, <1>8 DEF Values, Going, Stages, Succeeds, Goes
<1> QED
  BY <1>5, <1>9

(* RunScript with its LETs as parameters.                                  *)
ScriptRuns(r, fs, t, readable, gs, l) ==
  /\ ScriptReads(fs, t, gs)
  /\ Written(r, gs, t, Source, "plain", l)
  /\ tmp' = [tmp EXCEPT ![dir[r]] = IF readable THEN Replaced(gs, t, <<l>>) ELSE gs]
  /\ IF readable THEN Succeed(r) ELSE Fail(r)
  /\ dirs' = dirs \cup {dir[r]}
  /\ UNCHANGED <<now, dir, left, ran, report, asked, shared>>

LEMMA ScriptRunsSo ==
  ASSUME NEW r, RunScript(r)
  PROVE  \E readable, gs, l : ScriptRuns(r, Here(r), Head(make[r]), readable, gs, l)
<1> DEFINE t == Head(make[r])
           fs == Without(Here(r), Removes(t))
           gs == [f \in DOMAIN fs |-> IF f \in Demangles(t) THEN Demangled(fs[f]) ELSE fs[f]]
           readable == \A f \in Input(t) : f \in DOMAIN gs /\ \A k \in 1..Len(gs[f]) : gs[f][k].form # "cut"
           l == [by |-> r, of |-> Source, form |-> "plain", ok |-> InputComplete(r, gs, t)]
<1>1. /\ tmp' = [tmp EXCEPT ![dir[r]] = IF readable THEN Replaced(gs, t, <<l>>) ELSE gs]
      /\ IF readable THEN Succeed(r) ELSE Fail(r)
      /\ dirs' = dirs \cup {dir[r]}
      /\ UNCHANGED <<now, dir, left, ran, report, asked, shared>>
  BY DEF RunScript
<1>2. ScriptReads(Here(r), t, gs)
  BY DEF ScriptReads
<1>3. Written(r, gs, t, Source, "plain", l)
  BY DEF Written
<1> HIDE DEF gs, readable, l
<1>4. ScriptRuns(r, Here(r), t, readable, gs, l)
  BY <1>1, <1>2, <1>3 DEF ScriptRuns
<1> QED
  BY <1>4

LEMMA RunScriptMoves ==
  ASSUME IInv, NEW r \in Run, RunScript(r)
  PROVE  Local(r) /\ Values(r)
<1> DEFINE td == todo[r]
           mk == make[r]
           fs == Here(r)
           t == mk[1]
<1>1. Active(r) /\ at[r] = "recipe" /\ at[r] \in Making
  BY DEF RunScript, Recipe, Active, Making
<1>2. Going(r) /\ Tables
  BY <1>1, RunGoesOn, TablesHold
<1>3. Made(td, mk, AskedFor(r))
  BY <1>1, <1>2, MakingFacts DEF Going
<1>4. Head(mk) = t /\ t # "tg_ir" /\ t \in Scripts
  <2>1. Head(mk) = t
    BY <1>3 DEF Made
  <2> QED
    BY <2>1, KnownNames DEF Known, RunScript
<1>5. PICK readable, gs, l : ScriptRuns(r, fs, t, readable, gs, l)
  BY <1>4, ScriptRunsSo
<1> DEFINE fs2 == tmp'[dir[r]]
           hs == Without(fs, Removes(t))
<1>6. /\ left' = left /\ ran' = ran /\ report' = report /\ dirs' = dirs \cup {dir[r]}
      /\ UNCHANGED <<now, dir, asked, shared>>
      /\ DOMAIN tmp' = Second /\ \A d \in Second \ {dir[r]} : tmp'[d] = tmp[d]
      /\ fs2 = IF readable THEN Replaced(gs, t, <<l>>) ELSE gs
  BY <1>2, <1>5 DEF ScriptRuns, Tables
<1>7. (readable => Succeeds(r)) /\ (~readable => Fails(r))
  BY <1>1, <1>4, <1>5, SucceedGoes, FailGoes DEF ScriptRuns
<1>8. Goes(r)
  BY <1>7 DEF Succeeds, Fails
<1>9. Local(r)
  BY <1>6, <1>8 DEF Goes, Local, IInv, Typed
<1>10. FilesOK(fs) /\ td \in Seq(UserNames) /\ mk \in Seq(Known \cup {"tg_ir"})
       /\ Shape(at[r], td, mk, AskedFor(r))
       /\ (Alone(r) => Kept(r, at[r], td, mk, left[r], failed[r], AskedFor(r), fs))
  BY <1>2 DEF Going
<1>11. ScriptReads(fs, t, gs) /\ Written(r, gs, t, Source, "plain", l)
  BY <1>5 DEF ScriptRuns
<1>12. InputComplete(r, gs, t) \in BOOLEAN
  BY DEF InputComplete
<1>13. l \in Line
  BY <1>11, <1>12 DEF Written, Line
<1>14. /\ readable => /\ at'[r] = IF Len(mk) > 1 THEN "recipe" ELSE "loop"
                      /\ todo'[r] = IF Len(mk) > 1 THEN td ELSE Tail(td)
                      /\ make'[r] = Tail(mk)
                      /\ failed'[r] = failed[r] \ ({mk[1]} \ NeverRemoved)
       /\ ~readable => /\ at'[r] = "loop" /\ todo'[r] = Tail(td) /\ make'[r] = <<>>
                       /\ failed'[r] = failed[r] \cup {mk[1], td[1]}
  BY <1>7 DEF Succeeds, Fails
<1>15. t = mk[1]
  OBVIOUS
<1> HIDE DEF td, mk, fs, t, fs2
<1>16. FilesOK(gs)
  <2>1. IsWithout(fs, Removes(t), hs)
    BY <1>10, WithoutFiles
  <2>2. gs = [f \in DOMAIN hs |-> IF f \in Demangles(t) THEN Demangled(hs[f]) ELSE hs[f]]
    BY <1>11 DEF ScriptReads
  <2> HIDE DEF hs
  <2>3. FilesOK(hs)
    BY <2>1 DEF IsWithout
  <2>4. IsDemangled(hs, Demangles(t), gs)
    BY <2>2, <2>3, DemangledFiles
  <2> QED
    BY <2>4 DEF IsDemangled
<1>17. FilesOK(fs2)
  <2>1. ASSUME readable PROVE FilesOK(fs2)
    <3>1. <<l>> \in Seq(Line) /\ fs2 = Replaced(gs, t, <<l>>)
      BY <1>6, <1>13, <2>1
    <3>2. IsReplaced(gs, t, <<l>>, fs2)
      BY <1>16, <3>1, ReplacedFiles
    <3> QED
      BY <3>2 DEF IsReplaced
  <2> QED
    BY <1>6, <1>16, <2>1
<1>18. ASSUME Alone(r)
       PROVE  Kept(r, at'[r], todo'[r], make'[r], left[r], failed'[r], AskedFor(r), fs2)
  <2>1. /\ Kept(r, at[r], td, mk, left[r], failed[r], AskedFor(r), fs)
        /\ Shape(at[r], td, mk, AskedFor(r)) /\ FilesOK(fs) /\ at[r] = "recipe"
        /\ td \in Seq(UserNames) /\ mk \in Seq(Known \cup {"tg_ir"}) /\ mk[1] \in Scripts
        /\ ScriptReads(fs, mk[1], gs) /\ Written(r, gs, mk[1], Source, "plain", l)
    BY <1>1, <1>4, <1>10, <1>11, <1>15, <1>18
  <2> HIDE DEF AskedFor
  <2>2. ASSUME readable
        PROVE  Kept(r, at'[r], todo'[r], make'[r], left[r], failed'[r], AskedFor(r), fs2)
    <3>1. fs2 = Replaced(gs, mk[1], <<l>>)
      BY <1>6, <1>15, <2>2
    <3>2. Kept(r, at'[r], todo'[r], Tail(mk), left[r], failed'[r], AskedFor(r), fs2)
      BY <1>14, <2>1, <2>2, <3>1, ScriptDone
    <3> QED
      BY <1>14, <2>2, <3>2
  <2>3. ASSUME ~readable
        PROVE  Kept(r, at'[r], todo'[r], make'[r], left[r], failed'[r], AskedFor(r), fs2)
    <3>1. fs2 = gs
      BY <1>6, <2>3
    <3>2. Kept(r, "loop", Tail(td), <<>>, left[r], failed'[r], AskedFor(r), gs)
      BY <1>14, <2>1, <2>3, ScriptFailed
    <3> QED
      BY <1>14, <2>3, <3>1, <3>2
  <2> QED
    BY <2>2, <2>3
<1>19. Values(r)
  BY <1>1, <1>2, <1>6, <1>8, <1>17, <1>18 DEF Values, Going, Stages, Goes, fs2
<1> QED
  BY <1>9, <1>19

LEMMA BeginAuditMoves ==
  ASSUME IInv, NEW r \in Run, BeginAudit(r)
  PROVE  Local(r) /\ Values(r)
<1> DEFINE fs == Here(r)
           fs2 == [f \in DOMAIN fs |-> Demangled(fs[f])]
<1>1. Active(r) /\ at[r] = "loop" /\ todo[r] = <<>> /\ ran[r]
  BY DEF BeginAudit, Active
<1>2. Going(r) /\ Tables
  BY <1>1, RunGoesOn, TablesHold
<1>3. make[r] = <<>>
  BY <1>1, <1>2 DEF Going, Shape, Making
<1>4. /\ at'[r] = "audit" /\ todo'[r] = <<>> /\ make'[r] = <<>> /\ left'[r] = left[r] /\ ran'[r] = ran[r]
      /\ failed'[r] = failed[r] /\ report'[r].state = "empty" /\ tmp'[dir[r]] = fs2 /\ dirs' = dirs
  BY <1>1, <1>2, <1>3 DEF BeginAudit, Tables, Here, Hist
<1>5. Local(r)
  BY <1>4 DEF BeginAudit, Local, IInv, Typed, Hist
<1>6. /\ FilesOK(fs) /\ RangeOf(todo[r]) \subseteq AskedFor(r)
      /\ (Alone(r) => Kept(r, "loop", <<>>, <<>>, left[r], failed[r], AskedFor(r), fs))
      /\ (dir[r] \notin dirs => DOMAIN fs = {})
  BY <1>1, <1>2, <1>3 DEF Going, Shape
<1>7. DOMAIN fs2 = DOMAIN fs
  OBVIOUS
<1>8. FilesOK(fs2)
  BY <1>6, DemangledLines DEF FilesOK
<1> HIDE DEF fs
<1>9. Alone(r) => Kept(r, "audit", <<>>, <<>>, left[r], failed[r], AskedFor(r), fs2)
  BY <1>6, AuditStep
<1> HIDE DEF fs2
<1>10. Shape("audit", <<>>, <<>>, AskedFor(r))
  BY <1>1, <1>6 DEF Shape, Making
<1>11. Values(r)
  BY <1>1, <1>2, <1>4, <1>6, <1>7, <1>8, <1>9, <1>10 DEF Values, Going, Stages
<1> QED
  BY <1>5, <1>11

LEMMA WriteReportMoves ==
  ASSUME IInv, NEW r \in Run, WriteReport(r)
  PROVE  Local(r) /\ Values(r)
<1> DEFINE fs == Here(r)
           found == [f \in DOMAIN fs |-> Parsed(fs[f])]
<1>1. Active(r) /\ at[r] = "audit"
  BY DEF WriteReport, Active
<1>2. Going(r) /\ Tables
  BY <1>1, RunGoesOn, TablesHold
<1>3. make[r] = <<>> /\ todo[r] = <<>>
  BY <1>1, <1>2 DEF Going, Shape, Making
<1>4. /\ at'[r] = "sweep" /\ todo'[r] = <<>> /\ make'[r] = <<>> /\ left'[r] = left[r] /\ ran'[r] = ran[r]
      /\ failed'[r] = failed[r] /\ report'[r] = [state |-> "new", found |-> found]
      /\ tmp'[dir[r]] = fs /\ dirs' = dirs
  BY <1>1, <1>2, <1>3 DEF WriteReport, Tables, Here, Hist, Files
<1>5. Local(r)
  BY <1>4 DEF WriteReport, Local, IInv, Typed, Hist, Files
<1>6. /\ FilesOK(fs) /\ RangeOf(todo[r]) \subseteq AskedFor(r)
      /\ (Alone(r) => Kept(r, "audit", <<>>, <<>>, left[r], failed[r], AskedFor(r), fs))
      /\ (dir[r] \notin dirs => DOMAIN fs = {})
  BY <1>1, <1>2, <1>3 DEF Going, Shape
<1> HIDE DEF fs
<1>7. Alone(r) => Kept(r, "sweep", <<>>, <<>>, left[r], failed[r], AskedFor(r), fs)
  <2>1. PICK a : a = "audit"
    OBVIOUS
  <2> QED
    BY <1>6, <2>1, SweepStep
<1>8. Alone(r) => Complete(r, failed[r], AskedFor(r), found) /\ OfRun(r, AskedFor(r), found)
  <2> HIDE DEF AskedFor
  <2> QED
    BY <1>6, ReportIsRight
<1> HIDE DEF found
<1>9. Shape("sweep", <<>>, <<>>, AskedFor(r))
  BY <1>3, <1>6 DEF Shape, Making
<1>10. report'[r].state = "new" /\ report'[r].found = found
  BY <1>4
<1>11. Values(r)
  BY <1>1, <1>2, <1>4, <1>6, <1>7, <1>8, <1>9, <1>10 DEF Values, Going, Stages
<1> QED
  BY <1>5, <1>11

LEMMA NothingToReportMoves ==
  ASSUME IInv, NEW r \in Run, NothingToReport(r)
  PROVE  Local(r) /\ Values(r)
<1> DEFINE fs == Here(r)
<1>1. Active(r) /\ at[r] = "loop" /\ todo[r] = <<>>
  BY DEF NothingToReport, Active
<1>2. Going(r) /\ Tables
  BY <1>1, RunGoesOn, TablesHold
<1>3. make[r] = <<>>
  BY <1>1, <1>2 DEF Going, Shape, Making
<1>4. /\ at'[r] = "sweep" /\ todo'[r] = <<>> /\ make'[r] = <<>> /\ left'[r] = left[r] /\ ran'[r] = ran[r]
      /\ failed'[r] = failed[r] /\ report'[r] = report[r] /\ tmp'[dir[r]] = fs /\ dirs' = dirs
  BY <1>1, <1>2, <1>3 DEF NothingToReport, Tables, Here, Hist, Files
<1>5. Local(r)
  BY <1>4 DEF NothingToReport, Local, IInv, Typed, Hist, Files
<1>6. /\ FilesOK(fs) /\ RangeOf(todo[r]) \subseteq AskedFor(r)
      /\ (Alone(r) => Kept(r, "loop", <<>>, <<>>, left[r], failed[r], AskedFor(r), fs))
      /\ (dir[r] \notin dirs => DOMAIN fs = {})
  BY <1>1, <1>2, <1>3 DEF Going, Shape
<1> HIDE DEF fs
<1>7. Alone(r) => Kept(r, "sweep", <<>>, <<>>, left[r], failed[r], AskedFor(r), fs)
  <2>1. PICK a : a = "loop"
    OBVIOUS
  <2> QED
    BY <1>6, <2>1, SweepStep
<1>8. Shape("sweep", <<>>, <<>>, AskedFor(r))
  BY <1>1, <1>6 DEF Shape, Making
<1>9. Values(r)
  BY <1>1, <1>2, <1>4, <1>6, <1>7, <1>8 DEF Values, Going, Stages
<1> QED
  BY <1>5, <1>9

LEMMA CleanAfterMoves ==
  ASSUME IInv, NEW r \in Run, CleanAfter(r)
  PROVE  Local(r) /\ Values(r)
<1>1. Active(r) /\ at[r] = "sweep"
  BY DEF CleanAfter, Active
<1>2. Going(r) /\ Tables
  BY <1>1, RunGoesOn, TablesHold
<1>3. /\ at'[r] = "done" /\ todo'[r] = todo[r] /\ make'[r] = make[r] /\ left'[r] = left[r] /\ ran'[r] = ran[r]
      /\ failed'[r] = failed[r] /\ report'[r] = report[r] /\ tmp'[dir[r]] = NoFiles /\ dir[r] \notin dirs'
  BY <1>2 DEF CleanAfter, RemoveDir, Tables, Going, Hist
<1>4. Local(r)
  BY <1>3 DEF CleanAfter, RemoveDir, Local, IInv, Typed, Hist
<1>5. Shape("done", todo[r], make[r], AskedFor(r))
  BY <1>1, <1>2 DEF Going, Shape, Making
<1>6. Kept(r, "done", todo[r], make[r], left[r], failed[r], AskedFor(r), NoFiles)
  BY DEF Kept, Holding
<1>7. Values(r)
  BY <1>1, <1>2, <1>3, <1>5, <1>6, EmptyFiles DEF Values, Going, Stages
<1> QED
  BY <1>4, <1>7

LEMMA KillMoves ==
  ASSUME IInv, NEW r \in Run, Kill(r)
  PROVE  Local(r) /\ Values(r)
<1>1. Active(r)
  BY DEF Kill
<1>2. Going(r) /\ Tables
  BY <1>1, RunGoesOn, TablesHold
<1>3. /\ at'[r] = "killed" /\ todo'[r] = todo[r] /\ make'[r] = make[r] /\ left'[r] = left[r] /\ ran'[r] = ran[r]
      /\ failed'[r] = failed[r] /\ report'[r] = report[r] /\ tmp'[dir[r]] = Here(r) /\ dirs' = dirs
  BY <1>2 DEF Kill, Tables, Here, Files, Hist
<1>4. Local(r)
  BY <1>3 DEF Kill, Local, IInv, Typed, Hist, Files
<1>5. Shape("killed", todo[r], make[r], AskedFor(r))
  BY <1>1, <1>2 DEF Going, Shape, Making
<1>6. Kept(r, "killed", todo[r], make[r], left[r], failed[r], AskedFor(r), Here(r))
  BY DEF Kept, Holding
<1>7. Values(r)
  BY <1>1, <1>2, <1>3, <1>5, <1>6 DEF Values, Going, Stages
<1> QED
  BY <1>4, <1>7

LEMMA AskedKnown ==
  ASSUME IInv, NEW q \in Asks
  PROVE  q \in DOMAIN Companions /\ Substituted(q) \in Seq(UserNames)
<1>1. q \in DOMAIN Companions
  <2>1. CASE Started = {}
    BY <2>1 DEF Asks
  <2>2. CASE Started # {}
    <3>1. PICK p \in Started : q \in Companions[asked[p]]
      BY <2>2 DEF Asks
    <3>2. asked[p] \in DOMAIN Companions
      BY DEF Started, IInv, Placed
    <3> QED
      BY <3>1, <3>2, PipelineAssumption
  <2> QED
    BY <2>1, <2>2
<1>2. q \in Seq(UserNames)
  BY <1>1, PipelineAssumption
<1> QED
  BY <1>1, <1>2, SubstitutedIsList

LEMMA StartKeeps ==
  ASSUME IInv, NEW r \in Run, Start(r)
  PROVE  IInv'
<1>1. PICK q \in Asks : todo' = [todo EXCEPT ![r] = Substituted(q)] /\ asked' = [asked EXCEPT ![r] = q]
  BY DEF Start
<1>2. q \in DOMAIN Companions /\ Substituted(q) \in Seq(UserNames)
  BY AskedKnown
<1>3. /\ at[r] = "idle" /\ at' = [at EXCEPT ![r] = "clean"] /\ dir' = [dir EXCEPT ![r] = now]
      /\ now' = now /\ make' = make /\ left' = left /\ ran' = ran /\ dirs' = dirs /\ tmp' = tmp
      /\ report' = report /\ failed' = failed
  BY DEF Start, Files
<1>4. Typed
  BY DEF IInv
<1> DEFINE others == {p \in Run \ {r} : Active(p) /\ dir[p] = now}
<1>5. shared' = IF others = {} THEN shared ELSE shared \cup others \cup {r}
  BY DEF Start
<1>6. shared \subseteq shared' /\ shared' \in SUBSET Run
  BY <1>4, <1>5 DEF Typed
<1>7. Typed'
  <2>1. todo' \in [Run -> Seq(UserNames)]
    <3>1. todo \in [Run -> Seq(UserNames)]
      BY <1>4 DEF Typed
    <3> QED
      BY <1>1, <1>2, <3>1, ChangedIn
  <2>2. at' \in [Run -> Stages] /\ dir' \in [Run -> Second] /\ DOMAIN asked' = Run
    BY <1>1, <1>3, <1>4 DEF Typed, Stages
  <2> QED
    BY <1>3, <1>4, <1>6, <2>1, <2>2 DEF Typed
<1>8. \A p \in Run \ {r} : at'[p] = at[p] /\ todo'[p] = todo[p] /\ dir'[p] = dir[p] /\ asked'[p] = asked[p]
  BY <1>1, <1>3, <1>4 DEF Typed
<1>9. at'[r] = "clean" /\ todo'[r] = Substituted(q) /\ dir'[r] = now /\ asked'[r] = q
  BY <1>1, <1>3, <1>4 DEF Typed
<1>10. Exclusive'
  <2>1. SUFFICES ASSUME NEW p \in Run, NEW o \in Run, p # o, Active(p)', Active(o)', dir'[p] = dir'[o]
                 PROVE  p \in shared'
    BY DEF Exclusive
  <2>2. CASE p # r /\ o # r
    BY <1>6, <1>8, <2>1, <2>2 DEF Active, IInv, Exclusive
  <2>3. CASE p = r \/ o = r
    <3>1. PICK x \in {p, o} : x # r /\ Active(x) /\ dir[x] = now
      BY <1>8, <1>9, <2>1, <2>3 DEF Active
    <3>2. x \in others /\ p \in others \cup {r}
      BY <1>8, <1>9, <2>1, <2>3, <3>1 DEF Active
    <3> HIDE DEF others
    <3> QED
      BY <1>5, <3>2
  <2> QED
    BY <2>2, <2>3
<1>11. NoLeftovers'
  <2>1. SUFFICES ASSUME NEW d \in dirs PROVE \E p \in Run : dir'[p] = d /\ at'[p] \notin {"idle", "done"}
    BY <1>3 DEF NoLeftovers
  <2>2. PICK p \in Run : dir[p] = d /\ at[p] \notin {"idle", "done"}
    BY DEF IInv, NoLeftovers
  <2> QED
    BY <1>3, <1>8, <2>2
<1>12. ASSUME NEW p \in Run, p # r PROVE Placed(p)'
  <2>1. Alone(p)' => Alone(p)
    BY <1>6 DEF Alone
  <2>2. AskedFor(p)' = AskedFor(p) /\ Here(p)' = Here(p)
    BY <1>3, <1>8, <1>12 DEF AskedFor, Here
  <2>3. Placed(p)
    BY DEF IInv
  <2> QED
    BY <1>3, <1>8, <1>12, <2>1, <2>2, <2>3 DEF Placed
<1>13. Placed(r)'
  <2>1. make[r] = <<>> /\ report[r].state = "old"
    BY <1>3 DEF IInv, Placed
  <2>2. AskedFor(r)' = RangeOf(todo'[r])
    BY <1>9 DEF AskedFor
  <2>3. Shape(at'[r], todo'[r], make'[r], AskedFor(r)')
    BY <1>3, <1>9, <2>1, <2>2 DEF Shape, Making
  <2>4. (Kept(r, at[r], todo[r], make[r], left[r], failed[r], AskedFor(r), Here(r)))'
    BY <1>9 DEF Kept, Holding
  <2> QED
    BY <1>2, <1>3, <1>9, <2>1, <2>3, <2>4 DEF Placed
<1> QED
  BY <1>7, <1>10, <1>11, <1>12, <1>13 DEF IInv

LEMMA TickKeeps == IInv /\ Tick => IInv'
<1>1. SUFFICES ASSUME IInv, Tick PROVE IInv'
  OBVIOUS
<1>2. now' \in Second
  BY <1>1, PipelineAssumption DEF Tick, IInv, Typed, Second
<1>3. /\ at' = at /\ todo' = todo /\ make' = make /\ left' = left /\ ran' = ran /\ dir' = dir
      /\ dirs' = dirs /\ tmp' = tmp /\ report' = report /\ asked' = asked /\ failed' = failed
      /\ shared' = shared
  BY <1>1 DEF Tick, Lists, Files, Hist
<1> QED
  BY <1>1, <1>2, <1>3 DEF IInv, Typed, Exclusive, Active, NoLeftovers, Placed, AskedFor, Alone, Here

LEMMA StutterKeeps == IInv /\ UNCHANGED vars => IInv'
<1>1. SUFFICES ASSUME IInv, UNCHANGED vars PROVE IInv'
  OBVIOUS
<1>2. /\ at' = at /\ todo' = todo /\ make' = make /\ left' = left /\ ran' = ran /\ dir' = dir
      /\ dirs' = dirs /\ tmp' = tmp /\ report' = report /\ asked' = asked /\ failed' = failed
      /\ shared' = shared /\ now' = now
  BY <1>1 DEF vars, Lists, Files, Hist
<1> QED
  BY <1>1, <1>2 DEF IInv, Typed, Exclusive, Active, NoLeftovers, Placed, AskedFor, Alone, Here

LEMMA InitKeeps == Init => IInv
<1>1. SUFFICES ASSUME Init PROVE IInv
  OBVIOUS
<1>2. <<>> \in Seq(UserNames) /\ <<>> \in Seq(Known \cup {"tg_ir"})
  OBVIOUS
<1>3. Typed
  <2>1. now \in Second /\ dir \in [Run -> Second]
    BY <1>1, PipelineAssumption DEF Init, Second
  <2>2. todo \in [Run -> Seq(UserNames)]
    BY <1>1, <1>2 DEF Init
  <2>3. make \in [Run -> Seq(Known \cup {"tg_ir"})]
    <3> HIDE DEF Known
    <3> QED
      BY <1>1, <1>2 DEF Init
  <2> QED
    BY <1>1, <2>1, <2>2, <2>3, EmptyFiles DEF Init, Typed, Stages
<1>4. ASSUME NEW r \in Run PROVE Placed(r)
  BY <1>1 DEF Init, Placed, Kept, Holding
<1>5. Exclusive /\ NoLeftovers
  BY <1>1 DEF Init, Exclusive, Active, NoLeftovers
<1> QED
  BY <1>3, <1>4, <1>5 DEF IInv

LEMMA NextKeeps == IInv /\ [Next]_vars => IInv'
<1>1. SUFFICES ASSUME IInv, [Next]_vars PROVE IInv'
  OBVIOUS
<1>2. ASSUME NEW r \in Run, Step(r) \/ Kill(r) PROVE IInv'
  <2>1. Local(r) /\ Values(r)
    BY <1>1, <1>2, CleanBeforeMoves, RefuseMoves, MakeDetectorMoves, BuildIRMoves, BeginPassMoves, RunPassMoves,
       CrashPassMoves, EndPassMoves, RunScriptMoves, BeginAuditMoves, WriteReportMoves, NothingToReportMoves,
       CleanAfterMoves, KillMoves DEF Step
  <2> QED
    BY <1>1, <2>1, LocalKeeps
<1> QED
  BY <1>1, <1>2, StartKeeps, TickKeeps, StutterKeeps DEF Next

-----------------------------------------------------------------------------
(* Every step of every run keeps the invariant, and every reachable state  *)
(* has it: the runs of rustle:145-229, interleaved, killed and restarted.  *)
THEOREM Invariant == Spec => []IInv
BY InitKeeps, NextKeeps, PTL DEF Spec

LEMMA IInvTyped == IInv => TypeOK
<1>1. SUFFICES ASSUME IInv PROVE TypeOK
  OBVIOUS
<1>2. ASSUME NEW r \in Run
      PROVE  /\ at[r] \in {"recipe", "bitcodes"} => todo[r] # <<>> /\ make[r] # <<>>
             /\ at[r] \in {"recipe", "bitcodes"} => make[r][Len(make[r])] = Head(todo[r])
             /\ at[r] \notin {"recipe", "bitcodes", "killed"} => make[r] = <<>>
             /\ at[r] = "audit" => ran[r]
             /\ report[r].state \in {"old", "empty", "new"}
  <2>1. Placed(r) /\ todo[r] \in Seq(UserNames) /\ make[r] \in Seq(Known \cup {"tg_ir"})
    BY <1>1 DEF IInv, Typed
  <2>2. CASE at[r] \in Making
    <3>1. Shape(at[r], todo[r], make[r], AskedFor(r))
      BY <2>1, <2>2 DEF Placed, Making
    <3>2. Made(todo[r], make[r], AskedFor(r))
      BY <2>1, <2>2, <3>1, MakingFacts
    <3> QED
      BY <2>1, <2>2, <3>1, <3>2 DEF Placed, Made, Shape, Remaining, Making
  <2>3. CASE at[r] \notin Making
    BY <2>1, <2>3 DEF Placed, Shape, Making
  <2> QED
    BY <2>2, <2>3
<1>3. ASSUME NEW r \in Run
      PROVE  /\ at[r] \in {"idle", "clean", "loop", "recipe", "bitcodes", "audit", "sweep", "done", "killed"}
             /\ left[r] \subseteq Bitcode
  BY <1>1 DEF IInv, Typed, Stages
<1>4. /\ now \in Second /\ dir \in [Run -> Second] /\ dirs \subseteq Second /\ shared \subseteq Run
      /\ \A d \in Second :
           /\ \A f \in DOMAIN tmp[d] : tmp[d][f] \in Seq(Line)
           /\ d \notin dirs => DOMAIN tmp[d] = {}
  BY <1>1 DEF IInv, Typed, FilesOK
<1> QED
  BY <1>2, <1>3, <1>4 DEF TypeOK

(* A make is running exactly between the steps of the loop, for the name   *)
(* at the head of the list, and a missing directory holds no file          *)
(* (rustle:196-229).                                                       *)
THEOREM Typing == Spec => []TypeOK
BY Invariant, IInvTyped, PTL

LEMMA IInvReports == IInv => ReportComplete /\ ReportOwn
<1>1. SUFFICES ASSUME IInv, NEW r \in Run, Alone(r), report[r].state = "new"
               PROVE  /\ \A d \in Trusted(r) :
                           Found(r, d) = {[by |-> r, of |-> b, form |-> "plain", ok |-> TRUE] : b \in Expected(d)}
                      /\ \A f \in DOMAIN report[r].found : \A l \in report[r].found[f] :
                           l.by = r /\ \E d \in AskedFor(r) : HasRule(d) /\ f \in RangeOf(Targets(d))
  BY DEF ReportComplete, ReportOwn
<1>2. Complete(r, failed[r], AskedFor(r), report[r].found) /\ OfRun(r, AskedFor(r), report[r].found)
  BY <1>1 DEF IInv, Placed
<1>3. \A d : Found(r, d) = Says(report[r].found, d)
  BY DEF Found, Says
<1>4. \A d \in Trusted(r) : d \in AskedFor(r) /\ IsValid(d) /\ HasRule(d) /\ RangeOf(Targets(d)) \cap failed[r] = {}
  BY DEF Trusted
<1> HIDE DEF AskedFor
<1>5. ASSUME NEW d \in Trusted(r)
      PROVE  Found(r, d) = {[by |-> r, of |-> b, form |-> "plain", ok |-> TRUE] : b \in Expected(d)}
  BY <1>2, <1>3, <1>4 DEF Complete
<1>6. \A f \in DOMAIN report[r].found : \A l \in report[r].found[f] :
        l.by = r /\ \E d \in AskedFor(r) : HasRule(d) /\ f \in RangeOf(Targets(d))
  BY <1>2 DEF OfRun
<1> QED
  BY <1>5, <1>6

(* The report of a detector that did not fail, nor a target it depends on, *)
(* has a plain line for each bitcode, each made from complete inputs: in   *)
(* whatever order the detectors were made, whatever failed in between and  *)
(* whatever earlier runs have left (rustle:201-224, Makefile:70-391).      *)
THEOREM ReportsComplete == Spec => []ReportComplete
<1>1. IInv => ReportComplete
  BY IInvReports
<1> QED
  BY <1>1, Invariant, PTL

(* Nothing of another run, nor of a detector that was not asked for, is in *)
(* the report of a run that had its directory for itself (rustle:157,      *)
(* 196).                                                                   *)
THEOREM ReportsOwn == Spec => []ReportOwn
<1>1. IInv => ReportOwn
  BY IInvReports
<1> QED
  BY <1>1, Invariant, PTL

(* A run that ends leaves no directory behind, not even when another run   *)
(* shares it (rustle:196, 229).                                            *)
THEOREM NothingLeft == Spec => []NoLeftovers
<1>1. IInv => NoLeftovers
  BY DEF IInv
<1> QED
  BY <1>1, Invariant, PTL
=============================================================================
