---------------------------- MODULE Audit_proofs ----------------------------
(***************************************************************************)
(* Theorems about the notes of the report, for every source and every set  *)
(* of findings.                                                            *)
(***************************************************************************)
EXTENDS Audit, SumTheorems

-----------------------------------------------------------------------------
(* The detectors and the files.                                            *)
LEMMA Kinds ==
  /\ Located \cap Checks = {} /\ Located \cap Scripted = {} /\ Checks \cap Scripted = {}
  /\ "inconsistency" \notin Located \cup Checks \cup Scripted
  /\ "incorrect-json-type" \notin Located \cup Checks \cup ListLines
  /\ Noted \subseteq Located \cup Checks \cup Scripted \cup {"inconsistency"}
  /\ \A c \in DOMAIN Columns : Columns[c] \subseteq Noted
BY DEF Located, Checks, Scripted, ListLines, Noted, Columns

LEMMA Sources ==
  ASSUME NEW f \in DOMAIN Source
  PROVE  /\ f \in File /\ Source[f] \in Seq(Function) /\ Len(Source[f]) \in Nat
         /\ \A n \in 1..Len(Source[f]) :
              Source[f][n] \in Functions /\ Source[f][n] \in Function /\ Source[f][n].file = f
<1>1. f \in File /\ Source[f] \in Seq(Function) /\ \A n \in 1..Len(Source[f]) : Source[f][n].file = f
  BY AuditAssumption
<1>2. \A n \in 1..Len(Source[f]) : Source[f][n] \in Functions
  BY DEF Functions
<1> QED
  BY <1>1, <1>2

LEMMA FunctionsOf ==
  ASSUME NEW g \in Functions
  PROVE  \E f \in DOMAIN Source : \E n \in 1..Len(Source[f]) : g = Source[f][n] /\ g.file = f /\ g \in Function
<1>1. PICK f \in DOMAIN Source : \E n \in 1..Len(Source[f]) : g = Source[f][n]
  BY DEF Functions
<1> QED
  BY <1>1, Sources

(* A finding with a row is matched by the function it is in.               *)
LEMMA MatchesItself ==
  ASSUME NEW x \in Finding, HasRow(x), ~x.check
  PROVE  Matches(x, x.of)
<1>1. x.detector \in Noted /\ x.of \in Functions
  BY DEF Finding
<1>2. x.detector \in Located \cup Checks => NameMatches(x.of, x.of)
  BY DEF HasRow, NameMatches, Qualifier, EndsWith
<1> QED
  BY <1>1, <1>2, Kinds DEF HasRow, Matches, PathMatches

-----------------------------------------------------------------------------
(* A finding that justifies a note of detector d on the row of f.          *)
Justifies(x, d, f) ==
  /\ x.detector = d /\ ~x.check
  /\ x.of.name = f.name
  /\ \/ x.of = f
     \/ /\ f.trait # NoName /\ SamePath(x.of, f)
        /\ x.detector \in Located => ~x.whole /\ x.of.file.name = f.file.name
     \/ /\ f.trait = NoName /\ x.detector \in Located /\ x.of.file.name = f.file.name
        /\ x.whole => Qualifier(x.of) # Qualifier(f)
     \/ f.trait = NoName /\ x.detector \in Checks
     \/ x.detector \in Scripted /\ SamePath(x.of, f)
     \/ x.detector = "inconsistency" /\ x.of.file = f.file

LEMMA MatchesJustify ==
  ASSUME NEW x \in Finding, x.check => x.detector \in Checks, NEW f \in Functions, Matches(x, f)
  PROVE  Justifies(x, x.detector, f)
<1> DEFINE g == x.of
<1>1. x.detector \in Noted /\ g \in Functions
  BY DEF Finding
<1>2. g.file \in File /\ f.file \in File
  BY <1>1, FunctionsOf, Sources
<1>3. /\ f.trait # NoName => f.struct # NoName
      /\ f.file = g.file /\ f.name = g.name /\ f.trait = NoName /\ Qualifier(f) = Qualifier(g) => g = f
      /\ f.file = g.file /\ f.name = g.name /\ f.trait = g.trait /\ f.struct = g.struct => g = f
  BY <1>1, AuditAssumption
<1>4. ~x.check
  BY Kinds DEF Matches
<1>5. CASE x.detector \in Located
  <2>1. NameMatches(g, f) /\ PathMatches(x, f)
    BY <1>5, Kinds DEF Matches
  <2>2. g.file = f.file \/ (~x.whole /\ g.file.name = f.file.name)
    BY <1>2, <2>1 DEF PathMatches, File
  <2>3. g.name = f.name /\ (f.trait # NoName => SamePath(g, f))
    BY <1>3, <2>1 DEF NameMatches, SamePath
  <2> QED
    BY <1>3, <1>4, <1>5, <2>2, <2>3 DEF Justifies, SamePath
<1>6. CASE x.detector \in Checks
  <2>1. NameMatches(g, f)
    BY <1>6, Kinds DEF Matches
  <2> QED
    BY <1>3, <1>4, <1>6, <2>1, Kinds DEF Justifies, NameMatches, SamePath
<1>7. CASE x.detector \in Scripted
  BY <1>4, <1>7, Kinds DEF Matches, Justifies, SamePath
<1>8. CASE x.detector = "inconsistency"
  BY <1>4, <1>8, Kinds DEF Matches, Justifies
<1> QED
  BY <1>1, <1>5, <1>6, <1>7, <1>8, Kinds

-----------------------------------------------------------------------------
(* The functions of a file that have a row: the recursion has a solution,  *)
(* the one Rowed names.                                                    *)
RowedTo(f, r, n) ==
  IF n = 0 THEN <<>> ELSE IF Source[f][n].test THEN r[n - 1] ELSE Append(r[n - 1], Source[f][n])

RowsTo(f, r, m) == r = [n \in 0..m |-> RowedTo(f, r, n)]

LEMMA RowsExist ==
  ASSUME NEW f, NEW m \in Nat
  PROVE  \E r : RowsTo(f, r, m)
<1> DEFINE B == {n \in Nat : ~ \E r : RowsTo(f, r, n)}
<1>1. RowsTo(f, [n \in 0..0 |-> <<>>], 0)
  BY DEF RowsTo, RowedTo
<1>2. ASSUME NEW n \in Nat, NEW r, RowsTo(f, r, n) PROVE \E h : RowsTo(f, h, n + 1)
  <2> DEFINE h == [i \in 0..(n + 1) |-> RowedTo(f, r, i)]
  <2>1. \A i \in 0..n : h[i] = r[i]
    BY <1>2 DEF RowsTo
  <2> HIDE DEF h
  <2>2. \A i \in 0..(n + 1) : i # 0 => i - 1 \in 0..n
    OBVIOUS
  <2>3. \A i \in 0..(n + 1) : RowedTo(f, h, i) = RowedTo(f, r, i)
    BY <2>1, <2>2 DEF RowedTo
  <2>4. RowsTo(f, h, n + 1)
    BY <2>3 DEF RowsTo, h
  <2> QED
    BY <2>4
<1>3. SUFFICES ASSUME B # {} PROVE FALSE
  OBVIOUS
<1>4. PICK n \in B : n = 0 \/ n - 1 \notin B
  <2>1. B \in SUBSET Nat
    OBVIOUS
  <2> HIDE DEF B
  <2> QED
    BY <1>3, <2>1, LeastNat
<1>5. n # 0 /\ n - 1 \in Nat /\ n - 1 \notin B
  BY <1>1, <1>4
<1>6. \E r : RowsTo(f, r, n - 1)
  BY <1>5
<1>7. \E h : RowsTo(f, h, (n - 1) + 1)
  BY <1>2, <1>5, <1>6
<1>8. (n - 1) + 1 = n
  BY <1>4
<1> QED
  BY <1>4, <1>7, <1>8

LEMMA RowedIs ==
  ASSUME NEW f \in DOMAIN Source
  PROVE  /\ Rowed(f)[0] = <<>>
         /\ \A n \in 1..Len(Source[f]) :
              Rowed(f)[n] = IF Source[f][n].test THEN Rowed(f)[n - 1] ELSE Append(Rowed(f)[n - 1], Source[f][n])
<1> DEFINE r == CHOOSE r : RowsTo(f, r, Len(Source[f]))
<1>1. Len(Source[f]) \in Nat
  BY Sources
<1>2. RowsTo(f, r, Len(Source[f]))
  BY <1>1, RowsExist
<1>3. Rowed(f) = r
  BY DEF Rowed, RowsTo, RowedTo
<1> HIDE DEF r
<1>4. \A n \in 0..Len(Source[f]) : r[n] = RowedTo(f, r, n)
  BY <1>2 DEF RowsTo
<1>5. 0 \in 0..Len(Source[f]) /\ \A n \in 1..Len(Source[f]) : n \in 0..Len(Source[f]) /\ n # 0
  BY <1>1
<1>6. /\ r[0] = <<>>
      /\ \A n \in 1..Len(Source[f]) : r[n] = IF Source[f][n].test THEN r[n - 1] ELSE Append(r[n - 1], Source[f][n])
  BY <1>4, <1>5, Zenon DEF RowedTo
<1> QED
  BY <1>3, <1>6

-----------------------------------------------------------------------------
(* Rows and their notes.                                                   *)
Note == [detector : Noted, shows : SUBSET Nat]
Row  == [fn : Functions, notes : [DOMAIN Columns -> SUBSET Note]]

Justified(n, f) == \E x \in findings : Justifies(x, n.detector, f) /\ (x.line \in n.shows \/ n.shows = {})
Tells(n, x)     == n.detector = x.detector /\ (x.detector \in ListLines => x.line \in n.shows)
Told(g, s) ==
  ~g.test =>
    \A x \in findings : x.of = g /\ HasRow(x) /\ ~x.check =>
      \E row \in Rows(s) : row.fn = g /\ \E n \in NotesIn(row) : Tells(n, x)

Noting(row) ==
  /\ \A n \in NotesIn(row) : Justified(n, row.fn)
  /\ \A x \in findings : Matches(x, row.fn) => \E n \in NotesIn(row) : Tells(n, x)

(* The row that a step adds for function g.                                *)
Adds(g) ==
  \E row \in Row :
    /\ row.fn = g /\ Noting(row)
    /\ value_matrix' = Append(value_matrix, row)
    /\ \/ NotesIn(row) = {} /\ summary' = summary
       \/ NotesIn(row) # {} /\ summary' = Append(summary, row)

LEMMA ShownLines ==
  ASSUME NEW d, NEW hits, NEW s \in Shown(d, hits), hits # {}
  PROVE  /\ \E x \in hits : x.line \in s \/ s = {}
         /\ d \in ListLines => \A x \in hits : x.line \in s
BY Kinds DEF Shown

LEMMA RowAdded ==
  ASSUME findings \in Jobs, Here \in Functions, AddRow
  PROVE  Adds(Here)
<1> DEFINE g == Here
           from == {d \in Noted : Hits(g, d) # {}}
<1> HIDE DEF g
<1>1. PICK shown \in [from -> SUBSET {x.line : x \in findings}] :
        /\ \A d \in from : shown[d] \in Shown(d, Hits(g, d))
        /\ LET row == [fn |-> g,
                       notes |-> [c \in DOMAIN Columns |->
                                    {[detector |-> d, shows |-> shown[d]] : d \in from \cap Columns[c]}]]
           IN  /\ value_matrix' = Append(value_matrix, row)
               /\ summary' = IF from # {} THEN Append(summary, row) ELSE summary
  BY DEF AddRow, g
<1> DEFINE note(d) == [detector |-> d, shows |-> shown[d]]
           notes == [c \in DOMAIN Columns |-> {note(d) : d \in from \cap Columns[c]}]
           row == [fn |-> g, notes |-> notes]
<1>2. value_matrix' = Append(value_matrix, row) /\ summary' = IF from # {} THEN Append(summary, row) ELSE summary
  BY <1>1
<1>3. \A x \in findings : x \in Finding /\ x.line \in Nat /\ x.detector \in Noted /\ (x.check => x.detector \in Checks)
  BY AuditAssumption DEF Finding
<1>4. ASSUME NEW d \in from
      PROVE  /\ note(d) \in Note /\ note(d).detector = d /\ note(d).shows = shown[d]
             /\ shown[d] \in Shown(d, Hits(g, d))
  <2>1. shown[d] \in SUBSET {x.line : x \in findings}
    OBVIOUS
  <2>2. shown[d] \in SUBSET Nat
    BY <1>3, <2>1
  <2> QED
    BY <1>1, <2>2 DEF Note
<1>5. \A d : d \in from <=> d \in Noted /\ Hits(g, d) # {}
  OBVIOUS
<1> HIDE DEF note, from
<1>6. notes \in [DOMAIN Columns -> SUBSET Note]
  BY <1>4
<1>7. DOMAIN notes = DOMAIN Columns /\ \A c \in DOMAIN Columns : notes[c] = {note(d) : d \in from \cap Columns[c]}
  OBVIOUS
<1> HIDE DEF notes
<1>8. row \in Row /\ row.fn = g /\ row.notes = notes
  BY <1>6 DEF Row, g
<1> HIDE DEF row
<1>9. NotesIn(row) = {note(d) : d \in from}
  <2>1. ASSUME NEW n \in NotesIn(row) PROVE n \in {note(d) : d \in from}
    <3>1. PICK c \in DOMAIN Columns : n \in notes[c]
      BY <1>7, <1>8 DEF NotesIn
    <3> QED
      BY <1>7, <3>1
  <2>2. ASSUME NEW d \in from PROVE note(d) \in NotesIn(row)
    <3>1. PICK c \in DOMAIN Columns : d \in Columns[c]
      BY <1>5 DEF Noted
    <3>2. note(d) \in notes[c]
      BY <1>7, <3>1
    <3> QED
      BY <1>7, <1>8, <3>1, <3>2 DEF NotesIn
  <2> QED
    BY <2>1, <2>2
<1>10. ASSUME NEW d \in from PROVE Justified(note(d), g)
  <2>1. Hits(g, d) # {} /\ shown[d] \in Shown(d, Hits(g, d))
    BY <1>4, <1>5
  <2>2. PICK x \in Hits(g, d) : x.line \in shown[d] \/ shown[d] = {}
    BY <2>1, ShownLines
  <2>3. x \in findings /\ x.detector = d /\ Matches(x, g)
    BY DEF Hits
  <2>4. Justifies(x, d, g)
    <3>1. g \in Functions
      BY DEF g
    <3> QED
      BY <1>3, <2>3, <3>1, MatchesJustify
  <2> QED
    BY <1>4, <2>2, <2>3, <2>4 DEF Justified
<1>11. ASSUME NEW x \in findings, Matches(x, g) PROVE \E n \in NotesIn(row) : Tells(n, x)
  <2> DEFINE d == x.detector
  <2>1. x \in Hits(g, d) /\ d \in from
    BY <1>3, <1>5, <1>11 DEF Hits
  <2>2. d \in ListLines => x.line \in shown[d]
    BY <1>4, <2>1, ShownLines
  <2> QED
    BY <1>4, <1>9, <2>1, <2>2 DEF Tells
<1>12. Noting(row)
  BY <1>8, <1>9, <1>10, <1>11 DEF Noting
<1>13. NotesIn(row) # {} <=> from # {}
  BY <1>9
<1> QED
  BY <1>2, <1>8, <1>12, <1>13 DEF Adds, g

-----------------------------------------------------------------------------
(* The inductive invariant.                                                *)
Fns(rows) == [n \in 1..Len(rows) |-> rows[n].fn]

(* A file that is open has the rows of the functions the loop has passed.  *)
Opened ==
  \A f \in file :
    /\ file = {f} /\ f \in DOMAIN Source /\ f.kind = "source" /\ f \notin left \cup DOMAIN csv
    /\ k \in 1..Len(Source[f]) + 1 /\ Fns(value_matrix) = Rowed(f)[k - 1]

Closed ==
  \A f \in DOMAIN csv :
    /\ f \in DOMAIN Source /\ f \notin left /\ f.kind = "source"
    /\ csv[f] \in Seq(Row) /\ Fns(csv[f]) = Rowed(f)[Len(Source[f])]

(* No file is forgotten.                                                   *)
Awaited == \A f \in DOMAIN Source : f.kind = "source" => f \in left \cup file \cup DOMAIN csv

(* What is found in the functions that were passed is told.                *)
Passed == \A f \in file \cup DOMAIN csv : \A n \in 1..Len(Source[f]) : (f \in file => n < k) => Told(Source[f][n], summary)

Backed == \A row \in Rows(summary) : NotesIn(row) # {} /\ \A n \in NotesIn(row) : Justified(n, row.fn)

IInv ==
  /\ findings \in Jobs /\ left \in SUBSET DOMAIN Source /\ done \in BOOLEAN
  /\ value_matrix \in Seq(Row) /\ summary \in Seq(Row)
  /\ done => left = {} /\ file = {}
  /\ Opened /\ Closed /\ Awaited /\ Passed /\ Backed

LEMMA RowFn ==
  ASSUME NEW row \in Row
  PROVE  row.fn \in Functions
BY DEF Row

LEMMA AppendRows ==
  ASSUME NEW s \in Seq(Row), NEW row \in Row
  PROVE  /\ Append(s, row) \in Seq(Row)
         /\ Rows(Append(s, row)) = Rows(s) \cup {row}
         /\ Fns(Append(s, row)) = Append(Fns(s), row.fn)
<1>1. /\ Append(s, row) \in Seq(Row) /\ Len(Append(s, row)) = Len(s) + 1 /\ Len(s) \in Nat
      /\ \A n \in 1..Len(s) : Append(s, row)[n] = s[n]
      /\ Append(s, row)[Len(s) + 1] = row
  OBVIOUS
<1> DEFINE t == Append(s, row)
<1> HIDE DEF t
<1>2. \A n \in 1..Len(t) : n \in 1..Len(s) \/ n = Len(s) + 1
  BY <1>1 DEF t
<1>3. Rows(t) = Rows(s) \cup {row}
  BY <1>1, <1>2 DEF Rows, t
<1>4. Fns(s) \in Seq(Functions) /\ Len(Fns(s)) = Len(s) /\ \A n \in 1..Len(s) : Fns(s)[n] = s[n].fn
  <2>1. \A n \in 1..Len(s) : s[n].fn \in Functions
    <3>1. \A n \in 1..Len(s) : s[n] \in Row
      OBVIOUS
    <3> QED
      BY <3>1, RowFn
  <2> QED
    BY <1>1, <2>1 DEF Fns
<1>5. row.fn \in Functions
  BY RowFn
<1>6. /\ Append(Fns(s), row.fn) \in Seq(Functions) /\ Len(Append(Fns(s), row.fn)) = Len(s) + 1
      /\ \A n \in 1..Len(s) : Append(Fns(s), row.fn)[n] = s[n].fn
      /\ Append(Fns(s), row.fn)[Len(s) + 1] = row.fn
  BY <1>4, <1>5
<1>7. /\ Fns(t) \in Seq(Functions) /\ Len(Fns(t)) = Len(s) + 1
      /\ \A n \in 1..Len(s) + 1 : Fns(t)[n] = t[n].fn
  <2>1. Len(t) = Len(s) + 1 /\ \A n \in 1..Len(t) : t[n] \in Row
    BY <1>1 DEF t
  <2>2. \A n \in 1..Len(t) : t[n].fn \in Functions
    BY <2>1, RowFn
  <2> QED
    BY <1>1, <2>1, <2>2 DEF Fns
<1>8. Fns(t) = Append(Fns(s), row.fn)
  <2> DEFINE u == Append(Fns(s), row.fn)
             v == Fns(t)
  <2>1. \A n \in 1..Len(s) + 1 : v[n] = u[n]
    <3> TAKE n \in 1..Len(s) + 1
    <3>1. n \in 1..Len(s) \/ n = Len(s) + 1
      BY <1>1
    <3> QED
      BY <1>1, <1>6, <1>7, <3>1 DEF t
  <2>2. u \in Seq(Functions) /\ v \in Seq(Functions) /\ Len(u) = Len(s) + 1 /\ Len(v) = Len(s) + 1
    BY <1>6, <1>7
  <2> HIDE DEF u, v
  <2>3. u = v
    BY <2>1, <2>2
  <2> QED
    BY <2>3 DEF u, v
<1> QED
  BY <1>1, <1>3, <1>8 DEF t

(* What is told stays told.                                                *)
LEMMA ToldMore ==
  ASSUME NEW g, NEW s, NEW t, Rows(s) \subseteq Rows(t), Told(g, s)
  PROVE  Told(g, t)
BY DEF Told

LEMMA InitHolds == Init => IInv
<1>1. SUFFICES ASSUME Init PROVE IInv
  OBVIOUS
<1>2. <<>> \in Seq(Row) /\ DOMAIN csv = {} /\ Rows(<<>>) = {}
  BY <1>1 DEF Init, Rows
<1>3. \A f \in DOMAIN Source : f.kind = "source" => f \in left
  BY <1>1 DEF Init
<1> QED
  BY <1>1, <1>2, <1>3 DEF Init, IInv, Opened, Closed, Awaited, Passed, Backed

LEMMA SkipFileHolds == IInv /\ SkipFile => IInv'
<1>1. SUFFICES ASSUME IInv, SkipFile PROVE IInv'
  OBVIOUS
<1>2. PICK f \in left : f.kind = "outside" /\ left' = left \ {f}
  BY <1>1 DEF SkipFile
<1>3. UNCHANGED <<findings, file, k, value_matrix, csv, summary, done>>
  BY <1>1 DEF SkipFile
<1>4. Opened' /\ Closed' /\ Awaited' /\ Passed' /\ Backed'
  BY <1>1, <1>2, <1>3 DEF IInv, Opened, Closed, Awaited, Passed, Backed, Told, Justified
<1> QED
  BY <1>1, <1>2, <1>3, <1>4 DEF IInv

LEMMA OpenFileHolds == IInv /\ OpenFile => IInv'
<1>1. SUFFICES ASSUME IInv, OpenFile PROVE IInv'
  OBVIOUS
<1>2. PICK f \in left : f.kind = "source" /\ left' = left \ {f} /\ file' = {f}
  BY <1>1 DEF OpenFile
<1>3. UNCHANGED <<findings, csv, summary, done>> /\ k' = 1 /\ value_matrix' = <<>> /\ file = {}
  BY <1>1 DEF OpenFile
<1>4. f \in DOMAIN Source /\ f \notin DOMAIN csv /\ Len(Source[f]) \in Nat
  BY <1>1, Sources DEF IInv, Closed
<1>5. Opened'
  <2>1. Fns(<<>>) = <<>>
    BY DEF Fns
  <2>2. Rowed(f)[k' - 1] = <<>>
    BY <1>3, <1>4, RowedIs
  <2> QED
    BY <1>2, <1>3, <1>4, <2>1, <2>2 DEF Opened
<1>6. Closed' /\ Awaited' /\ Backed'
  BY <1>1, <1>2, <1>3 DEF IInv, Closed, Awaited, Backed, Justified
<1>7. Passed'
  BY <1>1, <1>2, <1>3, <1>4 DEF IInv, Passed, Told
<1>8. value_matrix' \in Seq(Row)
  BY <1>3
<1> QED
  BY <1>1, <1>2, <1>3, <1>5, <1>6, <1>7, <1>8 DEF IInv

(* The function at which the loop is.                                      *)
LEMMA HereIs ==
  ASSUME IInv, AtFunction
  PROVE  /\ Open \in file /\ file = {Open} /\ Open \in DOMAIN Source /\ k \in 1..Len(Source[Open])
         /\ Len(Source[Open]) \in Nat /\ Open \notin left \cup DOMAIN csv
         /\ Here = Source[Open][k] /\ Here \in Functions
         /\ Fns(value_matrix) = Rowed(Open)[k - 1]
<1>1. Open \in file
  BY DEF AtFunction, Open
<1>2. /\ file = {Open} /\ Open \in DOMAIN Source /\ k \in 1..Len(Source[Open]) + 1
      /\ Open \notin left \cup DOMAIN csv /\ Fns(value_matrix) = Rowed(Open)[k - 1]
  BY <1>1 DEF IInv, Opened
<1>3. Len(Source[Open]) \in Nat /\ k <= Len(Source[Open])
  BY <1>2, Sources DEF AtFunction
<1>4. k \in 1..Len(Source[Open])
  BY <1>2, <1>3
<1> QED
  BY <1>1, <1>2, <1>3, <1>4, Sources DEF Here

LEMMA SkipTestHolds == IInv /\ SkipTest => IInv'
<1>1. SUFFICES ASSUME IInv, SkipTest PROVE IInv'
  OBVIOUS
<1> DEFINE f == Open
<1>2. /\ file = {f} /\ f \in DOMAIN Source /\ k \in 1..Len(Source[f]) /\ f \notin left \cup DOMAIN csv
      /\ Len(Source[f]) \in Nat /\ Here = Source[f][k] /\ Fns(value_matrix) = Rowed(f)[k - 1]
  BY <1>1, HereIs DEF SkipTest
<1>3. Here.test /\ k' = k + 1 /\ UNCHANGED <<findings, left, file, value_matrix, csv, summary, done>>
  BY <1>1 DEF SkipTest
<1> HIDE DEF f
<1>4. Opened'
  <2>1. Rowed(f)[k' - 1] = Rowed(f)[k - 1]
    <3>1. k' - 1 = k
      BY <1>2, <1>3
    <3>2. Rowed(f)[k] = Rowed(f)[k - 1]
      BY <1>2, <1>3, RowedIs
    <3> QED
      BY <3>1, <3>2
  <2>2. k' \in 1..Len(Source[f]) + 1
    BY <1>2, <1>3
  <2>3. f.kind = "source"
    BY <1>1, <1>2 DEF IInv, Opened
  <2> QED
    BY <1>2, <1>3, <2>1, <2>2, <2>3 DEF Opened
<1>5. Closed' /\ Awaited' /\ Backed'
  BY <1>1, <1>3 DEF IInv, Closed, Awaited, Backed, Justified
<1>6. Passed'
  <2>1. ASSUME NEW n \in 1..Len(Source[f]), n < k + 1 PROVE n < k \/ n = k
    BY <1>2, <2>1
  <2> QED
    BY <1>1, <1>2, <1>3, <2>1 DEF IInv, Passed, Told
<1> QED
  BY <1>1, <1>3, <1>4, <1>5, <1>6 DEF IInv

LEMMA AddRowHolds == IInv /\ AddRow => IInv'
<1>1. SUFFICES ASSUME IInv, AddRow PROVE IInv'
  OBVIOUS
<1> DEFINE f == Open
           g == Here
<1>2. /\ file = {f} /\ f \in DOMAIN Source /\ k \in 1..Len(Source[f]) /\ f \notin left \cup DOMAIN csv
      /\ Len(Source[f]) \in Nat /\ g = Source[f][k] /\ Fns(value_matrix) = Rowed(f)[k - 1] /\ g \in Functions
  BY <1>1, HereIs DEF AddRow
<1>3. ~g.test /\ k' = k + 1 /\ UNCHANGED <<findings, left, file, csv, done>>
  BY <1>1 DEF AddRow
<1>4. PICK row \in Row :
        /\ row.fn = g /\ Noting(row)
        /\ value_matrix' = Append(value_matrix, row)
        /\ \/ NotesIn(row) = {} /\ summary' = summary
           \/ NotesIn(row) # {} /\ summary' = Append(summary, row)
  <2>1. Adds(g)
    BY <1>1, <1>2, RowAdded DEF IInv
  <2> QED
    BY <2>1 DEF Adds
<1> HIDE DEF f, g
<1>5. value_matrix \in Seq(Row) /\ summary \in Seq(Row)
  BY <1>1 DEF IInv
<1>6. value_matrix' \in Seq(Row) /\ summary' \in Seq(Row)
      /\ Rows(summary) \subseteq Rows(summary') /\ Rows(summary') \subseteq Rows(summary) \cup {row}
      /\ (NotesIn(row) # {} => row \in Rows(summary')) /\ (NotesIn(row) = {} => summary' = summary)
  BY <1>4, <1>5, AppendRows
<1>7. Opened'
  <2>1. Fns(value_matrix') = Append(Rowed(f)[k - 1], g)
    BY <1>2, <1>4, <1>5, AppendRows
  <2>2. Rowed(f)[k] = Append(Rowed(f)[k - 1], g)
    BY <1>2, <1>3, RowedIs
  <2>3. k' - 1 = k /\ k' \in 1..Len(Source[f]) + 1
    BY <1>2, <1>3
  <2>4. f.kind = "source"
    BY <1>1, <1>2 DEF IInv, Opened
  <2> QED
    BY <1>2, <1>3, <2>1, <2>2, <2>3, <2>4 DEF Opened
<1>8. Closed' /\ Awaited'
  BY <1>1, <1>3 DEF IInv, Closed, Awaited
<1>9. Backed'
  <2>1. \A n, h : Justified(n, h) => Justified(n, h)'
    BY <1>3 DEF Justified
  <2>2. row \in Rows(summary') => NotesIn(row) # {} \/ row \in Rows(summary)
    BY <1>6
  <2>3. \A x \in Rows(summary) : NotesIn(x) # {} /\ \A n \in NotesIn(x) : Justified(n, x.fn)
    BY <1>1 DEF IInv, Backed
  <2>4. \A n \in NotesIn(row) : Justified(n, row.fn)
    BY <1>4 DEF Noting
  <2> QED
    BY <1>6, <2>1, <2>2, <2>3, <2>4 DEF Backed
<1>10. Told(g, summary')
  <2>1. SUFFICES ASSUME NEW x \in findings, x.of = g, HasRow(x), ~x.check
                 PROVE  \E r \in Rows(summary') : r.fn = g /\ \E n \in NotesIn(r) : Tells(n, x)
    BY DEF Told
  <2>2. Matches(x, g)
    <3>1. x \in Finding
      BY <1>1, AuditAssumption DEF IInv
    <3> QED
      BY <2>1, <3>1, MatchesItself
  <2>3. \E n \in NotesIn(row) : Tells(n, x)
    BY <1>4, <2>2 DEF Noting
  <2> QED
    BY <1>4, <1>6, <2>3
<1>11. Passed'
  <2>1. ASSUME NEW h \in file \cup DOMAIN csv, NEW n \in 1..Len(Source[h]), h \in file => n < k + 1
        PROVE  Told(Source[h][n], summary')
    <3>1. CASE h = f /\ n = k
      BY <1>2, <1>10, <3>1
    <3>2. CASE ~(h = f /\ n = k)
      <4>1. h \in file => n < k
        BY <1>2, <2>1, <3>2
      <4>2. Told(Source[h][n], summary)
        BY <1>1, <4>1 DEF IInv, Passed
      <4> QED
        BY <1>6, <4>2, ToldMore
    <3> QED
      BY <3>1, <3>2
  <2> QED
    BY <1>3, <2>1 DEF Passed, Told
<1> QED
  BY <1>1, <1>3, <1>6, <1>7, <1>8, <1>9, <1>11 DEF IInv

LEMMA WriteFileHolds == IInv /\ WriteFile => IInv'
<1>1. SUFFICES ASSUME IInv, WriteFile PROVE IInv'
  OBVIOUS
<1> DEFINE f == Open
<1>2. /\ file = {f} /\ f \in DOMAIN Source /\ f \notin left \cup DOMAIN csv /\ f.kind = "source"
      /\ k \in 1..Len(Source[f]) + 1 /\ Fns(value_matrix) = Rowed(f)[k - 1]
  BY <1>1 DEF WriteFile, Open, IInv, Opened
<1>3. /\ k > Len(Source[f]) /\ file' = {}
      /\ csv' = [h \in DOMAIN csv \cup file |-> IF h \in file THEN value_matrix ELSE csv[h]]
      /\ UNCHANGED <<findings, left, k, value_matrix, summary, done>>
  BY <1>1 DEF WriteFile
<1> HIDE DEF f
<1>4. k - 1 = Len(Source[f]) /\ \A n \in 1..Len(Source[f]) : n < k
  BY <1>2, <1>3, Sources
<1>5. /\ DOMAIN csv' = DOMAIN csv \cup file
      /\ csv'[f] = value_matrix
      /\ \A h \in DOMAIN csv : csv'[h] = csv[h]
  BY <1>2, <1>3
<1>6. Closed'
  <2>1. \A h \in DOMAIN csv' : h = f \/ h \in DOMAIN csv
    BY <1>2, <1>5
  <2>2. value_matrix \in Seq(Row) /\ Fns(value_matrix) = Rowed(f)[Len(Source[f])]
    BY <1>1, <1>2, <1>4 DEF IInv
  <2> QED
    BY <1>1, <1>2, <1>3, <1>5, <2>1, <2>2 DEF IInv, Closed
<1>7. Opened' /\ Awaited' /\ Backed'
  BY <1>1, <1>3, <1>5 DEF IInv, Opened, Awaited, Backed, Justified
<1>8. Passed'
  <2>1. ASSUME NEW h \in file \cup DOMAIN csv, NEW n \in 1..Len(Source[h]) PROVE Told(Source[h][n], summary)
    BY <1>1, <1>2, <1>4 DEF IInv, Passed
  <2> QED
    BY <1>3, <1>5, <2>1 DEF Passed, Told
<1> QED
  BY <1>1, <1>3, <1>6, <1>7, <1>8 DEF IInv

LEMMA FinishHolds == IInv /\ Finish => IInv'
BY DEF IInv, Finish, Opened, Closed, Awaited, Passed, Backed, Told, Justified

LEMMA StutterHolds == IInv /\ UNCHANGED vars => IInv'
BY DEF IInv, vars, Opened, Closed, Awaited, Passed, Backed, Told, Justified

LEMMA NextHolds == IInv /\ [Next]_vars => IInv'
BY SkipFileHolds, OpenFileHolds, SkipTestHolds, AddRowHolds, WriteFileHolds, FinishHolds, StutterHolds DEF Next

(* The loop over the files (audit.py:399-692) keeps the rows of the open   *)
(* file those of the functions it has passed, forgets no file, and keeps   *)
(* every note that was told and the finding each note comes from.          *)
THEOREM Invariant == Spec => []IInv
BY InitHolds, NextHolds, PTL DEF Spec

-----------------------------------------------------------------------------
(* The state is well formed, and what is written of a file are the rows of *)
(* its functions in their order, but of tests (audit.py:408-414, 692).     *)
THEOREM Typing == Spec => []TypeOK
<1>1. IInv => TypeOK
  <2>1. SUFFICES ASSUME IInv PROVE TypeOK
    OBVIOUS
  <2>2. Cardinality(file) <= 1
    <3>1. CASE file = {}
      BY <3>1, FS_EmptySet
    <3>2. CASE file # {}
      <4>1. PICK f \in file : file = {f}
        BY <2>1, <3>2 DEF IInv, Opened
      <4>2. Cardinality({f}) = 1
        BY FS_Singleton
      <4> QED
        BY <4>1, <4>2
    <3> QED
      BY <3>1, <3>2
  <2>3. file \cap (left \cup DOMAIN csv) = {}
    BY <2>1 DEF IInv, Opened
  <2>4. file # {} => k \in 1..Len(Source[Open]) + 1 /\ Fns(value_matrix) = Rowed(Open)[k - 1]
    BY <2>1 DEF IInv, Opened, Open
  <2>5. \A f \in DOMAIN csv : f.kind = "source" /\ Fns(csv[f]) = Rowed(f)[Len(Source[f])]
    BY <2>1 DEF IInv, Closed
  <2>6. \A row \in Rows(summary) : NotesIn(row) # {}
    BY <2>1 DEF IInv, Backed
  <2>7. left \subseteq DOMAIN Source /\ (done => left = {} /\ file = {})
    BY <2>1 DEF IInv
  <2> QED
    BY <2>2, <2>3, <2>4, <2>5, <2>6, <2>7 DEF TypeOK, Fns
<1> QED
  BY <1>1, Invariant, PTL

(* No finding is lost that is in a function with a row: at the end it has  *)
(* a note of its detector, with the line where the note lists lines        *)
(* (audit.py:424-640).                                                     *)
THEOREM AllReported == Spec => []FindingsReported
<1>1. IInv => FindingsReported
  <2>1. SUFFICES ASSUME IInv, done, NEW x \in findings, HasRow(x), ~x.check
                 PROVE  \E row \in Rows(summary) : row.fn = x.of /\ \E n \in NotesIn(row) : Tells(n, x)
    BY DEF FindingsReported, Tells
  <2>2. x.of \in Functions
    BY <2>1, AuditAssumption DEF IInv, Finding
  <2>3. PICK f \in DOMAIN Source : \E n \in 1..Len(Source[f]) : x.of = Source[f][n] /\ x.of.file = f
    BY <2>2, FunctionsOf
  <2>4. PICK n \in 1..Len(Source[f]) : x.of = Source[f][n]
    BY <2>3
  <2>5. f.kind = "source" /\ ~x.of.test
    BY <2>1, <2>3 DEF HasRow
  <2>6. f \in DOMAIN csv /\ file = {}
    BY <2>1, <2>5 DEF IInv, Awaited
  <2>7. Told(x.of, summary)
    BY <2>1, <2>4, <2>6 DEF IInv, Passed
  <2> QED
    BY <2>1, <2>5, <2>7 DEF Told
<1> QED
  BY <1>1, Invariant, PTL

(* Every note is backed by a finding in the function of its row, or in one *)
(* that the lines of the detectors do not tell from it (core.py:398-439).  *)
THEOREM AllJustified == Spec => []NotesJustified
<1>1. IInv => NotesJustified
  <2>1. SUFFICES ASSUME IInv, NEW row \in Rows(summary), NEW n \in NotesIn(row)
                 PROVE  \E x \in findings : Justifies(x, n.detector, row.fn) /\ (x.line \in n.shows \/ n.shows = {})
    BY Zenon DEF NotesJustified, Justifies
  <2>2. Justified(n, row.fn)
    BY <2>1 DEF IInv, Backed
  <2> QED
    BY <2>2 DEF Justified
<1> QED
  BY <1>1, Invariant, PTL
=============================================================================
