------------------------------- MODULE Audit --------------------------------
(***************************************************************************)
(* The second half of utils/audit.py (375-734): what the detectors found,  *)
(* as read into its sets, becomes notes on the rows of the functions of    *)
(* the source, which are matched by name (core.py:398-439).                *)
(*                                                                         *)
(* A file is a record: its crate, its name without the ending, and what    *)
(* its path makes of it.  A function is a record: its file, struct, trait  *)
(* and name as findFunc reads them, and whether a macro of it holds        *)
(* "test".  A finding is a record                                          *)
(*   detector  who found it                                                *)
(*   of        the function it is in                                       *)
(*   closure   is it in a closure of that function?                        *)
(*   whole     does its location name the crate as well as the file?       *)
(*   line      its line, or what is written for it                         *)
(*   check     was the check that was looked for there?                    *)
(***************************************************************************)
EXTENDS DetectorNames, FiniteSets

CONSTANTS Suffix,     \* pairs of names, the first longer and ending with the second
          Source,     \* the functions of every file, in their order
          Jobs        \* the sets of findings that are considered

File == [crate : STRING, name : STRING, kind : {"source", "outside", "test"}]

NoName == ""     \* what findFunc reads where there is no struct or trait

Function == [file : File, struct : STRING, trait : STRING, name : STRING, test : BOOLEAN]

Functions == UNION {{Source[f][n] : n \in 1..Len(Source[f])} : f \in DOMAIN Source}

-----------------------------------------------------------------------------
(* The column each detector's note goes to.                                *)
Columns ==
  [high   |-> {"reentrancy", "unsafe-math", "self-transfer", "unhandled-promise", "non-private-callback",
               "incorrect-json-type", "unsaved-changes", "nft-approval-check", "nft-owner-check"},
   medium |-> {"round", "div-before-mul", "yocto-attach", "lock-callback", "unregistered-receiver"},
   low    |-> {"prepaid-gas", "non-callback-private", "unused-ret", "storage-gas", "unclaimed-storage-fee"},
   info   |-> {"complex-loop", "transfer", "timestamp", "upgrade-func", "ext-call", "promise-result",
               "public-interface", "inconsistency"}]

(* Whose notes list the lines of all findings; that of incorrect-json-type *)
(* has the text of one, the others only say that there is one.             *)
ListLines == {"complex-loop", "transfer", "round", "div-before-mul", "unsafe-math", "timestamp",
              "unhandled-promise", "ext-call", "promise-result", "unsaved-changes", "unused-ret",
              "inconsistency"}

(* Passes: their functions' names are LLVM's, demangled.  Only some tell   *)
(* the location.                                                           *)
Located == {"reentrancy", "complex-loop", "transfer", "round", "div-before-mul", "unsafe-math",
            "timestamp", "upgrade-func", "unhandled-promise", "ext-call", "promise-result",
            "yocto-attach", "unsaved-changes"}
Checks  == {"self-transfer", "prepaid-gas", "storage-gas", "unregistered-receiver",
            "unclaimed-storage-fee", "nft-approval-check", "nft-owner-check"}

(* Scripts: struct::trait::name.                                           *)
Scripted == {"lock-callback", "non-callback-private", "non-private-callback", "incorrect-json-type",
             "unused-ret", "public-interface"}

(* The detectors whose findings are read into a set.                       *)
Noted == UNION {Columns[c] : c \in DOMAIN Columns}

Finding == [detector : Noted, of : Functions, closure : BOOLEAN, whole : BOOLEAN, line : Nat, check : BOOLEAN]

EndsWith(a, b) == a = b \/ <<a, b>> \in Suffix

(* What stands before the last `::' of a function's LLVM name; the module  *)
(* of a function in a crate's root has the crate's name.                   *)
Qualifier(g) ==
  CASE g.trait # NoName                       -> g.trait
    [] g.trait = NoName /\ g.struct # NoName  -> g.struct
    [] g.trait = NoName /\ g.struct = NoName  -> IF g.file.name = "lib" THEN g.file.crate ELSE g.file.name

(* A trait is one of a struct (core.py:149); a file defines no name twice, *)
(* nor a struct with the name of a trait, a module or the crate that it    *)
(* could be taken for.  Only some passes look for a check.                 *)
ASSUME AuditAssumption ==
  /\ \A f \in DOMAIN Source :
       /\ f \in File /\ Source[f] \in Seq(Function)
       /\ \A n \in 1..Len(Source[f]) : Source[f][n].file = f
  /\ \A g \in Functions : g.trait # NoName => g.struct # NoName
  /\ \A f, g \in Functions :
       /\ f.file = g.file /\ f.name = g.name
       /\ \/ f.trait = NoName /\ Qualifier(f) = Qualifier(g)
          \/ f.trait = g.trait /\ f.struct = g.struct
       => f = g
  /\ \A j \in Jobs : \A x \in j : x \in Finding /\ (x.check => x.detector \in Checks)

(* Seeded fault: any trait of the struct will do.                          *)
NameMatchesAnyTrait(g, f) ==
  /\ g.name = f.name
  /\ \/ f.trait # NoName /\ g.struct = f.struct
     \/ f.trait = NoName /\ f.struct # NoName /\ EndsWith(Qualifier(g), f.struct)
     \/ f.struct = NoName /\ g.trait = NoName /\ EndsWith(Qualifier(g), f.file.name)

(* The name of function g matches function f.                              *)
NameMatches(g, f) ==
  /\ g.name = f.name
  /\ \/ f.trait # NoName /\ g.trait = f.trait /\ g.struct = f.struct
     \/ f.trait = NoName /\ f.struct # NoName /\ EndsWith(Qualifier(g), f.struct)
     \/ f.struct = NoName /\ g.trait = NoName /\ EndsWith(Qualifier(g), f.file.name)

(* A location that does not name the crate is that of a file of any crate. *)
PathMatches(x, f) == x.of.file = f.file \/ (~x.whole /\ [x.of.file EXCEPT !.crate = f.file.crate] = f.file)

(* structFuncNameMatch; `inconsistency' looks at the function's name only. *)
Matches(x, f) ==
  CASE x.detector \in Located -> ~x.closure /\ NameMatches(x.of, f) /\ PathMatches(x, f)
    [] x.detector \in Checks  -> ~x.closure /\ NameMatches(x.of, f) /\ ~x.check
    [] x.detector \in Scripted -> x.of.struct = f.struct /\ x.of.trait = f.trait /\ x.of.name = f.name
    [] x.detector = "inconsistency" -> x.of.file = f.file /\ x.of.name = f.name
    [] OTHER -> FALSE

-----------------------------------------------------------------------------
VARIABLES findings,     \* what audit.py has read
          left,         \* the files not visited
          file,         \* the file that is open, as a set
          k,            \* the function the loop has come to
          value_matrix, \* the rows of the open file
          csv,          \* the reports written, by file
          summary,      \* summary_value_matrix
          done

vars == <<findings, left, file, k, value_matrix, csv, summary, done>>

Init ==
  /\ findings \in Jobs
  /\ left = {f \in DOMAIN Source : f.kind # "test"}
  /\ file = {} /\ k = 1 /\ value_matrix = <<>>
  /\ csv = <<>> /\ summary = <<>> /\ done = FALSE

(* The path does not hold "/src/".                                         *)
SkipFile ==
  /\ file = {}
  /\ \E f \in left : f.kind = "outside" /\ left' = left \ {f}
  /\ UNCHANGED <<findings, file, k, value_matrix, csv, summary, done>>

(* Seeded fault: the rows of the last file are not cleared.                *)
OpenFileKept ==
  /\ file = {}
  /\ \E f \in left : f.kind = "source" /\ left' = left \ {f} /\ file' = {f}
  /\ k' = 1
  /\ UNCHANGED <<findings, value_matrix, csv, summary, done>>

OpenFile ==
  /\ file = {}
  /\ \E f \in left : f.kind = "source" /\ left' = left \ {f} /\ file' = {f}
  /\ k' = 1 /\ value_matrix' = <<>>
  /\ UNCHANGED <<findings, csv, summary, done>>

Open == CHOOSE f \in file : TRUE
AtFunction == file # {} /\ k <= Len(Source[Open])
Here == Source[Open][k]

SkipTest ==
  /\ AtFunction /\ Here.test
  /\ k' = k + 1
  /\ UNCHANGED <<findings, left, file, value_matrix, csv, summary, done>>

(* Seeded fault: only one line is listed.                                  *)
ShownOnce(d, hits) ==
  {{CHOOSE l \in {x.line : x \in hits} : TRUE}}

(* What the note of detector d shows of the findings that match; sets are  *)
(* iterated in no known order.                                             *)
Shown(d, hits) ==
  CASE d \in ListLines             -> {{x.line : x \in hits}}
    [] d = "incorrect-json-type"   -> {{x.line} : x \in hits}
    [] OTHER                       -> {{}}

Hits(f, d) == {x \in findings : x.detector = d /\ Matches(x, f)}

AddRow ==
  /\ AtFunction /\ ~Here.test
  /\ LET from == {d \in Noted : Hits(Here, d) # {}}
     IN  \E shown \in [from -> SUBSET {x.line : x \in findings}] :
           /\ \A d \in from : shown[d] \in Shown(d, Hits(Here, d))
           /\ LET row == [fn |-> Here,
                          notes |-> [c \in DOMAIN Columns |->
                                       {[detector |-> d, shows |-> shown[d]] : d \in from \cap Columns[c]}]]
              IN  /\ value_matrix' = Append(value_matrix, row)
                  /\ summary' = IF from # {} THEN Append(summary, row) ELSE summary
  /\ k' = k + 1
  /\ UNCHANGED <<findings, left, file, csv, done>>

WriteFile ==
  /\ file # {} /\ k > Len(Source[Open])
  /\ csv' = [f \in DOMAIN csv \cup file |-> IF f \in file THEN value_matrix ELSE csv[f]]
  /\ file' = {}
  /\ UNCHANGED <<findings, left, k, value_matrix, summary, done>>

Finish ==
  /\ file = {} /\ left = {} /\ ~done
  /\ done' = TRUE
  /\ UNCHANGED <<findings, left, file, k, value_matrix, csv, summary>>

Next == SkipFile \/ OpenFile \/ SkipTest \/ AddRow \/ WriteFile \/ Finish

Spec == Init /\ [][Next]_vars
-----------------------------------------------------------------------------
Rows(seq) == {seq[n] : n \in 1..Len(seq)}
NotesIn(row) == UNION {row.notes[c] : c \in DOMAIN row.notes}

(* The functions of file f that have a row, of the first n.                *)
Rowed(f) ==
  LET rowed[n \in 0..Len(Source[f])] ==
        IF n = 0 THEN <<>>
        ELSE IF Source[f][n].test THEN rowed[n - 1] ELSE Append(rowed[n - 1], Source[f][n])
  IN  rowed

(* The state is well formed, and what is written of a file are the rows of *)
(* its functions in their order, but of tests (audit.py:408-414, 692).     *)
TypeOK ==
  LET fns(rows) == [n \in 1..Len(rows) |-> rows[n].fn]
  IN  /\ left \subseteq DOMAIN Source
      /\ Cardinality(file) <= 1 /\ file \cap (left \cup DOMAIN csv) = {}
      /\ file # {} => k \in 1..Len(Source[Open]) + 1 /\ fns(value_matrix) = Rowed(Open)[k - 1]
      /\ \A f \in DOMAIN csv : f.kind = "source" /\ fns(csv[f]) = Rowed(f)[Len(Source[f])]
      /\ \A row \in Rows(summary) : NotesIn(row) # {}
      /\ done => left = {} /\ file = {}

(* The functions whose rows can be found: in a file of the source, not of  *)
(* a test, and, for a pass, not free in the root of a crate.               *)
HasRow(x) ==
  /\ x.of.file.kind = "source" /\ ~x.of.test
  /\ x.detector \in Located \cup Checks =>
       ~x.closure /\ (x.of.struct = NoName /\ x.of.trait = NoName => EndsWith(Qualifier(x.of), x.of.file.name))

(* No finding is lost that is in a function with a row: it has a note of   *)
(* its detector, with the line where the note lists lines (audit.py:424-   *)
(* 640).                                                                   *)
FindingsReported ==
  done =>
    \A x \in findings : HasRow(x) /\ ~x.check =>
      \E row \in Rows(summary) :
        /\ row.fn = x.of
        /\ \E n \in NotesIn(row) : n.detector = x.detector /\ (x.detector \in ListLines => x.line \in n.shows)

SamePath(g, f) == g.struct = f.struct /\ g.trait = f.trait

(* A note is about the function of its row, or about one that the lines of *)
(* the detectors do not tell from it: of a struct or trait whose name ends *)
(* with the struct's, of the file with the same path in another crate, or, *)
(* where no path is compared, of the same name anywhere; a note on the     *)
(* method of a trait is about that trait and struct (core.py:424-439).     *)
NotesJustified ==
  \A row \in Rows(summary) : \A n \in NotesIn(row) :
    LET f == row.fn
    IN  \E x \in findings :
          /\ x.detector = n.detector /\ ~x.check
          /\ x.line \in n.shows \/ n.shows = {}
          /\ x.of.name = f.name
          /\ \/ x.of = f
             \/ /\ f.trait # NoName /\ SamePath(x.of, f)
                /\ x.detector \in Located => ~x.whole /\ x.of.file.name = f.file.name
             \/ /\ f.trait = NoName /\ x.detector \in Located /\ x.of.file.name = f.file.name
                /\ x.whole => Qualifier(x.of) # Qualifier(f)
             \/ f.trait = NoName /\ x.detector \in Checks
             \/ x.detector \in Scripted /\ SamePath(x.of, f)
             \/ x.detector = "inconsistency" /\ x.of.file = f.file
=============================================================================
