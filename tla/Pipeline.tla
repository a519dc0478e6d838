------------------------------ MODULE Pipeline ------------------------------
(***************************************************************************)
(* Runs of `rustle' (rustle:145-229) in one working directory.  A run      *)
(* keeps its intermediate files in a directory named after the second it   *)
(* started in (157), makes the detectors of its list one after another     *)
(* (201-215, the rules in MakeRules), lets audit.py turn the files into a  *)
(* report (221-224) and removes the directory (229).  The exit status of   *)
(* make is not looked at.                                                  *)
(*                                                                         *)
(* A detector has one finding on each bitcode, a script one on the source. *)
(* A line records the run it is of, its form and whether what it was made  *)
(* from was complete.  A pass that crashes may leave the beginning of a    *)
(* line: "cut" when the beginning cannot be parsed, "wrong" when it can.   *)
(***************************************************************************)
EXTENDS MakeRules

CONSTANTS Run,        \* the runs
          Bitcode,    \* what tg_ir finds, the same for every run
          Source,     \* stands for the source that scripts read
          Companions, \* the arguments of -d that are considered, each with those of
                      \* a run started after one with it (bound)
          Arguments,  \* the arguments whose substitution is compared with the documentation
          MaxSecond   \* bound: the clock stops there

(* The names the driver accepts although no document lists them.           *)
Undocumented == Fragments \cup {"nep-interface"}

ASSUME PipelineAssumption ==
  /\ DOMAIN Companions \subseteq Seq(UserNames)
  /\ Arguments \subseteq Seq(UserNames \ Undocumented)
  /\ Companions \in [DOMAIN Companions -> SUBSET DOMAIN Companions]
  /\ MaxSecond \in Nat
  /\ Source \notin Bitcode

VARIABLES now,      \* the clock, in seconds
          at,       \* where each run is
          dir,      \* TMP_DIR of each run
          todo,     \* the rest of input_detectors
          make,     \* the targets of the make that is running, head first
          left,     \* the bitcodes a pass has not seen
          ran,      \* HAS_RUNNED
          dirs,     \* the directories that exist
          tmp,      \* the files in each directory
          report,   \* the directory CSV_PATH of each run
          asked,    \* history: the argument of each run
          failed,   \* history: the targets whose last attempt failed
          shared    \* history: runs whose directory another run used

Lists  == <<at, todo, make, left, ran>>
Files  == <<dirs, tmp>>
Hist   == <<asked, failed, shared>>
vars   == <<now, Lists, dir, Files, report, Hist>>

Second == 0..MaxSecond
Line   == [by : Run, of : Bitcode \cup {Source}, form : {"raw", "plain", "cut", "wrong"}, ok : BOOLEAN]
NoFiles == [f \in {} |-> <<>>]

Active(r) == at[r] \notin {"idle", "done", "killed"}

-----------------------------------------------------------------------------
(* The files of a directory, and a file that may be missing.               *)
Content(fs, f)     == IF f \in DOMAIN fs THEN fs[f] ELSE <<>>
Without(fs, F)     == [f \in DOMAIN fs \ F |-> fs[f]]
Replaced(fs, f, s) == [g \in DOMAIN fs \cup {f} |-> IF g = f THEN s ELSE fs[g]]

Broken(s) == s # <<>> /\ s[Len(s)].form \in {"cut", "wrong"}

(* A line is appended; behind the beginning of another it is no line.      *)
Appended(fs, f, l) ==
  Replaced(fs, f, IF Broken(Content(fs, f)) THEN Content(fs, f) ELSE Append(Content(fs, f), l))

(* rustfilt: mangled names become readable ones.                           *)
Demangled(s) == [k \in 1..Len(s) |-> IF s[k].form = "raw" THEN [s[k] EXCEPT !.form = "plain"] ELSE s[k]]

(* What audit.py reads of a file: the lines before the first it cannot     *)
(* parse, each once.                                                       *)
Parsed(s) == {s[k] : k \in {n \in 1..Len(s) : \A m \in 1..n : s[m].form # "cut"}}

Expected(target) == IF target \in Scripts THEN {Source} ELSE Bitcode

(* Has the target all it reads, in the form it needs?                      *)
InputComplete(r, fs, target) ==
  \A f \in Input(target) :
    LET s == Content(fs, f)
    IN  /\ \A k \in 1..Len(s) : s[k].by = r /\ s[k].ok
        /\ f \notin Scripts => \A k \in 1..Len(s) : s[k].form = InputForm(target)
        /\ {s[k].of : k \in 1..Len(s)} = Expected(f)

-----------------------------------------------------------------------------
Init ==
  /\ now = 0
  /\ at = [r \in Run |-> "idle"]
  /\ dir = [r \in Run |-> 0]
  /\ todo = [r \in Run |-> <<>>]
  /\ make = [r \in Run |-> <<>>]
  /\ left = [r \in Run |-> {}]
  /\ ran = [r \in Run |-> FALSE]
  /\ dirs = {}
  /\ tmp = [d \in Second |-> NoFiles]
  /\ report = [r \in Run |-> [state |-> "old", found |-> NoFiles]]
  /\ asked = [r \in Run |-> <<>>]
  /\ failed = [r \in Run |-> {}]
  /\ shared = {}

Tick ==
  /\ now < MaxSecond
  /\ now' = now + 1
  /\ UNCHANGED <<Lists, dir, Files, report, Hist>>

Started == {r \in Run : at[r] # "idle"}
Asks == IF Started = {} THEN DOMAIN Companions ELSE UNION {Companions[asked[r]] : r \in Started}

Start(r) ==
  /\ at[r] = "idle"
  /\ \E q \in Asks :
       /\ todo' = [todo EXCEPT ![r] = Substituted(q)]
       /\ asked' = [asked EXCEPT ![r] = q]
  /\ at' = [at EXCEPT ![r] = "clean"]
  /\ dir' = [dir EXCEPT ![r] = now]
  /\ shared' = LET others == {q \in Run \ {r} : Active(q) /\ dir[q] = now}
               IN  IF others = {} THEN shared ELSE shared \cup others \cup {r}
  /\ UNCHANGED <<now, make, left, ran, Files, report, failed>>

RemoveDir(r) ==
  /\ dirs' = dirs \ {dir[r]}
  /\ tmp' = [tmp EXCEPT ![dir[r]] = NoFiles]

(* Seeded fault: what an earlier run has left is not removed.              *)
CleanBeforeNot(r) ==
  /\ at[r] = "clean"
  /\ at' = [at EXCEPT ![r] = "loop"]
  /\ UNCHANGED <<now, dir, todo, make, left, ran, Files, report, Hist>>

CleanBefore(r) ==
  /\ at[r] = "clean"
  /\ RemoveDir(r)
  /\ at' = [at EXCEPT ![r] = "loop"]
  /\ UNCHANGED <<now, dir, todo, make, left, ran, report, Hist>>

-----------------------------------------------------------------------------
Looping(r) == at[r] = "loop" /\ todo[r] # <<>>

(* Seeded fault: the loop does not go on behind an invalid name.           *)
RefuseKept(r) ==
  /\ Looping(r) /\ ~IsValid(Head(todo[r]))
  /\ UNCHANGED vars

(* "Invalid or repeated detector type".                                    *)
Refuse(r) ==
  /\ Looping(r) /\ ~IsValid(Head(todo[r]))
  /\ todo' = [todo EXCEPT ![r] = Tail(@)]
  /\ UNCHANGED <<now, at, dir, make, left, ran, Files, report, Hist>>

MakeDetector(r) ==
  /\ Looping(r) /\ IsValid(Head(todo[r])) /\ HasRule(Head(todo[r]))
  /\ make' = [make EXCEPT ![r] = Targets(Head(todo[r]))]
  /\ at' = [at EXCEPT ![r] = "recipe"]
  /\ ran' = [ran EXCEPT ![r] = TRUE]
  /\ UNCHANGED <<now, dir, todo, left, Files, report, Hist>>

(* make has no rule for the name.                                          *)
NoRule(r) ==
  /\ Looping(r) /\ IsValid(Head(todo[r])) /\ ~HasRule(Head(todo[r]))
  /\ todo' = [todo EXCEPT ![r] = Tail(@)]
  /\ ran' = [ran EXCEPT ![r] = TRUE]
  /\ failed' = [failed EXCEPT ![r] = @ \cup {Head(todo[r])}]
  /\ UNCHANGED <<now, at, dir, make, left, Files, report, asked, shared>>

(* The recipe of the target ends well: the next target, or the next name.  *)
Succeed(r) ==
  /\ make' = [make EXCEPT ![r] = Tail(@)]
  /\ IF Len(make[r]) > 1
     THEN at' = [at EXCEPT ![r] = "recipe"] /\ UNCHANGED todo
     ELSE at' = [at EXCEPT ![r] = "loop"] /\ todo' = [todo EXCEPT ![r] = Tail(@)]
  /\ failed' = [failed EXCEPT ![r] = @ \ ({Head(make[r])} \ NeverRemoved)]

(* Seeded fault: the loop goes on although make has not given up.          *)
FailOn(r) ==
  /\ at' = [at EXCEPT ![r] = "loop"]
  /\ todo' = [todo EXCEPT ![r] = Tail(@)]
  /\ failed' = [failed EXCEPT ![r] = @ \cup {Head(make[r]), Head(todo[r])}]
  /\ UNCHANGED make

(* The recipe fails: make gives up, the loop goes on.                      *)
Fail(r) ==
  /\ make' = [make EXCEPT ![r] = <<>>]
  /\ at' = [at EXCEPT ![r] = "loop"]
  /\ todo' = [todo EXCEPT ![r] = Tail(@)]
  /\ failed' = [failed EXCEPT ![r] = @ \cup {Head(make[r]), Head(todo[r])}]

Recipe(r) == at[r] = "recipe" /\ make[r] # <<>>
Here(r) == tmp[dir[r]]

(* tg_ir: cargo's failure is ignored, the directory and .bitcodes.tmp made. *)
BuildIR(r) ==
  /\ Recipe(r) /\ Head(make[r]) = "tg_ir"
  /\ dirs' = dirs \cup {dir[r]}
  /\ tmp' = [tmp EXCEPT ![dir[r]] = Replaced(@, "bitcodes", <<>>)]
  /\ Succeed(r)
  /\ UNCHANGED <<now, dir, left, ran, report, asked, shared>>

(* The old file is removed and the list of bitcodes read.                  *)
BeginPass(r) ==
  /\ Recipe(r) /\ Head(make[r]) \in Passes
  /\ tmp' = [tmp EXCEPT ![dir[r]] = Without(@, Removes(Head(make[r])))]
  /\ left' = [left EXCEPT ![r] = IF "bitcodes" \in DOMAIN Here(r) THEN Bitcode ELSE {}]
  /\ at' = [at EXCEPT ![r] = "bitcodes"]
  /\ UNCHANGED <<now, dir, todo, make, ran, dirs, report, Hist>>

(* A line is written; where the directory is gone it is lost.              *)
Write(r, l) ==
  tmp' = IF dir[r] \in dirs THEN [tmp EXCEPT ![dir[r]] = Appended(@, Head(make[r]), l)] ELSE tmp

(* opt on the next bitcode.                                                *)
RunPass(r) ==
  /\ at[r] = "bitcodes"
  /\ \E b \in left[r] :
       /\ Write(r, [by |-> r, of |-> b, form |-> "raw", ok |-> InputComplete(r, Here(r), Head(make[r]))])
       /\ left' = [left EXCEPT ![r] = @ \ {b}]
  /\ UNCHANGED <<now, at, dir, todo, make, ran, dirs, report, Hist>>

(* opt dies of a signal on the next bitcode: what it has buffered is lost, *)
(* and xargs gives up.                                                     *)
CrashPass(r) ==
  /\ at[r] = "bitcodes" /\ left[r] # {}
  /\ \/ UNCHANGED tmp
     \/ \E b \in left[r], form \in {"cut", "wrong"} :
          Write(r, [by |-> r, of |-> b, form |-> form, ok |-> FALSE])
  /\ left' = [left EXCEPT ![r] = {}]
  /\ Fail(r)
  /\ UNCHANGED <<now, dir, ran, dirs, report, asked, shared>>

EndPass(r) ==
  /\ at[r] = "bitcodes" /\ left[r] = {}
  /\ Succeed(r)
  /\ UNCHANGED <<now, dir, left, ran, Files, report, asked, shared>>

(* A script: its old file is removed, its directory made, the file it      *)
(* reads demangled in place; it dies if that file is missing or cannot be  *)
(* parsed.                                                                 *)
RunScript(r) ==
  /\ Recipe(r) /\ Head(make[r]) \in Scripts
  /\ LET target == Head(make[r])
         fs == Without(Here(r), Removes(target))
         gs == [f \in DOMAIN fs |-> IF f \in Demangles(target) THEN Demangled(fs[f]) ELSE fs[f]]
         readable == \A f \in Input(target) : f \in DOMAIN gs /\ \A k \in 1..Len(gs[f]) : gs[f][k].form # "cut"
         line == [by |-> r, of |-> Source, form |-> "plain", ok |-> InputComplete(r, gs, target)]
     IN  /\ tmp' = [tmp EXCEPT ![dir[r]] = IF readable THEN Replaced(gs, target, <<line>>) ELSE gs]
         /\ IF readable THEN Succeed(r) ELSE Fail(r)
  /\ dirs' = dirs \cup {dir[r]}
  /\ UNCHANGED <<now, dir, left, ran, report, asked, shared>>

-----------------------------------------------------------------------------
(* audit.py empties CSV_PATH and demangles every file.                     *)
BeginAudit(r) ==
  /\ at[r] = "loop" /\ todo[r] = <<>> /\ ran[r]
  /\ report' = [report EXCEPT ![r] = [state |-> "empty", found |-> NoFiles]]
  /\ tmp' = [tmp EXCEPT ![dir[r]] = [f \in DOMAIN @ |-> Demangled(@[f])]]
  /\ at' = [at EXCEPT ![r] = "audit"]
  /\ UNCHANGED <<now, dir, todo, make, left, ran, dirs, Hist>>

WriteReport(r) ==
  /\ at[r] = "audit"
  /\ report' = [report EXCEPT ![r] =
       [state |-> "new", found |-> [f \in DOMAIN Here(r) |-> Parsed(Here(r)[f])]]]
  /\ at' = [at EXCEPT ![r] = "sweep"]
  /\ UNCHANGED <<now, dir, todo, make, left, ran, Files, Hist>>

(* No name was valid: the old report stays.                                *)
NothingToReport(r) ==
  /\ at[r] = "loop" /\ todo[r] = <<>> /\ ~ran[r]
  /\ at' = [at EXCEPT ![r] = "sweep"]
  /\ UNCHANGED <<now, dir, todo, make, left, ran, Files, report, Hist>>

(* Seeded fault: the directory stays behind.                               *)
CleanAfterNot(r) ==
  /\ at[r] = "sweep"
  /\ at' = [at EXCEPT ![r] = "done"]
  /\ UNCHANGED <<now, dir, todo, make, left, ran, Files, report, Hist>>

CleanAfter(r) ==
  /\ at[r] = "sweep"
  /\ RemoveDir(r)
  /\ at' = [at EXCEPT ![r] = "done"]
  /\ UNCHANGED <<now, dir, todo, make, left, ran, report, Hist>>

(* The run is interrupted, by its user for example; its files stay.        *)
Kill(r) ==
  /\ Active(r)
  /\ at' = [at EXCEPT ![r] = "killed"]
  /\ UNCHANGED <<now, dir, todo, make, left, ran, Files, report, Hist>>

Step(r) ==
  \/ CleanBefore(r) \/ Refuse(r) \/ MakeDetector(r) \/ NoRule(r)
  \/ BuildIR(r) \/ BeginPass(r) \/ RunPass(r) \/ CrashPass(r) \/ EndPass(r) \/ RunScript(r)
  \/ BeginAudit(r) \/ WriteReport(r) \/ NothingToReport(r) \/ CleanAfter(r)

Next == Tick \/ \E r \in Run : Start(r) \/ Step(r) \/ Kill(r)

(* cargo, opt, the scripts and make come to an end, and a run goes on      *)
(* unless it is killed.  A run need not be started.                        *)
Spec == Init /\ [][Next]_vars /\ \A r \in Run : WF_vars(Step(r))
-----------------------------------------------------------------------------
RangeOf(s) == {s[k] : k \in 1..Len(s)}

(* The state is well formed: a make is running exactly between the loop's  *)
(* steps, for the name at the head of the list (rustle:201-215).           *)
TypeOK ==
  /\ now \in Second
  /\ dir \in [Run -> Second]
  /\ dirs \subseteq Second
  /\ shared \subseteq Run
  /\ \A d \in Second :
       /\ \A f \in DOMAIN tmp[d] : tmp[d][f] \in Seq(Line)
       /\ d \notin dirs => DOMAIN tmp[d] = {}
  /\ \A r \in Run :
       /\ at[r] \in {"idle", "clean", "loop", "recipe", "bitcodes", "audit", "sweep", "done", "killed"}
       /\ at[r] \in {"recipe", "bitcodes"} => todo[r] # <<>> /\ make[r] # <<>>
       /\ at[r] \in {"recipe", "bitcodes"} => make[r][Len(make[r])] = Head(todo[r])
       /\ at[r] \notin {"recipe", "bitcodes", "killed"} => make[r] = <<>>
       /\ left[r] \subseteq Bitcode
       /\ at[r] = "audit" => ran[r]
       /\ report[r].state \in {"old", "empty", "new"}

(* The table of the detectors (README.md:120-151).                         *)
Severity ==
  [high |-> {"unhandled-promise", "non-private-callback", "reentrancy", "unsafe-math",
             "self-transfer", "incorrect-json-type", "unsaved-changes", "nft-approval-check",
             "nft-owner-check"},
   medium |-> {"div-before-mul", "round", "lock-callback", "yocto-attach",
               "dup-collection-id", "unregistered-receiver"} \cup Interfaces,
   low |-> {"prepaid-gas", "non-callback-private", "unused-ret", "upgrade-func", "tautology",
            "storage-gas", "unclaimed-storage-fee"},
   info |-> {"inconsistency", "timestamp", "complex-loop", "ext-call", "promise-result",
             "transfer", "public-interface"}]

Table == UNION {Severity[s] : s \in DOMAIN Severity}

(* What README.md:92-96 promises for a name.                               *)
Documented(name) ==
  CASE name \in DOMAIN Severity -> Severity[name]
    [] name = "all"         -> Table
    [] name = "nep-ft"      -> {"nep141-interface", "self-transfer", "unregistered-receiver"}
    [] name = "nep-storage" -> {"nep145-interface", "unclaimed-storage-fee"}
    [] name = "nep-nft"     -> {"nep171-interface", "nft-approval-check", "nft-owner-check"}
    [] name \in Table       -> {name}
    [] OTHER                -> {}

(* What the driver leaves out of that.  The table gives `nep${id}-interface' *)
(* the severity medium (README.md:137), so that by README.md:93-94 both    *)
(* groups enable it; docs/detectors/nep-interface.md:12 asks for the id,   *)
(* and rustle:181 has no name for it.                                      *)
LeftOut(name) == IF name \in {"all", "medium"} THEN Interfaces ELSE {}

(* The detectors that are made are promised by the documentation for the   *)
(* names of the argument, and none that is promised is left out but the    *)
(* interfaces of `all' and `medium', whatever other names stand around a   *)
(* group and however the groups are nested (rustle:179-192, 201-215).      *)
DocumentedDetectorsMade ==
  Started = {} =>
    \A q \in Arguments :
      LET made == {d \in RangeOf(Substituted(q)) : IsValid(d)}
      IN  /\ UNION {Documented(n) \ LeftOut(n) : n \in RangeOf(q)} \subseteq made
          /\ made \subseteq UNION {Documented(n) : n \in RangeOf(q)}

(* A directory belongs to a run that goes on or was killed: a run that     *)
(* ends leaves nothing behind, not even when another shares its directory  *)
(* (rustle:196, 229).                                                      *)
NoLeftovers ==
  \A d \in dirs : \E r \in Run : dir[r] = d /\ at[r] \notin {"idle", "done"}

(* The names a run is to make.                                             *)
AskedFor(r) == RangeOf(Substituted(asked[r]))

(* What was asked for and did not fail, a target it depends on included.   *)
Trusted(r) ==
  {d \in AskedFor(r) :
     IsValid(d) /\ HasRule(d) /\ RangeOf(Targets(d)) \cap failed[r] = {}}

Alone(r) == r \notin shared

(* What a report says of a target; a pass without a bitcode has no file.   *)
Found(r, d) == IF d \in DOMAIN report[r].found THEN report[r].found[d] ELSE {}

(* The report of a detector that did not fail is complete and made from    *)
(* complete inputs, whatever was made before it in the same directory,     *)
(* demangled in place by another or left by a crash (rustle:201-224,       *)
(* Makefile:70-391).                                                       *)
ReportComplete ==
  \A r \in Run : Alone(r) /\ report[r].state = "new" =>
    \A d \in Trusted(r) :
      Found(r, d) = {[by |-> r, of |-> b, form |-> "plain", ok |-> TRUE] : b \in Expected(d)}

(* A report holds nothing of another run, running, killed or ended, and    *)
(* nothing of a detector that was not asked for (rustle:157, 196).         *)
ReportOwn ==
  \A r \in Run : Alone(r) /\ report[r].state = "new" =>
    \A f \in DOMAIN report[r].found : \A l \in report[r].found[f] :
      /\ l.by = r
      /\ \E d \in AskedFor(r) : HasRule(d) /\ f \in RangeOf(Targets(d))

(* A run that is not killed ends, however many of its detectors fail, and  *)
(* with a new report if one of its names was valid (rustle:201-229).       *)
EveryRunEnds ==
  \A r \in Run :
    at[r] = "clean" ~>
      \/ at[r] = "killed"
      \/ at[r] = "done" /\ (report[r].state = "new" <=> \E d \in AskedFor(r) : IsValid(d))
=============================================================================
