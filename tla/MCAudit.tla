------------------------------ MODULE MCAudit -------------------------------
(***************************************************************************)
(* Two crates with a file of the same path, a file outside of src/ and one *)
(* of tests.  Names repeat: in two structs one of whose names ends with    *)
(* the other's, as a trait's method, and free in several files.            *)
(***************************************************************************)
EXTENDS Audit

CONSTANT Paired      \* the detectors two of whose findings are considered together

In(crate, name, kind) == [crate |-> crate, name |-> name, kind |-> kind]

Lib   == In("token", "lib", "source")
Math  == In("token", "math", "source")
Math2 == In("ft", "math", "source")
Out   == In("token", "build", "outside")
Mock  == In("token", "lib", "test")

Fn(file_, struct, trait, name) == [file |-> file_, struct |-> struct, trait |-> trait, name |-> name, test |-> FALSE]

MCSource ==
  Lib   :> <<Fn(Lib, "Token", "", "pay"), Fn(Lib, "Token", "Receiver", "pay"), Fn(Lib, "Token", "Core", "pay"),
             Fn(Lib, "", "", "mul")>> @@
  Math  :> <<Fn(Math, "", "", "mul"), Fn(Math, "BigToken", "", "pay"),
             [Fn(Math, "Token", "", "pay") EXCEPT !.test = TRUE]>> @@
  Math2 :> <<Fn(Math2, "", "", "mul"), Fn(Math2, "Token", "", "pay")>> @@
  Out   :> <<Fn(Out, "", "", "mul")>> @@
  Mock  :> <<Fn(Mock, "Token", "", "pay")>>

MCFunctions == UNION {{MCSource[f][n] : n \in 1..Len(MCSource[f])} : f \in DOMAIN MCSource}

MCSuffix == {<<"BigToken", "Token">>}

Found(d, line) ==
  {x \in [detector : {d}, of : MCFunctions, closure : BOOLEAN, whole : BOOLEAN, line : {line}, check : BOOLEAN] :
     /\ x.closure \/ x.whole => d \in Located \cup Checks
     /\ x.check => d \in Checks /\ ~x.whole
     /\ x.whole => d \in Located}

MCJobs ==
  UNION {{{x} : x \in Found(d, 1)} : d \in builtin_detectors \ {"dup-collection-id", "tautology"}}
  \cup UNION {{{x, y} : x \in Found(d, 1), y \in Found(d, 2)} : d \in Paired}
=============================================================================
