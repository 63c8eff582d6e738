----------------------------- MODULE StaticGate -----------------------------
(***************************************************************************)
(* agent/nodes/static_check.py: which programs run_static_check lets       *)
(* through to the sandbox, and with which issues.  A program is a sequence *)
(* of lines; a line is known by what the scanners find in it:              *)
(*                                                                         *)
(*   code        nothing                                                   *)
(*   v1          one of the eight patterns, in code, a string or a comment *)
(*   undefined   a name that nothing defines                               *)
(*   star        from ... import *                                         *)
(*   unused      an import that is not used                                *)
(*                                                                         *)
(* and any other line is none of Python.                                   *)
(***************************************************************************)
EXTENDS Integers, Sequences, FiniteSets

PythonLine == {"code", "v1", "undefined", "star", "unused"}

IssueKind == {"syntax_error", "pyflakes_undefined_name", "pyflakes_other", "v1_antipattern"}

Parses(code) == \A i \in DOMAIN code : code[i] \in PythonLine

\* pyflakes, as its messages are told apart below.  In the presence of a star
\* import it does not know whether a name is undefined.
HasStar(code) == \E i \in DOMAIN code : code[i] = "star"
Message(code, i) ==
    CASE code[i] = "undefined" -> IF HasStar(code) THEN "may be undefined" ELSE "undefined name"
      [] code[i] = "star"      -> "unable to detect undefined names"
      [] code[i] = "unused"    -> "imported but unused"

\* "undefined name" in msg: a substring of two of them.
SaysUndefinedName_Exactly(msg) == msg = "undefined name"
SaysUndefinedName(msg) == msg \in {"undefined name", "unable to detect undefined names"}

CheckPyflakes(code) ==
    {[kind |-> IF SaysUndefinedName(Message(code, i))
               THEN "pyflakes_undefined_name" ELSE "pyflakes_other",
      line |-> i] : i \in {j \in DOMAIN code : code[j] \in {"undefined", "star", "unused"}}}

\* Line by line, each pattern on its own.
CheckV1Antipatterns(code) ==
    {[kind |-> "v1_antipattern", line |-> i] : i \in {j \in DOMAIN code : code[j] = "v1"}}

FirstBadLine_FromZero(code) ==
    (CHOOSE i \in DOMAIN code : code[i] \notin PythonLine /\ \A j \in 1..i-1 : code[j] \in PythonLine) - 1
FirstBadLine(code) ==
    CHOOSE i \in DOMAIN code : code[i] \notin PythonLine /\ \A j \in 1..i-1 : code[j] \in PythonLine

Issues(code) ==
    IF ~Parses(code)
    THEN {[kind |-> "syntax_error", line |-> FirstBadLine(code)]}
    ELSE CheckPyflakes(code) \cup CheckV1Antipatterns(code)

\* A syntax error is rejected apart from the list of blocking kinds.
RunStaticCheck(code) ==
    [passed |-> Parses(code) /\ \A i \in Issues(code) :
                    i.kind \notin {"v1_antipattern", "pyflakes_undefined_name"},
     issues |-> Issues(code)]
=============================================================================
