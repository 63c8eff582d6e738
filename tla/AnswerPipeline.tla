--------------------------- MODULE AnswerPipeline ---------------------------
(***************************************************************************)
(* From the answer of the model to the verdict of the static gate: what    *)
(* generator_node takes out of the answer (CodeExtraction) is what         *)
(* static_check_node judges (StaticGate) and, if it passes, what is run.   *)
(* Of the two baselines only the first half applies; they have no gate.    *)
(***************************************************************************)
EXTENDS CodeExtraction, StaticGate

CONSTANTS
    Answers,    \* the answers the model may give, as sequences of lines
    None

VARIABLES
    answer,     \* response.content
    code,       \* AgentState.generated_code
    verdict     \* AgentState.static_check_result

vars == <<answer, code, verdict>>

LineKind == Fence \cup PythonLine \cup {"prose"}

ASSUME AnswersAssumption == Answers \subseteq Seq(LineKind)

\* An issue is of a line of the program it was found in.
TypeOK ==
    /\ answer \in Seq(LineKind)
    /\ code = None \/ code \in Seq(LineKind)
    /\ verdict # None =>
          /\ verdict.passed \in BOOLEAN
          /\ \A i \in verdict.issues : i.kind \in IssueKind /\ i.line \in DOMAIN code

Init ==
    /\ answer \in Answers
    /\ code = None
    /\ verdict = None

\* generator_node: code = strip_code_fences(response.content)
Generate ==
    /\ code = None
    /\ code' = StripCodeFences(answer)
    /\ UNCHANGED <<answer, verdict>>

\* static_check_node
StaticCheck ==
    /\ code # None
    /\ verdict = None
    /\ verdict' = RunStaticCheck(code)
    /\ UNCHANGED <<answer, code>>

Next == Generate \/ StaticCheck

Spec == Init /\ [][Next]_vars

-----------------------------------------------------------------------------
(* Properties *)

\* From an answer whose fences come in pairs around Python, the program taken
\* is the largest block, never a piece of two blocks nor the prose between them.
StripsToIntendedCode ==
    code # None /\ WellFenced(answer) /\ PythonOnly(answer) => code = IntendedCode(answer)

\* The gate passes exactly those of these answers whose intended program parses
\* and is free of v1 code and undefined names: the two scans, the parse and the
\* extraction before them together lose no issue and invent none.  (Star imports
\* are the subject of OnlyCrashesBlock.)
GateJudgesIntendedCode ==
    verdict # None /\ WellFenced(answer) /\ PythonOnly(answer) /\ ~HasStar(IntendedCode(answer))
        => (verdict.passed <=> \A i \in DOMAIN IntendedCode(answer) :
                                  IntendedCode(answer)[i] \in {"code", "unused"})

\* A program that uses an undefined name "is a guaranteed runtime crash" and does
\* not reach the sandbox, also where pyflakes cannot tell it for sure.
GuaranteedCrashIsRejected ==
    verdict # None /\ (\E i \in DOMAIN code : code[i] = "undefined") => ~verdict.passed

(* What the documentation says, and the code does not do. *)

\* "Taking the largest fenced block is more robust than taking the first"
\* (agent/llm.py:117): what is taken from a well-fenced answer is one of its
\* blocks.
TakesAFencedBlock ==
    code # None /\ WellFenced(answer) /\ PythonBlocks(answer) # {} =>
        \E b \in DOMAIN FencedBlocks(answer) : code = Lines(answer, FencedBlocks(answer)[b])

\* Of what pyflakes finds only undefined names block, "a guaranteed runtime
\* crash"; other findings do not (static_check.py:6-10).
OnlyCrashesBlock ==
    verdict # None /\ ~verdict.passed =>
        \/ ~Parses(code)
        \/ \E i \in DOMAIN code : code[i] \in {"v1", "undefined"}
=============================================================================
