----------------------------- MODULE AgentGraph -----------------------------
(***************************************************************************)
(* The self-correcting loop of agent/graph.py: five nodes over one         *)
(* AgentState, run one after the other by LangGraph until a router says    *)
(* END or a node raises.                                                   *)
(*                                                                         *)
(*   test_gen -> generate -> static_check --pass--> execute --pass--> END  *)
(*                  ^             |fail                |fail               *)
(*                  +---------- reflect <--------------+                   *)
(*                                                                         *)
(* A candidate program is an element of Codes; all that the loop looks at  *)
(* is what the scanners of static_check.py find in it (Flaws).  The model  *)
(* and the sandbox are free: any code may be generated, and any outcome    *)
(* may come back from any run of it.                                       *)
(***************************************************************************)
EXTENDS Integers, Sequences

CONSTANTS
    MaxAttempts,    \* AgentState.max_attempts
    Codes,          \* the modules the model may write
    Flaws,          \* Flaws[c]: the kinds of issue the scanners find in c
    Tests,          \* the test suites, on disk or written by the model
    None            \* Python's None

\* The kinds a StaticIssue may have, and those that reject an attempt.
IssueKind == {"syntax_error", "pyflakes_undefined_name", "pyflakes_other", "v1_antipattern"}
Blocking  == {"v1_antipattern", "pyflakes_undefined_name"}

StaticCheckResult == [passed : BOOLEAN, issues : SUBSET IssueKind]

\* A sandbox run that timed out never passed.  wrote holds the streams whose
\* tail, as the prompts quote it, is not blank: a failed run may be silent, as
\* when it is killed before a buffer is flushed.
Stream == {"stdout", "stderr"}
ExecutionResult ==
    {r \in [passed : BOOLEAN, timed_out : BOOLEAN, wrote : SUBSET Stream] :
        ~(r.passed /\ r.timed_out)}

\* What the prompts can tell of a failure: each blocking issue, the remark that
\* the run timed out or that tests failed, and what the run wrote.
EvidencePart == IssueKind \cup {"timed_out", "tests_failed"} \cup Stream

\* A diagnosis is known by what the reflector was shown to write it.
Diagnosis == [code : Codes, evidence : SUBSET EvidencePart]

AttemptRecord ==
    [attempt_number : Nat,
     code           : Codes,
     static_check   : StaticCheckResult,
     execution      : ExecutionResult \cup {None},
     reflection     : Diagnosis \cup {None}]

RetryPrompt ==
    [previous_code : Codes,
     evidence      : SUBSET EvidencePart,
     reflection    : Diagnosis \cup {None}]

SandboxRun == [code : Codes, tests : Tests, passed : BOOLEAN]

Status == {"in_progress", "passed", "failed_static", "failed_tests"}
Node   == {"test_gen", "generate", "static_check", "execute", "reflect"}
PC     == Node \cup {"END", "raised"}

\* solve.py and run_eval.py refuse --max-attempts below 1; serve/app.py uses 3.
ASSUME MaxAttemptsAssumption == MaxAttempts \in Nat \ {0}
ASSUME FlawsAssumption == Flaws \in [Codes -> SUBSET IssueKind]
ASSUME NoneAssumption ==
    None \notin Codes \cup Tests \cup StaticCheckResult \cup ExecutionResult
                \cup Diagnosis \cup RetryPrompt

VARIABLES
    \* the fields of AgentState
    canonical_tests,        \* the suite on disk, or None for an ad-hoc prompt
    attempt_number,
    generated_code,
    test_code,
    static_check_result,
    execution_result,
    reflection,
    history,
    status,
    \* LangGraph
    pc,                     \* the node that runs next, "END" or "raised"
    steps,                  \* supersteps so far
    \* what the outside world saw
    calls,                  \* responses of the model, as usage.record counts them
    prompt,                 \* the last retry prompt of the generator
    runs                    \* the sandbox runs, oldest first

vars == <<canonical_tests, attempt_number, generated_code, test_code, static_check_result,
          execution_result, reflection, history, status, pc, steps, calls, prompt, runs>>

TypeOK ==
    /\ canonical_tests \in Tests \cup {None}
    /\ attempt_number \in Nat
    /\ generated_code \in Codes \cup {None}
    /\ test_code \in Tests \cup {None}
    /\ static_check_result \in StaticCheckResult \cup {None}
    /\ execution_result \in ExecutionResult \cup {None}
    /\ reflection \in Diagnosis \cup {None}
    /\ history \in Seq(AttemptRecord)
    /\ status \in Status
    /\ pc \in PC
    /\ steps \in Nat
    /\ calls \in Nat
    /\ prompt \in RetryPrompt \cup {None}
    /\ runs \in Seq(SandboxRun)

-----------------------------------------------------------------------------
(* agent/nodes/static_check.py: unparseable code is rejected without looking *)
(* further; otherwise only some kinds of issue reject it.                    *)

RunStaticCheck(code) ==
    IF "syntax_error" \in Flaws[code]
    THEN [passed |-> FALSE, issues |-> {"syntax_error"}]
    ELSE [passed |-> Flaws[code] \cap Blocking = {}, issues |-> Flaws[code]]

(* The failure as the two prompts show it.  Both nodes filter the issues by  *)
(* kind once more, and look at both results of the state.  The generator     *)
(* heads pytest's output with a remark and leaves stderr out; the reflector  *)
(* shows both streams bare, so a silent run is shown as nothing at all.      *)

QuotedKinds_NoSyntax == {"v1_antipattern", "pyflakes_undefined_name"}
QuotedKinds == {"v1_antipattern", "syntax_error", "pyflakes_undefined_name"}

QuotedIssues(static) ==
    IF static # None /\ ~static.passed THEN static.issues \cap QuotedKinds ELSE {}

\* A failed run is the remark that it timed out, or else what is said of its output.
FailedRun(execution, output) ==
    IF execution = None \/ execution.passed THEN {}
    ELSE IF execution.timed_out THEN {"timed_out"} ELSE output

FailureEvidence(static, execution) ==
    QuotedIssues(static)
    \cup FailedRun(execution, {"tests_failed"} \cup (execution.wrote \cap {"stdout"}))

Evidence(static, execution) ==
    QuotedIssues(static) \cup FailedRun(execution, execution.wrote)

(* The routers of graph.py.  They only read the status and the gate's result. *)

RouteAfterStaticCheck_AnyResult(st, result) ==
    IF st # "in_progress" THEN "END" ELSE IF result # None THEN "execute" ELSE "reflect"
RouteAfterStaticCheck_NoReflect(st, result) ==
    IF st # "in_progress" THEN "END" ELSE IF result.passed THEN "execute" ELSE "generate"
RouteAfterStaticCheck_AnyStatus(st, result) ==
    IF result # None /\ result.passed THEN "execute" ELSE "reflect"
RouteAfterStaticCheck(st, result) ==
    IF st # "in_progress" THEN "END"
    ELSE IF result # None /\ result.passed THEN "execute" ELSE "reflect"

RouteAfterExecute_AlwaysRetry(st) == "reflect"
RouteAfterExecute(st) == IF st # "in_progress" THEN "END" ELSE "reflect"

\* The edge out of reflect: the loop re-enters behind test_gen, which runs once.
AfterReflect_Restart == "test_gen"
AfterReflect == "generate"

\* recursion_limit = max_attempts * _NODES_PER_ATTEMPT + _RECURSION_SLACK
RecursionLimit == MaxAttempts * 4 + 10

-----------------------------------------------------------------------------
Init ==
    /\ canonical_tests \in Tests \cup {None}
    /\ attempt_number = 0
    /\ generated_code = None
    /\ test_code = None
    /\ static_check_result = None
    /\ execution_result = None
    /\ reflection = None
    /\ history = <<>>
    /\ status = "in_progress"
    /\ pc = "test_gen"
    /\ steps = 1        \* LangGraph's own __start__ superstep
    /\ calls = 0
    /\ prompt = None
    /\ runs = <<>>

\* LangGraph runs node n as one superstep.  At the recursion limit it raises
\* GraphRecursionError instead: no node is enabled there.
Superstep(n) ==
    /\ pc = n
    /\ steps < RecursionLimit
    /\ steps' = steps + 1

\* A suite on disk is read as it is; without one the model writes it.
TestGen ==
    /\ Superstep("test_gen")
    /\ IF canonical_tests # None
       THEN test_code' = canonical_tests /\ UNCHANGED calls
       ELSE test_code' \in Tests /\ calls' = calls + 1
    /\ pc' = "generate"
    /\ UNCHANGED <<canonical_tests, attempt_number, generated_code, static_check_result,
                   execution_result, reflection, history, status, prompt, runs>>

\* What generator_node puts in front of the model from the second attempt on.
NextPrompt_ClearedFirst ==
    IF attempt_number + 1 = 1
    THEN None
    ELSE [previous_code |-> generated_code, evidence |-> {}, reflection |-> reflection]
NextPrompt ==
    IF attempt_number + 1 = 1
    THEN None
    ELSE [previous_code |-> generated_code,
          evidence      |-> FailureEvidence(static_check_result, execution_result),
          reflection    |-> reflection]

\* The new code replaces the old; static and execution are what is left of the
\* last attempt's results.  The diagnosis is kept.
Regenerate(static, execution) ==
    /\ Superstep("generate")
    /\ prompt' = NextPrompt
    /\ generated_code' \in Codes
    /\ calls' = calls + 1
    /\ attempt_number' = attempt_number + 1
    /\ static_check_result' = static
    /\ execution_result' = execution
    /\ pc' = "static_check"
    /\ UNCHANGED <<canonical_tests, test_code, reflection, history, status, runs>>

Generate_KeepsExecution == Regenerate(None, execution_result)
Generate == Regenerate(None, None)

\* The attempt's record.  Whichever node ends the attempt commits it.
Record(static, execution) ==
    [attempt_number |-> attempt_number,
     code           |-> generated_code,
     static_check   |-> static,
     execution      |-> execution,
     reflection     |-> reflection]

\* A failed attempt ends the run, under the name of its failure, at the ceiling.
StatusAfterFailure_OneMore(failure) == IF attempt_number > MaxAttempts THEN failure ELSE status
StatusAfterFailure_OneName(failure) == IF attempt_number >= MaxAttempts THEN "failed_tests" ELSE status
StatusAfterFailure(failure) ==
    IF attempt_number >= MaxAttempts THEN failure ELSE status

\* Passing commits nothing: the executor will.
StaticCheckPasses ==
    /\ Superstep("static_check")
    /\ RunStaticCheck(generated_code).passed
    /\ static_check_result' = RunStaticCheck(generated_code)
    /\ pc' = RouteAfterStaticCheck(status, static_check_result')
    /\ UNCHANGED <<canonical_tests, attempt_number, generated_code, test_code,
                   execution_result, reflection, history, status, calls, prompt, runs>>

StaticCheckRejects ==
    /\ Superstep("static_check")
    /\ ~RunStaticCheck(generated_code).passed
    /\ static_check_result' = RunStaticCheck(generated_code)
    /\ history' = Append(history, Record(static_check_result', None))
    /\ status' = StatusAfterFailure("failed_static")
    /\ pc' = RouteAfterStaticCheck(status', static_check_result')
    /\ UNCHANGED <<canonical_tests, attempt_number, generated_code, test_code,
                   execution_result, reflection, calls, prompt, runs>>

\* The sandbox may report anything of any code: tests may be flaky, and a
\* loaded host times out a correct program.
Execute ==
    /\ Superstep("execute")
    /\ \E result \in ExecutionResult :
          /\ execution_result' = result
          /\ runs' = Append(runs, [code |-> generated_code, tests |-> test_code,
                                   passed |-> result.passed])
          /\ history' = Append(history, Record(static_check_result, result))
          /\ status' = IF result.passed THEN "passed" ELSE StatusAfterFailure("failed_tests")
    /\ pc' = RouteAfterExecute(status')
    /\ UNCHANGED <<canonical_tests, attempt_number, generated_code, test_code,
                   static_check_result, reflection, calls, prompt>>

Reflect ==
    /\ Superstep("reflect")
    /\ reflection' = [code     |-> generated_code,
                      evidence |-> Evidence(static_check_result, execution_result)]
    /\ calls' = calls + 1
    /\ pc' = AfterReflect
    /\ UNCHANGED <<canonical_tests, attempt_number, generated_code, test_code,
                   static_check_result, execution_result, history, status, prompt, runs>>

\* Nothing between a node and run_agent's caller catches an exception: the
\* provider refusing a call, a missing suite, ast.parse or the sandbox giving
\* up.  The node's update is lost with it.  A call that raises is not counted;
\* a node may also raise after its call, on a response that is not text.
NodeRaises ==
    /\ pc \in Node
    /\ Superstep(pc)
    /\ \/ UNCHANGED calls
       \/ /\ pc \in {"generate", "reflect"} \/ (pc = "test_gen" /\ canonical_tests = None)
          /\ calls' = calls + 1
    /\ pc' = "raised"
    /\ UNCHANGED <<canonical_tests, attempt_number, generated_code, test_code,
                   static_check_result, execution_result, reflection, history, status,
                   prompt, runs>>

Next ==
    \/ TestGen
    \/ Generate
    \/ StaticCheckPasses
    \/ StaticCheckRejects
    \/ Execute
    \/ Reflect
    \/ NodeRaises

\* graph.invoke keeps stepping until END: every node returns or raises.
Fairness == WF_vars(Next)

Spec == Init /\ [][Next]_vars /\ Fairness

-----------------------------------------------------------------------------
(* Properties *)

LastRecord == history[Len(history)]

\* What the reflector writes when it is shown the attempt recorded in r.
DiagnosisOf(r) == [code |-> r.code, evidence |-> Evidence(r.static_check, r.execution)]

\* The attempt budget: attempts are numbered 1, 2, ..., each leaves exactly
\* one record, committed by whichever node ends it, and no more than
\* MaxAttempts begin (graph.py:13-19, executor.py:4-8, static_check.py:105-107).
OneRecordPerAttempt ==
    /\ attempt_number <= MaxAttempts
    /\ \A i \in DOMAIN history : history[i].attempt_number = i
    /\ pc \in {"static_check", "execute"} => Len(history) = attempt_number - 1
    /\ pc \notin {"static_check", "execute", "raised"} => Len(history) = attempt_number
    /\ pc = "raised" => Len(history) \in {attempt_number - 1, attempt_number}

\* The recursion limit is a backstop: a run never comes near enough for
\* LangGraph to raise GraphRecursionError (graph.py:20-24).
BackstopNeverHit == pc # "raised" => steps < RecursionLimit

\* No code reaches the sandbox but what the gate let through in the same
\* attempt, and a record without an execution is exactly a static rejection
\* (state.py:61-62; analyze.py tells the two apart by it).
OnlyGatedCodeRuns ==
    /\ \A k \in DOMAIN runs : RunStaticCheck(runs[k].code).passed
    /\ \A i \in DOMAIN history :
          /\ history[i].static_check = RunStaticCheck(history[i].code)
          /\ history[i].execution = None <=> ~history[i].static_check.passed

\* Every attempt of a run is held against one and the same test suite, the
\* one on disk when there is one (graph.py:68-69).
OneYardstick ==
    \A k \in DOMAIN runs :
        /\ runs[k].tests = test_code
        /\ canonical_tests # None => runs[k].tests = canonical_tests

\* The failure shown to the reflector is that of the code shown to it: a
\* result left over from an earlier attempt never mixes in.  Of a rejection
\* and of a timeout it is shown the reason; only a run that failed without
\* writing anything leaves it with an empty page (generator.py:97-103,
\* reflector.py:44-61).
EvidenceIsOfThisAttempt ==
    pc = "reflect" =>
        /\ LastRecord.code = generated_code
        /\ LastRecord.static_check = static_check_result
        /\ LastRecord.execution = execution_result
        /\ Evidence(static_check_result, execution_result) = {} =>
              execution_result # None /\ ~execution_result.timed_out /\ execution_result.wrote = {}

\* The reflection on an attempt's record is the diagnosis of the attempt
\* before, and the first has none (state.py:62-64).
DiagnosisGuidesNextAttempt ==
    \A i \in DOMAIN history :
        history[i].reflection = IF i = 1 THEN None ELSE DiagnosisOf(history[i - 1])

\* A retry prompt tells one story: code, failure and diagnosis are all of the
\* attempt that has just failed (generator.py:81-93).
RetryPromptIsCoherent ==
    pc = "static_check" /\ attempt_number > 1 =>
        prompt = [previous_code |-> LastRecord.code,
                  evidence      |-> FailureEvidence(LastRecord.static_check, LastRecord.execution),
                  reflection    |-> DiagnosisOf(LastRecord)]

\* What the caller gets is the last attempt: its code, its results and a
\* status that follows from them; every earlier attempt failed, and a failed
\* run used its whole budget.  A pass was seen by the sandbox, of this code
\* against these tests.
ReportIsLastAttempt ==
    pc = "END" =>
        /\ LastRecord.code = generated_code
        /\ LastRecord.static_check = static_check_result
        /\ LastRecord.execution = execution_result
        /\ CASE status = "failed_static" -> execution_result = None
             [] status = "failed_tests"  -> execution_result # None /\ ~execution_result.passed
             [] status = "passed"        -> runs[Len(runs)] = [code   |-> generated_code,
                                                               tests  |-> test_code,
                                                               passed |-> TRUE]
             [] status = "in_progress"   -> FALSE
        /\ \A i \in 1..Len(history) - 1 :
              history[i].execution # None => ~history[i].execution.passed
        /\ status # "passed" => attempt_number = MaxAttempts

\* The history alone gives the number of model calls the run cost, which is
\* how run_eval.py:58-63 counts them: a generation per record, a reflection
\* between two of them, and one more when the tests are written by the model.
CallsFollowFromHistory ==
    pc = "END" =>
        calls = Len(history) + (Len(history) - 1) + (IF canonical_tests = None THEN 1 ELSE 0)

\* Once a verdict is in, nothing more is spent or recorded: no reflection
\* after the final attempt, no sandbox run after a pass
\* (test_graph_termination.py:123-131).
NothingSpentAfterVerdict ==
    [][status # "in_progress" => UNCHANGED <<calls, runs, history, status>>]_vars

\* Every run comes to an end, whatever the model writes (graph.py:10-19).
Terminates == <>(pc \in {"END", "raised"})

\* How far the run may have come, by node: four supersteps an attempt.
StepBudget ==
    CASE pc = "test_gen"     -> 1
      [] pc = "generate"     -> 4 * attempt_number + 2
      [] pc = "static_check" -> 4 * attempt_number - 1
      [] pc = "execute"      -> 4 * attempt_number
      [] OTHER               -> 4 * attempt_number + 1

\* What holds between any two nodes, and makes the properties inductive: where
\* the run is decides the status, which fields are set, whose results they
\* are, and that the record of a finished attempt is a copy of the state.
Finished == pc \in {"reflect", "END"}

NodeContract ==
    /\ pc \in Node <=> status = "in_progress" /\ pc # "raised"
    /\ pc = "test_gen" => attempt_number = 0 /\ history = <<>> /\ runs = <<>> /\ reflection = None
    /\ pc \notin {"test_gen", "raised"} => test_code # None
    /\ pc \notin {"test_gen", "generate", "raised"} => attempt_number >= 1
    /\ pc \in {"generate", "reflect"} => attempt_number < MaxAttempts
    /\ attempt_number >= 1 => generated_code # None
    /\ pc = "static_check" => static_check_result = None
    /\ pc \in {"static_check", "execute"} => execution_result = None
    /\ pc \in {"execute", "reflect", "END"} => static_check_result = RunStaticCheck(generated_code)
    /\ pc = "execute" => static_check_result.passed
    /\ Finished \/ (pc = "generate" /\ attempt_number >= 1) =>
          /\ LastRecord.code = generated_code
          /\ LastRecord.static_check = static_check_result
          /\ LastRecord.execution = execution_result
    /\ pc # "raised" => steps <= StepBudget

\* ... and what carries over from one attempt to the next: the suite, the
\* diagnosis, that what is behind has failed, and what it has cost.
CallsSoFar ==
    CASE pc = "test_gen" -> 0
      [] pc = "generate" -> 2 * attempt_number
      [] OTHER           -> 2 * attempt_number - 1

Continuity ==
    /\ canonical_tests # None => test_code \in {None, canonical_tests}
    /\ pc \in {"generate", "static_check", "execute"} =>
          reflection = IF history = <<>> THEN None ELSE DiagnosisOf(LastRecord)
    /\ pc \in Node => \A i \in DOMAIN history :
                          history[i].execution # None => ~history[i].execution.passed
    /\ pc = "reflect" => ~static_check_result.passed \/ execution_result # None
    /\ pc # "raised" =>
          calls = CallsSoFar + (IF canonical_tests = None /\ pc # "test_gen" THEN 1 ELSE 0)

IInv == TypeOK /\ OneRecordPerAttempt /\ NodeContract /\ Continuity

\* The refinement mapping.  The commit of a record is the abstract attempt.
VerdictOf(r) ==
    IF r.execution = None THEN "rejected"
    ELSE IF r.execution.passed THEN "passed" ELSE "tests_failed"

Loop == INSTANCE CorrectionLoop WITH
    verdicts <- [i \in DOMAIN history |-> VerdictOf(history[i])],
    outcome  <- IF pc = "raised" THEN "raised" ELSE status

\* The graph is an implementation of the bounded loop, liveness included.
ImplementsLoop == Loop!Spec
=============================================================================
