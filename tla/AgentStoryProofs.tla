-------------------------- MODULE AgentStoryProofs --------------------------
(***************************************************************************)
(* What a run of AgentGraph tells of itself, for every MaxAttempts, every  *)
(* set of programs and test suites, and every scanner: its prompts, its    *)
(* diagnoses, its records and its report are of the attempts they claim to *)
(* be of, and nothing runs that the gate did not let through.              *)
(*                                                                         *)
(* Each property is an invariant relative to IInv: Continuity says what    *)
(* the nodes hand on, and the records only ever grow at the end.           *)
(***************************************************************************)
EXTENDS AgentGraphProofs

\* Only two nodes touch the history, and each appends one record that is a
\* copy of the state it leaves.
LEMMA HistoryStep ==
    ASSUME IInv, [Next]_vars
    PROVE  \/ UNCHANGED history
           \/ \E r \in AttemptRecord :
                 /\ history' = Append(history, r)
                 /\ r.code = generated_code /\ r.reflection = reflection
                 /\ r.static_check = RunStaticCheck(r.code)
                 /\ r.execution = None <=> ~r.static_check.passed
                 /\ r.static_check = static_check_result' /\ r.execution = execution_result'
                 /\ pc \in {"static_check", "execute"}
<1>1. CASE TestGen \/ Generate \/ StaticCheckPasses \/ Reflect \/ NodeRaises \/ UNCHANGED vars
    BY <1>1 DEF TestGen, Generate, Regenerate, StaticCheckPasses, Reflect, NodeRaises, vars
<1>2. CASE StaticCheckRejects
  <2> DEFINE r == Record(static_check_result', None)
  <2>1. r \in AttemptRecord /\ history' = Append(history, r)
    BY <1>2, RejectAppends
  <2>2. /\ r.code = generated_code /\ r.reflection = reflection
        /\ r.static_check = static_check_result' /\ r.execution = None
    BY DEF Record
  <2>3. /\ static_check_result' = RunStaticCheck(generated_code) /\ ~static_check_result'.passed
        /\ execution_result' = None /\ pc = "static_check"
    BY <1>2, RejectAppends DEF StaticCheckRejects, Superstep, IInv, NodeContract
  <2> HIDE DEF r
  <2> QED
    BY <2>1, <2>2, <2>3
<1>3. CASE Execute
  <2> DEFINE r == Record(static_check_result, execution_result')
  <2>1. r \in AttemptRecord /\ history' = Append(history, r) /\ execution_result' # None
    BY <1>3, ExecuteAppends, NoneIsNoValue
  <2>2. /\ r.code = generated_code /\ r.reflection = reflection
        /\ r.static_check = static_check_result /\ r.execution = execution_result'
    BY DEF Record
  <2>3. /\ static_check_result = RunStaticCheck(generated_code) /\ static_check_result.passed
        /\ UNCHANGED static_check_result /\ pc = "execute"
    BY <1>3 DEF Execute, Superstep, IInv, NodeContract
  <2> HIDE DEF r
  <2> QED
    BY <2>1, <2>2, <2>3
<1> QED
    BY <1>1, <1>2, <1>3 DEF Next

\* The records of a longer history: the old ones and the new one.
LEMMA RecordsAfterAppend ==
    ASSUME IInv, NEW r \in AttemptRecord, history' = Append(history, r)
    PROVE  /\ Len(history) \in Nat /\ Len(history') = Len(history) + 1
           /\ DOMAIN history = 1..Len(history) /\ DOMAIN history' = 1..Len(history) + 1
           /\ history'[Len(history) + 1] = r
           /\ \A i \in DOMAIN history : i \in DOMAIN history' /\ history'[i] = history[i]
           /\ \A i \in DOMAIN history' : i \in DOMAIN history \/ i = Len(history) + 1
BY HistoryAppend DEF IInv, TypeOK

-----------------------------------------------------------------------------
(* Whatever is in the sandbox's log passed the gate, and the records tell    *)
(* static rejections from runs.                                              *)

LEMMA GatedStep == IInv /\ OnlyGatedCodeRuns /\ [Next]_vars => OnlyGatedCodeRuns'
<1> SUFFICES ASSUME IInv, OnlyGatedCodeRuns, [Next]_vars PROVE OnlyGatedCodeRuns'
    OBVIOUS
<1>1. \A k \in DOMAIN runs' : RunStaticCheck(runs'[k].code).passed
  <2>1. CASE Execute
    <3> DEFINE run == [code |-> generated_code, tests |-> test_code,
                       passed |-> execution_result'.passed]
    <3>1. runs' = Append(runs, run) /\ run.code = generated_code
        BY <2>1, ExecuteAppends
    <3>2. RunStaticCheck(generated_code).passed
        BY <2>1 DEF Execute, Superstep, IInv, NodeContract
    <3> HIDE DEF run
    <3>3. \A k \in DOMAIN runs' : runs'[k] = run \/ (k \in DOMAIN runs /\ runs'[k] = runs[k])
        BY <3>1 DEF IInv, TypeOK
    <3> QED
        BY <3>1, <3>2, <3>3 DEF OnlyGatedCodeRuns
  <2>2. CASE UNCHANGED runs
    BY <2>2 DEF OnlyGatedCodeRuns
  <2> QED
    BY <2>1, <2>2
    DEF Next, vars, TestGen, Generate, Regenerate, StaticCheckPasses, StaticCheckRejects, Reflect,
        NodeRaises
<1>2. \A i \in DOMAIN history' :
          /\ history'[i].static_check = RunStaticCheck(history'[i].code)
          /\ history'[i].execution = None <=> ~history'[i].static_check.passed
    BY HistoryStep, RecordsAfterAppend DEF OnlyGatedCodeRuns
<1> QED
    BY <1>1, <1>2 DEF OnlyGatedCodeRuns

\* No code reaches the sandbox but what the gate let through in the same
\* attempt, and the history tells the two kinds of failure apart: whatever the
\* scanners find, and however the attempts follow each other (state.py:61-62).
THEOREM GatedCodeRuns == Spec => []OnlyGatedCodeRuns
<1>1. Init => OnlyGatedCodeRuns
    BY DEF Init, OnlyGatedCodeRuns
<1> QED
    BY <1>1, GatedStep, GraphInvariant, PTL DEF Spec

-----------------------------------------------------------------------------
(* One suite for all attempts.                                               *)

LEMMA YardstickStep == IInv /\ OneYardstick /\ [Next]_vars => OneYardstick'
<1> SUFFICES ASSUME IInv, OneYardstick, [Next]_vars PROVE OneYardstick'
    OBVIOUS
<1>1. CASE TestGen
  <2>1. runs' = <<>>
    BY <1>1 DEF TestGen, Superstep, IInv, NodeContract
  <2> QED
    BY <2>1 DEF OneYardstick
<1>2. CASE Execute
  <2> DEFINE run == [code |-> generated_code, tests |-> test_code,
                     passed |-> execution_result'.passed]
  <2>1. runs' = Append(runs, run) /\ run.tests = test_code
    BY <1>2, ExecuteAppends
  <2>2. canonical_tests # None => test_code = canonical_tests
    BY <1>2 DEF Execute, Superstep, IInv, NodeContract, Continuity
  <2> HIDE DEF run
  <2>3. \A k \in DOMAIN runs' : runs'[k] = run \/ (k \in DOMAIN runs /\ runs'[k] = runs[k])
    BY <2>1 DEF IInv, TypeOK
  <2> QED
    BY <1>2, <2>1, <2>2, <2>3 DEF Execute, OneYardstick
<1>3. CASE UNCHANGED <<runs, test_code, canonical_tests>>
    BY <1>3 DEF OneYardstick
<1> QED
    BY <1>1, <1>2, <1>3
    DEF Next, vars, Generate, Regenerate, StaticCheckPasses, StaticCheckRejects, Reflect, NodeRaises

\* Every attempt is held against the same suite, the one on disk when there is
\* one: however often the loop comes round, test_gen does not (graph.py:68-69).
THEOREM OneSuite == Spec => []OneYardstick
<1>1. Init => OneYardstick
    BY DEF Init, OneYardstick
<1> QED
    BY <1>1, YardstickStep, GraphInvariant, PTL DEF Spec

-----------------------------------------------------------------------------
(* Evidence and diagnoses.                                                   *)

\* The scanners reject nothing without a reason that the prompts quote.
LEMMA RejectionIsQuoted ==
    ASSUME NEW code \in Codes, ~RunStaticCheck(code).passed
    PROVE  RunStaticCheck(code).issues \cap QuotedKinds # {}
BY FlawsAssumption DEF RunStaticCheck, Blocking, QuotedKinds

\* The failure shown to the reflector is that of the code shown to it: no
\* result of an earlier attempt is left in the state when it runs.  It is shown
\* nothing only of a run that failed in silence: the kinds the gate rejects are
\* among those the prompt quotes, and a timeout is always named
\* (generator.py:97-103, reflector.py:44-61).
THEOREM EvidenceIsFresh == Spec => []EvidenceIsOfThisAttempt
<1>1. IInv => EvidenceIsOfThisAttempt
  <2> SUFFICES ASSUME IInv, pc = "reflect"
               PROVE  /\ LastRecord.code = generated_code
                      /\ LastRecord.static_check = static_check_result
                      /\ LastRecord.execution = execution_result
                      /\ Evidence(static_check_result, execution_result) = {} =>
                            /\ execution_result # None
                            /\ ~execution_result.timed_out
                            /\ execution_result.wrote = {}
    BY DEF EvidenceIsOfThisAttempt
  <2>1. /\ LastRecord.code = generated_code
        /\ LastRecord.static_check = static_check_result
        /\ LastRecord.execution = execution_result
    BY DEF IInv, NodeContract, Finished
  <2> SUFFICES ASSUME Evidence(static_check_result, execution_result) = {}
               PROVE  /\ execution_result # None
                      /\ ~execution_result.timed_out
                      /\ execution_result.wrote = {}
    BY <2>1
  <2>2. generated_code \in Codes /\ static_check_result = RunStaticCheck(generated_code)
    BY DEF IInv, TypeOK, NodeContract
  <2>3. static_check_result.passed
    <3> SUFFICES ASSUME ~static_check_result.passed PROVE FALSE
        OBVIOUS
    <3>1. QuotedIssues(static_check_result) # {}
        BY <2>2, RejectionIsQuoted, StaticCheckType, NoneIsNoValue DEF QuotedIssues
    <3> QED
        BY <3>1 DEF Evidence
  <2>4. execution_result # None
    BY <2>3 DEF IInv, Continuity
  <2>5. ~execution_result.passed
    <3>1. Len(history) \in DOMAIN history
        BY DEF IInv, TypeOK, OneRecordPerAttempt, NodeContract
    <3> QED
        BY <2>1, <2>4, <3>1 DEF IInv, Continuity, LastRecord, Node
  <2> QED
    BY <2>4, <2>5 DEF Evidence, FailedRun
<1> QED
    BY <1>1, GraphInvariant, PTL

LEMMA DiagnosisStep ==
    IInv /\ DiagnosisGuidesNextAttempt /\ [Next]_vars => DiagnosisGuidesNextAttempt'
<1> SUFFICES ASSUME IInv, DiagnosisGuidesNextAttempt, [Next]_vars
             PROVE  DiagnosisGuidesNextAttempt'
    OBVIOUS
<1>1. CASE UNCHANGED history
    BY <1>1 DEF DiagnosisGuidesNextAttempt, DiagnosisOf, Evidence, QuotedIssues, FailedRun
<1>2. ASSUME NEW r \in AttemptRecord, history' = Append(history, r), r.reflection = reflection,
             pc \in {"static_check", "execute"}
      PROVE  DiagnosisGuidesNextAttempt'
  <2>1. reflection = IF history = <<>> THEN None ELSE DiagnosisOf(history[Len(history)])
    BY <1>2 DEF IInv, Continuity, LastRecord
  <2>2. history = <<>> <=> Len(history) = 0
    BY DEF IInv, TypeOK
  <2> SUFFICES ASSUME NEW i \in DOMAIN history'
               PROVE  history'[i].reflection = IF i = 1 THEN None ELSE DiagnosisOf(history'[i - 1])
    BY DEF DiagnosisGuidesNextAttempt, DiagnosisOf, Evidence, QuotedIssues, FailedRun
  <2>3. CASE i \in DOMAIN history
    <3>1. i # 1 => i - 1 \in DOMAIN history
        BY <2>3, <1>2, RecordsAfterAppend
    <3>2. history'[i] = history[i] /\ (i # 1 => history'[i - 1] = history[i - 1])
        BY <2>3, <3>1, <1>2, RecordsAfterAppend
    <3> QED
        BY <2>3, <3>2 DEF DiagnosisGuidesNextAttempt
  <2>4. CASE i = Len(history) + 1
    <3>1. history'[i].reflection = reflection
        BY <2>4, <1>2, RecordsAfterAppend
    <3>2. Len(history) \in Nat /\ (i = 1 <=> Len(history) = 0) /\ i - 1 = Len(history)
        BY <2>4, <1>2, RecordsAfterAppend
    <3>3. i # 1 => history'[i - 1] = history[Len(history)]
        BY <3>2, <1>2, RecordsAfterAppend
    <3> QED
        BY <2>1, <2>2, <3>1, <3>2, <3>3
  <2> QED
    BY <2>3, <2>4, <1>2, RecordsAfterAppend
<1> QED
    BY <1>1, <1>2, HistoryStep

\* The reflection an attempt was written under is the diagnosis of the attempt
\* before it: one behind, never two, and never of the attempt itself
\* (state.py:62-64).
THEOREM DiagnosisIsOfAttemptBefore == Spec => []DiagnosisGuidesNextAttempt
<1>1. Init => DiagnosisGuidesNextAttempt
    BY DEF Init, DiagnosisGuidesNextAttempt
<1> QED
    BY <1>1, DiagnosisStep, GraphInvariant, PTL DEF Spec

LEMMA PromptStep == IInv /\ RetryPromptIsCoherent /\ [Next]_vars => RetryPromptIsCoherent'
<1> SUFFICES ASSUME IInv, RetryPromptIsCoherent, [Next]_vars, (pc = "static_check")',
                    (attempt_number > 1)'
             PROVE  (prompt = [previous_code |-> LastRecord.code,
                               evidence      |-> FailureEvidence(LastRecord.static_check,
                                                                 LastRecord.execution),
                               reflection    |-> DiagnosisOf(LastRecord)])'
    BY DEF RetryPromptIsCoherent
<1>1. CASE Generate
  <2>1. pc = "generate" /\ attempt_number \in Nat /\ attempt_number >= 1 /\ UNCHANGED history
    BY <1>1 DEF Generate, Regenerate, Superstep, IInv, TypeOK
  <2>2. /\ LastRecord.code = generated_code
        /\ LastRecord.static_check = static_check_result
        /\ LastRecord.execution = execution_result
        /\ history # <<>> /\ reflection = DiagnosisOf(LastRecord)
    BY <2>1 DEF IInv, TypeOK, NodeContract, OneRecordPerAttempt, Continuity
  <2>3. prompt' = [previous_code |-> generated_code,
                   evidence      |-> FailureEvidence(static_check_result, execution_result),
                   reflection    |-> reflection]
    BY <1>1, <2>1 DEF Generate, Regenerate, NextPrompt
  <2>4. LastRecord' = LastRecord
    BY <2>1 DEF LastRecord
  <2> QED
    BY <2>2, <2>3, <2>4
    DEF DiagnosisOf, Evidence, FailureEvidence, QuotedIssues, FailedRun
<1>2. CASE UNCHANGED vars
    BY <1>2 DEF vars, RetryPromptIsCoherent, LastRecord, DiagnosisOf, Evidence,
                FailureEvidence, QuotedIssues, FailedRun
<1>3. CASE TestGen \/ StaticCheckPasses \/ StaticCheckRejects \/ Execute \/ Reflect \/ NodeRaises
    BY <1>3, PassRoutesToExecute
    DEF TestGen, StaticCheckPasses, StaticCheckRejects, Execute, Reflect, NodeRaises,
        RouteAfterStaticCheck, RouteAfterExecute, AfterReflect
<1> QED
    BY <1>1, <1>2, <1>3 DEF Next

\* A retry prompt quotes the code, the failure and the diagnosis of one and the
\* same attempt, the one that has just failed (generator.py:81-93).
THEOREM PromptsTellOneStory == Spec => []RetryPromptIsCoherent
<1>1. Init => RetryPromptIsCoherent
    BY DEF Init, RetryPromptIsCoherent
<1> QED
    BY <1>1, PromptStep, GraphInvariant, PTL DEF Spec

-----------------------------------------------------------------------------
(* The report, its cost, and that it is final.                               *)

\* The attempts behind the last one have failed, while the run goes on.
LEMMA EarlierAttemptsFailed ==
    ASSUME IInv, pc \in Node, NEW r \in AttemptRecord, history' = Append(history, r)
    PROVE  /\ LastRecord' = r
           /\ \A i \in 1..Len(history') - 1 :
                 history'[i].execution # None => ~history'[i].execution.passed
<1>1. \A i \in DOMAIN history : history[i].execution # None => ~history[i].execution.passed
    BY DEF IInv, Continuity
<1> QED
    BY <1>1, RecordsAfterAppend DEF LastRecord

LEMMA ReportStep == IInv /\ ReportIsLastAttempt /\ [Next]_vars => ReportIsLastAttempt'
<1> SUFFICES ASSUME IInv, ReportIsLastAttempt, [Next]_vars, pc' = "END"
             PROVE  ReportIsLastAttempt'
    BY DEF ReportIsLastAttempt
<1> USE MaxAttemptsAssumption
<1>1. CASE StaticCheckRejects
  <2> DEFINE r == Record(static_check_result', None)
  <2>1. r \in AttemptRecord /\ history' = Append(history, r) /\ pc \in Node
    BY <1>1, RejectAppends DEF StaticCheckRejects, Superstep, Node
  <2>2. /\ r.code = generated_code' /\ r.static_check = static_check_result'
        /\ r.execution = None /\ execution_result' = None
    BY <1>1 DEF Record, StaticCheckRejects, Superstep, IInv, NodeContract
  <2>3. status' = "failed_static" /\ attempt_number' = MaxAttempts
    <3>1. status = "in_progress" /\ attempt_number \in Nat /\ attempt_number <= MaxAttempts
        BY <2>1, <1>1
        DEF StaticCheckRejects, Superstep, IInv, TypeOK, NodeContract, OneRecordPerAttempt, Node
    <3>2. status' # "in_progress"
        BY <1>1 DEF StaticCheckRejects, RouteAfterStaticCheck
    <3> QED
        BY <1>1, <3>1, <3>2 DEF StaticCheckRejects, StatusAfterFailure
  <2> HIDE DEF r
  <2>4. /\ LastRecord' = r
        /\ \A i \in 1..Len(history') - 1 :
              history'[i].execution # None => ~history'[i].execution.passed
    BY <2>1, EarlierAttemptsFailed
  <2> QED
    BY <2>2, <2>3, <2>4 DEF ReportIsLastAttempt
<1>2. CASE Execute
  <2> DEFINE r == Record(static_check_result, execution_result')
             run == [code |-> generated_code, tests |-> test_code,
                     passed |-> execution_result'.passed]
  <2>1. r \in AttemptRecord /\ history' = Append(history, r) /\ pc \in Node
    BY <1>2, ExecuteAppends DEF Execute, Superstep, Node
  <2>2. /\ r.code = generated_code' /\ r.static_check = static_check_result'
        /\ r.execution = execution_result'
    BY <1>2 DEF Record, Execute
  <2>3. execution_result' # None /\ execution_result'.passed \in BOOLEAN
    BY <1>2, ExecuteAppends, NoneIsNoValue DEF ExecutionResult
  <2>4. /\ status' = IF execution_result'.passed THEN "passed" ELSE "failed_tests"
        /\ ~execution_result'.passed => attempt_number' = MaxAttempts
    <3>1. status = "in_progress" /\ attempt_number \in Nat /\ attempt_number <= MaxAttempts
        BY <2>1, <1>2
        DEF Execute, Superstep, IInv, TypeOK, NodeContract, OneRecordPerAttempt, Node
    <3>2. status' # "in_progress"
        BY <1>2 DEF Execute, RouteAfterExecute
    <3> QED
        BY <1>2, <3>1, <3>2, <2>3, ExecuteAppends DEF Execute, StatusAfterFailure
  <2>5. runs'[Len(runs')] = run
    <3>1. runs' = Append(runs, run) /\ runs \in Seq(SandboxRun)
        BY <1>2, ExecuteAppends DEF IInv, TypeOK
    <3> HIDE DEF run
    <3> QED
        BY <3>1
  <2>6. execution_result'.passed => run = [code   |-> generated_code',
                                           tests  |-> test_code',
                                           passed |-> TRUE]
    BY <1>2 DEF Execute
  <2> HIDE DEF r, run
  <2>7. /\ LastRecord' = r
        /\ \A i \in 1..Len(history') - 1 :
              history'[i].execution # None => ~history'[i].execution.passed
    BY <2>1, EarlierAttemptsFailed
  <2> QED
    BY <2>2, <2>3, <2>4, <2>5, <2>6, <2>7 DEF ReportIsLastAttempt
<1>3. CASE UNCHANGED vars
    BY <1>3 DEF vars, ReportIsLastAttempt, LastRecord
<1>4. CASE TestGen \/ Generate \/ StaticCheckPasses \/ Reflect \/ NodeRaises
    BY <1>4, PassRoutesToExecute
    DEF TestGen, Generate, Regenerate, StaticCheckPasses, Reflect, NodeRaises, AfterReflect
<1> QED
    BY <1>1, <1>2, <1>3, <1>4 DEF Next

\* What the caller gets is the last attempt, with a status that follows from
\* its results; every earlier attempt failed, a failed run used its whole
\* budget, and a pass was seen by the sandbox, of this code against these tests.
THEOREM ReportIsOfLastAttempt == Spec => []ReportIsLastAttempt
<1>1. Init => ReportIsLastAttempt
    BY DEF Init, ReportIsLastAttempt
<1> QED
    BY <1>1, ReportStep, GraphInvariant, PTL DEF Spec

\* The calls a finished run has cost can be read off its history, as
\* run_eval.py:58-63 does: nothing is asked twice, and no answer is lost.
THEOREM HistoryGivesCost == Spec => []CallsFollowFromHistory
<1>1. IInv => CallsFollowFromHistory
    BY DEF IInv, TypeOK, OneRecordPerAttempt, Continuity, CallsSoFar, CallsFollowFromHistory
<1> QED
    BY <1>1, GraphInvariant, PTL

\* Nothing is spent or recorded after the verdict: no node is left to run
\* (test_graph_termination.py:123-131).
THEOREM VerdictIsFinal == Spec => NothingSpentAfterVerdict
<1>1. IInv /\ [Next]_vars =>
        [status # "in_progress" => UNCHANGED <<calls, runs, history, status>>]_vars
  <2> SUFFICES ASSUME IInv, [Next]_vars, status # "in_progress"
               PROVE  UNCHANGED <<calls, runs, history, status>>
    OBVIOUS
  <2>1. pc \notin Node
    BY DEF IInv, NodeContract
  <2>2. ~Next
    BY <2>1
    DEF Next, TestGen, Generate, Regenerate, StaticCheckPasses, StaticCheckRejects, Execute,
        Reflect, NodeRaises, Superstep, Node
  <2> QED
    BY <2>2 DEF vars
<1> QED
    BY <1>1, GraphInvariant, PTL DEF Spec, NothingSpentAfterVerdict
=============================================================================
