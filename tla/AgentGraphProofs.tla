-------------------------- MODULE AgentGraphProofs --------------------------
(***************************************************************************)
(* Theorems about AgentGraph, for every MaxAttempts, every set of programs *)
(* and of test suites, and every scanner: type correctness, the attempt    *)
(* budget, and that LangGraph's recursion limit is never reached.          *)
(***************************************************************************)
EXTENDS AgentGraph, TLAPS

\* None is no value of any of the optional fields.
LEMMA NoneIsNoValue ==
    /\ None \notin Codes
    /\ None \notin Tests
    /\ None \notin StaticCheckResult
    /\ None \notin ExecutionResult
    /\ None \notin Diagnosis
    /\ None \notin RetryPrompt
BY NoneAssumption

\* The gate returns a StaticCheckResult of any program.
LEMMA StaticCheckType ==
    ASSUME NEW code \in Codes
    PROVE  RunStaticCheck(code) \in StaticCheckResult
BY FlawsAssumption DEF RunStaticCheck, StaticCheckResult, IssueKind, Blocking

\* What the prompts quote is evidence, whichever results are there.
LEMMA EvidenceType ==
    ASSUME NEW static \in StaticCheckResult \cup {None},
           NEW execution \in ExecutionResult \cup {None}
    PROVE  /\ FailureEvidence(static, execution) \in SUBSET EvidencePart
           /\ Evidence(static, execution) \in SUBSET EvidencePart
<1>1. QuotedIssues(static) \in SUBSET EvidencePart
    BY DEF QuotedIssues, QuotedKinds, EvidencePart, IssueKind
<1>2. execution # None => execution.wrote \in SUBSET Stream
    BY DEF ExecutionResult
<1>3. FailedRun(execution, execution.wrote) \in SUBSET EvidencePart
    BY <1>2 DEF FailedRun, EvidencePart
<1>4. FailedRun(execution, {"tests_failed"} \cup (execution.wrote \cap {"stdout"}))
        \in SUBSET EvidencePart
    BY <1>2 DEF FailedRun, EvidencePart, Stream
<1> QED
    BY <1>1, <1>3, <1>4 DEF FailureEvidence, Evidence

\* A record of the present state is an AttemptRecord.
LEMMA RecordType ==
    ASSUME TypeOK, generated_code # None,
           NEW static \in StaticCheckResult,
           NEW execution \in ExecutionResult \cup {None}
    PROVE  Record(static, execution) \in AttemptRecord
BY DEF TypeOK, Record, AttemptRecord

\* Code that passes the gate goes to the sandbox next.
LEMMA PassRoutesToExecute ==
    IInv /\ StaticCheckPasses => generated_code \in Codes /\ pc' = "execute"
<1> SUFFICES ASSUME IInv, StaticCheckPasses
             PROVE  generated_code \in Codes /\ pc' = "execute"
    OBVIOUS
<1>1. generated_code \in Codes /\ status = "in_progress"
    BY DEF IInv, TypeOK, NodeContract, StaticCheckPasses, Superstep, Node
<1>2. static_check_result' # None /\ static_check_result'.passed
    BY <1>1, StaticCheckType, NoneIsNoValue DEF StaticCheckPasses
<1> QED
    BY <1>1, <1>2 DEF StaticCheckPasses, RouteAfterStaticCheck

LEMMA InitIInv == Init => IInv
<1> SUFFICES ASSUME Init PROVE IInv
    OBVIOUS
<1>1. TypeOK
    BY DEF Init, TypeOK, Status, PC, Node
<1>2. OneRecordPerAttempt
    BY MaxAttemptsAssumption DEF Init, OneRecordPerAttempt
<1>3. NodeContract
    BY MaxAttemptsAssumption DEF Init, NodeContract, Node, Finished, StepBudget
<1>4. Continuity
    BY DEF Init, Continuity, CallsSoFar
<1> QED
    BY <1>1, <1>2, <1>3, <1>4 DEF IInv

-----------------------------------------------------------------------------
(* Type correctness is preserved, given what NodeContract knows of the node  *)
(* that runs: which fields are set there.                                    *)

LEMMA TypeStep == IInv /\ [Next]_vars => TypeOK'
<1> SUFFICES ASSUME IInv, [Next]_vars PROVE TypeOK'
    OBVIOUS
<1> USE DEF IInv, TypeOK
<1>1. CASE TestGen
    BY <1>1, NoneIsNoValue DEF TestGen, Superstep, PC, Node
<1>2. CASE Generate
  <2>1. NextPrompt \in RetryPrompt \cup {None}
    <3>1. CASE attempt_number = 0
        BY <3>1 DEF NextPrompt
    <3>2. CASE attempt_number # 0
      <4>1. generated_code \in Codes
        BY <3>2 DEF NodeContract
      <4>2. FailureEvidence(static_check_result, execution_result) \in SUBSET EvidencePart
        BY EvidenceType
      <4>3. NextPrompt = [previous_code |-> generated_code,
                          evidence      |-> FailureEvidence(static_check_result, execution_result),
                          reflection    |-> reflection]
        BY <3>2 DEF NextPrompt
      <4> QED
        BY <4>1, <4>2, <4>3 DEF RetryPrompt
    <3> QED
        BY <3>1, <3>2
  <2> QED
    BY <1>2, <2>1 DEF Generate, Regenerate, Superstep, PC, Node
<1>3. CASE StaticCheckPasses
  <2>1. generated_code \in Codes
    BY <1>3 DEF StaticCheckPasses, Superstep, NodeContract
  <2> QED
    BY <1>3, <2>1, StaticCheckType
    DEF StaticCheckPasses, Superstep, RouteAfterStaticCheck, PC, Node
<1>4. CASE StaticCheckRejects
  <2>1. generated_code \in Codes
    BY <1>4 DEF StaticCheckRejects, Superstep, NodeContract
  <2>2. Record(static_check_result', None) \in AttemptRecord
    BY <1>4, <2>1, StaticCheckType, NoneIsNoValue, RecordType DEF StaticCheckRejects
  <2>3. status' \in Status /\ pc' \in PC
    BY <1>4 DEF StaticCheckRejects, StatusAfterFailure, RouteAfterStaticCheck, Status, PC, Node
  <2> QED
    BY <1>4, <2>1, <2>2, <2>3, StaticCheckType DEF StaticCheckRejects, Superstep
<1>5. CASE Execute
  <2>1. generated_code \in Codes /\ test_code \in Tests /\ static_check_result \in StaticCheckResult
    BY <1>5, StaticCheckType DEF Execute, Superstep, NodeContract
  <2>2. PICK result \in ExecutionResult :
          /\ execution_result' = result
          /\ runs' = Append(runs, [code |-> generated_code, tests |-> test_code,
                                   passed |-> result.passed])
          /\ history' = Append(history, Record(static_check_result, result))
          /\ status' = IF result.passed THEN "passed" ELSE StatusAfterFailure("failed_tests")
    BY <1>5 DEF Execute
  <2>3. Record(static_check_result, result) \in AttemptRecord
    BY <2>1, NoneIsNoValue, RecordType
  <2>4. [code |-> generated_code, tests |-> test_code, passed |-> result.passed] \in SandboxRun
    BY <2>1 DEF SandboxRun, ExecutionResult
  <2>5. status' \in Status /\ pc' \in PC
    BY <1>5, <2>2 DEF Execute, StatusAfterFailure, RouteAfterExecute, Status, PC, Node
  <2> QED
    BY <1>5, <2>2, <2>3, <2>4, <2>5 DEF Execute, Superstep
<1>6. CASE Reflect
  <2>1. generated_code \in Codes
    BY <1>6 DEF Reflect, Superstep, NodeContract
  <2>2. reflection' \in Diagnosis
    BY <1>6, <2>1, EvidenceType DEF Reflect, Diagnosis
  <2> QED
    BY <1>6, <2>2 DEF Reflect, Superstep, AfterReflect, PC, Node
<1>7. CASE NodeRaises
    BY <1>7 DEF NodeRaises, Superstep, PC, Node
<1>8. CASE UNCHANGED vars
    BY <1>8 DEF vars
<1> QED
    BY <1>1, <1>2, <1>3, <1>4, <1>5, <1>6, <1>7, <1>8 DEF Next

-----------------------------------------------------------------------------
(* The attempt budget.  Only generate opens an attempt, and only below the   *)
(* ceiling; only the two nodes that can end one commit its record.           *)

LEMMA RecordStep == IInv /\ [Next]_vars => OneRecordPerAttempt'
<1> SUFFICES ASSUME IInv, [Next]_vars PROVE OneRecordPerAttempt'
    OBVIOUS
<1> USE DEF IInv, TypeOK, OneRecordPerAttempt
\* Committing a record that carries the number of the open attempt.
<1>1. ASSUME NEW r, history' = Append(history, r), r.attempt_number = attempt_number,
             Len(history) = attempt_number - 1, UNCHANGED attempt_number,
             pc' \notin {"static_check", "execute"}
      PROVE  OneRecordPerAttempt'
  <2>1. /\ Len(history') = Len(history) + 1
        /\ \A i \in DOMAIN history' :
              history'[i] = IF i = Len(history) + 1 THEN r ELSE history[i]
        /\ \A i \in DOMAIN history' : i # Len(history) + 1 => i \in DOMAIN history
    BY <1>1
  <2>2. \A i \in DOMAIN history' : history'[i].attempt_number = i
    BY <1>1, <2>1
  <2> QED
    BY <1>1, <2>1, <2>2
<1>2. CASE TestGen
    BY <1>2 DEF TestGen, Superstep
<1>3. CASE Generate
    BY <1>3, MaxAttemptsAssumption DEF Generate, Regenerate, Superstep, NodeContract
<1>4. CASE StaticCheckPasses
    BY <1>4, PassRoutesToExecute DEF StaticCheckPasses, Superstep
<1>5. CASE StaticCheckRejects
    BY <1>5, <1>1
    DEF StaticCheckRejects, Superstep, Record, RouteAfterStaticCheck
<1>6. CASE Execute
    BY <1>6, <1>1 DEF Execute, Superstep, Record, RouteAfterExecute
<1>7. CASE Reflect
    BY <1>7 DEF Reflect, Superstep, AfterReflect
<1>8. CASE NodeRaises
    BY <1>8 DEF NodeRaises, Superstep, Node
<1>9. CASE UNCHANGED vars
    BY <1>9 DEF vars
<1> QED
    BY <1>2, <1>3, <1>4, <1>5, <1>6, <1>7, <1>8, <1>9 DEF Next

\* What is left of the strengthening: where the run is says which fields are
\* set, and how many supersteps it has taken.
LEMMA ContractStep == IInv /\ [Next]_vars => NodeContract'
<1> SUFFICES ASSUME IInv, [Next]_vars PROVE NodeContract'
    OBVIOUS
<1> USE MaxAttemptsAssumption DEF IInv, TypeOK
<1>1. CASE TestGen
    BY <1>1, NoneIsNoValue
    DEF TestGen, Superstep, NodeContract, Finished, StepBudget, Node, LastRecord
<1>2. CASE Generate
    BY <1>2, NoneIsNoValue
    DEF Generate, Regenerate, Superstep, NodeContract, Finished, StepBudget, Node
<1>3. CASE StaticCheckPasses
    BY <1>3, PassRoutesToExecute
    DEF StaticCheckPasses, Superstep, NodeContract, Finished, StepBudget, Node
<1>4. CASE StaticCheckRejects
    BY <1>4
    DEF StaticCheckRejects, Superstep, StatusAfterFailure, RouteAfterStaticCheck, Record,
        LastRecord, NodeContract, Finished, StepBudget, Node, OneRecordPerAttempt
<1>5. CASE Execute
    BY <1>5
    DEF Execute, Superstep, StatusAfterFailure, RouteAfterExecute, Record,
        LastRecord, NodeContract, Finished, StepBudget, Node, OneRecordPerAttempt
<1>6. CASE Reflect
    BY <1>6
    DEF Reflect, Superstep, AfterReflect, NodeContract, Finished, StepBudget, Node, LastRecord
<1>7. CASE NodeRaises
    BY <1>7
    DEF NodeRaises, Superstep, NodeContract, Finished, StepBudget, Node, LastRecord
<1>8. CASE UNCHANGED vars
    BY <1>8 DEF vars, NodeContract, Finished, StepBudget, LastRecord
<1> QED
    BY <1>1, <1>2, <1>3, <1>4, <1>5, <1>6, <1>7, <1>8 DEF Next

-----------------------------------------------------------------------------
(* From one attempt to the next.                                             *)

\* The history with one record more.
LEMMA HistoryAppend ==
    ASSUME NEW h \in Seq(AttemptRecord), NEW r \in AttemptRecord
    PROVE  /\ Len(Append(h, r)) = Len(h) + 1
           /\ Append(h, r)[Len(h) + 1] = r
           /\ Append(h, r) # <<>>
           /\ DOMAIN Append(h, r) = 1..Len(h) + 1
           /\ \A i \in DOMAIN Append(h, r) : Append(h, r)[i] = IF i = Len(h) + 1 THEN r ELSE h[i]
           /\ \A i \in DOMAIN Append(h, r) : i # Len(h) + 1 => i \in DOMAIN h
OBVIOUS

\* What the two nodes that end an attempt append.
LEMMA RejectAppends ==
    IInv /\ StaticCheckRejects =>
        /\ Record(static_check_result', None) \in AttemptRecord
        /\ history' = Append(history, Record(static_check_result', None))
        /\ static_check_result' = RunStaticCheck(generated_code)
        /\ ~static_check_result'.passed
<1> SUFFICES ASSUME IInv, StaticCheckRejects
             PROVE  Record(static_check_result', None) \in AttemptRecord
    BY DEF StaticCheckRejects
<1>1. generated_code \in Codes
    BY DEF IInv, TypeOK, StaticCheckRejects, Superstep, NodeContract
<1> QED
    BY <1>1, StaticCheckType, NoneIsNoValue, RecordType DEF StaticCheckRejects, IInv

LEMMA ExecuteAppends ==
    IInv /\ Execute =>
        /\ execution_result' \in ExecutionResult
        /\ Record(static_check_result, execution_result') \in AttemptRecord
        /\ history' = Append(history, Record(static_check_result, execution_result'))
        /\ status' = IF execution_result'.passed THEN "passed" ELSE StatusAfterFailure("failed_tests")
        /\ runs' = Append(runs, [code |-> generated_code, tests |-> test_code,
                                 passed |-> execution_result'.passed])
<1> SUFFICES ASSUME IInv, Execute
             PROVE  /\ execution_result' \in ExecutionResult
                    /\ Record(static_check_result, execution_result') \in AttemptRecord
    BY DEF Execute
<1>1. generated_code # None /\ static_check_result \in StaticCheckResult
    BY StaticCheckType DEF IInv, TypeOK, Execute, Superstep, NodeContract
<1> QED
    BY <1>1, NoneIsNoValue, RecordType DEF Execute, IInv

LEMMA ContinuityStep == IInv /\ [Next]_vars => Continuity'
<1> SUFFICES ASSUME IInv, [Next]_vars PROVE Continuity'
    OBVIOUS
<1> USE DEF IInv, TypeOK
<1>1. CASE TestGen
    BY <1>1 DEF TestGen, Superstep, Continuity, CallsSoFar, NodeContract, Node, LastRecord
<1>2. CASE Generate
    BY <1>2, NoneIsNoValue
    DEF Generate, Regenerate, Superstep, Continuity, CallsSoFar, NodeContract, Node, LastRecord,
        DiagnosisOf
<1>3. CASE StaticCheckPasses
    BY <1>3, PassRoutesToExecute
    DEF StaticCheckPasses, Superstep, Continuity, CallsSoFar, NodeContract, Node, LastRecord,
        DiagnosisOf
<1>4. CASE StaticCheckRejects
  <2>1. pc' \in {"END", "reflect"} /\ ~static_check_result'.passed
    BY <1>4, RejectAppends DEF StaticCheckRejects, RouteAfterStaticCheck
  <2>2. pc' \in Node => \A i \in DOMAIN history' :
                          history'[i].execution # None => ~history'[i].execution.passed
    <3>1. \A i \in DOMAIN history : history[i].execution # None => ~history[i].execution.passed
        BY <1>4 DEF StaticCheckRejects, Superstep, Continuity, Node
    <3>2. Record(static_check_result', None).execution = None
        BY DEF Record
    <3> QED
        BY <1>4, <3>1, <3>2, RejectAppends, HistoryAppend
  <2> QED
    BY <1>4, <2>1, <2>2
    DEF StaticCheckRejects, Superstep, Continuity, CallsSoFar
<1>5. CASE Execute
  <2>1. pc' \in {"END", "reflect"} /\ (pc' = "reflect" => ~execution_result'.passed)
    BY <1>5, ExecuteAppends DEF Execute, RouteAfterExecute
  <2>2. pc' \in Node => \A i \in DOMAIN history' :
                          history'[i].execution # None => ~history'[i].execution.passed
    <3>1. \A i \in DOMAIN history : history[i].execution # None => ~history[i].execution.passed
        BY <1>5 DEF Execute, Superstep, Continuity, Node
    <3>2. Record(static_check_result, execution_result').execution = execution_result'
        BY DEF Record
    <3>3. pc' \in Node => ~execution_result'.passed
        BY <2>1 DEF Node
    <3> DEFINE r == Record(static_check_result, execution_result')
    <3>4. history \in Seq(AttemptRecord) /\ r \in AttemptRecord /\ history' = Append(history, r)
        BY <1>5, ExecuteAppends
    <3> HIDE DEF r
    <3>5. \A i \in DOMAIN history' :
             history'[i] = r \/ (i \in DOMAIN history /\ history'[i] = history[i])
        BY <3>4, HistoryAppend
    <3> QED
        BY <3>1, <3>2, <3>3, <3>5 DEF r
  <2>3. execution_result' # None
    BY <1>5, ExecuteAppends, NoneIsNoValue
  <2> QED
    BY <1>5, <2>1, <2>2, <2>3
    DEF Execute, Superstep, Continuity, CallsSoFar
<1>6. CASE Reflect
  <2>1. reflection' = DiagnosisOf(LastRecord) /\ history # <<>>
    BY <1>6 DEF Reflect, Superstep, NodeContract, Finished, DiagnosisOf, OneRecordPerAttempt
  <2> QED
    BY <1>6, <2>1
    DEF Reflect, Superstep, AfterReflect, Continuity, CallsSoFar, Node, LastRecord, DiagnosisOf
<1>7. CASE NodeRaises
    BY <1>7 DEF NodeRaises, Continuity, Node
<1>8. CASE UNCHANGED vars
    BY <1>8 DEF vars, Continuity, CallsSoFar, LastRecord, DiagnosisOf, Evidence, QuotedIssues, FailedRun
<1> QED
    BY <1>1, <1>2, <1>3, <1>4, <1>5, <1>6, <1>7, <1>8 DEF Next

\* The strengthening is an invariant of the graph: at every point between two
\* nodes the AgentState is what the next node relies on.
THEOREM GraphInvariant == Spec => []IInv
<1>1. Init => IInv
    BY InitIInv
<1>2. IInv /\ [Next]_vars => IInv'
    BY TypeStep, RecordStep, ContractStep, ContinuityStep DEF IInv
<1> QED
    BY <1>1, <1>2, PTL DEF Spec

\* Type correctness of AgentState and of what the outside world sees of a run.
THEOREM TypeCorrect == Spec => []TypeOK
BY GraphInvariant, PTL DEF IInv

\* The loop is bounded whatever the model writes (graph.py:10-19): at most
\* MaxAttempts attempts begin, and each leaves exactly one record, in order.
THEOREM AttemptBudget == Spec => []OneRecordPerAttempt
BY GraphInvariant, PTL DEF IInv

\* LangGraph never raises GraphRecursionError (graph.py:20-24), for any
\* max_attempts: the run takes at most 4 * MaxAttempts + 1 supersteps.
THEOREM NoRecursionError == Spec => []BackstopNeverHit
<1>1. IInv => BackstopNeverHit
    BY MaxAttemptsAssumption
    DEF IInv, TypeOK, PC, Node, NodeContract, OneRecordPerAttempt, StepBudget, BackstopNeverHit,
        RecursionLimit
<1> QED
    BY <1>1, GraphInvariant, PTL
-----------------------------------------------------------------------------
(* The refinement.  Committing a record is the abstract attempt; an          *)
(* exception is the abstract abort; every other step of the graph stutters.  *)

\* The verdicts of a longer history are the verdicts so far and one more.
LEMMA VerdictsOfAppend ==
    ASSUME NEW h \in Seq(AttemptRecord), NEW r \in AttemptRecord
    PROVE  [i \in DOMAIN Append(h, r) |-> VerdictOf(Append(h, r)[i])]
             = Append([i \in DOMAIN h |-> VerdictOf(h[i])], VerdictOf(r))
<1> DEFINE hs == [i \in DOMAIN h |-> VerdictOf(h[i])]
           long == [i \in DOMAIN Append(h, r) |-> VerdictOf(Append(h, r)[i])]
           V == {VerdictOf(x) : x \in AttemptRecord}
<1>1. hs \in Seq(V) /\ Len(hs) = Len(h) /\ \A i \in 1..Len(h) : hs[i] = VerdictOf(h[i])
    OBVIOUS
<1>2. VerdictOf(r) \in V
    OBVIOUS
<1>3. /\ Append(h, r) \in Seq(AttemptRecord)
      /\ Len(Append(h, r)) = Len(h) + 1
      /\ \A i \in 1..Len(h) : Append(h, r)[i] = h[i]
      /\ Append(h, r)[Len(h) + 1] = r
    OBVIOUS
<1>4. long \in Seq(V) /\ Len(long) = Len(h) + 1
    BY <1>3
<1>5. /\ \A i \in 1..Len(h) : long[i] = VerdictOf(h[i])
      /\ long[Len(h) + 1] = VerdictOf(r)
    BY <1>3
<1> HIDE DEF hs, long, V
<1>6. /\ Append(hs, VerdictOf(r)) \in Seq(V)
      /\ Len(Append(hs, VerdictOf(r))) = Len(h) + 1
      /\ \A i \in 1..Len(h) : Append(hs, VerdictOf(r))[i] = VerdictOf(h[i])
      /\ Append(hs, VerdictOf(r))[Len(h) + 1] = VerdictOf(r)
    BY <1>1, <1>2
<1>7. \A i \in 1..Len(h) + 1 : long[i] = Append(hs, VerdictOf(r))[i]
    BY <1>5, <1>6
<1>8. long = Append(hs, VerdictOf(r))
    BY <1>4, <1>6, <1>7
<1> QED
    BY <1>8 DEF hs, long

LEMMA LoopStep == IInv /\ [Next]_vars => [Loop!Next]_(Loop!vars)
<1> DEFINE verdicts == [i \in DOMAIN history |-> VerdictOf(history[i])]
           outcome == IF pc = "raised" THEN "raised" ELSE status
<1> SUFFICES ASSUME IInv, [Next]_vars PROVE [Loop!Next]_(Loop!vars)
    OBVIOUS
<1>1. ASSUME UNCHANGED <<history, status>>, pc # "raised", pc' # "raised"
      PROVE  UNCHANGED Loop!vars
    BY <1>1 DEF Loop!vars
\* Both nodes that commit: the abstract attempt with the record's verdict.
<1>2. ASSUME NEW r \in AttemptRecord, history' = Append(history, r),
             pc \in {"static_check", "execute"}, pc' # "raised",
             VerdictOf(r) \in Loop!Verdict,
             status' = Loop!OutcomeAfter(VerdictOf(r), attempt_number)
      PROVE  Loop!Next
  <2>1. history \in Seq(AttemptRecord) /\ Len(history) = attempt_number - 1
        /\ attempt_number \in Nat /\ attempt_number <= MaxAttempts /\ status = "in_progress"
    BY <1>2 DEF IInv, TypeOK, OneRecordPerAttempt, NodeContract, Node
  <2>2. verdicts' = Append(verdicts, VerdictOf(r))
    BY <1>2, <2>1, VerdictsOfAppend
  <2>3. Len(verdicts) = Len(history)
    BY <2>1
  <2>4. outcome = "in_progress" /\ outcome' = Loop!OutcomeAfter(VerdictOf(r), attempt_number)
    BY <1>2, <2>1
  <2>5. Len(verdicts) < MaxAttempts /\ Len(verdicts) + 1 = attempt_number
    BY <2>1, <2>3, MaxAttemptsAssumption
  <2>6. Loop!Attempt(VerdictOf(r))
    BY <2>2, <2>4, <2>5 DEF Loop!Attempt
  <2> QED
    BY <1>2, <2>6 DEF Loop!Next
<1>3. CASE TestGen
    BY <1>1, <1>3 DEF TestGen, Superstep
<1>4. CASE Generate
    BY <1>1, <1>4 DEF Generate, Regenerate, Superstep
<1>5. CASE StaticCheckPasses
    BY <1>1, <1>5, PassRoutesToExecute DEF StaticCheckPasses, Superstep
<1>6. CASE StaticCheckRejects
  <2> DEFINE r == Record(static_check_result', None)
  <2>1. generated_code \in Codes /\ status = "in_progress" /\ attempt_number \in Nat
    BY <1>6 DEF StaticCheckRejects, Superstep, IInv, TypeOK, NodeContract, Node
  <2>2. r \in AttemptRecord
    BY <1>6, <2>1, StaticCheckType, NoneIsNoValue, RecordType DEF StaticCheckRejects, IInv
  <2>3. VerdictOf(r) = "rejected"
    BY DEF VerdictOf, Record
  <2>4. status' = Loop!OutcomeAfter("rejected", attempt_number)
    BY <1>6, <2>1, MaxAttemptsAssumption
    DEF StaticCheckRejects, StatusAfterFailure, Loop!OutcomeAfter
  <2>5. pc' # "raised" /\ pc = "static_check" /\ history' = Append(history, r)
    BY <1>6 DEF StaticCheckRejects, Superstep, RouteAfterStaticCheck
  <2> HIDE DEF r
  <2> QED
    BY <1>2, <2>2, <2>3, <2>4, <2>5 DEF Loop!Verdict
<1>7. CASE Execute
  <2>1. /\ generated_code \in Codes /\ status = "in_progress" /\ attempt_number \in Nat
        /\ static_check_result \in StaticCheckResult
    BY <1>7, StaticCheckType DEF Execute, Superstep, IInv, TypeOK, NodeContract, Node
  <2>2. PICK result \in ExecutionResult :
          /\ history' = Append(history, Record(static_check_result, result))
          /\ status' = IF result.passed THEN "passed" ELSE StatusAfterFailure("failed_tests")
    BY <1>7 DEF Execute
  <2> DEFINE r == Record(static_check_result, result)
  <2>3. r \in AttemptRecord
    BY <2>1, NoneIsNoValue, RecordType DEF IInv
  <2>4. VerdictOf(r) = IF result.passed THEN "passed" ELSE "tests_failed"
    BY NoneIsNoValue DEF VerdictOf, Record
  <2>5. status' = Loop!OutcomeAfter(VerdictOf(r), attempt_number)
    BY <2>1, <2>2, <2>4, MaxAttemptsAssumption DEF StatusAfterFailure, Loop!OutcomeAfter
  <2>6. pc' # "raised" /\ pc = "execute"
    BY <1>7 DEF Execute, Superstep, RouteAfterExecute
  <2>7. VerdictOf(r) \in Loop!Verdict
    BY <2>4 DEF Loop!Verdict
  <2>8. history' = Append(history, r)
    BY <2>2
  <2> HIDE DEF r
  <2> QED
    BY <1>2, <2>3, <2>5, <2>6, <2>7, <2>8
<1>8. CASE Reflect
    BY <1>1, <1>8 DEF Reflect, Superstep, AfterReflect
<1>9. CASE NodeRaises
  <2>1. status = "in_progress" /\ pc # "raised" /\ pc' = "raised" /\ UNCHANGED history
    BY <1>9 DEF NodeRaises, IInv, NodeContract, Node
  <2>2. Loop!Abort
    BY <2>1 DEF Loop!Abort
  <2> QED
    BY <2>2 DEF Loop!Next
<1>10. CASE UNCHANGED vars
    BY <1>10 DEF vars, Loop!vars
<1> QED
    BY <1>3, <1>4, <1>5, <1>6, <1>7, <1>8, <1>9, <1>10 DEF Next

\* The five-node graph implements the bounded loop that its docstring
\* promises: at most MaxAttempts attempts, each with one verdict, and the
\* outcome is what the last verdict makes it.
THEOREM GraphImplementsLoop == Spec => Loop!SafetySpec
<1>1. Init => Loop!Init
    BY DEF Init, Loop!Init
<1> QED
    BY <1>1, LoopStep, GraphInvariant, PTL DEF Spec, Loop!SafetySpec
=============================================================================
