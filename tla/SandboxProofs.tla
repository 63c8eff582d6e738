---------------------------- MODULE SandboxProofs ----------------------------
(* What run_tests_in_sandbox() promises, for every timeout, number of cores  *)
(* and set of helper processes.                                             *)
EXTENDS Sandbox, TLAPS

\* What tells a call that raised, and one that goes on, from one with a result.
LEMMA AnswerFields ==
    /\ Raised \in AnswerType /\ Raised.kind = "raised"
    /\ NoAnswer \in AnswerType /\ NoAnswer.kind = "pending"
BY DEF Raised, NoAnswer, Without, AnswerType

\* What is returned of a process that ended in a way of its own.
LEMMA CompletedResult ==
    ASSUME NEW c \in Ended, NEW a,
           a = Result(ReturnCode(c) = 0, FALSE, ReturnCode(c))
    PROVE  /\ a \in AnswerType
           /\ a.kind = "result" /\ a.timed_out = FALSE
           /\ a.passed <=> c = "exited_0"
           /\ a.return_code = ReturnCode(c)
<1>1. ReturnCode(c) \in {-9, 0, 1} /\ ((ReturnCode(c) = 0) <=> (c = "exited_0"))
  BY DEF ReturnCode, Ended, Exited
<1> HIDE DEF ReturnCode
<1> QED
  BY <1>1 DEF Result, AnswerType

\* What is returned when the wall clock ran out.
LEMMA TimeoutResult ==
    ASSUME NEW a, a = Result(FALSE, TRUE, -1)
    PROVE  /\ a \in AnswerType
           /\ a.kind = "result" /\ a.timed_out /\ ~a.passed /\ a.return_code = -1
BY DEF Result, AnswerType

\* What the answer says, next to what each stage leaves to the next: the three
\* claims are kept by every step once the caller has its answer, since nothing
\* that could still happen touches what they speak of.
Truthful == ResultIsFinal /\ TimeoutIsTrue /\ RaisesOnlyForCause

LEMMA SandboxInitially == Init => SandboxInv /\ Truthful
<1>1. SUFFICES ASSUME Init PROVE SandboxInv /\ Truthful
  OBVIOUS
<1>2. 0 \in 0..MaxClock /\ 0 \in 0..(CpuLimit + Cores - 1)
  BY SandboxAssumption DEF CpuLimit
<1>3. TypeOK
  BY <1>1, <1>2, AnswerFields DEF Init, TypeOK, Captured
<1> QED
  BY <1>1, <1>3, AnswerFields
  DEF Init, SandboxInv, Truthful, ResultIsFinal, TimeoutIsTrue, RaisesOnlyForCause

\* Types and stages survive every step of the caller and of the program.
LEMMA SandboxInvKept == SandboxInv /\ [Next]_vars => SandboxInv'
<1>1. SUFFICES ASSUME SandboxInv, [Next]_vars PROVE SandboxInv'
  OBVIOUS
<1> USE SandboxAssumption
<1>2. CASE Start
  <2>1. TypeOK'
    BY <1>1, <1>2, AnswerFields DEF Start, SandboxInv, TypeOK
  <2> QED
    BY <1>1, <1>2, <2>1, AnswerFields DEF Start, SandboxInv
<1>3. CASE Finish
  <2>1. /\ child' = child /\ caller' = "cleanup"
        /\ UNCHANGED <<clock, cpu, helpers, out, err, scratch>>
    BY <1>3 DEF Finish, programVars
  <2>2. child \in Ended
    BY <1>3 DEF Finish, PipesClosed
  <2>3. CASE answer' = Raised
    BY <1>1, <2>1, <2>2, <2>3, AnswerFields DEF SandboxInv, TypeOK, Ended, Exited
  <2>4. CASE answer' = Result(ReturnCode(child) = 0, FALSE, ReturnCode(child))
    <3>1. answer' \in AnswerType /\ answer'.kind = "result"
      BY <2>2, <2>4, CompletedResult
    <3>2. TypeOK'
      BY <1>1, <2>1, <3>1 DEF SandboxInv, TypeOK
    <3> QED
      BY <2>1, <2>2, <3>1, <3>2 DEF SandboxInv, Ended, Exited
  <2> QED
    BY <1>3, <2>3, <2>4 DEF Finish, Completed
<1>4. CASE TimeoutExpired
  <2>1. caller' = "cleanup" /\ UNCHANGED <<clock, cpu, helpers, out, err, scratch>>
    BY <1>4 DEF TimeoutExpired
  <2>2. child' \in Ended
    BY <1>1, <1>4 DEF TimeoutExpired, SandboxInv, TypeOK, Stopped, Ended
  <2>3. answer' \in AnswerType /\ answer'.kind # "pending"
    BY <1>4, TimeoutResult, AnswerFields DEF TimeoutExpired, TimedOut
  <2>4. TypeOK'
    BY <1>1, <2>1, <2>2, <2>3 DEF SandboxInv, TypeOK
  <2> QED
    BY <2>1, <2>2, <2>3, <2>4 DEF SandboxInv, Ended, Exited
<1>5. CASE Cleanup
  <2>1. TypeOK'
    BY <1>1, <1>5, AnswerFields DEF Cleanup, SandboxInv, TypeOK, programVars
  <2> QED
    BY <1>1, <1>5, <2>1, AnswerFields DEF Cleanup, SandboxInv, programVars
<1>6. CASE Tick
  <2>1. clock' \in 0..MaxClock
    BY <1>1, <1>6 DEF Tick, SandboxInv, TypeOK
  <2>2. cpu' \in 0..(CpuLimit + Cores - 1)
    BY <1>1, <1>6 DEF Tick, SandboxInv, TypeOK, Overdrawn, CpuLimit
  <2>3. TypeOK'
    BY <1>1, <1>6, <2>1, <2>2 DEF Tick, SandboxInv, TypeOK
  <2> QED
    BY <1>1, <1>6, <2>3, AnswerFields DEF Tick, SandboxInv
<1>7. CASE CpuKill \/ ChildExits
  <2>1. /\ child = "running"
        /\ child' \in Ended \ {"caller_killed"}
        /\ UNCHANGED <<caller, clock, cpu, helpers, out, err, scratch, answer>>
    BY <1>7 DEF CpuKill, ChildExits, Overdrawn, Ended, Exited
  <2>2. caller = "reading"
    BY <1>1, <2>1 DEF SandboxInv, TypeOK
  <2>3. TypeOK'
    BY <1>1, <2>1 DEF SandboxInv, TypeOK
  <2> QED
    BY <1>1, <2>1, <2>2, <2>3, AnswerFields DEF SandboxInv, Ended, Exited
<1>8. CASE WriteOutput
  <2>1. TypeOK'
    BY <1>1, <1>8 DEF WriteOutput, SandboxInv, TypeOK, Captured, programVars
  <2> QED
    BY <1>1, <1>8, <2>1 DEF WriteOutput, SandboxInv, programVars
<1>9. CASE \E h \in Helpers : StartHelper(h) \/ HelperExits(h)
  <2>1. TypeOK'
    BY <1>1, <1>9 DEF StartHelper, HelperExits, Alive, SandboxInv, TypeOK
  <2> QED
    BY <1>1, <1>9, <2>1 DEF StartHelper, HelperExits, SandboxInv
<1>10. CASE UNCHANGED vars
  BY <1>1, <1>10 DEF vars, programVars, SandboxInv, TypeOK
<1> QED
  BY <1>1, <1>2, <1>3, <1>4, <1>5, <1>6, <1>7, <1>8, <1>9, <1>10
  DEF Next, Caller, Program

\* The claims of the answer: each of the steps that give one makes them, and no
\* later step of a helper, the clock or the cleanup takes one back.
LEMMA TruthfulKept == SandboxInv /\ Truthful /\ [Next]_vars => Truthful'
<1>1. SUFFICES ASSUME SandboxInv, Truthful, [Next]_vars PROVE Truthful'
  OBVIOUS
<1> USE DEF Truthful, ResultIsFinal, TimeoutIsTrue, RaisesOnlyForCause
\* Nothing is claimed before there is an answer.
<1>2. CASE answer'.kind = "pending"
  BY <1>2
<1>3. CASE Start
  BY <1>1, <1>3, AnswerFields DEF Start, SandboxInv
<1>4. CASE Finish
  <2>1. /\ PipesClosed /\ child # "caller_killed"
        /\ UNCHANGED <<clock, child, helpers, out, err, scratch>>
    BY <1>1, <1>4 DEF Finish, SandboxInv, programVars
  <2>2. CASE "broken" \in {out, err} /\ answer' = Raised
    BY <2>1, <2>2, AnswerFields
  <2>3. CASE answer' = Result(ReturnCode(child) = 0, FALSE, ReturnCode(child))
    <3>1. /\ answer'.kind = "result" /\ answer'.timed_out = FALSE
          /\ answer'.passed <=> child = "exited_0"
          /\ answer'.return_code = ReturnCode(child)
      BY <2>1, <2>3, CompletedResult DEF PipesClosed
    <3>2. ReturnCode(child') = ReturnCode(child)
      BY <2>1
    <3> QED
      BY <2>1, <3>1, <3>2 DEF PipesClosed
  <2> QED
    BY <1>4, <2>2, <2>3 DEF Finish, Completed
<1>5. CASE TimeoutExpired
  <2>1. clock >= Timeout /\ UNCHANGED <<clock, helpers, out, err, scratch>>
    BY <1>5 DEF TimeoutExpired, TimeIsUp
  <2>2. CASE (err # "nothing" \/ out = "broken") /\ answer' = Raised
    BY <2>1, <2>2, AnswerFields
  <2>3. CASE answer' = Result(FALSE, TRUE, -1)
    <3>1. /\ answer'.kind = "result" /\ answer'.timed_out
          /\ ~answer'.passed /\ answer'.return_code = -1
      BY <2>3, TimeoutResult
    <3> QED
      BY <2>1, <3>1
  <2> QED
    BY <1>5, <2>2, <2>3 DEF TimeoutExpired, TimedOut
<1>6. CASE Cleanup
  <2>1. UNCHANGED <<clock, child, helpers, out, err>> /\ ReturnCode(child') = ReturnCode(child)
    BY <1>6 DEF Cleanup, programVars
  <2>2. CASE scratch' = FALSE /\ answer' = answer
    <3>1. caller = "cleanup"
      BY <1>6 DEF Cleanup
    <3> QED
      BY <1>1, <2>1, <2>2, <3>1
  <2>3. CASE (\E h \in Helpers : Alive(h)) /\ scratch' = TRUE /\ answer' = Raised
    BY <1>6, <2>1, <2>3, AnswerFields DEF Cleanup, Alive
  <2> QED
    BY <1>6, <2>2, <2>3 DEF Cleanup
\* While the caller still reads there is no answer; afterwards the program's
\* process is gone, and only its helpers are left.
<1>7. CASE Tick \/ WriteOutput \/ CpuKill \/ ChildExits \/ \E h \in Helpers : StartHelper(h)
  <2>1. caller = "reading" /\ UNCHANGED answer
    BY <1>1, <1>7
    DEF Tick, WriteOutput, CpuKill, ChildExits, Overdrawn, StartHelper, SandboxInv, TypeOK
  <2> QED
    BY <1>1, <1>2, <2>1, AnswerFields DEF SandboxInv
<1>8. ASSUME NEW h \in Helpers, HelperExits(h) PROVE Truthful'
  <2>1. /\ UNCHANGED <<clock, child, out, err, scratch, answer>>
        /\ helpers' = [helpers EXCEPT ![h] = "gone"]
        /\ ReturnCode(child') = ReturnCode(child) /\ UNCHANGED caller
    BY <1>8 DEF HelperExits
  <2>2. \A g \in Helpers : /\ helpers'[g] = "holding" => helpers[g] = "holding"
                           /\ helpers[g] # "unborn" => helpers'[g] # "unborn"
    BY <1>1, <2>1 DEF SandboxInv, TypeOK
  <2> QED
    BY <1>1, <2>1, <2>2
<1>9. CASE UNCHANGED vars
  <2>1. UNCHANGED <<caller, clock, child, helpers, out, err, scratch, answer>>
        /\ ReturnCode(child') = ReturnCode(child)
    BY <1>9 DEF vars, programVars
  <2> QED
    BY <1>1, <2>1
<1> QED
  BY <1>1, <1>3, <1>4, <1>5, <1>6, <1>7, <1>8, <1>9 DEF Next, Caller, Program

LEMMA TruthfulAlways == Spec => []Truthful
<1>1. SandboxInv /\ Truthful /\ [Next]_vars => (SandboxInv /\ Truthful)'
  BY SandboxInvKept, TruthfulKept
<1> QED
  BY <1>1, SandboxInitially, PTL DEF Spec

-----------------------------------------------------------------------------
\* The inductive invariant of a sandboxed run holds throughout.
THEOREM SandboxInvariant == Spec => []SandboxInv
BY SandboxInitially, SandboxInvKept, PTL DEF Spec

\* A result that is not a timeout is of a run that is over, helpers' output
\* included, and is a pass exactly if the process ended itself with code 0
\* (sandbox.py:192-200).
THEOREM ResultsAreFinal == Spec => []ResultIsFinal
BY TruthfulAlways, PTL DEF Truthful

\* Timed out is only said when the whole wall clock was used, and what is not
\* called a timeout carries the process's own code (sandbox.py:181-200).
THEOREM TimeoutsAreTrue == Spec => []TimeoutIsTrue
BY TruthfulAlways, PTL DEF Truthful

\* The call raises only for one of four causes, however its program, its helpers
\* and the clock interleave (sandbox.py:159-190).
THEOREM LossesHaveACause == Spec => []RaisesOnlyForCause
BY TruthfulAlways, PTL DEF Truthful

\* The program's process does not outlive the call, nor its CPU limit.
THEOREM ProgramIsContained == Spec => []ChildIsContained
<1>1. SandboxInv => ChildIsContained
  BY SandboxAssumption DEF SandboxInv, ChildIsContained, TypeOK, CpuLimit
<1> QED
  BY <1>1, SandboxInvariant, PTL
=============================================================================
