----------------------------- MODULE EvalHarness -----------------------------
(***************************************************************************)
(* eval/run_eval.py: every method over every problem, one row of the run   *)
(* file for each, with the two baselines of baselines/ and the self-       *)
(* correcting agent; and what eval/analyze.py and eval/partial_credit.py   *)
(* make of the rows.                                                       *)
(*                                                                         *)
(* The problems come with tests on disk, so that all methods are held      *)
(* against the same.  A program is an element of Codes.  It works if a run *)
(* of its tests, given the time, ends with code 0, which is what the       *)
(* sandbox goes by.  One that works may be failed (a loaded host times it  *)
(* out, the agent's static gate rejects it); one that does not never       *)
(* passes, and on a host too slow for the timeout of a test run none does. *)
(* Tokens are counted in calls.                                            *)
(***************************************************************************)
EXTENDS Integers, Sequences, FiniteSets, FiniteSetsExt

CONSTANTS
    NumProblems,    \* the problems, by their place in the run
    Methods,        \* --methods, in the order given
    MaxAttempts,    \* --max-attempts, and the N of best_of_n
    Codes,
    Working,        \* the programs that pass the tests on disk
    HostSeconds,    \* how long a host may take for known-good code
    ProbeTimeout,   \* timeout_sec of verify_sandbox_health
    RunTimeout,     \* DEFAULT_TIMEOUT_SEC
    None

Method == {"single_shot", "best_of_n", "self_correct"}

ASSUME HarnessAssumption ==
    /\ NumProblems \in Nat /\ MaxAttempts \in Nat \ {0}
    /\ Methods \in Seq(Method)
    /\ \A i, j \in DOMAIN Methods : Methods[i] = Methods[j] => i = j
    /\ Working \subseteq Codes
    /\ HostSeconds \subseteq Nat /\ ProbeTimeout \in Nat /\ RunTimeout \in Nat

ASSUME NoneAssumption ==
    None \notin Codes \cup Nat \cup {"passed", "failed_static", "failed_tests"}

VARIABLES
    hostSec,    \* how long this host takes for known-good code
    pc,         \* where main() is
    cell,       \* the (problem, method) pair it is at
    judged,     \* the programs of this pair so far, and how each was judged
    usage,      \* usage.calls of the pair's own track_usage() scope
    rows,       \* the result rows of the run file
    answered    \* all the calls answered since the preflight

vars == <<hostSec, pc, cell, judged, usage, rows, answered>>

NumCells == NumProblems * Len(Methods)
ProblemOf(n) == ((n - 1) \div Len(Methods)) + 1
MethodOf(n) == Methods[((n - 1) % Len(Methods)) + 1]

Judged == [code : Codes, how : {"passed", "rejected", "failed"}]
Row == [problem : 1..NumProblems, method : Method, passed : BOOLEAN,
        llm_calls : Nat \cup {None}, code : Codes \cup {None}, usage : Nat,
        attempts_used : Nat \cup {None}, samples_passed : Nat \cup {None},
        status : {"passed", "failed_static", "failed_tests", None}]

TypeOK ==
    /\ hostSec \in HostSeconds
    /\ pc \in {"sandbox_check", "llm_check", "working", "done", "aborted", "interrupted"}
    /\ cell \in 1..NumCells + 1
    /\ judged \in Seq(Judged)
    /\ usage \in Nat
    /\ rows \in Seq(Row)
    /\ answered \in Nat

Init ==
    /\ hostSec \in HostSeconds
    /\ pc = "sandbox_check"
    /\ cell = 1
    /\ judged = <<>>
    /\ usage = 0
    /\ rows = <<>>
    /\ answered = 0

-----------------------------------------------------------------------------
(* What the methods do. *)

LastJudged == judged[Len(judged)]
Passing == {i \in DOMAIN judged : judged[i].how = "passed"}

\* One program is all of single_shot; best_of_n draws N whatever they are
\* worth; the agent stops at the first that passes.
Complete(m) ==
    CASE m = "single_shot"  -> Len(judged) = 1
      [] m = "best_of_n"    -> Len(judged) = MaxAttempts
      [] m = "self_correct" ->
            judged # <<>> /\ (LastJudged.how = "passed" \/ Len(judged) = MaxAttempts)

\* A failed attempt is reflected on if another follows.
OwesReflection(m) == m = "self_correct" /\ usage = 2 * Len(judged) - 1

\* first_passing_code or last_code
BestOfN_LastCode == LastJudged.code
BestOfN ==
    IF Passing # {} THEN judged[Min(Passing)].code ELSE LastJudged.code

\* llm_calls: given by the baselines, derived from the history for the agent.
CallsOf(m) ==
    CASE m = "single_shot"  -> 1
      [] m = "best_of_n"    -> MaxAttempts
      [] m = "self_correct" -> Len(judged) + (Len(judged) - 1)

\* attempts_used: given for the baselines, the attempt number for the agent.
AttemptsOf_OnlyFailed(m) == IF LastJudged.how = "passed" THEN None ELSE Len(judged)
AttemptsOf(m) == Len(judged)

StatusOf(m) ==
    IF m # "self_correct" THEN None
    ELSE CASE LastJudged.how = "passed"   -> "passed"
           [] LastJudged.how = "rejected" -> "failed_static"
           [] LastJudged.how = "failed"   -> "failed_tests"

\* samples_passed is counted as the samples come in.
SamplesOf(m) == IF m = "best_of_n" THEN Cardinality(Passing) ELSE None

ResultRow(m) ==
    [problem        |-> ProblemOf(cell),
     method         |-> m,
     passed         |-> Passing # {},
     llm_calls      |-> CallsOf(m),
     code           |-> IF m = "best_of_n" THEN BestOfN ELSE LastJudged.code,
     usage          |-> usage,
     attempts_used  |-> AttemptsOf(m),
     samples_passed |-> SamplesOf(m),
     status         |-> StatusOf(m)]

\* The row of an exception has an error in place of code and call count.
ErrorRow(calls) ==
    [problem        |-> ProblemOf(cell),
     method         |-> MethodOf(cell),
     passed         |-> FALSE,
     llm_calls      |-> None,
     code           |-> None,
     usage          |-> calls,
     attempts_used  |-> None,
     samples_passed |-> None,
     status         |-> None]

-----------------------------------------------------------------------------
\* verify_sandbox_health: known-good code, in the sandbox, with a timeout of
\* its own.  A probe that runs into it may end in a TypeError instead of the
\* SandboxHealthError that is caught; there is no file either way.
SandboxCheck ==
    /\ pc = "sandbox_check"
    /\ pc' = IF hostSec < ProbeTimeout THEN "llm_check" ELSE "aborted"
    /\ UNCHANGED <<hostSec, cell, judged, usage, rows, answered>>

\* verify_llm_available: one call, in no scope.
LLMCheck ==
    /\ pc = "llm_check"
    /\ pc' \in {"working", "aborted"}
    /\ UNCHANGED <<hostSec, cell, judged, usage, rows, answered>>

InCell == pc = "working" /\ cell <= NumCells

Generate ==
    /\ InCell
    /\ ~Complete(MethodOf(cell)) /\ ~OwesReflection(MethodOf(cell))
    /\ Len(judged) < MaxAttempts
    /\ \E c \in Codes, how \in {"passed", "rejected", "failed"} :
          /\ how = "passed" => c \in Working /\ hostSec < RunTimeout
          /\ how = "rejected" => MethodOf(cell) = "self_correct"
          /\ judged' = Append(judged, [code |-> c, how |-> how])
    /\ usage' = usage + 1
    /\ answered' = answered + 1
    /\ UNCHANGED <<hostSec, pc, cell, rows>>

Reflect ==
    /\ InCell
    /\ ~Complete(MethodOf(cell)) /\ OwesReflection(MethodOf(cell))
    /\ usage' = usage + 1
    /\ answered' = answered + 1
    /\ UNCHANGED <<hostSec, pc, cell, judged, rows>>

\* with track_usage(): a scope for each pair.
FreshUsage_Shared(calls) == calls
FreshUsage(calls) == 0

\* The row is written and flushed, and the next pair begins in a new scope.
NextCell(calls) ==
    /\ cell' = cell + 1
    /\ judged' = <<>>
    /\ usage' = FreshUsage(calls)
    /\ UNCHANGED <<hostSec, pc>>

RecordResult ==
    /\ InCell
    /\ Complete(MethodOf(cell))
    /\ rows' = Append(rows, ResultRow(MethodOf(cell)))
    /\ NextCell(usage)
    /\ UNCHANGED answered

RowsAfterError_Dropped(calls) == rows
RowsAfterError(calls) == Append(rows, ErrorRow(calls))

\* An exception out of the method: the provider's, which is not counted, or
\* one that follows an answer (no text in it, the sandbox giving up).
CellRaises ==
    /\ InCell
    /\ ~Complete(MethodOf(cell))
    /\ \E late \in {0, 1} :
          /\ answered' = answered + late
          /\ rows' = RowsAfterError(usage + late)
          /\ NextCell(usage + late)

\* KeyboardInterrupt and SystemExit are no Exception, and a suite that cannot
\* be read raises outside the try: the file stays as it is.
Interrupt ==
    /\ InCell
    /\ pc' = "interrupted"
    /\ UNCHANGED <<hostSec, cell, judged, usage, rows, answered>>

Finish ==
    /\ pc = "working"
    /\ cell > NumCells
    /\ pc' = "done"
    /\ UNCHANGED <<hostSec, cell, judged, usage, rows, answered>>

Work == SandboxCheck \/ LLMCheck \/ Generate \/ Reflect \/ RecordResult \/ Finish

Next == Work \/ CellRaises \/ Interrupt

Spec == Init /\ [][Next]_vars

-----------------------------------------------------------------------------
(* analyze.py and partial_credit.py, as functions of the rows. *)

RowsOf(m) == {i \in DOMAIN rows : rows[i].method = m}
SolvedBy(m) == {i \in RowsOf(m) : rows[i].passed}

\* The pairs of rows the merge on problem_id puts side by side.
Merged == {p \in RowsOf("single_shot") \X RowsOf("self_correct") :
                rows[p[1]].problem = rows[p[2]].problem}
Fixed == {p \in Merged : ~rows[p[1]].passed /\ rows[p[2]].passed}
Broken == {p \in Merged : rows[p[1]].passed /\ ~rows[p[2]].passed}
Delta == Cardinality(SolvedBy("self_correct")) - Cardinality(SolvedBy("single_shot"))

\* The .sum() of a column.
Total(column) ==
    LET total[n \in 0..Len(column)] == IF n = 0 THEN 0 ELSE total[n - 1] + column[n]
    IN  total[Len(column)]

\* The usage of all rows together.
TotalUsage(file) == Total([i \in 1..Len(file) |-> file[i].usage])

\* The table of attempts: the numbers it lists are those that occur, and the
\* unsolved rows are counted by the status they have.
AttemptsSeen == {rows[i].attempts_used : i \in RowsOf("self_correct")} \ {None}
SolvedOn(k) == {i \in SolvedBy("self_correct") : rows[i].attempts_used = k}
TerminalStates == {"passed", "failed_static", "failed_tests"}
SolvedOnSome == UNION {SolvedOn(k) : k \in AttemptsSeen}
UnsolvedAs(st) == {i \in RowsOf("self_correct") : ~rows[i].passed /\ rows[i].status = st}
UnsolvedAsSome == UNION {UnsolvedAs(st) : st \in TerminalStates}
Errored(m) == {i \in RowsOf(m) : rows[i].llm_calls = None}

\* best_of_n, sample by sample.
Sampled(i) == rows[i].method = "best_of_n" /\ rows[i].samples_passed # None
SampledRows == {i \in DOMAIN rows : Sampled(i)}
SamplesOfRow(i) == IF Sampled(i) THEN rows[i].samples_passed ELSE 0
SamplesPassed == Total([i \in 1..Len(rows) |-> SamplesOfRow(i)])
SamplesDrawn == MaxAttempts * Cardinality(SampledRows)

\* The rows of the cost table, and those partial_credit.py runs once more, with
\* the time known-good code needs; of these some pass.
CostRows(m) == {i \in RowsOf(m) : rows[i].llm_calls # None}
PartialRows(m) == {i \in RowsOf(m) : rows[i].code # None}
FullMarks(m) == {i \in PartialRows(m) : rows[i].code \in Working}

-----------------------------------------------------------------------------
(* Properties *)

\* What a row keeps of its pair.
RowKept(r) ==
    /\ r.passed => r.code \in Working
    /\ r.llm_calls \in {None, r.usage}
    /\ r.llm_calls = None => ~r.passed /\ r.samples_passed = None /\ r.status = None
    /\ r.method = "self_correct" /\ r.llm_calls # None =>
          r.attempts_used # None /\ r.status # None
    /\ r.method = "best_of_n" /\ r.llm_calls # None =>
          r.samples_passed \in 0..MaxAttempts /\ (r.passed <=> r.samples_passed # 0)

\* What the methods rely on within a pair, and what the rows keep of theirs.
PairInv ==
    /\ pc \in {"sandbox_check", "llm_check"} => judged = <<>> /\ usage = 0
    /\ \A i \in DOMAIN judged : judged[i].how = "passed" => judged[i].code \in Working
    /\ InCell /\ MethodOf(cell) = "self_correct" =>
          /\ \A i \in DOMAIN judged : judged[i].how = "passed" => i = Len(judged)
          /\ Complete("self_correct") => usage = 2 * Len(judged) - 1
    /\ \A i \in DOMAIN rows : RowKept(rows[i])

\* "Failures are recorded, not skipped": however its pairs end, the file holds
\* the rows of the pairs so far, one each, in the order of the run, and the
\* calls of a pair are those its method has made at this point.
HarnessInv ==
    /\ TypeOK
    /\ \A i \in DOMAIN rows : rows[i].problem = ProblemOf(i) /\ rows[i].method = MethodOf(i)
    /\ Len(rows) = cell - 1
    /\ pc = "done" => Len(rows) = NumCells
    /\ IF InCell /\ MethodOf(cell) = "self_correct"
       THEN usage \in {2 * Len(judged) - 1, 2 * Len(judged)} /\ usage >= 0
       ELSE pc = "working" => usage = Len(judged)
    /\ PairInv

\* In every row of the cost table the method's own count of its calls agrees with
\* what the usage scope saw, and the scopes together saw every call that was answered, those
\* of pairs that raised included: no call is counted in two rows or in none.
CostIsMeasured ==
    /\ \A m \in Method : \A i \in CostRows(m) : rows[i].llm_calls = rows[i].usage
    /\ TotalUsage(rows) + usage = answered

\* A solved row carries a program that solves the problem: what
\* partial_credit.py counts as solved by the tests alone is never less than what
\* the run reported, of any method.
SuccessesReproduce == \A i \in DOMAIN Methods : SolvedBy(Methods[i]) \subseteq FullMarks(Methods[i])

\* The tables lose no row and count none twice: what was solved on each attempt,
\* the unsolved by how they ended and the errors make up the agent's rows; of the
\* samples at least one passed for each row the oracle solved, and none did in
\* any other.
TablesAddUp ==
    /\ LET listed == SolvedOnSome \cup UnsolvedAsSome
           errors == Errored("self_correct")
       IN  listed \cap errors = {} /\ listed \cup errors = RowsOf("self_correct")
    /\ LET passed == SamplesPassed
           solved == Cardinality(SolvedBy("best_of_n"))
       IN  solved <= passed /\ passed <= SamplesDrawn /\ passed <= MaxAttempts * solved

\* The headline's difference is what the loop fixed less what it broke: the two
\* ways analyze.py counts it agree on the file of every run that completed.
DeltaIsExplained ==
    pc = "done" /\ RowsOf("single_shot") # {} /\ RowsOf("self_correct") # {} =>
        Delta = Cardinality(Fixed) - Cardinality(Broken)
=============================================================================
