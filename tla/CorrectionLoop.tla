--------------------------- MODULE CorrectionLoop ---------------------------
(***************************************************************************)
(* What one agent run promises its caller, with the nodes of the graph,    *)
(* their prompts and their intermediate results forgotten: a bounded       *)
(* series of attempts, each of which ends in exactly one verdict, and an   *)
(* outcome that is decided by the last verdict.                            *)
(*                                                                         *)
(* It states the docstring of agent/graph.py (lines 10-24) and the status  *)
(* type of agent/state.py; AgentGraph is the detailed specification shown  *)
(* to implement it.                                                        *)
(***************************************************************************)
EXTENDS Integers, Sequences

CONSTANT MaxAttempts    \* AgentState.max_attempts, at least 1 in every caller

VARIABLES
    verdicts,   \* how each committed attempt ended, oldest first
    outcome     \* what the caller of run_agent sees

vars == <<verdicts, outcome>>

\* An attempt is stopped by the static check, fails its tests, or passes.
Verdict == {"rejected", "tests_failed", "passed"}

\* The Status literal, and "raised" for a run_agent that ends in an exception.
Outcome == {"in_progress", "passed", "failed_static", "failed_tests", "raised"}

TypeOK ==
    /\ verdicts \in Seq(Verdict)
    /\ outcome \in Outcome

Init ==
    /\ verdicts = <<>>
    /\ outcome = "in_progress"

\* Attempt number n ended with verdict v: only a pass, or the last failure
\* the budget allows, decides the run, and the kind of failure names it.
OutcomeAfter(v, n) ==
    CASE v = "passed"                           -> "passed"
      [] v = "rejected" /\ n >= MaxAttempts     -> "failed_static"
      [] v = "tests_failed" /\ n >= MaxAttempts -> "failed_tests"
      [] OTHER                                  -> "in_progress"

Attempt(v) ==
    /\ outcome = "in_progress"
    /\ Len(verdicts) < MaxAttempts
    /\ verdicts' = Append(verdicts, v)
    /\ outcome' = OutcomeAfter(v, Len(verdicts) + 1)

\* An exception out of a node ends the run; what was committed stays so.
Abort ==
    /\ outcome = "in_progress"
    /\ outcome' = "raised"
    /\ UNCHANGED verdicts

Next == Abort \/ \E v \in Verdict : Attempt(v)

\* What may happen, and that it does not stop short of an outcome.
SafetySpec == Init /\ [][Next]_vars

Spec == SafetySpec /\ WF_vars(Next)
=============================================================================
