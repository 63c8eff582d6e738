------------------------------- MODULE Sandbox -------------------------------
(***************************************************************************)
(* agent/sandbox.py: run_tests_in_sandbox() on POSIX.  The caller writes   *)
(* the scratch directory, starts pytest under resource limits and reads    *)
(* its two pipes until both are closed or the wall clock runs out; then it *)
(* turns what it saw into an ExecutionResult, or raises.                   *)
(*                                                                         *)
(* The program under test shares a process with pytest, and is free: it    *)
(* computes on as many cores as it likes, sleeps, prints, ends the process *)
(* with a code of its own, and starts helper processes, which may hold the *)
(* pipes open after it has ended.  Time is counted in ticks, and an event  *)
(* stamped with a tick may have happened anywhere within it.               *)
(***************************************************************************)
EXTENDS Integers

CONSTANTS
    Timeout,        \* timeout_sec, in ticks
    Cores,          \* CPU ticks a program can use in one tick of the clock
    MaxClock,       \* bound: how late the caller may come back to its select()
    Helpers         \* the processes the program may start

ASSUME SandboxAssumption ==
    /\ Timeout \in Nat \ {0}
    /\ Cores \in Nat \ {0}
    /\ MaxClock \in Nat /\ MaxClock >= Timeout

VARIABLES
    caller,     \* where run_tests_in_sandbox is
    clock,      \* ticks since subprocess.run was called
    child,      \* the pytest process
    cpu,        \* CPU ticks charged to it
    helpers,    \* the processes it started
    out, err,   \* what the caller has read from the two pipes
    scratch,    \* whether the scratch directory exists
    answer      \* what the caller returns or raises

programVars == <<child, cpu, helpers>>
vars == <<caller, clock, programVars, out, err, scratch, answer>>

\* _limit_resources(memory_mb, cpu_sec=timeout_sec)
CpuLimit_Twice == 2 * Timeout
CpuLimit == Timeout

\* How the process can end by itself: with code 0, or with any other.
Exited == {"exited_0", "exited_1"}
Ended == Exited \cup {"cpu_killed", "caller_killed"}

\* "broken" is text that is not valid UTF-8.
Captured == {"nothing", "text", "broken"}

AnswerType == [kind : {"pending", "raised", "result"}, passed : BOOLEAN,
               timed_out : BOOLEAN, return_code : {-9, -1, 0, 1}]

\* Nothing but a result says anything of the run.
Without(kind) == [kind |-> kind, passed |-> FALSE, timed_out |-> FALSE, return_code |-> 0]
NoAnswer == Without("pending")
Raised == Without("raised")
Result(passed, timed_out, rc) ==
    [kind |-> "result", passed |-> passed, timed_out |-> timed_out, return_code |-> rc]

TypeOK ==
    /\ caller \in {"idle", "reading", "cleanup", "returned"}
    /\ clock \in 0..MaxClock
    /\ child \in {"unborn", "running"} \cup Ended
    /\ cpu \in 0..(CpuLimit + Cores - 1)
    /\ helpers \in [Helpers -> {"unborn", "holding", "detached", "gone"}]
    /\ {out, err} \subseteq Captured
    /\ scratch \in BOOLEAN
    /\ answer \in AnswerType

Init ==
    /\ caller = "idle"
    /\ clock = 0
    /\ child = "unborn" /\ cpu = 0
    /\ helpers = [h \in Helpers |-> "unborn"]
    /\ out = "nothing" /\ err = "nothing"
    /\ scratch = FALSE
    /\ answer = NoAnswer

-----------------------------------------------------------------------------
(* The caller. *)

\* TemporaryDirectory(), the two write_text() calls and the fork; an exception
\* out of preexec_fn (a limit the host does not allow) is raised by Popen.
Start ==
    /\ caller = "idle"
    /\ scratch' = TRUE
    /\ \/ caller' = "reading" /\ child' = "running" /\ answer' = answer
       \/ caller' = "cleanup" /\ child' = child /\ answer' = Raised
    /\ UNCHANGED <<clock, cpu, helpers, out, err>>

PipesClosed_ChildOnly == child \in Ended
PipesClosed == child \in Ended /\ \A h \in Helpers : helpers[h] # "holding"

\* What the process says of how it ended, as proc.returncode.
ReturnCode(c) == CASE c = "exited_0" -> 0 [] c = "exited_1" -> 1 [] OTHER -> -9

\* The normal path decodes both outputs strictly, because of text=True.
Completed(c) ==
    IF "broken" \in {out, err} THEN Raised
    ELSE Result(ReturnCode(c) = 0, FALSE, ReturnCode(c))

\* TimeoutExpired carries bytes, or None where nothing was read.  Adding the
\* note to the bytes of stderr is a TypeError; the bytes of stdout go into
\* ExecutionResult, which accepts them if they are UTF-8.
TimedOut_NoneIsNoText(c) ==
    IF err # "nothing" \/ out # "text" THEN Raised ELSE Result(FALSE, TRUE, -1)
TimedOut(c) ==
    IF err # "nothing" \/ out = "broken" THEN Raised ELSE Result(FALSE, TRUE, -1)

\* communicate() looks at the clock after every select().
TimeIsUp_Early == clock >= Timeout - 1
TimeIsUp_WhenQuiet == clock >= Timeout /\ PipesClosed
TimeIsUp == clock >= Timeout

\* communicate() has read both pipes to their end in time, and waits.
Finish ==
    /\ caller = "reading"
    /\ PipesClosed
    /\ clock <= Timeout
    /\ answer' = Completed(child)
    /\ caller' = "cleanup"
    /\ UNCHANGED <<clock, programVars, out, err, scratch>>

Stopped_LeavesChild(c) == c
Stopped(c) == IF c = "running" THEN "caller_killed" ELSE c

\* TimeoutExpired: run() kills the child, if it still runs, waits for it (and
\* for nobody else), and raises.
TimeoutExpired ==
    /\ caller = "reading"
    /\ TimeIsUp
    /\ child' = Stopped(child)
    /\ answer' = TimedOut(child)
    /\ caller' = "cleanup"
    /\ UNCHANGED <<clock, cpu, helpers, out, err, scratch>>

Alive(h) == helpers[h] \in {"holding", "detached"}

\* Leaving the with statement removes the directory.  A helper that still
\* writes there can make that fail, and the exception replaces the result.
Cleanup ==
    /\ caller = "cleanup"
    /\ caller' = "returned"
    /\ \/ scratch' = FALSE /\ answer' = answer
       \/ (\E h \in Helpers : Alive(h)) /\ scratch' = TRUE /\ answer' = Raised
    /\ UNCHANGED <<clock, programVars, out, err>>

-----------------------------------------------------------------------------
(* The program, the kernel and the clock. *)

\* The kernel acts on a CPU limit within the tick that reaches it.
Overdrawn == child = "running" /\ cpu >= CpuLimit

Tick ==
    /\ caller = "reading"
    /\ clock < MaxClock
    /\ ~Overdrawn
    /\ clock' = clock + 1
    /\ cpu' \in IF child = "running" THEN cpu..(cpu + Cores) ELSE {cpu}
    /\ UNCHANGED <<caller, child, helpers, out, err, scratch, answer>>

\* The soft limit equals the hard one, so the signal is SIGKILL.
CpuKill ==
    /\ Overdrawn
    /\ child' = "cpu_killed"
    /\ UNCHANGED <<caller, clock, cpu, helpers, out, err, scratch, answer>>

\* pytest ends with 0 if all tests passed, and with another code if not; but the
\* program shares its process and may end it at any time, with any code.  Running
\* out of memory is one of the other ends.
ChildExits ==
    /\ child = "running"
    /\ child' \in Exited
    /\ UNCHANGED <<caller, clock, cpu, helpers, out, err, scratch, answer>>

Holding == child = "running" \/ \E h \in Helpers : helpers[h] = "holding"

WriteOutput ==
    /\ caller = "reading"
    /\ Holding
    /\ \/ out = "nothing" /\ out' \in {"text", "broken"} /\ err' = err
       \/ err = "nothing" /\ err' \in {"text", "broken"} /\ out' = out
    /\ UNCHANGED <<caller, clock, programVars, scratch, answer>>

\* A fork inherits the pipes; a subprocess with an output of its own does not.
\* RLIMIT_NPROC bounds Helpers.
StartHelper(h) ==
    /\ child = "running"
    /\ helpers[h] = "unborn"
    /\ \E how \in {"holding", "detached"} : helpers' = [helpers EXCEPT ![h] = how]
    /\ UNCHANGED <<caller, clock, child, cpu, out, err, scratch, answer>>

HelperExits(h) ==
    /\ Alive(h)
    /\ helpers' = [helpers EXCEPT ![h] = "gone"]
    /\ UNCHANGED <<caller, clock, child, cpu, out, err, scratch, answer>>

Program == CpuKill \/ ChildExits \/ WriteOutput \/ \E h \in Helpers : StartHelper(h) \/ HelperExits(h)

Caller == Start \/ Finish \/ TimeoutExpired \/ Cleanup

Next == Caller \/ Tick \/ Program

\* The caller keeps executing, the kernel enforces its limit and time passes;
\* the program owes nobody anything.
Spec == Init /\ [][Next]_vars /\ WF_vars(Caller) /\ WF_vars(Tick) /\ WF_vars(CpuKill)

-----------------------------------------------------------------------------
(* Properties. *)

\* What one stage leaves to the next (inductive): the caller has no answer before
\* it stops reading, keeps the directory while the program may use it, and does
\* not go on while the program's own process runs.
SandboxInv ==
    /\ TypeOK
    /\ caller = "idle" => child = "unborn"
    /\ caller = "reading" => scratch /\ child \notin {"unborn", "caller_killed"}
    /\ IF caller \in {"idle", "reading"} THEN answer = NoAnswer
       ELSE answer.kind # "pending" /\ child # "running"
    /\ answer.kind = "result" => child \in Ended

\* executor_node turns `passed` into the run's verdict.  A result that is not a
\* timeout is of a run that is over: the caller did not end it, nobody is left who
\* could add to the output that was read, and it is a pass exactly if the process
\* ended itself with code 0.  A late end is never a pass, whatever its code.
\* (Whether code 0 means that the tests passed is up to the program.)
ResultIsFinal ==
    answer.kind = "result" =>
        /\ answer.passed <=> child = "exited_0" /\ ~answer.timed_out
        /\ ~answer.timed_out =>
              child # "caller_killed" /\ \A h \in Helpers : helpers[h] # "holding"

\* The reflector tells the model "timed out" from "tests failed".  Timed out is
\* only said when the whole wall clock was used, and with code -1; anything else
\* comes with the process's own code.  The converse is not claimed: a program
\* that ended early while a helper kept its pipe is called timed out as well.
TimeoutIsTrue ==
    answer.kind = "result" =>
        IF answer.timed_out THEN clock >= Timeout /\ answer.return_code = -1
        ELSE answer.return_code = ReturnCode(child)

\* A call that raises loses the run's result, and the agent's whole run with it.
\* It does so only if the process could not be started, if output was not UTF-8,
\* if the clock ran out on something written to stderr, or if a helper process
\* was in the way of removing the directory: never on a program that is silent,
\* or writes text to stdout, alone.
RaisesOnlyForCause ==
    answer.kind = "raised" =>
        \/ child = "unborn"
        \/ "broken" \in {out, err}
        \/ err # "nothing" /\ clock >= Timeout
        \/ caller = "returned" /\ scratch /\ \E h \in Helpers : helpers[h] # "unborn"

\* The server runs one program at a time and starts the next when this one has
\* returned: the program's own process is gone by then, and it never got further
\* past its CPU limit than the kernel's accounting allows, on however many cores.
ChildIsContained ==
    /\ caller \in {"cleanup", "returned"} => child # "running"
    /\ cpu < Timeout + Cores

\* Whatever the program does (it need not end, nor close its pipes, nor its
\* helpers end), the caller gets an answer.
CallerReturns == <>(caller = "returned")

\* A program stopped by the wall clock, whose output can be read, is reported as
\* timed out, as tests/test_sandbox_and_static_check.py expects of a loop.
TimeoutIsReported ==
    caller = "cleanup" /\ child = "caller_killed" /\ "broken" \notin {out, err} =>
        answer.kind = "result" /\ answer.timed_out

=============================================================================
