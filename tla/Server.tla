------------------------------- MODULE Server -------------------------------
(***************************************************************************)
(* serve/app.py: the hosted demo.  FastAPI runs solve() in a threadpool, so *)
(* several requests are under way at once; they share the rate limiter,    *)
(* the daily budget (both under _state_lock) and one run slot.             *)
(*                                                                         *)
(*   rate limit -> budget check -> run slot -> run_agent -> _spend ->      *)
(*   response -> release                                                   *)
(*                                                                         *)
(* The check and the charge are separate critical sections, with a wait    *)
(* for the slot and a whole agent run between them.  The process may be    *)
(* restarted at any point, and loses everything; the date changes whenever *)
(* it likes.                                                               *)
(*                                                                         *)
(* An agent run is what AgentGraph shows of it: an ad-hoc problem ends     *)
(* after k attempts with 2k calls of the model (one for the tests, k       *)
(* generations, k-1 reflections), or raises before that.                   *)
(***************************************************************************)
EXTENDS Integers, FiniteSets, Sequences

CONSTANTS
    Threads,            \* the threadpool's workers
    IPs,                \* the clients' addresses
    Limit, Window, MaxLag, MaxTime, \* the rate limiter and its clock
    MaxAttempts,        \* MAX_ATTEMPTS
    DailyCallBudget,    \* DAILY_CALL_BUDGET
    SharedKey,          \* whether GROQ_API_KEY is set
    LastDay,            \* bound on the number of days
    MaxBoots,           \* bound on the number of times the process starts
    None

ASSUME ServerAssumption ==
    /\ IsFiniteSet(Threads)
    /\ Limit \in Nat \ {0} /\ Window \in Nat /\ MaxLag \in Nat /\ MaxTime \in Nat
    /\ MaxAttempts \in Nat \ {0}
    /\ DailyCallBudget \in Nat
    /\ SharedKey \in BOOLEAN
    /\ LastDay \in Nat \ {0} /\ MaxBoots \in Nat \ {0}
    /\ None \notin Nat

VARIABLES
    \* the rate limiter
    now, stamp, hits, admitted,
    \* the process
    budget,     \* _budget
    slot,       \* the value of the semaphore _run_slot
    boots,      \* how often the process has started; _BOOT_ID tells boots apart
    \* per thread
    pc,         \* where in solve() the thread is, or how it answered last
    ip,         \* who sent the request
    visitor,    \* whether the request carries a key of its own
    usage,      \* usage.calls of the run
    \* the outside world
    today,      \* the UTC date
    bill        \* shared-key calls the provider has answered today

limiter == INSTANCE RateLimiter

limiterVars == <<now, stamp, hits, admitted>>
requestVars == <<ip, visitor, usage>>
vars == <<limiterVars, budget, slot, boots, pc, requestVars, today, bill>>

\* Calls of the longest run: the tests, MaxAttempts generations and one
\* reflection fewer.
CallsPerRun == 2 * MaxAttempts

Answered == {"rate_limited", "budget_exhausted", "busy", "ok", "error"}
InRun    == {"running", "spending", "reporting", "finally_ok", "finally_error"}
Location == {"idle", "rate_check", "budget_check", "queue"} \cup InRun \cup Answered

Max0(n) == IF n > 0 THEN n ELSE 0

TypeOK ==
    /\ limiter!LimiterTypeOK
    /\ budget \in [day : 0..LastDay, calls_used : Nat]
    /\ slot \in Nat
    /\ boots \in 1..MaxBoots
    /\ pc \in [Threads -> Location]
    /\ ip \in [Threads -> IPs]
    /\ visitor \in [Threads -> BOOLEAN]
    /\ usage \in [Threads -> 0..CallsPerRun]
    /\ today \in 1..LastDay
    /\ bill \in Nat

-----------------------------------------------------------------------------
(* The budget.  Its day is 0 before the first look at it (None in the code). *)

\* _budget_remaining() starts a new day's account when it notices one.
Rollover_Never(b) == b
Rollover(b) == IF b.day # today THEN [day |-> today, calls_used |-> 0] ELSE b

Remaining(b) == Max0(DailyCallBudget - b.calls_used)

Exhausted_OffByOne(b) == Remaining(b) < 0
Exhausted(b) == Remaining(b) <= 0

\* _spend() adds to whatever account is there; it does not look at the date.
Spent_Refunds(b, calls) == [b EXCEPT !.calls_used = @ - Max0(calls)]
Spent(b, calls) == [b EXCEPT !.calls_used = @ + Max0(calls)]

\* Which account a run is charged to: none but the shared one is kept.
Charge_Everyone(b, t) == Spent(b, usage[t])
Charge(b, t) == IF visitor[t] THEN b ELSE Spent(b, usage[t])

-----------------------------------------------------------------------------
MemoryInit ==
    /\ limiter!LimiterInit
    /\ budget = [day |-> 0, calls_used |-> 0]
    /\ slot = 1
    /\ pc = [t \in Threads |-> "idle"]

Init ==
    /\ MemoryInit
    /\ boots = 1
    /\ ip \in [Threads -> IPs]
    /\ visitor = [t \in Threads |-> FALSE]
    /\ usage = [t \in Threads |-> 0]
    /\ today = 1
    /\ bill = 0

Goto(t, from, to) ==
    /\ pc[t] = from
    /\ pc' = [pc EXCEPT ![t] = to]

\* A request arrives at a free worker, with or without a visitor's key.  It
\* reads the clock first thing in _rate_limited.
Arrive(t) ==
    /\ \E from \in {"idle"} \cup Answered : Goto(t, from, "rate_check")
    /\ \E i \in IPs : ip' = [ip EXCEPT ![t] = i]
    /\ \E key \in BOOLEAN : visitor' = [visitor EXCEPT ![t] = key]
    /\ usage' = [usage EXCEPT ![t] = 0]
    /\ limiter!ReadClock(t)
    /\ UNCHANGED <<budget, slot, boots, today, bill>>

\* The rate limit comes first, before the request's key is looked at.
RateLimited(t) ==
    /\ Goto(t, "rate_check", "rate_limited")
    /\ limiter!Refuse(t, ip[t])
    /\ UNCHANGED <<budget, slot, boots, requestVars, today, bill>>

RateAdmitted(t) ==
    /\ Goto(t, "rate_check", "budget_check")
    /\ limiter!Admit(t, ip[t])
    /\ UNCHANGED <<budget, slot, boots, requestVars, today, bill>>

\* A visitor's key is spent without asking the shared budget.
BudgetSkipped(t) ==
    /\ visitor[t]
    /\ Goto(t, "budget_check", "queue")
    /\ UNCHANGED <<limiterVars, budget, slot, boots, requestVars, today, bill>>

BudgetChecked(t) ==
    /\ ~visitor[t]
    /\ budget' = Rollover(budget)
    /\ Goto(t, "budget_check", IF Exhausted(budget') THEN "budget_exhausted" ELSE "queue")
    /\ UNCHANGED <<limiterVars, slot, boots, requestVars, today, bill>>

\* Semaphore.acquire(timeout=QUEUE_WAIT_SEC) gives up only with the slot taken.
Acquire(t) ==
    /\ slot > 0
    /\ Goto(t, "queue", "running")
    /\ slot' = slot - 1
    /\ UNCHANGED <<limiterVars, budget, boots, requestVars, today, bill>>

\* Giving up happens before the try: its finally does not release the slot.
AfterTimeout_ReleasesSlot == "finally_error"
AfterTimeout == "busy"

QueueTimeout(t) ==
    /\ slot = 0
    /\ Goto(t, "queue", AfterTimeout)
    /\ UNCHANGED <<limiterVars, budget, slot, boots, requestVars, today, bill>>

\* One answer of the model.  Without a shared key there is no client to ask.
Call(t) ==
    /\ pc[t] = "running"
    /\ visitor[t] \/ SharedKey
    /\ usage[t] < CallsPerRun
    /\ usage' = [usage EXCEPT ![t] = @ + 1]
    /\ bill' = IF visitor[t] THEN bill ELSE bill + 1
    /\ UNCHANGED <<limiterVars, budget, slot, boots, pc, ip, visitor, today>>

\* run_agent returns after k attempts ...
RunReturns(t) ==
    /\ \E k \in 1..MaxAttempts : usage[t] = 2 * k
    /\ Goto(t, "running", "spending")
    /\ UNCHANGED <<limiterVars, budget, slot, boots, requestVars, today, bill>>

\* ... or raises, and the handler charges nothing.
RunRaises(t) ==
    /\ Goto(t, "running", "finally_error")
    /\ UNCHANGED <<limiterVars, budget, slot, boots, requestVars, today, bill>>

Spend(t) ==
    /\ Goto(t, "spending", "reporting")
    /\ budget' = Charge(budget, t)
    /\ UNCHANGED <<limiterVars, slot, boots, requestVars, today, bill>>

\* The response quotes _budget_remaining(), which may start a new day.
Report(t) ==
    /\ Goto(t, "reporting", "finally_ok")
    /\ budget' = Rollover(budget)
    /\ UNCHANGED <<limiterVars, slot, boots, requestVars, today, bill>>

\* Building the response may raise as well, before or after that look at the
\* budget; the run stays charged, and the answer is the handler's.
ReportRaises(t) ==
    /\ Goto(t, "reporting", "finally_error")
    /\ budget' \in {budget, Rollover(budget)}
    /\ UNCHANGED <<limiterVars, slot, boots, requestVars, today, bill>>

Release_OnlyAfterSuccess(t) ==
    /\ Goto(t, "finally_ok", "ok")
    /\ slot' = slot + 1
    /\ UNCHANGED <<limiterVars, budget, boots, requestVars, today, bill>>
Release(t) ==
    /\ \/ Goto(t, "finally_ok", "ok")
       \/ Goto(t, "finally_error", "error")
    /\ slot' = slot + 1
    /\ UNCHANGED <<limiterVars, budget, boots, requestVars, today, bill>>

\* GET /api/status looks at the budget, too.
StatusPoll ==
    /\ budget.day # today
    /\ budget' = Rollover(budget)
    /\ UNCHANGED <<limiterVars, slot, boots, pc, requestVars, today, bill>>

Tick ==
    /\ limiter!Tick
    /\ UNCHANGED <<budget, slot, boots, pc, requestVars, today, bill>>

Midnight ==
    /\ today < LastDay
    /\ today' = today + 1
    /\ bill' = 0
    /\ UNCHANGED <<limiterVars, budget, slot, boots, pc, requestVars>>

\* The process dies (out of memory, or asleep after 15 idle minutes) and
\* starts again: open requests are dropped, the globals start over.
Restart ==
    /\ boots < MaxBoots
    /\ boots' = boots + 1
    /\ now' = 0
    /\ stamp' = [t \in Threads |-> None]
    /\ hits' = [i \in IPs |-> <<>>]
    /\ admitted' = [i \in IPs |-> <<>>]
    /\ budget' = [day |-> 0, calls_used |-> 0]
    /\ slot' = 1
    /\ pc' = [t \in Threads |-> "idle"]
    /\ UNCHANGED <<requestVars, today, bill>>

\* What a worker does on its own once it has a request.
Handle(t) ==
    \/ RateLimited(t)
    \/ RateAdmitted(t)
    \/ BudgetSkipped(t)
    \/ BudgetChecked(t)
    \/ Acquire(t)
    \/ QueueTimeout(t)
    \/ Call(t)
    \/ RunReturns(t)
    \/ RunRaises(t)
    \/ Spend(t)
    \/ Report(t)
    \/ ReportRaises(t)
    \/ Release(t)

Next ==
    \/ \E t \in Threads : Arrive(t) \/ Handle(t)
    \/ StatusPoll
    \/ Tick
    \/ Midnight
    \/ Restart

\* A worker with a request is scheduled until it has answered it: a thread
\* waiting for the slot gets it or times out, and a run comes to an end
\* (AgentGraph!Terminates).  Nobody has to send a request.
Fairness == \A t \in Threads : WF_vars(Handle(t))

Spec == Init /\ [][Next]_vars /\ Fairness

-----------------------------------------------------------------------------
(* Properties *)

\* Runs are serialised (app.py:15-18), and no way out of a run, a queue
\* timeout or an exception leaks the slot or returns it twice.
SlotAccounting == slot + Cardinality({t \in Threads : pc[t] \in InRun}) = 1

\* Requests that passed the budget check and have not been charged yet.
InFlight == {t \in Threads : ~visitor[t] /\ pc[t] \in {"queue", "running", "spending"}}

\* How far the account can go past the ceiling: by what the requests that
\* passed the check together may still cost, a run for each worker.
OvershootIsBounded ==
    budget.calls_used + CallsPerRun * Cardinality(InFlight)
        <= Max0(DailyCallBudget - 1) + CallsPerRun * Cardinality(Threads)

\* How far the account can be above what the shared key was billed for: not at
\* all on the first day, and by one run on every later one, since the run that
\* spans midnight, of which there is at most one, is charged to the day it ended.
\* Visitors' runs are never charged to it, and no run is charged twice.
OverchargeIsBounded ==
    budget.day = today =>
        /\ budget.calls_used <= bill + CallsPerRun
        /\ today = 1 => budget.calls_used <= bill

\* A request is refused for the budget only on a day whose bill has reached
\* the ceiling, short of a run that spanned midnight: yesterday's spending
\* never keeps today's visitors out (app.py:139-144).
RefusalIsJustified ==
    [][\A t \in Threads :
        pc[t] = "budget_check" /\ pc'[t] = "budget_exhausted"
            => bill + CallsPerRun >= DailyCallBudget]_vars

\* Every request is answered: it does not wait for the slot for ever, and it
\* is not lost in an error (dropped connections of a restart aside).
EveryRequestIsAnswered ==
    \A t \in Threads : pc[t] = "rate_check" ~> pc[t] \in Answered \cup {"idle"}

\* What makes OverchargeIsBounded inductive.  The run in the slot may still be
\* charged for all it has called, so the account is held against the bill with
\* these calls counted in; they begin at zero when the slot is taken.
Uncharged == {t \in Threads : ~visitor[t] /\ pc[t] \in {"running", "spending"}}

AccountInv ==
    /\ budget.day <= today
    /\ \A t \in Threads : pc[t] \in {"rate_check", "budget_check", "queue"} => usage[t] = 0
    /\ today = 1 => budget.calls_used <= bill
    /\ \A t \in Uncharged :
          /\ budget.day = today => budget.calls_used + usage[t] <= bill + CallsPerRun
          /\ today = 1 => budget.calls_used + usage[t] <= bill

ServerInv ==
    /\ TypeOK
    /\ limiter!LimiterInv
    /\ SlotAccounting
    /\ OvershootIsBounded
    /\ OverchargeIsBounded
    /\ AccountInv

(* What the documentation says of the server, and the code does not do. *)

\* "Cost is capped, not trusted" (app.py:10): a day's bill stays within the
\* ceiling and one run for each worker.
CostIsCapped == bill <= Max0(DailyCallBudget - 1) + CallsPerRun * Cardinality(Threads)
=============================================================================
