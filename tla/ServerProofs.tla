---------------------------- MODULE ServerProofs ----------------------------
(***************************************************************************)
(* Theorems about Server, for any number of workers, days and restarts,    *)
(* any budget and any length of a run: runs are serialised, the account    *)
(* overshoots its ceiling by a bounded amount and exceeds the bill by one  *)
(* run at most, refusals for the budget are justified, and the rate limit  *)
(* holds between two restarts.                                             *)
(*                                                                         *)
(* The slot carries the argument.  Since one run at most is between        *)
(* acquire and release, one run at most has calls the account does not     *)
(* show yet, and one at most can span midnight.                            *)
(***************************************************************************)
EXTENDS Server, FiniteSetTheorems, TLAPS

-----------------------------------------------------------------------------
(* The limiter inside the server is the limiter of RateLimiterProofs.        *)

Proved == INSTANCE RateLimiterProofs

LEMMA SameLimiter ==
    /\ Proved!LimiterInit <=> limiter!LimiterInit
    /\ Proved!LimiterInv <=> limiter!LimiterInv
    /\ Proved!WindowBound <=> limiter!WindowBound
<1>1. Proved!LimiterInit <=> limiter!LimiterInit
    BY Zenon DEF Proved!LimiterInit, limiter!LimiterInit
<1>2. Proved!LimiterTypeOK <=> limiter!LimiterTypeOK
    BY Zenon DEF Proved!LimiterTypeOK, limiter!LimiterTypeOK, Proved!Admission, limiter!Admission
<1>3. Proved!StampsAreFresh <=> limiter!StampsAreFresh
    BY Zenon DEF Proved!StampsAreFresh, limiter!StampsAreFresh, Proved!FreshLog, limiter!FreshLog
<1>4. Proved!HitsAreTheLastAdmissions <=> limiter!HitsAreTheLastAdmissions
    BY Zenon
    DEF Proved!HitsAreTheLastAdmissions, limiter!HitsAreTheLastAdmissions, Proved!Mirrors,
        limiter!Mirrors
<1>5. Proved!LimiterInv <=> limiter!LimiterInv
    BY <1>2, <1>3, <1>4, Zenon DEF Proved!LimiterInv, limiter!LimiterInv
<1>6. Proved!WindowBound <=> limiter!WindowBound
    BY Zenon DEF Proved!WindowBound, limiter!WindowBound
<1> QED
    BY <1>1, <1>5, <1>6

LEMMA SameLimiterNext ==
    /\ Proved!LimiterInit' <=> limiter!LimiterInit'
    /\ Proved!LimiterInv' <=> limiter!LimiterInv'
    /\ Proved!WindowBound' <=> limiter!WindowBound'
BY SameLimiter, PTL

LEMMA SameLimiterSteps ==
    /\ Proved!Tick <=> limiter!Tick
    /\ \A t \in Threads : Proved!ReadClock(t) <=> limiter!ReadClock(t)
    /\ \A t \in Threads, i \in IPs : Proved!Refuse(t, i) <=> limiter!Refuse(t, i)
    /\ \A t \in Threads, i \in IPs : Proved!Admit(t, i) <=> limiter!Admit(t, i)
<1>1. ASSUME NEW q, NEW s PROVE Proved!Live(q, s) = limiter!Live(q, s)
    BY Zenon DEF Proved!Live, limiter!Live, Proved!Expired, limiter!Expired
<1>2. ASSUME NEW q PROVE Proved!Full(q) <=> limiter!Full(q)
    BY Zenon DEF Proved!Full, limiter!Full
<1>3. Proved!Tick <=> limiter!Tick
    BY Zenon DEF Proved!Tick, limiter!Tick
<1>4. \A t \in Threads : Proved!ReadClock(t) <=> limiter!ReadClock(t)
    BY Zenon DEF Proved!ReadClock, limiter!ReadClock
<1>5. \A t \in Threads, i \in IPs : Proved!Refuse(t, i) <=> limiter!Refuse(t, i)
    BY <1>1, <1>2, Zenon DEF Proved!Refuse, limiter!Refuse
<1>6. \A t \in Threads, i \in IPs : Proved!Admit(t, i) <=> limiter!Admit(t, i)
    BY <1>1, <1>2, Zenon DEF Proved!Admit, limiter!Admit
<1> QED
    BY <1>3, <1>4, <1>5, <1>6

\* Between two restarts, each step of the server is a step of the limiter or
\* leaves it alone.
LEMMA ServerDrivesLimiter ==
    ASSUME TypeOK, [Next]_vars
    PROVE  [Proved!LimiterNext]_(Proved!limiterVars) \/ Restart
<1> USE DEF Proved!LimiterNext, Proved!limiterVars, limiterVars
<1>1. CASE UNCHANGED limiterVars
    BY <1>1
<1>2. ASSUME NEW t \in Threads, Arrive(t) \/ RateLimited(t) \/ RateAdmitted(t)
      PROVE  Proved!LimiterNext
    BY <1>2, SameLimiterSteps DEF TypeOK, Arrive, RateLimited, RateAdmitted
<1>3. CASE Tick
    BY <1>3, SameLimiterSteps DEF Tick
<1> QED
    BY <1>1, <1>2, <1>3
    DEF Next, vars, Handle, BudgetSkipped, BudgetChecked, Acquire, QueueTimeout, Call, RunReturns,
        RunRaises, Spend, Report, ReportRaises, Release, StatusPoll, Midnight

\* A restart empties the limiter.
LEMMA RestartClearsLimiter == Restart => Proved!LimiterInit'
BY DEF Restart, Proved!LimiterInit

LEMMA LimiterStays ==
    TypeOK /\ limiter!LimiterInv /\ [Next]_vars => limiter!LimiterInv'
<1>1. Proved!LimiterInit' => Proved!LimiterInv'
    BY Proved!InitLimiterInv, ServerAssumption, PTL
<1> QED
    BY <1>1, SameLimiter, SameLimiterNext, ServerDrivesLimiter, RestartClearsLimiter,
       Proved!LimiterStep, ServerAssumption

-----------------------------------------------------------------------------
(* Types.                                                                    *)

USE ServerAssumption

Account == [day : 0..LastDay, calls_used : Nat]

LEMMA RolloverType ==
    ASSUME NEW b \in Account, today \in 1..LastDay
    PROVE  /\ Rollover(b) \in Account
           /\ Rollover(b).day = today
           /\ Rollover(b).calls_used = IF b.day = today THEN b.calls_used ELSE 0
BY DEF Rollover, Account

LEMMA ChargeType ==
    ASSUME TypeOK, NEW t \in Threads
    PROVE  /\ Charge(budget, t) \in Account
           /\ Charge(budget, t).day = budget.day
           /\ Charge(budget, t).calls_used =
                 budget.calls_used + (IF visitor[t] THEN 0 ELSE usage[t])
BY DEF TypeOK, Charge, Spent, Max0, Account, CallsPerRun

\* A worker that moves leaves the others where they are.
LEMMA GotoMoves ==
    ASSUME TypeOK, NEW t \in Threads, NEW from, NEW to \in Location, Goto(t, from, to)
    PROVE  /\ pc' \in [Threads -> Location]
           /\ pc[t] = from /\ pc'[t] = to
           /\ \A u \in Threads : u # t => pc'[u] = pc[u]
BY DEF TypeOK, Goto

LEMMA ServerTypeStep == TypeOK /\ limiter!LimiterInv /\ [Next]_vars => TypeOK'
<1> SUFFICES ASSUME TypeOK, limiter!LimiterInv, [Next]_vars PROVE TypeOK'
    OBVIOUS
<1>0. limiter!LimiterTypeOK'
    BY LimiterStays DEF limiter!LimiterInv
<1> USE <1>0 DEF TypeOK
<1>1. ASSUME NEW t \in Threads, Arrive(t) PROVE TypeOK'
    BY <1>1 DEF Arrive, Goto, Location, CallsPerRun
<1>2. ASSUME NEW t \in Threads, RateLimited(t) \/ RateAdmitted(t) \/ BudgetSkipped(t) PROVE TypeOK'
    BY <1>2
    DEF RateLimited, RateAdmitted, BudgetSkipped, Goto, requestVars, Location, Answered
<1>3. ASSUME NEW t \in Threads, BudgetChecked(t) PROVE TypeOK'
  <2>1. budget' \in Account
    BY <1>3, RolloverType DEF BudgetChecked, Account
  <2>2. pc' \in [Threads -> Location]
    BY <1>3 DEF BudgetChecked, Goto, Location, Answered
  <2> QED
    BY <1>3, <2>1, <2>2 DEF BudgetChecked, requestVars, Account
<1>4. ASSUME NEW t \in Threads, Acquire(t) \/ QueueTimeout(t) PROVE TypeOK'
    BY <1>4 DEF Acquire, QueueTimeout, AfterTimeout, Goto, requestVars, Location, InRun, Answered
<1>5. ASSUME NEW t \in Threads, Call(t) PROVE TypeOK'
    BY <1>5 DEF Call, CallsPerRun
<1>6. ASSUME NEW t \in Threads, RunReturns(t) \/ RunRaises(t) PROVE TypeOK'
    BY <1>6 DEF RunReturns, RunRaises, Goto, requestVars, Location, InRun
<1>7. ASSUME NEW t \in Threads, Spend(t) PROVE TypeOK'
  <2>1. budget' \in Account
    BY <1>7, ChargeType DEF Spend
  <2> QED
    BY <1>7, <2>1 DEF Spend, Goto, requestVars, Location, InRun, Account
<1>8. ASSUME NEW t \in Threads, Report(t) \/ ReportRaises(t) PROVE TypeOK'
  <2>1. budget' \in Account
    BY <1>8, RolloverType DEF Report, ReportRaises, Account
  <2> QED
    BY <1>8, <2>1 DEF Report, ReportRaises, Goto, requestVars, Location, InRun, Account
<1>9. ASSUME NEW t \in Threads, Release(t) PROVE TypeOK'
    BY <1>9 DEF Release, Goto, requestVars, Location, Answered
<1>10. CASE StatusPoll
  <2>1. budget' \in Account
    BY <1>10, RolloverType DEF StatusPoll, Account
  <2> QED
    BY <1>10, <2>1 DEF StatusPoll, requestVars, Account
<1>11. CASE Tick \/ Midnight
    BY <1>11 DEF Tick, Midnight, requestVars
<1>12. CASE Restart
    BY <1>12 DEF Restart, requestVars, Location
<1>13. CASE UNCHANGED vars
    BY <1>13 DEF vars, requestVars
<1> QED
    BY <1>1, <1>2, <1>3, <1>4, <1>5, <1>6, <1>7, <1>8, <1>9, <1>10, <1>11, <1>12, <1>13
    DEF Next, Handle

-----------------------------------------------------------------------------
(* Counting threads.                                                         *)

\* Two sets of threads that differ in one thread at most.
LEMMA CountMoves ==
    ASSUME NEW S \in SUBSET Threads, NEW S2 \in SUBSET Threads, NEW t \in Threads,
           \A u \in Threads : u # t => (u \in S2 <=> u \in S)
    PROVE  /\ Cardinality(S) \in Nat /\ Cardinality(S2) \in Nat
           /\ Cardinality(S2) =
                 Cardinality(S) + (IF t \in S2 THEN 1 ELSE 0) - (IF t \in S THEN 1 ELSE 0)
<1>1. IsFiniteSet(S) /\ IsFiniteSet(S2)
    BY FS_Subset
<1>2. Cardinality(S) \in Nat /\ Cardinality(S2) \in Nat
    BY <1>1, FS_CardinalityType
<1>3. S \ {t} = S2 \ {t}
    OBVIOUS
<1>4. /\ Cardinality(S \ {t}) = IF t \in S THEN Cardinality(S) - 1 ELSE Cardinality(S)
      /\ Cardinality(S2 \ {t}) = IF t \in S2 THEN Cardinality(S2) - 1 ELSE Cardinality(S2)
    BY <1>1, FS_RemoveElement
<1> QED
    BY <1>2, <1>3, <1>4

LEMMA CountSubset ==
    ASSUME NEW S \in SUBSET Threads, NEW S2 \in SUBSET S
    PROVE  /\ Cardinality(S) \in Nat /\ Cardinality(S2) \in Nat
           /\ Cardinality(S2) <= Cardinality(S)
<1>1. IsFiniteSet(S) /\ IsFiniteSet(S2)
    BY FS_Subset
<1> QED
    BY <1>1, FS_Subset, FS_CardinalityType

-----------------------------------------------------------------------------
(* The slot.                                                                 *)

Inside == {t \in Threads : pc[t] \in InRun}

\* One run at a time: with the slot counted right, two threads are never both
\* between acquire and release.
LEMMA OneRunAtATime ==
    ASSUME TypeOK, SlotAccounting, NEW t \in Inside, NEW u \in Inside
    PROVE  t = u
<1> SUFFICES ASSUME t # u PROVE FALSE
    OBVIOUS
<1>1. Cardinality({t}) = 1 /\ IsFiniteSet({t})
    BY FS_Singleton
<1>2. Cardinality({t} \cup {u}) = 2
  <2>1. u \notin {t}
    OBVIOUS
  <2>2. Cardinality({t} \cup {u}) = Cardinality({t}) + 1
    BY <1>1, <2>1, FS_AddElement, Zenon
  <2> QED
    BY <1>1, <2>2
<1>3. {t} \cup {u} \in SUBSET Inside /\ Inside \in SUBSET Threads
    BY DEF Inside
<1>4. Cardinality(Inside) \in Nat /\ 2 <= Cardinality(Inside)
    BY <1>2, <1>3, CountSubset
<1> QED
    BY <1>4 DEF TypeOK, SlotAccounting, Inside

LEMMA SlotStep == ServerInv /\ [Next]_vars => SlotAccounting'
<1> SUFFICES ASSUME ServerInv, [Next]_vars PROVE SlotAccounting'
    OBVIOUS
<1> USE DEF ServerInv
<1>1. slot \in Nat /\ slot + Cardinality(Inside) = 1
    BY DEF TypeOK, SlotAccounting, Inside
<1> SUFFICES slot' + Cardinality(Inside') = 1
    BY DEF SlotAccounting, Inside
<1>2. CASE UNCHANGED <<pc, slot>>
    BY <1>1, <1>2 DEF Inside
<1>3. ASSUME NEW t \in Threads, NEW from, NEW to \in Location, Goto(t, from, to),
             slot' = slot + (IF from \in InRun THEN 1 ELSE 0) - (IF to \in InRun THEN 1 ELSE 0)
      PROVE  slot' + Cardinality(Inside') = 1
  <2>1. /\ \A u \in Threads : u # t => (u \in Inside' <=> u \in Inside)
        /\ t \in Inside' <=> to \in InRun
        /\ t \in Inside <=> from \in InRun
    BY <1>3, GotoMoves DEF Inside
  <2>2. Inside \in SUBSET Threads /\ Inside' \in SUBSET Threads
    BY DEF Inside
  <2>3. /\ Cardinality(Inside) \in Nat /\ Cardinality(Inside') \in Nat
        /\ Cardinality(Inside') = Cardinality(Inside)
              + (IF t \in Inside' THEN 1 ELSE 0) - (IF t \in Inside THEN 1 ELSE 0)
    BY <2>1, <2>2, CountMoves
  <2> HIDE DEF Inside
  <2> QED
    BY <1>1, <1>3, <2>1, <2>3
\* Outside the slot ...
<1>4. ASSUME NEW t \in Threads,
             Arrive(t) \/ RateLimited(t) \/ RateAdmitted(t) \/ BudgetSkipped(t) \/ BudgetChecked(t)
                \/ QueueTimeout(t)
      PROVE  slot' + Cardinality(Inside') = 1
  <2>1. \E from \in Location \ InRun, to \in Location \ InRun : Goto(t, from, to)
    BY <1>4
    DEF Arrive, RateLimited, RateAdmitted, BudgetSkipped, BudgetChecked, QueueTimeout,
        AfterTimeout, Location, InRun, Answered
  <2>2. slot' = slot
    BY <1>4 DEF Arrive, RateLimited, RateAdmitted, BudgetSkipped, BudgetChecked, QueueTimeout
  <2> QED
    BY <1>1, <1>3, <2>1, <2>2
\* ... inside it ...
<1>5. ASSUME NEW t \in Threads,
             RunReturns(t) \/ RunRaises(t) \/ Spend(t) \/ Report(t) \/ ReportRaises(t)
      PROVE  slot' + Cardinality(Inside') = 1
  <2>1. \E from \in InRun, to \in Location \cap InRun : Goto(t, from, to)
    BY <1>5 DEF RunReturns, RunRaises, Spend, Report, ReportRaises, InRun, Location
  <2>2. slot' = slot
    BY <1>5 DEF RunReturns, RunRaises, Spend, Report, ReportRaises
  <2> QED
    BY <1>1, <1>3, <2>1, <2>2
\* ... and the two ends.
<1>6. ASSUME NEW t \in Threads, Acquire(t) PROVE slot' + Cardinality(Inside') = 1
  <2>1. Goto(t, "queue", "running") /\ slot' = slot - 1
    BY <1>6 DEF Acquire
  <2> QED
    BY <1>1, <1>3, <2>1 DEF Location, InRun
<1>7. ASSUME NEW t \in Threads, Release(t) PROVE slot' + Cardinality(Inside') = 1
  <2>1. \E from \in InRun, to \in Location \ InRun : Goto(t, from, to)
    BY <1>7 DEF Release, Location, InRun, Answered
  <2>2. slot' = slot + 1
    BY <1>7 DEF Release
  <2> QED
    BY <1>1, <1>3, <2>1, <2>2
<1>8. CASE Restart
  <2>1. Inside' = {} /\ slot' = 1
    BY <1>8 DEF Restart, Inside, InRun
  <2> QED
    BY <2>1, FS_EmptySet
<1> QED
    BY <1>2, <1>4, <1>5, <1>6, <1>7, <1>8
    DEF Next, Handle, vars, Call, StatusPoll, Tick, Midnight

-----------------------------------------------------------------------------
(* The overshoot.                                                            *)

LEMMA TimesMonotone ==
    ASSUME NEW k \in Nat, NEW m \in Nat, NEW n \in Nat, m <= n
    PROVE  k * m <= k * n
<1>1. PICK d \in Nat : n = m + d
    <2> WITNESS n - m \in Nat
    <2> QED
        OBVIOUS
<1>2. k * n = k * m + k * d /\ k * d \in Nat /\ k * m \in Nat /\ k * n \in Nat
    BY <1>1
<1> QED
    BY <1>2

LEMMA OvershootStep == ServerInv /\ [Next]_vars => OvershootIsBounded'
<1> SUFFICES ASSUME ServerInv, [Next]_vars PROVE OvershootIsBounded'
    OBVIOUS
<1> USE DEF ServerInv
<1> DEFINE used == budget.calls_used
           top == Max0(DailyCallBudget - 1)
           all == Cardinality(Threads)
<1>1. /\ used \in Nat /\ top \in Nat /\ all \in Nat /\ CallsPerRun \in Nat
      /\ InFlight \in SUBSET Threads /\ InFlight' \in SUBSET Threads
      /\ Cardinality(InFlight) \in Nat /\ Cardinality(InFlight') \in Nat
  <2>1. InFlight \in SUBSET Threads /\ InFlight' \in SUBSET Threads
    BY DEF InFlight
  <2> QED
    BY <2>1, CountSubset, FS_CardinalityType DEF TypeOK, Max0, CallsPerRun
<1>2. used + CallsPerRun * Cardinality(InFlight) <= top + CallsPerRun * all
    BY DEF OvershootIsBounded
<1> HIDE DEF used, top, all
<1>3. TypeOK'
    BY ServerTypeStep
<1>4. used' \in Nat
    BY <1>3 DEF used, TypeOK
<1> SUFFICES used' + CallsPerRun * Cardinality(InFlight') <= top + CallsPerRun * all
    BY DEF OvershootIsBounded, used, top, all
\* Nobody passes the check, and nothing is charged.
<1>5. ASSUME used' <= used, InFlight' \subseteq InFlight
      PROVE  used' + CallsPerRun * Cardinality(InFlight') <= top + CallsPerRun * all
  <2>1. Cardinality(InFlight') <= Cardinality(InFlight)
    BY <1>1, <1>5, CountSubset
  <2>2. CallsPerRun * Cardinality(InFlight') <= CallsPerRun * Cardinality(InFlight)
    BY <1>1, <2>1, TimesMonotone
  <2>3. /\ CallsPerRun * Cardinality(InFlight') \in Nat
        /\ CallsPerRun * Cardinality(InFlight) \in Nat
        /\ CallsPerRun * all \in Nat
    BY <1>1
  <2> QED
    BY <1>1, <1>2, <1>4, <1>5, <2>2, <2>3
<1>6. ASSUME UNCHANGED <<budget, visitor, pc>>
      PROVE  used' + CallsPerRun * Cardinality(InFlight') <= top + CallsPerRun * all
  <2>1. used' = used /\ InFlight' = InFlight
    BY <1>6 DEF used, InFlight
  <2> QED
    BY <1>1, <1>5, <2>1
<1>7. ASSUME NEW t \in Threads,
             Arrive(t) \/ RateLimited(t) \/ RateAdmitted(t) \/ BudgetSkipped(t) \/ Acquire(t)
                \/ QueueTimeout(t) \/ RunReturns(t) \/ RunRaises(t) \/ Release(t)
      PROVE  used' + CallsPerRun * Cardinality(InFlight') <= top + CallsPerRun * all
  <2>1. used' = used
    BY <1>7
    DEF used, Arrive, RateLimited, RateAdmitted, BudgetSkipped, Acquire, QueueTimeout, RunReturns,
        RunRaises, Release
  <2>2. InFlight' \subseteq InFlight
    BY <1>7
    DEF InFlight, Arrive, RateLimited, RateAdmitted, BudgetSkipped, Acquire, QueueTimeout,
        AfterTimeout, RunReturns, RunRaises, Release, Goto, requestVars, TypeOK
  <2> QED
    BY <1>1, <1>5, <2>1, <2>2
\* A look at the account clears it, or leaves it as it is.
<1>8. ASSUME budget' \in {budget, Rollover(budget)}
      PROVE  used' <= used
    BY <1>1, <1>8, RolloverType DEF used, TypeOK, Account
\* Who passes the check has seen room for one call at least.
<1>9. ASSUME NEW t \in Threads, BudgetChecked(t)
      PROVE  used' + CallsPerRun * Cardinality(InFlight') <= top + CallsPerRun * all
  <2>1. CASE Exhausted(budget')
    <3>1. InFlight' \subseteq InFlight
        BY <1>9, <2>1 DEF BudgetChecked, InFlight, Goto, requestVars, TypeOK
    <3> QED
        BY <1>1, <1>5, <1>8, <1>9, <3>1 DEF BudgetChecked
  <2>2. CASE ~Exhausted(budget')
    <3>1. used' <= top
        BY <1>4, <2>2 DEF Exhausted, Remaining, used, top, Max0
    <3>2. Cardinality(InFlight') <= all
        BY <1>1, CountSubset DEF all
    <3>3. CallsPerRun * Cardinality(InFlight') <= CallsPerRun * all
        BY <1>1, <3>2, TimesMonotone
    <3>4. CallsPerRun * Cardinality(InFlight') \in Nat /\ CallsPerRun * all \in Nat
        BY <1>1
    <3> QED
        BY <1>1, <1>4, <3>1, <3>3, <3>4
  <2> QED
    BY <2>1, <2>2
\* A charge is of one run, which is under way no more.
<1>10. ASSUME NEW t \in Threads, Spend(t)
       PROVE  used' + CallsPerRun * Cardinality(InFlight') <= top + CallsPerRun * all
  <2>1. used' = used + (IF visitor[t] THEN 0 ELSE usage[t])
    BY <1>10, ChargeType DEF Spend, used
  <2>2. CASE visitor[t]
    <3>1. InFlight' \subseteq InFlight
        BY <1>10, <2>2 DEF Spend, InFlight, Goto, requestVars, TypeOK
    <3> QED
        BY <1>1, <1>5, <2>1, <2>2, <3>1
  <2>3. CASE ~visitor[t]
    <3>1. /\ t \in InFlight /\ t \notin InFlight'
          /\ \A u \in Threads : u # t => (u \in InFlight' <=> u \in InFlight)
        BY <1>10, <2>3 DEF Spend, InFlight, Goto, requestVars, TypeOK
    <3>2. Cardinality(InFlight') = Cardinality(InFlight) - 1
        BY <1>1, <3>1, CountMoves
    <3>3. CallsPerRun * Cardinality(InFlight) = CallsPerRun * Cardinality(InFlight') + CallsPerRun
        BY <1>1, <3>2
    <3>4. usage[t] \in Nat /\ usage[t] <= CallsPerRun
        BY <1>1 DEF TypeOK
    <3>5. CallsPerRun * Cardinality(InFlight') \in Nat /\ CallsPerRun * all \in Nat
        BY <1>1
    <3> QED
        BY <1>1, <1>2, <2>1, <2>3, <3>3, <3>4, <3>5
  <2> QED
    BY <2>2, <2>3
<1>11. ASSUME NEW t \in Threads, Report(t) \/ ReportRaises(t)
       PROVE  used' + CallsPerRun * Cardinality(InFlight') <= top + CallsPerRun * all
  <2>1. InFlight' \subseteq InFlight
    BY <1>11 DEF Report, ReportRaises, InFlight, Goto, requestVars, TypeOK
  <2> QED
    BY <1>1, <1>5, <1>8, <1>11, <2>1 DEF Report, ReportRaises
<1>12. CASE StatusPoll
  <2>1. InFlight' \subseteq InFlight
    BY <1>12 DEF StatusPoll, InFlight, requestVars
  <2> QED
    BY <1>1, <1>5, <1>8, <1>12, <2>1 DEF StatusPoll
<1>13. CASE Restart
  <2>1. InFlight' \subseteq InFlight /\ used' = 0
    BY <1>13 DEF Restart, InFlight, used
  <2> QED
    BY <1>1, <1>5, <2>1
<1> QED
    BY <1>6, <1>7, <1>9, <1>10, <1>11, <1>12, <1>13
    DEF Next, Handle, vars, requestVars, Call, Tick, Midnight

-----------------------------------------------------------------------------
(* The account and the bill.                                                 *)

\* Nothing is called before the slot is taken.
LEMMA UsageStartsAtZero ==
    ServerInv /\ [Next]_vars =>
        \A t \in Threads : pc'[t] \in {"rate_check", "budget_check", "queue"} => usage'[t] = 0
<1> SUFFICES ASSUME ServerInv, [Next]_vars, NEW t \in Threads,
                    pc'[t] \in {"rate_check", "budget_check", "queue"}
             PROVE  usage'[t] = 0
    OBVIOUS
<1> USE DEF ServerInv
<1>1. pc[t] \in {"rate_check", "budget_check", "queue"} => usage[t] = 0
    BY DEF AccountInv
<1>2. ASSUME NEW u \in Threads, Arrive(u) PROVE usage'[t] = 0
    BY <1>1, <1>2 DEF Arrive, Goto, TypeOK
<1>3. ASSUME NEW u \in Threads,
             RateLimited(u) \/ RateAdmitted(u) \/ BudgetSkipped(u) \/ BudgetChecked(u) \/ Acquire(u)
                \/ QueueTimeout(u)
      PROVE  usage'[t] = 0
    BY <1>1, <1>3
    DEF RateLimited, RateAdmitted, BudgetSkipped, BudgetChecked, Acquire, QueueTimeout,
        AfterTimeout, Goto, requestVars, TypeOK
<1>4. ASSUME NEW u \in Threads,
             RunReturns(u) \/ RunRaises(u) \/ Spend(u) \/ Report(u) \/ ReportRaises(u)
                \/ Release(u)
      PROVE  usage'[t] = 0
    BY <1>1, <1>4
    DEF RunReturns, RunRaises, Spend, Report, ReportRaises, Release, Goto, requestVars, TypeOK
<1>5. ASSUME NEW u \in Threads, Call(u) PROVE usage'[t] = 0
    BY <1>1, <1>5 DEF Call, TypeOK
<1>6. CASE Restart
    BY <1>6 DEF Restart
<1>7. CASE UNCHANGED <<pc, usage>>
    BY <1>1, <1>7
<1> QED
    BY <1>2, <1>3, <1>4, <1>5, <1>6, <1>7
    DEF Next, Handle, vars, requestVars, StatusPoll, Tick, Midnight

\* How the account stands to the bill: AccountInv without the part above.
Covered ==
    /\ budget.day <= today
    /\ budget.day = today => budget.calls_used <= bill + CallsPerRun
    /\ today = 1 => budget.calls_used <= bill
    /\ \A t \in Uncharged :
          /\ budget.day = today => budget.calls_used + usage[t] <= bill + CallsPerRun
          /\ today = 1 => budget.calls_used + usage[t] <= bill

LEMMA AccountTypes ==
    ASSUME TypeOK
    PROVE  /\ budget \in Account /\ budget.day \in Nat /\ budget.calls_used \in Nat
           /\ today \in Nat /\ today >= 1 /\ bill \in Nat /\ CallsPerRun \in Nat
           /\ \A t \in Threads : usage[t] \in Nat /\ usage[t] <= CallsPerRun
BY DEF TypeOK, Account, CallsPerRun

\* A step in which nothing is called or charged, and nobody joins the
\* uncharged but with no calls.
LEMMA QuietStep ==
    ASSUME TypeOK, Covered, UNCHANGED <<today, bill, usage>>,
           UNCHANGED budget \/ budget' = Rollover(budget),
           \A t \in Uncharged' : t \in Threads /\ (t \in Uncharged \/ usage[t] = 0)
    PROVE  Covered'
<1>1. /\ budget'.day = budget.day \/ budget'.day = today
      /\ budget'.calls_used = 0 \/ (UNCHANGED budget)
    BY AccountTypes, RolloverType DEF TypeOK, Rollover, Account
<1> USE AccountTypes DEF Covered
<1>2. CASE UNCHANGED budget
    BY <1>2
<1>3. CASE budget'.calls_used = 0
    BY <1>1, <1>3
<1> QED
    BY <1>1, <1>2, <1>3

LEMMA CoveredStep == ServerInv /\ [Next]_vars => Covered'
<1> SUFFICES ASSUME ServerInv, [Next]_vars PROVE Covered'
    OBVIOUS
<1> USE DEF ServerInv
<1>1. Covered
    BY DEF AccountInv, OverchargeIsBounded, Covered
\* Who is alone in the slot has the only run with uncharged calls.
<1>2. ASSUME NEW t \in Threads, NEW u \in Uncharged, pc[t] \in InRun PROVE u = t
    BY <1>2, OneRunAtATime DEF Uncharged, Inside, InRun
<1>3. ASSUME NEW t \in Threads,
             Arrive(t) \/ RateLimited(t) \/ RateAdmitted(t) \/ BudgetSkipped(t) \/ QueueTimeout(t)
                \/ BudgetChecked(t) \/ RunReturns(t) \/ RunRaises(t) \/ Release(t) \/ Report(t)
                \/ ReportRaises(t)
      PROVE  Covered'
  <2>1. UNCHANGED <<today, bill>> /\ (UNCHANGED budget \/ budget' = Rollover(budget))
    BY <1>3
    DEF Arrive, RateLimited, RateAdmitted, BudgetSkipped, QueueTimeout, BudgetChecked, RunReturns,
        RunRaises, Release, Report, ReportRaises
  <2>2. \A u \in Uncharged' : u \in Uncharged /\ usage'[u] = usage[u]
    BY <1>3
    DEF Uncharged, Arrive, RateLimited, RateAdmitted, BudgetSkipped, QueueTimeout, AfterTimeout,
        BudgetChecked, RunReturns, RunRaises, Release, Report, ReportRaises, Goto, requestVars, TypeOK
  <2>3. CASE UNCHANGED usage
    BY <1>1, <2>1, <2>2, <2>3, QuietStep DEF Uncharged
  <2>4. CASE Arrive(t)
    BY <1>1, <2>1, <2>2, <2>4 DEF Arrive, Covered
  <2> QED
    BY <1>3, <2>3, <2>4
    DEF RateLimited, RateAdmitted, BudgetSkipped, QueueTimeout, BudgetChecked, RunReturns,
        RunRaises, Release, Report, ReportRaises, requestVars
<1>4. ASSUME NEW t \in Threads, Acquire(t) PROVE Covered'
  <2>1. \A u \in Uncharged' : u \in Threads /\ (u \in Uncharged \/ usage[u] = 0)
    BY <1>4 DEF Uncharged, Acquire, Goto, requestVars, TypeOK, AccountInv
  <2> QED
    BY <1>1, <1>4, <2>1, QuietStep DEF Acquire, requestVars
\* An answered call is billed and becomes chargeable in one step.
<1>5. ASSUME NEW t \in Threads, Call(t) PROVE Covered'
  <2>1. /\ UNCHANGED <<budget, today, visitor>> /\ Uncharged' = Uncharged
        /\ usage' = [usage EXCEPT ![t] = usage[t] + 1]
        /\ bill' = IF visitor[t] THEN bill ELSE bill + 1
    BY <1>5 DEF Call, Uncharged
  <2>2. \A u \in Uncharged : u = t /\ ~visitor[t] /\ usage'[u] = usage[u] + 1 /\ bill' = bill + 1
    BY <1>2, <1>5, <2>1 DEF Call, InRun, Uncharged, TypeOK
  <2>3. bill' >= bill /\ bill' \in Nat
    BY <2>1, AccountTypes
  <2>4. \A u \in Uncharged : usage[u] \in Nat /\ usage'[u] = usage[u] + 1 /\ bill' = bill + 1
    BY <2>2, AccountTypes DEF Uncharged
  <2> QED
    BY <1>1, <2>1, <2>3, <2>4, AccountTypes DEF Covered
\* The charge moves a run's calls from one side of the sum to the other.
<1>6. ASSUME NEW t \in Threads, Spend(t) PROVE Covered'
  <2>1. /\ UNCHANGED <<today, bill>> /\ budget'.day = budget.day
        /\ budget'.calls_used = budget.calls_used + (IF visitor[t] THEN 0 ELSE usage[t])
    BY <1>6, ChargeType DEF Spend
  <2>2. ~visitor[t] => t \in Uncharged
    BY <1>6 DEF Spend, Goto, Uncharged
  <2>3. Uncharged' = {}
    <3>1. \A u \in Uncharged' : u \in Uncharged /\ u # t
        BY <1>6 DEF Spend, Goto, Uncharged, requestVars, TypeOK
    <3>2. pc[t] \in InRun
        BY <1>6 DEF Spend, Goto, InRun
    <3> QED
        BY <1>2, <3>1, <3>2
  <2> QED
    BY <1>1, <2>1, <2>2, <2>3, AccountTypes DEF Covered
<1>7. CASE StatusPoll \/ Tick
  <2>1. UNCHANGED <<today, bill, usage, pc, visitor>> /\ (UNCHANGED budget \/ budget' = Rollover(budget))
    BY <1>7 DEF StatusPoll, Tick, requestVars
  <2> QED
    BY <1>1, <2>1, QuietStep DEF Uncharged
\* After midnight the account is of another day, until someone looks at it.
<1>8. CASE Midnight
    BY <1>1, <1>8, AccountTypes DEF Midnight, Covered
<1>9. CASE Restart
    BY <1>9, AccountTypes DEF Restart, Covered, Uncharged
<1>10. CASE UNCHANGED vars
    BY <1>1, <1>10 DEF vars, requestVars, Covered, Uncharged
<1> QED
    BY <1>3, <1>4, <1>5, <1>6, <1>7, <1>8, <1>9, <1>10 DEF Next, Handle

LEMMA AccountStep == ServerInv /\ [Next]_vars => OverchargeIsBounded' /\ AccountInv'
BY UsageStartsAtZero, CoveredStep DEF Covered, AccountInv, OverchargeIsBounded

-----------------------------------------------------------------------------
(* The theorems.                                                             *)

LEMMA InitServerInv == Init => ServerInv
<1> SUFFICES ASSUME Init PROVE ServerInv
    OBVIOUS
<1>1. limiter!LimiterInv
    BY Proved!InitLimiterInv, SameLimiter DEF Init, MemoryInit
<1>2. /\ budget = [day |-> 0, calls_used |-> 0] /\ slot = 1 /\ boots = 1 /\ today = 1 /\ bill = 0
      /\ pc = [t \in Threads |-> "idle"] /\ ip \in [Threads -> IPs]
      /\ visitor = [t \in Threads |-> FALSE] /\ usage = [t \in Threads |-> 0]
    BY DEF Init, MemoryInit
<1>3. TypeOK
    BY <1>1, <1>2 DEF TypeOK, limiter!LimiterInv, Location, CallsPerRun
<1>4. SlotAccounting
  <2>1. {t \in Threads : pc[t] \in InRun} = {}
    BY <1>2 DEF InRun
  <2> QED
    BY <1>2, <2>1, FS_EmptySet DEF SlotAccounting
<1>5. OvershootIsBounded
  <2>1. InFlight = {}
    BY <1>2 DEF InFlight
  <2>2. Cardinality(InFlight) = 0 /\ Cardinality(Threads) \in Nat
    BY <2>1, FS_EmptySet, FS_CardinalityType
  <2>3. CallsPerRun \in Nat /\ Max0(DailyCallBudget - 1) \in Nat
    BY DEF CallsPerRun, Max0
  <2>4. CallsPerRun * Cardinality(InFlight) = 0 /\ CallsPerRun * Cardinality(Threads) \in Nat
    BY <2>2, <2>3
  <2> QED
    BY <1>2, <2>3, <2>4 DEF OvershootIsBounded
<1>6. OverchargeIsBounded /\ AccountInv
    BY <1>2 DEF OverchargeIsBounded, AccountInv, Uncharged, CallsPerRun
<1> QED
    BY <1>1, <1>3, <1>4, <1>5, <1>6 DEF ServerInv

\* The inductive invariant: types, the limiter's own invariant, the slot, the
\* overshoot and the account are kept by every step of the server.
THEOREM ServerInvariant == Spec => []ServerInv
<1>1. ServerInv /\ [Next]_vars => ServerInv'
    BY LimiterStays, ServerTypeStep, SlotStep, OvershootStep, AccountStep DEF ServerInv
<1> QED
    BY <1>1, InitServerInv, PTL DEF Spec

\* Runs are serialised, and the slot is neither leaked nor returned twice by a
\* timeout, an exception or a restart, whatever the number of workers
\* (app.py:15-18, 223-281).
THEOREM RunsAreSerialised == Spec => []SlotAccounting
BY ServerInvariant, PTL DEF ServerInv

\* The check and the charge are apart, so requests that pass the check together
\* are all charged after it; the account still exceeds the ceiling by at most
\* one run for each worker (app.py:139-149, 211, 237).
THEOREM OvershootBound == Spec => []OvershootIsBounded
BY ServerInvariant, PTL DEF ServerInv

\* The account of the first day never exceeds the bill, and that of a later day
\* does so by one run at most, the one that can span midnight; visitors' runs are
\* not in it and none is in it twice (app.py:139-149, 236-237).
THEOREM OverchargeBound == Spec => []OverchargeIsBounded
BY ServerInvariant, PTL DEF ServerInv

\* Nobody is refused for yesterday's spending: when the check refuses, today's
\* bill has reached the ceiling, short of one run (app.py:139-144, 211).
THEOREM RefusalsAreJustified == Spec => RefusalIsJustified
<1>1. ServerInv /\ ServerInv' /\ [Next]_vars =>
         [\A t \in Threads :
             pc[t] = "budget_check" /\ pc'[t] = "budget_exhausted"
                => bill + CallsPerRun >= DailyCallBudget]_vars
  <2> SUFFICES ASSUME ServerInv, ServerInv', Next, NEW t \in Threads,
                      pc[t] = "budget_check", pc'[t] = "budget_exhausted"
               PROVE  bill + CallsPerRun >= DailyCallBudget
    OBVIOUS
  <2> USE DEF ServerInv
  <2>1. BudgetChecked(t)
    <3>1. ASSUME NEW u \in Threads, Arrive(u) \/ Handle(u), ~BudgetChecked(u) PROVE FALSE
        BY <3>1
        DEF Handle, Arrive, RateLimited, RateAdmitted, BudgetSkipped, Acquire, QueueTimeout,
            AfterTimeout, Call, RunReturns, RunRaises, Spend, Report, ReportRaises, Release, Goto,
            TypeOK
    <3>2. ASSUME NEW u \in Threads, u # t, BudgetChecked(u) PROVE FALSE
        BY <3>2 DEF BudgetChecked, Goto, TypeOK
    <3>3. ~(StatusPoll \/ Tick \/ Midnight \/ Restart)
        BY DEF StatusPoll, Tick, Midnight, Restart
    <3> QED
        BY <3>1, <3>2, <3>3 DEF Next
  <2>2. budget'.day = today /\ UNCHANGED <<today, bill>>
    BY <2>1, RolloverType DEF BudgetChecked, TypeOK, Account
  <2>3. Exhausted(budget')
    BY <2>1 DEF BudgetChecked, Goto, TypeOK
  <2>4. budget'.calls_used <= bill + CallsPerRun
    BY <2>2 DEF OverchargeIsBounded
  <2>5. budget'.calls_used >= DailyCallBudget
    BY <2>3, AccountTypes DEF Exhausted, Remaining, Max0, TypeOK
  <2> QED
    BY <2>4, <2>5, AccountTypes DEF TypeOK
<1> QED
    BY <1>1, ServerInvariant, PTL DEF Spec, RefusalIsJustified

\* Inside the server, with its workers, its restarts and everything else it does
\* between the clock and the lock, the rate limit is the one RateLimiter
\* promises, from each start of the process to the next (app.py:152-161).
THEOREM LimitHoldsInServer == Spec => []limiter!WindowBound
<1>1. Init => limiter!WindowBound
    BY DEF Init, MemoryInit, limiter!LimiterInit, limiter!WindowBound
<1>2. ServerInv /\ ServerInv' /\ limiter!WindowBound /\ [Next]_vars => limiter!WindowBound'
  <2>1. CASE Restart
    BY <2>1 DEF Restart, limiter!WindowBound
  <2>2. CASE ~Restart
    BY <2>2, ServerDrivesLimiter, SameLimiter, SameLimiterNext, Proved!WindowBoundStep
    DEF ServerInv
  <2> QED
    BY <2>1, <2>2
<1> QED
    BY <1>1, <1>2, ServerInvariant, PTL DEF Spec
=============================================================================
