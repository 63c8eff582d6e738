---------------------------- MODULE RateLimiter -----------------------------
(***************************************************************************)
(* The per-IP limiter of serve/app.py, _rate_limited: a deque of the times *)
(* of the last admitted requests, pruned from the front, with a request    *)
(* refused while Limit entries are left.                                   *)
(*                                                                         *)
(* The function reads the clock before it takes _state_lock.  Threads that *)
(* are preempted in between take the lock with an old time, so the deque   *)
(* need not be sorted and its entries need not be the times of admission.  *)
(***************************************************************************)
EXTENDS Integers, Sequences

CONSTANTS
    Threads,    \* the workers of the threadpool
    IPs,        \* the clients, as told apart by address
    Limit,      \* RATE_LIMIT_REQUESTS
    Window,     \* RATE_LIMIT_WINDOW_SEC
    MaxLag,     \* how long a thread can be held up between clock and lock
    MaxTime,    \* bound on the clock
    None

ASSUME LimitAssumption == Limit \in Nat \ {0}
ASSUME WindowAssumption == Window \in Nat /\ MaxLag \in Nat /\ MaxTime \in Nat
ASSUME NoStampAssumption == None \notin Nat

VARIABLES
    now,        \* time.monotonic()
    stamp,      \* per thread, the time it has read and not used yet
    hits,       \* _ip_hits
    admitted    \* per IP, every admission: when it happened and its time stamp

limiterVars == <<now, stamp, hits, admitted>>

Admission == [at : Nat, stamp : Nat]

LimiterTypeOK ==
    /\ now \in Nat
    /\ stamp \in [Threads -> Nat \cup {None}]
    /\ hits \in [IPs -> Seq(Nat)]
    /\ admitted \in [IPs -> Seq(Admission)]

\* The entries left once those more than Window older than s are popped from
\* the front; the first one that is not stops the loop.
Expired_Early(h, s) == s - h >= Window
Expired(h, s) == s - h > Window

Live_NeverPruned(queue, s) == queue
Live(queue, s) ==
    LET first == CHOOSE k \in 1..Len(queue) + 1 :
                    /\ \A i \in 1..k - 1 : Expired(queue[i], s)
                    /\ k <= Len(queue) => ~Expired(queue[k], s)
    IN  SubSeq(queue, first, Len(queue))

\* The test of the queue's length against the limit.
Full_OffByOne(queue) == Len(queue) > Limit
Full(queue) == Len(queue) >= Limit

LimiterInit ==
    /\ now = 0
    /\ stamp = [t \in Threads |-> None]
    /\ hits = [i \in IPs |-> <<>>]
    /\ admitted = [i \in IPs |-> <<>>]

\* now = time.monotonic(), outside the lock.
ReadClock(t) ==
    /\ stamp[t] = None
    /\ stamp' = [stamp EXCEPT ![t] = now]
    /\ UNCHANGED <<now, hits, admitted>>

\* Under the lock: prune, and either refuse or remember the request.
Refuse(t, ip) ==
    /\ stamp[t] # None
    /\ Full(Live(hits[ip], stamp[t]))
    /\ hits' = [hits EXCEPT ![ip] = Live(hits[ip], stamp[t])]
    /\ stamp' = [stamp EXCEPT ![t] = None]
    /\ UNCHANGED <<now, admitted>>

Admit(t, ip) ==
    /\ stamp[t] # None
    /\ ~Full(Live(hits[ip], stamp[t]))
    /\ hits' = [hits EXCEPT ![ip] = Append(Live(hits[ip], stamp[t]), stamp[t])]
    /\ admitted' = [admitted EXCEPT ![ip] = Append(@, [at |-> now, stamp |-> stamp[t]])]
    /\ stamp' = [stamp EXCEPT ![t] = None]
    /\ UNCHANGED now

\* Time passes, but never so far that a thread's reading is older than MaxLag.
Tick ==
    /\ now < MaxTime
    /\ \A t \in Threads : stamp[t] # None => now + 1 - stamp[t] <= MaxLag
    /\ now' = now + 1
    /\ UNCHANGED <<stamp, hits, admitted>>

LimiterNext ==
    \/ Tick
    \/ \E t \in Threads : ReadClock(t)
    \/ \E t \in Threads, ip \in IPs : Refuse(t, ip) \/ Admit(t, ip)

LimiterSpec == LimiterInit /\ [][LimiterNext]_limiterVars

-----------------------------------------------------------------------------
(* Properties *)

\* The limit is a limit: of any Limit + 1 successive admissions of an address,
\* the last comes more than Window - MaxLag after the first.  Stale clock
\* readings and an unsorted deque cost the limiter no more than MaxLag.
WindowBound ==
    \A ip \in IPs : \A i \in DOMAIN admitted[ip] :
        i + Limit \in DOMAIN admitted[ip] =>
            admitted[ip][i + Limit].at - admitted[ip][i].at > Window - MaxLag

\* The requests of an address that were admitted at most d ago.
RecentlyAdmitted(ip, d) == {i \in DOMAIN admitted[ip] : now - admitted[ip][i].at <= d}

\* Nobody is turned away early: a refusal (a pruned queue that is still full)
\* means that Limit requests of the address were admitted in the last
\* Window + MaxLag.
RefusalIsDeserved ==
    \A t \in Threads, ip \in IPs :
        stamp[t] # None /\ Full(Live(hits[ip], stamp[t])) =>
            /\ Len(admitted[ip]) >= Limit
            /\ Len(admitted[ip]) + 1 - Limit \in RecentlyAdmitted(ip, Window + MaxLag)

\* The deque is what the limiter can know of the log: the stamps of the last
\* admissions, in the order of the lock, and what it has dropped is old.
Mirrors(queue, log, time) ==
    LET dropped == Len(log) - Len(queue) IN
    /\ dropped >= 0
    /\ \A i \in 1..Len(queue) : queue[i] = log[dropped + i].stamp
    /\ \A i \in 1..dropped : time - log[i].at > Window - MaxLag

HitsAreTheLastAdmissions ==
    \A ip \in IPs : Len(hits[ip]) <= Limit /\ Mirrors(hits[ip], admitted[ip], now)

\* What makes WindowBound inductive: stamps are at most MaxLag old when they
\* are read and when they are used.
FreshLog(log, time) ==
    \A i \in 1..Len(log) :
        log[i].at <= time /\ log[i].stamp <= log[i].at /\ log[i].at - log[i].stamp <= MaxLag

StampsAreFresh ==
    /\ \A t \in Threads : stamp[t] # None => stamp[t] <= now /\ now - stamp[t] <= MaxLag
    /\ \A ip \in IPs : FreshLog(admitted[ip], now)

LimiterInv == LimiterTypeOK /\ StampsAreFresh /\ HitsAreTheLastAdmissions
=============================================================================
