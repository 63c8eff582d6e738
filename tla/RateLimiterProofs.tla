------------------------- MODULE RateLimiterProofs --------------------------
(***************************************************************************)
(* The limiter is a limit, for every Limit, Window and lag: of any         *)
(* Limit + 1 successive admissions of an address the last comes more than  *)
(* Window - MaxLag after the first.  The argument is LimiterInv: the deque *)
(* holds the stamps of the last admissions in the order of the lock, and   *)
(* whatever was dropped from it is old enough.                             *)
(***************************************************************************)
EXTENDS RateLimiter, WellFoundedInduction, TLAPS

USE LimitAssumption, WindowAssumption, NoStampAssumption

\* Pruning drops a prefix, all of it expired, and stops at a live entry.
LEMMA LiveIsSuffix ==
    ASSUME NEW queue \in Seq(Nat), NEW s \in Nat
    PROVE  \E first \in 1..Len(queue) + 1 :
              /\ Live(queue, s) = SubSeq(queue, first, Len(queue))
              /\ \A i \in 1..first - 1 : s - queue[i] > Window
              /\ first <= Len(queue) => s - queue[first] <= Window
<1> DEFINE P(k) == /\ \A i \in 1..k - 1 : Expired(queue[i], s)
                   /\ k <= Len(queue) => ~Expired(queue[k], s)
           Q(k) == \A i \in 1..k - 1 : Expired(queue[i], s)
<1>1. \E k \in 1..Len(queue) + 1 : P(k)
  <2>1. CASE \A i \in 1..Len(queue) : Expired(queue[i], s)
    <3>1. P(Len(queue) + 1)
        BY <2>1
    <3> QED
        BY <3>1
  <2>2. CASE \E i \in 1..Len(queue) : ~Expired(queue[i], s)
    <3>1. PICK k \in 1..Len(queue) :
              /\ ~Expired(queue[k], s)
              /\ \A i \in 1..k - 1 : Expired(queue[i], s)
      <4> DEFINE T == {k \in 1..Len(queue) : ~Expired(queue[k], s)}
      <4>1. T \subseteq Nat /\ T # {}
        BY <2>2
      <4>2. PICK k \in T : \A j \in T : ~(<<j, k>> \in OpToRel(<, Nat))
        <5> HIDE DEF T
        <5> QED
            BY <4>1, NatLessThanWellFounded, WFMin
      <4>3. \A j \in T : ~(j < k)
        BY <4>1, <4>2 DEF OpToRel
      <4>4. ASSUME NEW i \in 1..k - 1 PROVE Expired(queue[i], s)
        <5>1. i \in 1..Len(queue) /\ i < k
            BY <4>1
        <5> QED
            BY <5>1, <4>3
      <4> QED
        BY <4>2, <4>4
    <3> QED
        BY <3>1
  <2> QED
    BY <2>1, <2>2
<1> DEFINE first == CHOOSE k \in 1..Len(queue) + 1 : P(k)
<1>2. first \in 1..Len(queue) + 1 /\ P(first)
    BY <1>1
<1>3. Live(queue, s) = SubSeq(queue, first, Len(queue))
    BY DEF Live
<1> HIDE DEF first
<1>4. /\ \A i \in 1..first - 1 : s - queue[i] > Window
      /\ first <= Len(queue) => s - queue[first] <= Window
  <2>1. first <= Len(queue) => queue[first] \in Nat
    BY <1>2
  <2> QED
    BY <1>2, <2>1 DEF Expired
<1> QED
    BY <1>2, <1>3, <1>4

\* An expired stamp belongs to an admission that is at most MaxLag younger.
LEMMA ExpiredMeansOld ==
    ASSUME NEW at \in Nat, NEW st \in Nat, NEW s \in Nat, NEW time \in Nat,
           s <= time, s - st > Window, at - st <= MaxLag
    PROVE  time - at > Window - MaxLag
OBVIOUS

\* Pruning keeps the deque a mirror of the log: an expired stamp is at most
\* MaxLag older than its admission.
LEMMA PruneMirrors ==
    ASSUME NEW queue \in Seq(Nat), NEW log \in Seq(Admission), NEW s \in Nat, NEW time \in Nat,
           s <= time, Mirrors(queue, log, time), FreshLog(log, time)
    PROVE  /\ Live(queue, s) \in Seq(Nat)
           /\ Len(Live(queue, s)) <= Len(queue)
           /\ Mirrors(Live(queue, s), log, time)
<1> DEFINE dropped == Len(log) - Len(queue)
           left == Live(queue, s)
<1>1. /\ dropped \in Nat
      /\ \A i \in 1..Len(queue) : queue[i] = log[dropped + i].stamp
      /\ \A i \in 1..dropped : time - log[i].at > Window - MaxLag
  <2>1. Len(log) \in Nat /\ Len(queue) \in Nat
    OBVIOUS
  <2>2. /\ dropped >= 0
        /\ \A i \in 1..Len(queue) : queue[i] = log[dropped + i].stamp
        /\ \A i \in 1..dropped : time - log[i].at > Window - MaxLag
    BY Zenon DEF Mirrors
  <2>3. dropped \in Nat
    BY <2>1, <2>2
  <2> QED
    BY <2>2, <2>3, Zenon
<1>2. \A i \in 1..Len(log) :
         /\ log[i].at \in Nat /\ log[i].stamp \in Nat
         /\ log[i].at - log[i].stamp <= MaxLag
  <2>1. \A i \in 1..Len(log) : log[i] \in Admission
    OBVIOUS
  <2>2. \A i \in 1..Len(log) : log[i].at \in Nat /\ log[i].stamp \in Nat
    BY <2>1 DEF Admission
  <2> QED
    BY <2>2 DEF FreshLog
<1>3. PICK first \in 1..Len(queue) + 1 :
         /\ left = SubSeq(queue, first, Len(queue))
         /\ \A i \in 1..first - 1 : s - queue[i] > Window
    BY LiveIsSuffix
<1>4. /\ left \in Seq(Nat)
      /\ Len(left) = Len(queue) + 1 - first
      /\ \A i \in 1..Len(left) : left[i] = queue[first - 1 + i]
    BY <1>3
<1>5. first \in Nat /\ first >= 1 /\ first - 1 <= Len(queue) /\ Len(queue) \in Nat /\ Len(log) \in Nat
    BY <1>3
<1> HIDE DEF left
<1>6. Len(log) - Len(left) = dropped + (first - 1)
    BY <1>4, <1>5
<1>7. \A i \in 1..Len(left) : left[i] = log[dropped + (first - 1) + i].stamp
  <2> SUFFICES ASSUME NEW i \in 1..Len(left)
               PROVE  left[i] = log[dropped + (first - 1) + i].stamp
    OBVIOUS
  <2>1. first - 1 + i \in 1..Len(queue)
    BY <1>4, <1>5
  <2>2. queue[first - 1 + i] = log[dropped + (first - 1 + i)].stamp
    BY <2>1, <1>1
  <2>3. dropped + (first - 1 + i) = dropped + (first - 1) + i
    BY <1>1, <1>5
  <2> QED
    BY <2>2, <2>3, <1>4
<1>8. \A i \in 1..dropped + (first - 1) : time - log[i].at > Window - MaxLag
  <2> SUFFICES ASSUME NEW i \in 1..dropped + (first - 1)
               PROVE  time - log[i].at > Window - MaxLag
    OBVIOUS
  <2>1. CASE i <= dropped
    BY <2>1, <1>1, <1>5
  <2>2. CASE i > dropped
    <3>1. /\ i - dropped \in 1..first - 1
          /\ i - dropped \in 1..Len(queue)
          /\ i \in 1..Len(log)
          /\ dropped + (i - dropped) = i
        BY <2>2, <1>1, <1>5
    <3>2. s - queue[i - dropped] > Window
        BY <3>1, <1>3
    <3>3. queue[i - dropped] = log[dropped + (i - dropped)].stamp
        BY <3>1, <1>1
    <3>4. s - log[i].stamp > Window
        BY <3>1, <3>2, <3>3
    <3>5. /\ log[i].at \in Nat /\ log[i].stamp \in Nat
          /\ log[i].at - log[i].stamp <= MaxLag
        BY <3>1, <1>2
    <3> QED
        BY <3>4, <3>5, ExpiredMeansOld
  <2> QED
    BY <2>1, <2>2, <1>1
<1> HIDE DEF dropped
<1>9. Mirrors(left, log, time)
  <2>1. Len(log) - Len(left) >= 0
    BY <1>1, <1>5, <1>6
  <2>2. \A i \in 1..Len(left) : left[i] = log[Len(log) - Len(left) + i].stamp
    BY <1>6, <1>7, Zenon
  <2>3. \A i \in 1..Len(log) - Len(left) : time - log[i].at > Window - MaxLag
    BY <1>6, <1>8, Zenon
  <2> QED
    BY <2>1, <2>2, <2>3, Zenon DEF Mirrors
<1> QED
    BY <1>4, <1>5, <1>9 DEF left
\* Admitting appends to both: the request's stamp and its admission.
LEMMA AppendMirrors ==
    ASSUME NEW queue \in Seq(Nat), NEW log \in Seq(Admission), NEW s \in Nat, NEW time \in Nat,
           s <= time, time - s <= MaxLag, Mirrors(queue, log, time), FreshLog(log, time)
    PROVE  LET a == [at |-> time, stamp |-> s] IN
           /\ Append(log, a) \in Seq(Admission)
           /\ Mirrors(Append(queue, s), Append(log, a), time)
           /\ FreshLog(Append(log, a), time)
<1> DEFINE a == [at |-> time, stamp |-> s]
           queue2 == Append(queue, s)
           log2 == Append(log, a)
           dropped == Len(log) - Len(queue)
<1>1. a \in Admission /\ a.at = time /\ a.stamp = s
    BY DEF Admission
<1> HIDE DEF a
<1>2. /\ log2 \in Seq(Admission)
      /\ Len(queue2) = Len(queue) + 1 /\ Len(log2) = Len(log) + 1
      /\ \A i \in 1..Len(queue) : queue2[i] = queue[i]
      /\ queue2[Len(queue) + 1] = s
      /\ \A i \in 1..Len(log) : log2[i] = log[i]
      /\ log2[Len(log) + 1] = a
    BY <1>1
<1>3. /\ dropped \in Nat /\ Len(queue) \in Nat /\ Len(log) \in Nat
      /\ \A i \in 1..Len(queue) : queue[i] = log[dropped + i].stamp
      /\ \A i \in 1..dropped : time - log[i].at > Window - MaxLag
  <2>1. /\ dropped >= 0
        /\ \A i \in 1..Len(queue) : queue[i] = log[dropped + i].stamp
        /\ \A i \in 1..dropped : time - log[i].at > Window - MaxLag
    BY Zenon DEF Mirrors
  <2>2. Len(queue) \in Nat /\ Len(log) \in Nat
    OBVIOUS
  <2> QED
    BY <2>1, <2>2
<1> HIDE DEF queue2, log2
<1>4. Len(log2) - Len(queue2) = dropped
    BY <1>2, <1>3
<1>5. \A i \in 1..Len(queue2) : queue2[i] = log2[dropped + i].stamp
  <2> SUFFICES ASSUME NEW i \in 1..Len(queue2) PROVE queue2[i] = log2[dropped + i].stamp
    OBVIOUS
  <2>1. CASE i = Len(queue) + 1
    <3>1. dropped + i = Len(log) + 1
        BY <2>1, <1>3
    <3> QED
        BY <2>1, <3>1, <1>1, <1>2
  <2>2. CASE i # Len(queue) + 1
    <3>1. i \in 1..Len(queue) /\ dropped + i \in 1..Len(log)
        BY <2>2, <1>2, <1>3
    <3> QED
        BY <3>1, <1>2, <1>3
  <2> QED
    BY <2>1, <2>2
<1>6. \A i \in 1..dropped : time - log2[i].at > Window - MaxLag
  <2>1. \A i \in 1..dropped : i \in 1..Len(log)
    BY <1>3
  <2> QED
    BY <2>1, <1>2, <1>3
<1> HIDE DEF dropped
<1>7. Mirrors(queue2, log2, time)
  <2>1. dropped >= 0
    BY <1>3
  <2> QED
    BY <2>1, <1>4, <1>5, <1>6, Zenon DEF Mirrors
<1>8. FreshLog(log2, time)
  <2> SUFFICES ASSUME NEW i \in 1..Len(log2)
               PROVE  /\ log2[i].at <= time /\ log2[i].stamp <= log2[i].at
                      /\ log2[i].at - log2[i].stamp <= MaxLag
    BY DEF FreshLog
  <2>1. CASE i = Len(log) + 1
    BY <2>1, <1>1, <1>2
  <2>2. CASE i # Len(log) + 1
    <3>1. i \in 1..Len(log)
        BY <2>2, <1>2, <1>3
    <3> QED
        BY <3>1, <1>2 DEF FreshLog
  <2> QED
    BY <2>1, <2>2
<1>9. /\ log2 \in Seq(Admission)
      /\ Mirrors(queue2, log2, time)
      /\ FreshLog(log2, time)
    BY <1>2, <1>7, <1>8
<1> QED
    BY <1>9, Zenon DEF a, queue2, log2

\* What is old stays old.
LEMMA LaterMirrors ==
    ASSUME NEW queue \in Seq(Nat), NEW log \in Seq(Admission),
           NEW time \in Nat, NEW later \in Nat, time <= later,
           Mirrors(queue, log, time), FreshLog(log, time)
    PROVE  Mirrors(queue, log, later) /\ FreshLog(log, later)
<1>1. \A i \in 1..Len(log) : log[i] \in Admission
    OBVIOUS
<1>2. \A i \in 1..Len(log) : log[i].at \in Nat
    BY <1>1 DEF Admission
<1>3. \A i \in 1..Len(log) - Len(queue) : i \in 1..Len(log)
    OBVIOUS
<1> QED
    BY <1>2, <1>3 DEF Mirrors, FreshLog

-----------------------------------------------------------------------------
LEMMA InitLimiterInv == LimiterInit => LimiterInv
<1> SUFFICES ASSUME LimiterInit PROVE LimiterInv
    OBVIOUS
<1>1. LimiterTypeOK
    BY DEF LimiterInit, LimiterTypeOK
<1>2. \A ip \in IPs : hits[ip] = <<>> /\ admitted[ip] = <<>>
    BY DEF LimiterInit
<1>3. StampsAreFresh
    BY <1>2 DEF LimiterInit, StampsAreFresh, FreshLog
<1>4. HitsAreTheLastAdmissions
  <2>1. Mirrors(<<>>, <<>>, now)
    BY DEF Mirrors
  <2>2. Len(<<>>) <= Limit
    OBVIOUS
  <2> QED
    BY <1>2, <2>1, <2>2, Zenon DEF HitsAreTheLastAdmissions
<1> QED
    BY <1>1, <1>3, <1>4 DEF LimiterInv

LEMMA ReadClockStep ==
    ASSUME LimiterInv, NEW t \in Threads, ReadClock(t)
    PROVE  LimiterInv'
<1>1. LimiterTypeOK'
    BY DEF LimiterInv, LimiterTypeOK, ReadClock
<1>2. StampsAreFresh'
    BY DEF LimiterInv, LimiterTypeOK, StampsAreFresh, ReadClock
<1>3. HitsAreTheLastAdmissions'
    BY DEF LimiterInv, HitsAreTheLastAdmissions, ReadClock
<1> QED
    BY <1>1, <1>2, <1>3 DEF LimiterInv

LEMMA TickStep ==
    ASSUME LimiterInv, Tick
    PROVE  LimiterInv'
<1>1. now \in Nat /\ now' \in Nat /\ now <= now'
    BY DEF LimiterInv, LimiterTypeOK, Tick
<1>2. LimiterTypeOK'
    BY <1>1 DEF LimiterInv, LimiterTypeOK, Tick
<1>3. ASSUME NEW ip \in IPs
      PROVE  /\ Len(hits'[ip]) <= Limit
             /\ Mirrors(hits'[ip], admitted'[ip], now')
             /\ FreshLog(admitted'[ip], now')
  <2>1. hits[ip] \in Seq(Nat) /\ admitted[ip] \in Seq(Admission)
    BY DEF LimiterInv, LimiterTypeOK
  <2>2. /\ Len(hits[ip]) <= Limit /\ Mirrors(hits[ip], admitted[ip], now)
        /\ FreshLog(admitted[ip], now)
    BY DEF LimiterInv, HitsAreTheLastAdmissions, StampsAreFresh
  <2>3. Mirrors(hits[ip], admitted[ip], now') /\ FreshLog(admitted[ip], now')
    BY <1>1, <2>1, <2>2, LaterMirrors
  <2> QED
    BY <2>2, <2>3 DEF Tick
<1>4. \A t \in Threads : stamp'[t] # None => stamp'[t] <= now' /\ now' - stamp'[t] <= MaxLag
    BY <1>1 DEF LimiterInv, LimiterTypeOK, StampsAreFresh, Tick
<1> QED
    BY <1>2, <1>3, <1>4 DEF LimiterInv, StampsAreFresh, HitsAreTheLastAdmissions

\* What the lock section does to the deque and the log of one address.
LEMMA CheckStep ==
    ASSUME LimiterInv, NEW t \in Threads, NEW ip \in IPs, Refuse(t, ip) \/ Admit(t, ip)
    PROVE  LimiterInv'
<1> DEFINE left == Live(hits[ip], stamp[t])
           a == [at |-> now, stamp |-> stamp[t]]
<1>1. /\ now \in Nat /\ now' = now
      /\ stamp[t] \in Nat /\ stamp[t] <= now /\ now - stamp[t] <= MaxLag
      /\ stamp' = [stamp EXCEPT ![t] = None]
    BY DEF LimiterInv, LimiterTypeOK, StampsAreFresh, Refuse, Admit
<1>2. /\ hits \in [IPs -> Seq(Nat)] /\ admitted \in [IPs -> Seq(Admission)]
      /\ stamp \in [Threads -> Nat \cup {None}]
    BY DEF LimiterInv, LimiterTypeOK
<1>3. \A i \in IPs : /\ Len(hits[i]) <= Limit
                      /\ Mirrors(hits[i], admitted[i], now)
                      /\ FreshLog(admitted[i], now)
    BY DEF LimiterInv, HitsAreTheLastAdmissions, StampsAreFresh
<1>4. /\ left \in Seq(Nat) /\ Len(left) <= Len(hits[ip]) /\ Mirrors(left, admitted[ip], now)
    BY <1>1, <1>2, <1>3, PruneMirrors
<1>5. PICK q \in Seq(Nat), log \in Seq(Admission) :
         /\ hits' = [hits EXCEPT ![ip] = q]
         /\ admitted' = [admitted EXCEPT ![ip] = log]
         /\ Len(q) <= Limit
         /\ Mirrors(q, log, now)
         /\ FreshLog(log, now)
  <2>1. CASE Refuse(t, ip)
    <3>1. hits' = [hits EXCEPT ![ip] = left] /\ admitted' = [admitted EXCEPT ![ip] = admitted[ip]]
        BY <2>1, <1>2 DEF Refuse
    <3>2. Len(left) <= Limit
        BY <1>2, <1>3, <1>4
    <3> HIDE DEF left
    <3> QED
        BY <3>1, <3>2, <1>2, <1>3, <1>4
  <2>2. CASE Admit(t, ip)
    <3>1. /\ hits' = [hits EXCEPT ![ip] = Append(left, stamp[t])]
          /\ admitted' = [admitted EXCEPT ![ip] = Append(admitted[ip], a)]
          /\ ~Full(left)
        BY <2>2 DEF Admit
    <3>2. Len(left) < Limit
        BY <3>1, <1>4 DEF Full
    <3> HIDE DEF left
    <3>3. Append(left, stamp[t]) \in Seq(Nat) /\ Len(Append(left, stamp[t])) <= Limit
        BY <3>2, <1>1, <1>4
    <3>4. /\ Append(admitted[ip], a) \in Seq(Admission)
          /\ Mirrors(Append(left, stamp[t]), Append(admitted[ip], a), now)
          /\ FreshLog(Append(admitted[ip], a), now)
        BY <1>1, <1>2, <1>3, <1>4, AppendMirrors
    <3> HIDE DEF a
    <3> QED
        BY <3>1, <3>3, <3>4
  <2> QED
    BY <2>1, <2>2
<1>6. LimiterTypeOK'
    BY <1>1, <1>2, <1>5 DEF LimiterTypeOK
<1>7. \A i \in IPs : /\ Len(hits'[i]) <= Limit
                      /\ Mirrors(hits'[i], admitted'[i], now')
                      /\ FreshLog(admitted'[i], now')
  <2> SUFFICES ASSUME NEW i \in IPs
               PROVE  /\ Len(hits'[i]) <= Limit
                      /\ Mirrors(hits'[i], admitted'[i], now')
                      /\ FreshLog(admitted'[i], now')
    OBVIOUS
  <2>1. CASE i = ip
    BY <2>1, <1>1, <1>2, <1>5
  <2>2. CASE i # ip
    <3>1. hits'[i] = hits[i] /\ admitted'[i] = admitted[i]
        BY <2>2, <1>2, <1>5
    <3> QED
        BY <3>1, <1>1, <1>3
  <2> QED
    BY <2>1, <2>2
<1>8. \A u \in Threads : stamp'[u] # None => stamp'[u] <= now' /\ now' - stamp'[u] <= MaxLag
    BY <1>1, <1>2 DEF LimiterInv, StampsAreFresh
<1> QED
    BY <1>6, <1>7, <1>8 DEF LimiterInv, StampsAreFresh, HitsAreTheLastAdmissions

LEMMA LimiterStep == LimiterInv /\ [LimiterNext]_limiterVars => LimiterInv'
<1> SUFFICES ASSUME LimiterInv, [LimiterNext]_limiterVars PROVE LimiterInv'
    OBVIOUS
<1>1. CASE LimiterNext
    BY <1>1, TickStep, ReadClockStep, CheckStep DEF LimiterNext
<1>2. CASE UNCHANGED limiterVars
    BY <1>2 DEF limiterVars, LimiterInv, LimiterTypeOK, StampsAreFresh, FreshLog,
                HitsAreTheLastAdmissions, Mirrors
<1> QED
    BY <1>1, <1>2

\* Whatever the order in which threads reach the lock, the deque holds the
\* stamps of the last admissions and has dropped only old ones.
THEOREM LimiterInvariant == LimiterSpec => []LimiterInv
BY InitLimiterInv, LimiterStep, PTL DEF LimiterSpec
-----------------------------------------------------------------------------
(* The bound.  An admission leaves fewer than Limit older entries in the     *)
(* deque, so the one Limit before it was dropped, and is old.                *)

LEMMA WindowBoundStep ==
    LimiterInv /\ LimiterInv' /\ WindowBound /\ [LimiterNext]_limiterVars => WindowBound'
<1> SUFFICES ASSUME LimiterInv, LimiterInv', WindowBound, [LimiterNext]_limiterVars
             PROVE  WindowBound'
    OBVIOUS
<1>1. CASE UNCHANGED admitted
    BY <1>1 DEF WindowBound
<1>2. ASSUME NEW t \in Threads, NEW ip \in IPs, Admit(t, ip)
      PROVE  WindowBound'
  <2> DEFINE log == admitted[ip]
             log2 == admitted'[ip]
             queue2 == hits'[ip]
             a == [at |-> now, stamp |-> stamp[t]]
  <2>1. /\ admitted \in [IPs -> Seq(Admission)] /\ hits' \in [IPs -> Seq(Nat)]
        /\ now \in Nat /\ now' = now /\ stamp[t] \in Nat
        /\ admitted' = [admitted EXCEPT ![ip] = Append(log, a)]
    BY <1>2 DEF LimiterInv, LimiterTypeOK, Admit
  <2>2. /\ Len(queue2) <= Limit
        /\ Mirrors(queue2, log2, now)
    BY <2>1 DEF LimiterInv, HitsAreTheLastAdmissions
  <2>3. a \in Admission /\ a.at = now
    BY <2>1 DEF Admission
  <2> HIDE DEF a
  <2>4. /\ log \in Seq(Admission)
        /\ log2 = Append(log, a)
        /\ Len(log) \in Nat /\ Len(log2) = Len(log) + 1
        /\ \A i \in 1..Len(log) : log2[i] = log[i]
        /\ log2[Len(log) + 1] = a
    BY <2>1, <2>3
  <2>5. \A i \in 1..Len(log2) - Len(queue2) : now - log2[i].at > Window - MaxLag
    BY <2>2, Zenon DEF Mirrors
  <2>6. queue2 \in Seq(Nat) /\ Len(queue2) \in Nat
    BY <2>1
  <2>7. ASSUME NEW i \in DOMAIN log2, i + Limit \in DOMAIN log2
        PROVE  log2[i + Limit].at - log2[i].at > Window - MaxLag
    <3>1. i \in 1..Len(log) + 1 /\ i + Limit \in 1..Len(log) + 1
        BY <2>4, <2>7
    <3>2. CASE i + Limit = Len(log) + 1
      <4>1. Len(queue2) <= Limit /\ Len(log2) = i + Limit /\ i \in Nat /\ i >= 1
        BY <3>1, <3>2, <2>2, <2>4
      <4>2. i \in 1..Len(log2) - Len(queue2)
        BY <4>1, <2>6
      <4>3. now - log2[i].at > Window - MaxLag
        BY <4>2, <2>5
      <4> QED
        BY <4>3, <3>2, <2>3, <2>4
    <3>3. CASE i + Limit # Len(log) + 1
      <4>1. i \in 1..Len(log) /\ i + Limit \in 1..Len(log)
        BY <3>1, <3>3, <2>4
      <4>2. i \in DOMAIN log /\ i + Limit \in DOMAIN log
        BY <4>1, <2>4
      <4>3. log[i + Limit].at - log[i].at > Window - MaxLag
        BY <4>2 DEF WindowBound
      <4> QED
        BY <4>1, <4>3, <2>4
    <3> QED
        BY <3>2, <3>3
  <2>8. \A j \in IPs : j # ip => admitted'[j] = admitted[j]
    BY <2>1
  <2> QED
    BY <2>7, <2>8 DEF WindowBound
<1> QED
    BY <1>1, <1>2 DEF LimiterNext, limiterVars, Tick, ReadClock, Refuse

\* No address gets more than Limit requests through in Window - MaxLag,
\* whatever the limit, the window and the order of the threads (app.py:152-161).
THEOREM LimitHolds == LimiterSpec => []WindowBound
<1>1. LimiterInit => WindowBound
    BY DEF LimiterInit, WindowBound
<1>2. LimiterInv /\ LimiterInv' /\ WindowBound /\ [LimiterNext]_limiterVars => WindowBound'
    BY WindowBoundStep
<1> QED
    BY <1>1, <1>2, LimiterInvariant, PTL DEF LimiterSpec

-----------------------------------------------------------------------------
(* And nobody is refused early.  A deque that is full after pruning was not  *)
(* pruned at all, so its oldest stamp is in the window, and stamps are no    *)
(* more than MaxLag older than the admissions they are of.                   *)

LEMMA RefusalMeansRecent ==
    ASSUME LimiterInv, NEW t \in Threads, NEW ip \in IPs,
           stamp[t] # None, Full(Live(hits[ip], stamp[t]))
    PROVE  /\ Len(admitted[ip]) >= Limit
           /\ Len(admitted[ip]) + 1 - Limit \in RecentlyAdmitted(ip, Window + MaxLag)
<1> DEFINE queue == hits[ip]
           log == admitted[ip]
           s == stamp[t]
           oldest == Len(log) + 1 - Limit
<1>1. /\ queue \in Seq(Nat) /\ log \in Seq(Admission) /\ now \in Nat
      /\ s \in Nat /\ s <= now /\ now - s <= MaxLag
    BY DEF LimiterInv, LimiterTypeOK, StampsAreFresh
<1>2. Len(queue) <= Limit /\ Mirrors(queue, log, now) /\ FreshLog(log, now)
    BY DEF LimiterInv, HitsAreTheLastAdmissions, StampsAreFresh
<1>3. PICK first \in 1..Len(queue) + 1 :
         /\ Live(queue, s) = SubSeq(queue, first, Len(queue))
         /\ first <= Len(queue) => s - queue[first] <= Window
    BY <1>1, LiveIsSuffix
<1>4. Len(Live(queue, s)) = Len(queue) + 1 - first /\ Len(queue) \in Nat /\ Len(log) \in Nat
    BY <1>1, <1>3
<1>5. first = 1 /\ Len(queue) = Limit
    BY <1>2, <1>3, <1>4 DEF Full
<1>6. s - queue[1] <= Window
    BY <1>3, <1>5
<1> HIDE DEF queue, log, s
<1>7. /\ Len(log) - Len(queue) >= 0
      /\ queue[1] = log[Len(log) - Len(queue) + 1].stamp
    BY <1>2, <1>4, <1>5 DEF Mirrors
<1>8. /\ oldest = Len(log) - Len(queue) + 1 /\ oldest \in 1..Len(log)
      /\ queue[1] = log[oldest].stamp
    BY <1>4, <1>5, <1>7
<1>9. /\ log[oldest].at \in Nat /\ log[oldest].stamp \in Nat
      /\ log[oldest].stamp <= log[oldest].at
  <2>1. log[oldest] \in Admission
    BY <1>1, <1>8
  <2> QED
    BY <2>1, <1>2, <1>8 DEF Admission, FreshLog
<1>10. now - log[oldest].at <= Window + MaxLag
  <2>1. s - log[oldest].stamp <= Window
    BY <1>6, <1>8
  <2> HIDE DEF oldest
  <2> QED
    BY <2>1, <1>1, <1>9
<1>11. Len(log) >= Limit /\ oldest \in DOMAIN log
    BY <1>1, <1>4, <1>5, <1>7, <1>8
<1> QED
    BY <1>10, <1>11 DEF RecentlyAdmitted, log

\* Nobody is turned away early, whatever the order in which threads reach the
\* lock: a refused address had Limit requests admitted in the last
\* Window + MaxLag (app.py:155-159).
THEOREM RefusalsAreDeserved == LimiterSpec => []RefusalIsDeserved
<1>1. LimiterInv => RefusalIsDeserved
    BY RefusalMeansRecent DEF RefusalIsDeserved
<1> QED
    BY <1>1, LimiterInvariant, PTL
=============================================================================
