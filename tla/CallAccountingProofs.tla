------------------------ MODULE CallAccountingProofs ------------------------
(* That every call is made with the key of its request and counted in its    *)
(* innermost scope, for any threads, requests, keys and nesting.             *)
EXTENDS CallAccounting, SequenceTheorems, TLAPS

\* The invariant with the separation of keys, which only together are inductive.
IInv == AccountingInv /\ KeysStayApart

-----------------------------------------------------------------------------
(* Constants *)

LEMMA KeyFacts ==
    /\ SharedKey \in Keys /\ SharedKey # None
    /\ \A r \in Requests :
          /\ VisitorKey[r] \in Keys \cup {None}
          /\ KeyOf[r] \in Keys
          /\ VisitorKey[r] # None => KeyOf[r] = VisitorKey[r]
          /\ VisitorKey[r] = None => KeyOf[r] = SharedKey
BY AccountingAssumption DEF KeyOf

LEMMA ScopeFacts ==
    ASSUME NEW r \in Requests, NEW d \in 1..MaxNesting
    PROVE  <<r, d>> \in Scope /\ <<r, d>> # None
BY AccountingAssumption DEF Scope

-----------------------------------------------------------------------------
(* A thread's stack of saved scopes. *)

LEMMA Pushed ==
    ASSUME NEW stack \in Seq(Scope \cup {None}), NEW scope \in Scope \cup {None}
    PROVE  /\ Append(stack, scope) \in Seq(Scope \cup {None})
           /\ Len(Append(stack, scope)) = Len(stack) + 1
           /\ \A i \in 1..Len(stack) : Append(stack, scope)[i] = stack[i]
           /\ Append(stack, scope)[Len(stack) + 1] = scope
BY AppendProperties

LEMMA Popped ==
    ASSUME NEW stack \in Seq(Scope \cup {None}), Len(stack) > 0
    PROVE  /\ SubSeq(stack, 1, Len(stack) - 1) \in Seq(Scope \cup {None})
           /\ Len(SubSeq(stack, 1, Len(stack) - 1)) = Len(stack) - 1
           /\ \A i \in 1..Len(stack) - 1 : SubSeq(stack, 1, Len(stack) - 1)[i] = stack[i]
           /\ stack[Len(stack)] \in Scope \cup {None}
<1> DEFINE n == Len(stack)
<1>1. n \in Nat /\ \A i \in 1..n : stack[i] \in Scope \cup {None}
  BY LenProperties, ElementOfSeq
<1>2. n > 0
  OBVIOUS
<1> HIDE DEF n
<1>3. 1 \in Int /\ n - 1 \in Int /\ \A i \in 1..n - 1 : stack[i] \in Scope \cup {None}
  BY <1>1
<1> DEFINE rest == SubSeq(stack, 1, n - 1)
<1>4. /\ rest \in Seq(Scope \cup {None})
      /\ Len(rest) = IF 1 <= n - 1 THEN (n - 1) - 1 + 1 ELSE 0
      /\ \A i \in 1..(n - 1) - 1 + 1 : rest[i] = stack[1 + i - 1]
  BY <1>3, SubSeqProperties
<1> HIDE DEF rest
<1>5. Len(rest) = n - 1
  BY <1>1, <1>2, <1>4
<1>6. \A i \in 1..n - 1 : rest[i] = stack[i]
  <2>1. SUFFICES ASSUME NEW i \in 1..n - 1 PROVE rest[i] = stack[i]
    OBVIOUS
  <2>2. (n - 1) - 1 + 1 = n - 1 /\ 1 + i - 1 = i
    BY <1>1
  <2> QED
    BY <1>4, <2>2
<1>7. stack[n] \in Scope \cup {None}
  BY <1>1, <1>2
<1> QED
  BY <1>4, <1>5, <1>6, <1>7 DEF rest, n

-----------------------------------------------------------------------------
(* The invariant holds at first and is kept. *)

LEMMA Initially == Init => IInv
<1>1. SUFFICES ASSUME Init PROVE IInv
  OBVIOUS
<1>2. <<>> \in Seq(Scope \cup {None}) /\ Len(<<>>) = 0
  BY EmptySeq
<1>3. TypeOK
  BY <1>1, <1>2 DEF Init, TypeOK
<1>4. \A t \in Workers : Depth(t) = 0
  BY <1>1, <1>2 DEF Init, Depth
<1>5. ScopesNest
  BY <1>1, <1>4 DEF Init, ScopesNest
<1>6. Serving /\ KeyInContext /\ KeysStayApart
  BY <1>1, KeyFacts DEF Init, Serving, KeyInContext, KeysStayApart
<1> QED
  BY <1>3, <1>5, <1>6 DEF IInv, AccountingInv

\* The request of a thread that is not idle, and the scopes it may open.
LEMMA AtWork ==
    ASSUME IInv, NEW t \in Workers, stage[t] # "idle"
    PROVE  /\ request[t] \in Requests /\ request[t] \in served /\ request[t] # None
           /\ Nesting[request[t]] \in 0..MaxNesting
           /\ Depth(t) \in Nat
           /\ saved[t] \in Seq(Scope \cup {None})
<1>1. request[t] \in Requests /\ request[t] \in served
  BY DEF IInv, AccountingInv, TypeOK, Serving
<1>2. saved[t] \in Seq(Scope \cup {None})
  BY DEF IInv, AccountingInv, TypeOK
<1>3. Depth(t) \in Nat
  BY <1>2, LenProperties DEF Depth
<1> QED
  BY <1>1, <1>2, <1>3, AccountingAssumption

\* No request has more scopes open than it nests.
LEMMA DepthBound ==
    ASSUME IInv, NEW t \in Workers
    PROVE  /\ Depth(t) \in Nat
           /\ Depth(t) > 0 => stage[t] # "idle"
           /\ stage[t] # "idle" => Depth(t) <= Nesting[request[t]] /\ Depth(t) \in 0..MaxNesting
<1>1. Depth(t) \in Nat
  BY LenProperties DEF IInv, AccountingInv, TypeOK, Depth
<1>2. Depth(t) <= IF stage[t] \in {"idle", "begun"} THEN 0 ELSE Nesting[request[t]]
  BY DEF IInv, AccountingInv, ScopesNest
<1>3. CASE stage[t] = "idle"
  BY <1>1, <1>2, <1>3
<1>4. CASE stage[t] # "idle"
  <2>1. Nesting[request[t]] \in Nat /\ MaxNesting \in Nat /\ Nesting[request[t]] <= MaxNesting
    BY <1>4, AtWork, AccountingAssumption
  <2>2. Depth(t) <= Nesting[request[t]]
    BY <1>1, <1>2, <2>1
  <2> QED
    BY <1>1, <1>4, <2>1, <2>2
<1> QED
  BY <1>3, <1>4

\* Steps that have nothing to do with scopes.
LEMMA ScopesUndisturbed ==
    ASSUME IInv, UNCHANGED <<request, active, saved, usages, served>>,
           \A t \in Workers : stage'[t] \in {"idle", "begun"} => stage[t] \in {"idle", "begun"},
           \A t \in Workers : stage[t] = "idle" => stage'[t] = "idle"
    PROVE  ScopesNest'
<1>1. \A t \in Workers : Depth(t)' = Depth(t)
  BY DEF Depth
<1>2. ASSUME NEW t \in Workers
      PROVE  Depth(t)' <= IF stage'[t] \in {"idle", "begun"} THEN 0 ELSE Nesting[request'[t]]
  <2>1. Depth(t) <= IF stage[t] \in {"idle", "begun"} THEN 0 ELSE Nesting[request[t]]
    BY DEF IInv, AccountingInv, ScopesNest
  <2>2. CASE stage[t] = "idle"
    BY <1>1, <2>1, <2>2
  <2>3. CASE stage[t] # "idle"
    <3>1. Nesting[request[t]] \in Nat /\ Depth(t) \in Nat
      BY <2>3, AtWork
    <3> QED
      BY <1>1, <2>1, <3>1
  <2> QED
    BY <2>2, <2>3
<1> QED
  BY <1>1, <1>2 DEF IInv, AccountingInv, ScopesNest

LEMMA BeginKeeps ==
    ASSUME IInv, NEW t \in Workers, Begin(t)
    PROVE  IInv'
<1> USE DEF IInv, AccountingInv
<1>1. PICK r \in Requests \ served : request' = [request EXCEPT ![t] = r] /\ served' = served \cup {r}
  BY DEF Begin
<1>2. r # None
  BY AccountingAssumption
<1>3. TypeOK'
  BY <1>1 DEF Begin, TypeOK
<1>4. Serving'
  BY <1>1, <1>2 DEF Begin, TypeOK, Serving
<1>5. KeyInContext'
  BY <1>1 DEF Begin, TypeOK, KeyInContext
<1>6. KeysStayApart'
  BY <1>1 DEF Begin, TypeOK, KeysStayApart, KeyInContext
<1>7. ScopesNest'
  <2>1. \A u \in Workers : Depth(u)' = Depth(u)
    BY DEF Begin, Depth
  <2>2. Depth(t) \in Nat /\ Depth(t) <= 0
    BY LenProperties DEF Begin, TypeOK, ScopesNest, Depth
  <2>3. \A s \in Scope : s[1] \notin served' => usages'[s] = None
    BY <1>1 DEF Begin, ScopesNest
  <2>4. ASSUME NEW u \in Workers
        PROVE  /\ active'[u] = IF Depth(u)' = 0 THEN None ELSE <<request'[u], Depth(u)'>>
               /\ \A i \in 1..Depth(u)' :
                     /\ saved'[u][i] = IF i = 1 THEN None ELSE <<request'[u], i - 1>>
                     /\ usages'[<<request'[u], i>>] # None
               /\ Depth(u)' <= IF stage'[u] \in {"idle", "begun"} THEN 0 ELSE Nesting[request'[u]]
    <3>1. CASE u = t
      BY <1>1, <2>1, <2>2, <3>1 DEF Begin, TypeOK, ScopesNest
    <3>2. CASE u # t
      <4>1. request'[u] = request[u] /\ stage'[u] = stage[u]
        BY <1>1, <3>2 DEF Begin, TypeOK
      <4> QED
        BY <2>1, <4>1 DEF Begin, ScopesNest
    <3> QED
      BY <3>1, <3>2
  <2> QED
    BY <2>3, <2>4 DEF ScopesNest
<1> QED
  BY <1>3, <1>4, <1>5, <1>6, <1>7

LEMMA UseApiKeyKeeps ==
    ASSUME IInv, NEW t \in Workers, UseApiKey(t)
    PROVE  IInv'
<1> USE DEF IInv, AccountingInv
<1>0. request[t] \in Requests /\ request[t] # None
  BY AtWork DEF UseApiKey, CanAsk
<1>1. TypeOK'
  BY KeyFacts, <1>0 DEF UseApiKey, TypeOK, InHand, CanAsk, OwnClient
<1>2. Serving'
  BY DEF UseApiKey, TypeOK, InHand, CanAsk, Serving
<1>3. KeyInContext'
  BY <1>0 DEF UseApiKey, TypeOK, InHand, CanAsk, KeyInContext
<1>4. KeysStayApart'
  BY KeyFacts, <1>0 DEF UseApiKey, TypeOK, InHand, CanAsk, OwnClient, KeyInContext, KeysStayApart
<1>5. ScopesNest'
  BY ScopesUndisturbed DEF UseApiKey, TypeOK, InHand, CanAsk
<1> QED
  BY <1>1, <1>2, <1>3, <1>4, <1>5

LEMMA GetOwnClientKeeps ==
    ASSUME IInv, NEW t \in Workers, GetOwnClient(t)
    PROVE  IInv'
<1> USE DEF IInv, AccountingInv
<1>0. request[t] \in Requests
  BY AtWork DEF GetOwnClient, CanAsk
<1>1. TypeOK'
  BY KeyFacts, <1>0 DEF GetOwnClient, TypeOK, InHand, CanAsk, OwnClient
<1>2. Serving'
  BY DEF GetOwnClient, TypeOK, InHand, CanAsk, Serving
<1>3. KeyInContext'
  BY <1>0 DEF GetOwnClient, TypeOK, InHand, CanAsk, KeyInContext
<1>4. KeysStayApart'
  BY KeyFacts, <1>0 DEF GetOwnClient, TypeOK, InHand, CanAsk, OwnClient, KeyInContext, KeysStayApart
<1>5. ScopesNest'
  BY ScopesUndisturbed DEF GetOwnClient, TypeOK, InHand, CanAsk
<1> QED
  BY <1>1, <1>2, <1>3, <1>4, <1>5

LEMMA GetCachedClientKeeps ==
    ASSUME IInv, NEW t \in Workers, GetCachedClient(t)
    PROVE  IInv'
<1> USE DEF IInv, AccountingInv
<1>0. request[t] \in Requests /\ request[t] # None
  BY AtWork DEF GetCachedClient, CanAsk
<1>1. TypeOK'
  BY KeyFacts, <1>0 DEF GetCachedClient, TypeOK, InHand, CanAsk, OwnClient
<1>2. Serving'
  BY DEF GetCachedClient, TypeOK, InHand, CanAsk, Serving
<1>3. KeyInContext'
  BY <1>0 DEF GetCachedClient, TypeOK, InHand, CanAsk, KeyInContext
<1>4. KeysStayApart'
  <2>1. KeyOf[request[t]] = SharedKey
    BY KeyFacts, <1>0 DEF GetCachedClient, CanAsk, KeyInContext
  <2>2. client'[t] # None => client'[t] = KeyOf[request[t]]
    BY <2>1 DEF GetCachedClient, TypeOK, InHand, CanAsk, KeysStayApart
  <2> QED
    BY <2>2 DEF GetCachedClient, TypeOK, InHand, KeysStayApart
<1>5. ScopesNest'
  BY ScopesUndisturbed DEF GetCachedClient, TypeOK, InHand, CanAsk
<1> QED
  BY <1>1, <1>2, <1>3, <1>4, <1>5

LEMMA BuildClientKeeps ==
    ASSUME IInv, NEW t \in Workers, BuildClient(t)
    PROVE  IInv'
<1> USE DEF IInv, AccountingInv
<1>0. request[t] \in Requests
  BY AtWork DEF BuildClient, CanAsk
<1>1. TypeOK'
  BY KeyFacts, <1>0 DEF BuildClient, TypeOK, InHand, CanAsk, OwnClient
<1>2. Serving'
  BY DEF BuildClient, TypeOK, InHand, CanAsk, Serving
<1>3. KeyInContext'
  BY <1>0 DEF BuildClient, TypeOK, InHand, CanAsk, KeyInContext
<1>4. KeysStayApart'
  BY KeyFacts, <1>0 DEF BuildClient, TypeOK, InHand, CanAsk, OwnClient, KeyInContext, KeysStayApart
<1>5. ScopesNest'
  BY ScopesUndisturbed DEF BuildClient, TypeOK, InHand, CanAsk
<1> QED
  BY <1>1, <1>2, <1>3, <1>4, <1>5

LEMMA GetUncachedClientKeeps ==
    ASSUME IInv, NEW t \in Workers, GetUncachedClient(t)
    PROVE  IInv'
<1> USE DEF IInv, AccountingInv
<1>0. request[t] \in Requests
  BY AtWork DEF GetUncachedClient, CanAsk
<1>1. TypeOK'
  BY KeyFacts, <1>0 DEF GetUncachedClient, TypeOK, InHand, CanAsk, OwnClient
<1>2. Serving'
  BY DEF GetUncachedClient, TypeOK, InHand, CanAsk, Serving
<1>3. KeyInContext'
  BY <1>0 DEF GetUncachedClient, TypeOK, InHand, CanAsk, KeyInContext
<1>4. KeysStayApart'
  BY KeyFacts, <1>0 DEF GetUncachedClient, TypeOK, InHand, CanAsk, OwnClient, KeyInContext, KeysStayApart
<1>5. ScopesNest'
  BY ScopesUndisturbed DEF GetUncachedClient, TypeOK, InHand, CanAsk
<1> QED
  BY <1>1, <1>2, <1>3, <1>4, <1>5

LEMMA RaiseKeeps ==
    ASSUME IInv, NEW t \in Workers, Raise(t)
    PROVE  IInv'
<1> USE DEF IInv, AccountingInv
<1>0. request[t] \in Requests
  BY AtWork DEF Raise, CanAsk
<1>1. TypeOK'
  BY KeyFacts, <1>0 DEF Raise, TypeOK, InHand, CanAsk, OwnClient
<1>2. Serving'
  BY DEF Raise, TypeOK, InHand, CanAsk, Serving
<1>3. KeyInContext'
  BY <1>0 DEF Raise, TypeOK, InHand, CanAsk, KeyInContext
<1>4. KeysStayApart'
  BY KeyFacts, <1>0 DEF Raise, TypeOK, InHand, CanAsk, OwnClient, KeyInContext, KeysStayApart
<1>5. ScopesNest'
  BY ScopesUndisturbed DEF Raise, TypeOK, InHand, CanAsk
<1> QED
  BY <1>1, <1>2, <1>3, <1>4, <1>5

LEMMA EnterScopeKeeps ==
    ASSUME IInv, NEW t \in Workers, EnterScope(t)
    PROVE  IInv'
<1> DEFINE r == request[t]
           d == Depth(t)
<1>1. /\ r \in Requests /\ r \in served /\ r # None
      /\ d \in Nat /\ d + 1 \in 1..MaxNesting /\ d + 1 <= Nesting[r]
      /\ saved[t] \in Seq(Scope \cup {None})
  BY AtWork, AccountingAssumption DEF EnterScope
<1>2. <<r, d + 1>> \in Scope /\ <<r, d + 1>> # None
  BY <1>1, ScopeFacts
<1>3. /\ saved' = [saved EXCEPT ![t] = Append(saved[t], active[t])]
      /\ active' = [active EXCEPT ![t] = <<r, d + 1>>]
      /\ usages' = [usages EXCEPT ![<<r, d + 1>>] = [calls |-> 0, tokens |-> 0, missing |-> 0]]
      /\ stage[t] = "working"
      /\ UNCHANGED <<stage, request, contextKey, client, cached, served, bill>>
  BY DEF EnterScope
<1> USE DEF IInv, AccountingInv
<1>4. /\ active[t] \in Scope \cup {None}
      /\ saved \in [Workers -> Seq(Scope \cup {None})]
      /\ active \in [Workers -> Scope \cup {None}]
      /\ usages \in [Scope -> Usage \cup {None}]
  BY DEF TypeOK
<1>5. /\ saved'[t] \in Seq(Scope \cup {None})
      /\ Len(saved'[t]) = d + 1
      /\ \A i \in 1..d : saved'[t][i] = saved[t][i]
      /\ saved'[t][d + 1] = active[t]
  BY <1>1, <1>3, <1>4, Pushed DEF Depth
<1>6. [calls |-> 0, tokens |-> 0, missing |-> 0] \in Usage /\ None \notin Usage
  BY AccountingAssumption DEF Usage
<1>7. TypeOK'
  BY <1>2, <1>3, <1>4, <1>5, <1>6 DEF TypeOK
<1>8. Serving' /\ KeyInContext' /\ KeysStayApart'
  BY <1>3 DEF Serving, KeyInContext, KeysStayApart
<1>9. Depth(t)' = d + 1 /\ \A u \in Workers \ {t} : Depth(u)' = Depth(u) /\ saved'[u] = saved[u]
  BY <1>3, <1>4, <1>5 DEF Depth
<1> HIDE DEF r, d
<1>10. \A u \in Workers : request[u] = r => u = t
  BY <1>1 DEF Serving, r
<1>11. \A s \in Scope : s # <<r, d + 1>> => usages'[s] = usages[s]
  BY <1>3, <1>4
<1>12. usages'[<<r, d + 1>>] # None
  BY <1>2, <1>3, <1>4, <1>6
<1>13. ASSUME NEW u \in Workers
       PROVE  /\ active'[u] = IF Depth(u)' = 0 THEN None ELSE <<request'[u], Depth(u)'>>
              /\ \A i \in 1..Depth(u)' :
                    /\ saved'[u][i] = IF i = 1 THEN None ELSE <<request'[u], i - 1>>
                    /\ usages'[<<request'[u], i>>] # None
              /\ Depth(u)' <= IF stage'[u] \in {"idle", "begun"} THEN 0 ELSE Nesting[request'[u]]
  <2>1. \A i \in 1..Depth(u) : usages[<<request[u], i>>] # None => usages'[<<request[u], i>>] # None
    BY <1>3, <1>4, <1>6
  <2>2. CASE u = t
    <3>1. /\ active[t] = IF d = 0 THEN None ELSE <<r, d>>
          /\ \A i \in 1..d : saved[t][i] = (IF i = 1 THEN None ELSE <<r, i - 1>>) /\ usages[<<r, i>>] # None
      BY DEF ScopesNest, r, d
    <3>2. active'[t] = <<r, d + 1>> /\ request'[t] = r /\ stage'[t] = "working"
      BY <1>3, <1>4 DEF r
    <3>3. \A i \in 1..d + 1 :
             /\ saved'[t][i] = IF i = 1 THEN None ELSE <<r, i - 1>>
             /\ usages'[<<r, i>>] # None
      <4>1. SUFFICES ASSUME NEW i \in 1..d + 1
                     PROVE  /\ saved'[t][i] = IF i = 1 THEN None ELSE <<r, i - 1>>
                            /\ usages'[<<r, i>>] # None
        OBVIOUS
      <4>2. CASE i = d + 1
        BY <1>1, <1>5, <1>12, <3>1, <4>2
      <4>3. CASE i # d + 1
        <5>1. i \in 1..d
          BY <1>1, <4>3
        <5>2. usages'[<<r, i>>] # None
          BY <2>1, <2>2, <3>1, <5>1 DEF r, d
        <5> QED
          BY <1>5, <3>1, <5>1, <5>2
      <4> QED
        BY <4>2, <4>3
    <3> QED
      BY <1>1, <1>9, <2>2, <3>2, <3>3
  <2>3. CASE u # t
    <3>1. /\ active'[u] = active[u] /\ request'[u] = request[u] /\ stage'[u] = stage[u]
          /\ Depth(u)' = Depth(u) /\ saved'[u] = saved[u]
      BY <1>3, <1>4, <1>9, <2>3
    <3> QED
      BY <2>1, <3>1 DEF ScopesNest
  <2> QED
    BY <2>2, <2>3
<1>14. \A s \in Scope : s[1] \notin served' => usages'[s] = None
  <2>1. <<r, d + 1>>[1] = r
    OBVIOUS
  <2> QED
    BY <1>1, <1>3, <1>11, <2>1 DEF ScopesNest
<1>15. ScopesNest'
  BY <1>13, <1>14 DEF ScopesNest
<1> QED
  BY <1>7, <1>8, <1>15

LEMMA LeaveScopeKeeps ==
    ASSUME IInv, NEW t \in Workers, LeaveScope(t)
    PROVE  IInv'
<1> DEFINE r == request[t]
           d == Depth(t)
<1>1. /\ r \in Requests /\ r # None /\ Nesting[r] \in Nat
      /\ d \in Nat /\ d > 0
      /\ saved[t] \in Seq(Scope \cup {None})
  BY AtWork DEF LeaveScope
<1>2. /\ saved' = [saved EXCEPT ![t] = SubSeq(saved[t], 1, d - 1)]
      /\ active' = [active EXCEPT ![t] = saved[t][d]]
      /\ stage[t] \notin {"idle", "begun"}
      /\ UNCHANGED <<stage, request, contextKey, client, usages, cached, served, bill>>
  BY DEF LeaveScope, Restored
<1> USE DEF IInv, AccountingInv
<1>3. /\ saved \in [Workers -> Seq(Scope \cup {None})]
      /\ active \in [Workers -> Scope \cup {None}]
  BY DEF TypeOK
<1>4. /\ saved'[t] \in Seq(Scope \cup {None})
      /\ Len(saved'[t]) = d - 1
      /\ \A i \in 1..d - 1 : saved'[t][i] = saved[t][i]
      /\ saved[t][d] \in Scope \cup {None}
  BY <1>1, <1>2, <1>3, Popped DEF Depth
<1>5. TypeOK'
  BY <1>2, <1>3, <1>4 DEF TypeOK
<1>6. Serving' /\ KeyInContext' /\ KeysStayApart'
  BY <1>2 DEF Serving, KeyInContext, KeysStayApart
<1>7. Depth(t)' = d - 1 /\ \A u \in Workers \ {t} : Depth(u)' = Depth(u) /\ saved'[u] = saved[u]
  BY <1>2, <1>3, <1>4 DEF Depth
<1>8. /\ \A i \in 1..d : saved[t][i] = (IF i = 1 THEN None ELSE <<r, i - 1>>) /\ usages[<<r, i>>] # None
      /\ d <= Nesting[r]
  BY <1>2 DEF ScopesNest
<1> HIDE DEF r, d
<1>9. ASSUME NEW u \in Workers
      PROVE  /\ active'[u] = IF Depth(u)' = 0 THEN None ELSE <<request'[u], Depth(u)'>>
             /\ \A i \in 1..Depth(u)' :
                   /\ saved'[u][i] = IF i = 1 THEN None ELSE <<request'[u], i - 1>>
                   /\ usages'[<<request'[u], i>>] # None
             /\ Depth(u)' <= IF stage'[u] \in {"idle", "begun"} THEN 0 ELSE Nesting[request'[u]]
  <2>1. CASE u = t
    <3>1. active'[t] = saved[t][d] /\ request'[t] = r /\ stage'[t] \notin {"idle", "begun"}
      BY <1>2, <1>3 DEF r
    <3>2. saved[t][d] = IF d = 1 THEN None ELSE <<r, d - 1>>
      <4>1. d \in 1..d
        BY <1>1
      <4> QED
        BY <1>8, <4>1
    <3>3. \A i \in 1..d - 1 : i \in 1..d
      BY <1>1
    <3>4. \A i \in 1..d - 1 :
             /\ saved'[t][i] = IF i = 1 THEN None ELSE <<r, i - 1>>
             /\ usages'[<<r, i>>] # None
      BY <1>2, <1>4, <1>8, <3>3
    <3> QED
      BY <1>1, <1>7, <1>8, <2>1, <3>1, <3>2, <3>4
  <2>2. CASE u # t
    <3>1. /\ active'[u] = active[u] /\ request'[u] = request[u] /\ stage'[u] = stage[u]
          /\ Depth(u)' = Depth(u) /\ saved'[u] = saved[u] /\ usages' = usages
      BY <1>2, <1>3, <1>7, <2>2
    <3> QED
      BY <3>1 DEF ScopesNest
  <2> QED
    BY <2>1, <2>2
<1>10. ScopesNest'
  BY <1>2, <1>9 DEF ScopesNest
<1> QED
  BY <1>5, <1>6, <1>10

\* record() adds up the calls, and those whose tokens are known and unknown.
LEMMA RecordedFields ==
    ASSUME NEW u \in Usage, NEW metered \in {0, 1}
    PROVE  /\ Recorded(u, metered) \in Usage
           /\ Recorded(u, metered).calls = u.calls + 1
           /\ Recorded(u, metered).tokens = u.tokens + metered
           /\ Recorded(u, metered).missing = u.missing + 1 - metered
<1>1. u.calls \in Nat /\ u.tokens \in Nat /\ u.missing \in Nat
  BY DEF Usage
<1>2. /\ u.calls + 1 \in Nat /\ u.tokens + metered \in Nat /\ u.missing + 1 - metered \in Nat
  <2>1. metered = 0 \/ metered = 1
    OBVIOUS
  <2> QED
    BY <1>1, <2>1
<1> QED
  BY <1>2 DEF Recorded, Usage

\* record() finds the scope of the request, if it has one, and leaves the others
\* alone.
LEMMA CountedScope ==
    ASSUME IInv, NEW t \in Workers, Depth(t) > 0, stage[t] # "idle", NEW metered \in {0, 1}
    PROVE  /\ active[t] = <<request[t], Depth(t)>> /\ active[t] \in Scope
           /\ usages[active[t]] \in Usage
           /\ Counted(t, metered) = [usages EXCEPT ![active[t]] = Recorded(@, metered)]
           /\ Recorded(usages[active[t]], metered) \in Usage
<1> DEFINE r == request[t]
           d == Depth(t)
<1>1. r \in Requests
  BY AtWork
<1>2. d \in 1..MaxNesting /\ d \in 1..d /\ d # 0
  BY DepthBound, AccountingAssumption
<1>4. <<r, d>> \in Scope /\ <<r, d>> # None
  BY <1>1, <1>2, ScopeFacts
<1>5. active[t] = <<r, d>> /\ usages[<<r, d>>] # None
  BY <1>2 DEF IInv, AccountingInv, ScopesNest
<1>6. usages[<<r, d>>] \in Usage
  BY <1>4, <1>5 DEF IInv, AccountingInv, TypeOK
<1>7. \A u \in Usage : Recorded(u, metered) \in Usage
  BY RecordedFields
<1>8. Counted(t, metered) = [usages EXCEPT ![active[t]] = Recorded(@, metered)]
  BY <1>4, <1>5 DEF Counted, Local
<1> QED
  BY <1>4, <1>5, <1>6, <1>7, <1>8

\* A call outside any scope is counted nowhere.
LEMMA UncountedCall ==
    ASSUME IInv, NEW t \in Workers, Depth(t) = 0, NEW metered
    PROVE  Counted(t, metered) = usages
BY DEF IInv, AccountingInv, ScopesNest, Counted, Local

\* What a call does to the scopes.
LEMMA InvokedUsages ==
    ASSUME IInv, NEW t \in Workers, NEW metered \in {0, 1}, stage[t] # "idle"
    PROVE  /\ Counted(t, metered) \in [Scope -> Usage \cup {None}]
           /\ \A s \in Scope : Counted(t, metered)[s] = None <=> usages[s] = None
<1>1. usages \in [Scope -> Usage \cup {None}] /\ None \notin Usage
  BY AccountingAssumption DEF IInv, AccountingInv, TypeOK
<1>2. Depth(t) \in Nat
  BY AtWork
<1>3. CASE Depth(t) = 0
  BY <1>1, <1>3, UncountedCall
<1>4. CASE Depth(t) > 0
  <2> DEFINE v == Recorded(usages[active[t]], metered)
  <2>1. /\ active[t] \in Scope /\ usages[active[t]] \in Usage /\ v \in Usage
        /\ Counted(t, metered) = [usages EXCEPT ![active[t]] = v]
    BY <1>4, CountedScope
  <2> HIDE DEF v
  <2> QED
    BY <1>1, <2>1
<1> QED
  BY <1>2, <1>3, <1>4

LEMMA InvokeKeeps ==
    ASSUME IInv, NEW t \in Workers, Invoke(t)
    PROVE  IInv'
<1>1. PICK metered \in {0, 1} : usages' = Counted(t, metered)
  BY DEF Invoke
<1>2. /\ usages' \in [Scope -> Usage \cup {None}]
      /\ \A s \in Scope : usages'[s] = None <=> usages[s] = None
  BY <1>1, InvokedUsages DEF Invoke
<1>3. \A u \in Workers : \A i \in 1..Depth(u) : <<request[u], i>> \in Scope
  <2>1. SUFFICES ASSUME NEW u \in Workers, NEW i \in 1..Depth(u)
                 PROVE  <<request[u], i>> \in Scope
    OBVIOUS
  <2>2. stage[u] # "idle" /\ i \in 1..MaxNesting
    BY DepthBound, AccountingAssumption
  <2>3. request[u] \in Requests
    BY <2>2, AtWork
  <2> QED
    BY <2>2, <2>3, ScopeFacts
<1> USE DEF IInv, AccountingInv
<1>4. \A u \in Workers : Depth(u)' = Depth(u)
  BY DEF Invoke, Depth
<1>5. TypeOK'
  BY <1>2 DEF Invoke, InHand, TypeOK
<1>6. Serving' /\ KeyInContext' /\ KeysStayApart'
  BY DEF Invoke, InHand, TypeOK, Serving, KeyInContext, KeysStayApart
<1>7. ScopesNest'
  BY <1>2, <1>3, <1>4 DEF Invoke, ScopesNest
<1> QED
  BY <1>5, <1>6, <1>7

LEMMA EndKeeps ==
    ASSUME IInv, NEW t \in Workers, End(t)
    PROVE  IInv'
<1> USE DEF IInv, AccountingInv
<1>1. TypeOK'
  BY DEF End, TypeOK
<1>2. Serving' /\ KeyInContext' /\ KeysStayApart'
  BY DEF End, TypeOK, Serving, KeyInContext, KeysStayApart
<1>3. \A u \in Workers : Depth(u)' = Depth(u)
  BY DEF End, Depth
<1>4. ASSUME NEW u \in Workers
      PROVE  /\ active'[u] = IF Depth(u)' = 0 THEN None ELSE <<request'[u], Depth(u)'>>
             /\ \A i \in 1..Depth(u)' :
                   /\ saved'[u][i] = IF i = 1 THEN None ELSE <<request'[u], i - 1>>
                   /\ usages'[<<request'[u], i>>] # None
             /\ Depth(u)' <= IF stage'[u] \in {"idle", "begun"} THEN 0 ELSE Nesting[request'[u]]
  <2>1. CASE u = t
    BY <1>3, <2>1 DEF End, TypeOK, ScopesNest
  <2>2. CASE u # t
    <3>1. request'[u] = request[u] /\ stage'[u] = stage[u]
      BY <2>2 DEF End, TypeOK
    <3> QED
      BY <1>3, <3>1 DEF End, ScopesNest
  <2> QED
    BY <2>1, <2>2
<1>5. ScopesNest'
  BY <1>4 DEF End, ScopesNest
<1> QED
  BY <1>1, <1>2, <1>5

LEMMA IInvKept == IInv /\ [Next]_vars => IInv'
<1>1. SUFFICES ASSUME IInv, [Next]_vars PROVE IInv'
  OBVIOUS
<1>2. CASE UNCHANGED vars
  BY <1>1, <1>2 DEF vars, workerVars, IInv, AccountingInv, TypeOK, Serving, KeyInContext,
     ScopesNest, KeysStayApart, Depth
<1>3. ASSUME NEW t \in Workers, Begin(t) \/ Step(t)
      PROVE  IInv'
  BY <1>1, <1>3, BeginKeeps, UseApiKeyKeeps, EnterScopeKeeps, LeaveScopeKeeps, GetOwnClientKeeps,
     GetCachedClientKeeps, BuildClientKeeps, GetUncachedClientKeeps, InvokeKeeps, RaiseKeeps,
     EndKeeps DEF Step
<1> QED
  BY <1>1, <1>2, <1>3 DEF Next

LEMMA AlwaysIInv == Spec => []IInv
<1> QED
  BY Initially, IInvKept, PTL DEF Spec

\* Whatever threads serve which requests in which order, every thread's scopes
\* are those of its request, nested as it opened them, and the key in its context
\* is its request's.
THEOREM ScopesAreOwn == Spec => []AccountingInv
<1>1. IInv => AccountingInv
  BY DEF IInv
<1> QED
  BY AlwaysIInv, <1>1, PTL

\* No call is ever made with the key of another request, and no key of a visitor
\* gets into the cache or stays in a context.
THEOREM KeysAreSeparate == Spec => []KeysStayApart
<1>1. IInv => KeysStayApart
  BY DEF IInv
<1> QED
  BY AlwaysIInv, <1>1, PTL

-----------------------------------------------------------------------------
(* The ledger that the scopes and the bills amount to. *)

LEMMA OneWorker ==
    ASSUME NEW req, NEW t \in Workers, NEW r, req[t] = r,
           \A u \in Workers : req[u] = r => u = t
    PROVE  (CHOOSE u \in Workers : req[u] = r) = t
OBVIOUS

\* A request's depth is that of the thread that serves it, now and after a step.
LEMMA DepthNow ==
    ASSUME IInv, NEW t \in Workers, NEW r \in Requests, request[t] = r
    PROVE  Depths[r] = Depth(t)
<1>1. \A u \in Workers : request[u] = r => u = t
  BY AccountingAssumption DEF IInv, AccountingInv, Serving
<1>2. Worker(r) = t
  BY <1>1, OneWorker DEF Worker
<1> QED
  BY <1>2 DEF Depths

LEMMA DepthNext ==
    ASSUME IInv', NEW t \in Workers, NEW r \in Requests, request'[t] = r
    PROVE  Depths'[r] = Depth(t)'
<1>1. \A u \in Workers : request'[u] = r => u = t
  BY AccountingAssumption DEF IInv, AccountingInv, Serving
<1>2. Worker(r)' = t
  BY <1>1, OneWorker DEF Worker
<1> QED
  BY <1>2 DEF Depths

\* A request nobody serves has no depth.
LEMMA Unserved ==
    ASSUME NEW r \in Requests
    PROVE  /\ (\A t \in Workers : request[t] # r) => Depths[r] = 0
           /\ (\A t \in Workers : request'[t] # r) => Depths'[r] = 0
BY DEF Depths

\* Depths that change at one request alone.
LEMMA OtherDepths ==
    ASSUME IInv, IInv', NEW t \in Workers, NEW r \in Requests, r # request[t],
           UNCHANGED request, \A u \in Workers \ {t} : Depth(u)' = Depth(u)
    PROVE  Depths'[r] = Depths[r]
<1>1. CASE \E u \in Workers : request[u] = r
  <2>1. PICK u \in Workers : request[u] = r
    BY <1>1
  <2>2. Depths[r] = Depth(u) /\ Depths'[r] = Depth(u)'
    BY <2>1, DepthNow, DepthNext
  <2> QED
    BY <2>1, <2>2
<1>2. CASE \A u \in Workers : request[u] # r
  BY <1>2, Unserved
<1> QED
  BY <1>1, <1>2

LEMMA SameAccounts == usages' = usages => Accounts' = Accounts
BY DEF Accounts

LEMMA Shape ==
    /\ Depths = [r \in Requests |-> Depths[r]]
    /\ Depths' = [r \in Requests |-> Depths'[r]]
    /\ Accounts = [s \in Scope |-> Accounts[s]]
    /\ Accounts' = [s \in Scope |-> Accounts'[s]]
BY DEF Depths, Accounts

\* A thread takes up a request, or is done with it: no scope is open.
LEMMA BeginStutters ==
    ASSUME IInv, IInv', NEW t \in Workers, Begin(t)
    PROVE  UNCHANGED <<Depths, Accounts, bill>>
<1>1. PICK q \in Requests \ served : request' = [request EXCEPT ![t] = q]
  BY DEF Begin
<1>2. request \in [Workers -> Requests \cup {None}] /\ \A u \in Workers : request[u] # q
  BY <1>1, AccountingAssumption DEF IInv, AccountingInv, TypeOK, Serving
<1>3. Depth(t)' = 0 /\ \A u \in Workers : Depth(u)' = Depth(u)
  <2>1. Depth(t) \in Nat /\ ~(Depth(t) > 0)
    BY DepthBound DEF Begin
  <2> QED
    BY <2>1 DEF Begin, Depth
<1>4. request[t] = None
  BY DEF Begin, IInv, AccountingInv, Serving
<1>5. ASSUME NEW r \in Requests
      PROVE  Depths'[r] = Depths[r]
  <2>1. CASE r = q
    BY <1>1, <1>2, <1>3, <2>1, DepthNext, Unserved
  <2>2. CASE r # q /\ \E u \in Workers : request[u] = r
    <3>1. PICK u \in Workers : request[u] = r
      BY <2>2
    <3>2. request'[u] = r
      BY <1>1, <1>2, <1>4, <3>1, AccountingAssumption
    <3> QED
      BY <1>3, <3>1, <3>2, DepthNow, DepthNext
  <2>3. CASE r # q /\ \A u \in Workers : request[u] # r
    <3>1. \A u \in Workers : request'[u] # r
      BY <1>1, <1>2, <2>3
    <3> QED
      BY <2>3, <3>1, Unserved
  <2> QED
    BY <2>1, <2>2, <2>3
<1>6. Depths' = Depths
  BY <1>5, Shape
<1> QED
  BY <1>6, SameAccounts DEF Begin

LEMMA EndStutters ==
    ASSUME IInv, IInv', NEW t \in Workers, End(t)
    PROVE  UNCHANGED <<Depths, Accounts, bill>>
<1> DEFINE q == request[t]
<1>1. /\ request' = [request EXCEPT ![t] = None] /\ Depth(t) = 0
      /\ request \in [Workers -> Requests \cup {None}]
  BY DEF End, IInv, AccountingInv, TypeOK
<1>2. \A u \in Workers : Depth(u)' = Depth(u)
  BY DEF End, Depth
<1>3. q \in Requests /\ \A u \in Workers : request[u] = q => u = t
  <2>1. stage[t] # "idle"
    BY DEF End
  <2>2. q \in Requests /\ q # None
    BY <2>1, AtWork
  <2> QED
    BY <2>2 DEF IInv, AccountingInv, Serving
<1> HIDE DEF q
<1>4. ASSUME NEW r \in Requests
      PROVE  Depths'[r] = Depths[r]
  <2>1. CASE r = q
    <3>1. Depths[r] = 0
      BY <1>1, <2>1, DepthNow DEF q
    <3>2. \A u \in Workers : request'[u] # r
      BY <1>1, <1>3, <2>1, AccountingAssumption
    <3> QED
      BY <3>1, <3>2, Unserved
  <2>2. CASE r # q /\ \E u \in Workers : request[u] = r
    <3>1. PICK u \in Workers : request[u] = r
      BY <2>2
    <3>2. u # t
      BY <2>2, <3>1 DEF q
    <3>3. request'[u] = r
      BY <1>1, <3>1, <3>2
    <3> QED
      BY <1>2, <3>1, <3>3, DepthNow, DepthNext
  <2>3. CASE r # q /\ \A u \in Workers : request[u] # r
    <3>1. \A u \in Workers : request'[u] # r
      BY <1>1, <2>3, AccountingAssumption
    <3> QED
      BY <2>3, <3>1, Unserved
  <2> QED
    BY <2>1, <2>2, <2>3
<1>5. Depths' = Depths
  BY <1>4, Shape
<1> QED
  BY <1>5, SameAccounts DEF End

LEMMA EnterIsOpen ==
    ASSUME IInv, IInv', NEW t \in Workers, EnterScope(t)
    PROVE  Ledger!Open(request[t])
<1> DEFINE r == request[t]
           d == Depth(t)
           fresh == [calls |-> 0, tokens |-> 0, missing |-> 0]
<1>1. /\ r \in Requests /\ d \in Nat /\ d < MaxNesting
      /\ saved[t] \in Seq(Scope \cup {None})
  BY AtWork, AccountingAssumption DEF EnterScope
<1>2. /\ UNCHANGED <<request, bill>> /\ usages' = [usages EXCEPT ![<<r, d + 1>>] = fresh]
      /\ saved' = [saved EXCEPT ![t] = Append(saved[t], active[t])]
  BY DEF EnterScope
<1>3. /\ saved \in [Workers -> Seq(Scope \cup {None})] /\ active[t] \in Scope \cup {None}
      /\ usages \in [Scope -> Usage \cup {None}]
  BY DEF IInv, AccountingInv, TypeOK
<1>4. Depth(t)' = d + 1
  BY <1>1, <1>2, <1>3, Pushed DEF Depth
<1>5. \A u \in Workers \ {t} : Depth(u)' = Depth(u)
  BY <1>2, <1>3 DEF Depth
<1>6. Depths[r] = d /\ Depths'[r] = d + 1
  BY <1>1, <1>2, <1>4, DepthNow, DepthNext
<1>7. Depths' = [Depths EXCEPT ![r] = @ + 1]
  <2>1. \A q \in Requests : q # r => Depths'[q] = Depths[q]
    BY <1>2, <1>5, OtherDepths
  <2> HIDE DEF r, d
  <2> QED
    BY <1>1, <1>6, <2>1, Shape
<1>8. Accounts' = [Accounts EXCEPT ![<<r, d + 1>>] = [calls |-> 0, metered |-> 0, unmetered |-> 0]]
  <2>1. fresh # None
    BY AccountingAssumption DEF Usage
  <2>2. AccountOf(fresh) = [calls |-> 0, metered |-> 0, unmetered |-> 0]
    BY DEF AccountOf
  <2> HIDE DEF fresh, r, d
  <2> QED
    BY <1>2, <1>3, <2>1, <2>2 DEF Accounts
<1> QED
  BY <1>1, <1>2, <1>6, <1>7, <1>8 DEF Ledger!Open

LEMMA LeaveIsClose ==
    ASSUME IInv, IInv', NEW t \in Workers, LeaveScope(t)
    PROVE  Ledger!Close(request[t])
<1> DEFINE r == request[t]
           d == Depth(t)
<1>1. /\ r \in Requests /\ d \in Nat /\ d > 0
      /\ saved[t] \in Seq(Scope \cup {None})
  BY AtWork DEF LeaveScope
<1>2. /\ UNCHANGED <<request, bill, usages>>
      /\ saved' = [saved EXCEPT ![t] = SubSeq(saved[t], 1, d - 1)]
  BY DEF LeaveScope
<1>3. saved \in [Workers -> Seq(Scope \cup {None})]
  BY DEF IInv, AccountingInv, TypeOK
<1>4. Depth(t)' = d - 1
  BY <1>1, <1>2, <1>3, Popped DEF Depth
<1>5. \A u \in Workers \ {t} : Depth(u)' = Depth(u)
  BY <1>2, <1>3 DEF Depth
<1>6. Depths[r] = d /\ Depths'[r] = d - 1
  BY <1>1, <1>2, <1>4, DepthNow, DepthNext
<1>7. Depths' = [Depths EXCEPT ![r] = @ - 1]
  <2>1. \A q \in Requests : q # r => Depths'[q] = Depths[q]
    BY <1>2, <1>5, OtherDepths
  <2> HIDE DEF r, d
  <2> QED
    BY <1>1, <1>6, <2>1, Shape
<1> QED
  BY <1>1, <1>2, <1>6, <1>7, SameAccounts DEF Ledger!Close

LEMMA InvokeIsAnswer ==
    ASSUME IInv, IInv', NEW t \in Workers, Invoke(t)
    PROVE  \E metered \in {0, 1} : Ledger!Answer(request[t], metered)
<1> DEFINE r == request[t]
           d == Depth(t)
<1>1. r \in Requests /\ d \in Nat
  BY AtWork DEF Invoke
<1>2. PICK metered \in {0, 1} : usages' = Counted(t, metered)
  BY DEF Invoke
<1>3. bill' = [bill EXCEPT ![KeyOf[r]] = @ + 1]
  BY DEF Invoke, IInv, KeysStayApart
<1>4. Depths' = Depths
  BY DEF Invoke, Depths, Worker, Depth
<1>5. Depths[r] = d
  BY <1>1, DepthNow
<1>6. CASE d = 0
  <2>1. Accounts' = Accounts
    BY <1>2, <1>6, UncountedCall, SameAccounts
  <2> QED
    BY <1>3, <1>4, <1>5, <1>6, <2>1 DEF Ledger!Answer
<1>7. CASE d > 0
  <2> DEFINE s == <<r, d>>
             u == usages[s]
  <2>1. /\ s \in Scope /\ u \in Usage
        /\ usages' = [usages EXCEPT ![s] = Recorded(u, metered)]
        /\ Recorded(u, metered) \in Usage
    BY <1>2, <1>7, CountedScope DEF Invoke
  <2>2. usages \in [Scope -> Usage \cup {None}] /\ None \notin Usage
    BY AccountingAssumption DEF IInv, AccountingInv, TypeOK
  <2>3. Accounts[s] = AccountOf(u)
    BY <2>1, <2>2 DEF Accounts
  <2>4. AccountOf(Recorded(u, metered)) = Ledger!Entered(Accounts[s], metered)
    <3> HIDE DEF u, s
    <3>1. /\ AccountOf(u).calls = u.calls /\ AccountOf(u).metered = u.tokens
          /\ AccountOf(u).unmetered = u.missing
      BY DEF AccountOf
    <3> QED
      BY <2>3, <3>1 DEF AccountOf, Recorded, Ledger!Entered
  <2>5. Accounts' = [Accounts EXCEPT ![s] = Ledger!Entered(@, metered)]
    <3> HIDE DEF u, s
    <3> QED
      BY <2>1, <2>2, <2>4 DEF Accounts
  <2>6. Depths[r] # 0 /\ <<r, Depths[r]>> = s
    BY <1>5, <1>7
  <2> HIDE DEF s, u
  <2>7. Accounts' = [Accounts EXCEPT ![<<r, Depths[r]>>] = Ledger!Entered(@, metered)]
    BY <2>5, <2>6
  <2> QED
    BY <1>3, <1>4, <2>6, <2>7 DEF Ledger!Answer
<1> QED
  BY <1>1, <1>6, <1>7

LEMMA StepIsLedgerStep ==
    ASSUME IInv, IInv', [Next]_vars
    PROVE  [Ledger!Next]_(Ledger!vars)
<1>1. CASE UNCHANGED vars
  BY <1>1 DEF vars, workerVars, Ledger!vars, Depths, Accounts, Worker, Depth
<1>2. ASSUME NEW t \in Workers, Begin(t) \/ Step(t)
      PROVE  [Ledger!Next]_(Ledger!vars)
  <2>1. CASE Begin(t) \/ End(t)
    BY <2>1, BeginStutters, EndStutters DEF Ledger!vars
  <2>2. CASE EnterScope(t) \/ LeaveScope(t) \/ Invoke(t)
    <3>1. stage[t] # "idle"
      BY <2>2 DEF EnterScope, LeaveScope, Invoke
    <3>2. request[t] \in Requests
      BY <3>1, AtWork
    <3> QED
      BY <2>2, <3>2, EnterIsOpen, LeaveIsClose, InvokeIsAnswer DEF Ledger!Next
  <2>3. CASE \/ UseApiKey(t) \/ GetOwnClient(t) \/ GetCachedClient(t) \/ BuildClient(t)
             \/ GetUncachedClient(t) \/ Raise(t)
    <3>1. UNCHANGED <<request, saved, usages, bill>>
      BY <2>3 DEF UseApiKey, GetOwnClient, GetCachedClient, BuildClient, GetUncachedClient, Raise
    <3>2. Depths' = Depths
      BY <3>1 DEF Depths, Worker, Depth
    <3> QED
      BY <3>1, <3>2, SameAccounts DEF Ledger!vars
  <2> QED
    BY <1>2, <2>1, <2>2, <2>3 DEF Step
<1> QED
  BY <1>1, <1>2 DEF Next

\* Threads, contexts, scopes and the cached client together are the ledger: every
\* step opens a scope, closes one, enters an answered call in the innermost scope
\* of its request and on the bill of its key, or changes nothing that counts.
THEOREM LedgerImplemented == Spec => ImplementsLedger
<1>1. Init => Ledger!Init
  <2>1. SUFFICES ASSUME Init PROVE Ledger!Init
    OBVIOUS
  <2>2. \A r \in Requests : \A t \in Workers : request[t] # r
    BY <2>1, AccountingAssumption DEF Init
  <2>3. Depths = [r \in Requests |-> 0]
    BY <2>2 DEF Depths
  <2>4. Accounts = [s \in Scope |-> None]
    BY <2>1 DEF Init, Accounts
  <2> QED
    BY <2>1, <2>3, <2>4 DEF Init, Ledger!Init, Ledger!Scope, Scope
<1>2. IInv /\ IInv' /\ [Next]_vars => [Ledger!Next]_(Ledger!vars)
  BY StepIsLedgerStep
<1> QED
  BY <1>1, <1>2, AlwaysIInv, PTL DEF Spec, ImplementsLedger, Ledger!Spec
=============================================================================
