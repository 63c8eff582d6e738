--------------------------- MODULE CallAccounting ---------------------------
(***************************************************************************)
(* agent/llm.py and agent/usage.py: which key a call of the model is made  *)
(* with, and where it is counted.                                          *)
(*                                                                         *)
(* Three kinds of state take part.  The key is in a ContextVar, and each   *)
(* request runs in a copy of the event loop's context, where it is unset.  *)
(* The active Usage is in a threading.local, and the threads of the pool   *)
(* serve one request after the other.  The client of the shared key is in  *)
(* an lru_cache that all threads use.  LangGraph runs a node, one a        *)
(* superstep, in the thread that called invoke().                          *)
(*                                                                         *)
(* Workers run at the same time here.  The server's run slot admits one    *)
(* at a time, so its behaviours are among these.                           *)
(***************************************************************************)
EXTENDS Integers, Sequences, FiniteSets

CONSTANTS
    Workers,        \* threads
    Requests,       \* requests of the server, pairs of the harness, start-up
    Keys,
    SharedKey,      \* the key in the environment
    VisitorKey,     \* the key a request brings, or None
    MaxNesting,
    Nesting,        \* how deep a request nests track_usage: once in the server and
                    \* the harness, not at all in solve.py and at start-up
    MaxCalls,       \* bound on the calls on each key
    None

Scope == Requests \X (1..MaxNesting)
Usage == [calls : Nat, tokens : Nat, missing : Nat]

ASSUME AccountingAssumption ==
    /\ SharedKey \in Keys
    /\ VisitorKey \in [Requests -> (Keys \ {SharedKey}) \cup {None}]
    /\ MaxNesting \in Nat /\ MaxCalls \in Nat
    /\ Nesting \in [Requests -> 0..MaxNesting]
    /\ None \notin Keys \cup Requests \cup Scope \cup Usage

VARIABLES
    stage,          \* how far a worker is with its request
    request,        \* the request it serves
    contextKey,     \* _request_api_key in the worker's current context
    active,         \* _state.usage of the thread
    saved,          \* the `previous` of every open track_usage, outermost first
    client,         \* the key of the client a node has in hand
    usages,         \* the Usage objects, by the scope that made them; a call's
                    \* tokens are counted as one
    cached,         \* the key of the client in _cached_llm, or None
    served,         \* requests that have been taken up
    bill            \* calls the provider has answered, by key

workerVars == <<stage, request, contextKey, active, saved, client>>
vars == <<workerVars, usages, cached, served, bill>>

Depth(t) == Len(saved[t])

TypeOK ==
    /\ stage \in [Workers -> {"idle", "begun", "working", "missed", "leaving"}]
    /\ request \in [Workers -> Requests \cup {None}]
    /\ contextKey \in [Workers -> Keys \cup {None}]
    /\ active \in [Workers -> Scope \cup {None}]
    /\ saved \in [Workers -> Seq(Scope \cup {None})]
    /\ client \in [Workers -> Keys \cup {None}]
    /\ usages \in [Scope -> Usage \cup {None}]
    /\ cached \in Keys \cup {None}
    /\ served \subseteq Requests
    /\ bill \in [Keys -> Nat]

Init ==
    /\ stage = [t \in Workers |-> "idle"]
    /\ request = [t \in Workers |-> None]
    /\ contextKey = [t \in Workers |-> None]
    /\ active = [t \in Workers |-> None]
    /\ saved = [t \in Workers |-> <<>>]
    /\ client = [t \in Workers |-> None]
    /\ usages = [s \in Scope |-> None]
    /\ cached = None
    /\ served = {}
    /\ bill = [k \in Keys |-> 0]

-----------------------------------------------------------------------------
(* The scopes around a run. *)

\* A request is taken up by a thread of the pool, in a fresh copy of the
\* context.
Begin(t) ==
    /\ stage[t] = "idle"
    /\ \E r \in Requests \ served :
          /\ request' = [request EXCEPT ![t] = r]
          /\ served' = served \cup {r}
    /\ stage' = [stage EXCEPT ![t] = "begun"]
    /\ contextKey' = [contextKey EXCEPT ![t] = None]
    /\ UNCHANGED <<active, saved, client, usages, cached, bill>>

\* with use_api_key(...)
UseApiKey(t) ==
    /\ stage[t] = "begun"
    /\ stage' = [stage EXCEPT ![t] = "working"]
    /\ contextKey' = [contextKey EXCEPT ![t] = VisitorKey[request[t]]]
    /\ UNCHANGED <<request, active, saved, client, usages, cached, served, bill>>

\* with track_usage(), entered: the outer scope is kept in the generator.  A
\* request opens one scope at each depth.
EnterScope(t) ==
    /\ stage[t] = "working"
    /\ client[t] = None
    /\ Depth(t) < Nesting[request[t]]
    /\ LET scope == <<request[t], Depth(t) + 1>> IN
          /\ usages[scope] = None
          /\ saved' = [saved EXCEPT ![t] = Append(@, active[t])]
          /\ active' = [active EXCEPT ![t] = scope]
          /\ usages' = [usages EXCEPT ![scope] = [calls |-> 0, tokens |-> 0, missing |-> 0]]
    /\ UNCHANGED <<stage, request, contextKey, client, cached, served, bill>>

\* The finally of track_usage.
Restored_Cleared(t) == None
Restored(t) == saved[t][Depth(t)]

\* ... left, by the end of its block or by an exception that passes through.
LeaveScope(t) ==
    /\ stage[t] \in {"working", "leaving"}
    /\ client[t] = None
    /\ Depth(t) > 0
    /\ active' = [active EXCEPT ![t] = Restored(t)]
    /\ saved' = [saved EXCEPT ![t] = SubSeq(@, 1, Depth(t) - 1)]
    /\ UNCHANGED <<stage, request, contextKey, client, usages, cached, served, bill>>

-----------------------------------------------------------------------------
(* A node, a baseline or the start-up probe asks for a client and calls it. *)

CanAsk(t) ==
    /\ stage[t] = "working"
    /\ client[t] = None

InHand(t, key) == client' = [client EXCEPT ![t] = key]

\* get_cached_llm with a key in the context: a client of its own.
OwnClient_Cached(t) == cached' = IF cached = None THEN contextKey[t] ELSE cached
OwnClient(t) == UNCHANGED cached

GetOwnClient(t) ==
    /\ CanAsk(t)
    /\ contextKey[t] # None
    /\ InHand(t, contextKey[t])
    /\ OwnClient(t)
    /\ UNCHANGED <<stage, request, contextKey, active, saved, usages, served, bill>>

\* Without one: the cached client, which takes its key from the environment
\* when it is built.
GetCachedClient(t) ==
    /\ CanAsk(t)
    /\ contextKey[t] = None
    /\ IF cached # None
       THEN InHand(t, cached) /\ UNCHANGED stage
       ELSE stage' = [stage EXCEPT ![t] = "missed"] /\ UNCHANGED client
    /\ UNCHANGED <<request, contextKey, active, saved, usages, cached, served, bill>>

\* After a miss lru_cache builds without its lock; who is first inserts.
BuildClient(t) ==
    /\ stage[t] = "missed"
    /\ InHand(t, SharedKey)
    /\ cached' = IF cached = None THEN SharedKey ELSE cached
    /\ stage' = [stage EXCEPT ![t] = "working"]
    /\ UNCHANGED <<request, contextKey, active, saved, usages, served, bill>>

\* get_llm itself, for best_of_n and for verify_llm_available, which have no
\* key but the environment's.
GetUncachedClient(t) ==
    /\ CanAsk(t)
    /\ VisitorKey[request[t]] = None
    /\ InHand(t, SharedKey)
    /\ UNCHANGED <<stage, request, contextKey, active, saved, usages, cached, served, bill>>

\* record(): the tokens of a response, counted only where they are given.
Recorded(u, metered) ==
    [calls |-> u.calls + 1, tokens |-> u.tokens + metered, missing |-> u.missing + 1 - metered]

\* Whose _state a thread sees: its own.
Local_Shared(t) == CHOOSE w \in Workers : TRUE
Local(t) == t

Counted(t, metered) ==
    LET scope == active[Local(t)] IN
    IF scope = None THEN usages
    ELSE [usages EXCEPT ![scope] = Recorded(@, metered)]

\* _TrackedLLM.invoke
Invoke(t) ==
    /\ stage[t] = "working"
    /\ client[t] # None
    /\ bill[client[t]] < MaxCalls
    /\ \E metered \in {0, 1} : usages' = Counted(t, metered)
    /\ bill' = [bill EXCEPT ![client[t]] = @ + 1]
    /\ InHand(t, None)
    /\ UNCHANGED <<stage, request, contextKey, active, saved, cached, served>>

\* The provider refuses, a client cannot be built, or the node fails later:
\* the scopes are left one by one.
Raise(t) ==
    /\ stage[t] \in {"working", "missed"}
    /\ stage' = [stage EXCEPT ![t] = "leaving"]
    /\ InHand(t, None)
    /\ UNCHANGED <<request, contextKey, active, saved, usages, cached, served, bill>>

\* use_api_key resets the variable, also after an exception, and the worker is
\* free for another request.
End(t) ==
    /\ stage[t] \in {"working", "leaving"}
    /\ Depth(t) = 0 /\ client[t] = None
    /\ stage' = [stage EXCEPT ![t] = "idle"]
    /\ request' = [request EXCEPT ![t] = None]
    /\ contextKey' = [contextKey EXCEPT ![t] = None]
    /\ UNCHANGED <<active, saved, client, usages, cached, served, bill>>

Step(t) ==
    \/ UseApiKey(t)
    \/ EnterScope(t)
    \/ LeaveScope(t)
    \/ GetOwnClient(t)
    \/ GetCachedClient(t)
    \/ BuildClient(t)
    \/ GetUncachedClient(t)
    \/ Invoke(t)
    \/ Raise(t)
    \/ End(t)

Next == \E t \in Workers : Begin(t) \/ Step(t)

Spec == Init /\ [][Next]_vars

-----------------------------------------------------------------------------
(* Properties *)

\* A thread that is not idle serves a request of its own.
Serving ==
    /\ \A t \in Workers : IF stage[t] = "idle" THEN request[t] = None ELSE request[t] \in served
    /\ \A t, u \in Workers : request[t] # None /\ request[t] = request[u] => t = u

\* The key in a thread's context is its request's from the moment it is set to
\* the moment it is reset.
KeyInContext ==
    \A t \in Workers :
        /\ contextKey[t] = IF stage[t] \in {"idle", "begun"} THEN None ELSE VisitorKey[request[t]]
        /\ stage[t] = "missed" => contextKey[t] = None
        /\ client[t] # None => stage[t] = "working"

\* A thread's active Usage is that of the innermost scope its request has open,
\* each saved one is of the scope around it, and a thread that has ended its
\* request, or not begun with it, has none.
ScopesNest ==
    /\ \A t \in Workers :
          /\ active[t] = IF Depth(t) = 0 THEN None ELSE <<request[t], Depth(t)>>
          /\ \A i \in 1..Depth(t) :
                /\ saved[t][i] = IF i = 1 THEN None ELSE <<request[t], i - 1>>
                /\ usages[<<request[t], i>>] # None
          /\ Depth(t) <= IF stage[t] \in {"idle", "begun"} THEN 0 ELSE Nesting[request[t]]
    /\ \A s \in Scope : s[1] \notin served => usages[s] = None

\* What threads, contexts and scopes are to each other between any two steps, so
\* that no thread carries anything over from one request to the next.
AccountingInv == TypeOK /\ Serving /\ KeyInContext /\ ScopesNest

\* What the provider is to bill a request to.
KeyOf == [r \in Requests |-> IF VisitorKey[r] = None THEN SharedKey ELSE VisitorKey[r]]

\* A visitor's key "must be used for exactly one request and never persisted": a
\* client in use is of the key of its request, what all threads share is a client
\* of the shared key, and no context keeps a key once its request is over.
KeysStayApart ==
    /\ \A t \in Workers : client[t] # None => client[t] = KeyOf[request[t]]
    /\ cached \in {SharedKey, None}
    /\ \A t \in Workers :
          contextKey[t] # None => request[t] # None /\ contextKey[t] = VisitorKey[request[t]]

\* Calls and unknown tokens are counted in the innermost scope of the request
\* that made the call and billed to its key, whatever other threads do.
Worker(r) == CHOOSE t \in Workers : request[t] = r
Depths ==
    [r \in Requests |-> IF \E t \in Workers : request[t] = r THEN Depth(Worker(r)) ELSE 0]

AccountOf(u) == [calls |-> u.calls, metered |-> u.tokens, unmetered |-> u.missing]
Accounts == [s \in Scope |-> IF usages[s] = None THEN None ELSE AccountOf(usages[s])]

Ledger == INSTANCE CallLedger WITH depth <- Depths, account <- Accounts

ImplementsLedger == Ledger!Spec
=============================================================================
