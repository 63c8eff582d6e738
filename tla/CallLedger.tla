----------------------------- MODULE CallLedger -----------------------------
(***************************************************************************)
(* What key scoping (agent/llm.py) and usage accounting (agent/usage.py)   *)
(* promise a request between them, with threads, contexts, clients and the *)
(* client cache forgotten: every call the provider answers is billed to    *)
(* the key of the request that made it, and is counted in the innermost    *)
(* scope that request has open, in no other, and in none without a scope.  *)
(*                                                                         *)
(* It states the docstrings of track_usage and use_api_key and the         *)
(* "honesty constraint" at the head of agent/usage.py; CallAccounting is   *)
(* the detailed specification shown to implement it.                       *)
(***************************************************************************)
EXTENDS Integers, Sequences

CONSTANTS
    Requests,
    Keys,
    KeyOf,          \* the key a request is to be run with
    MaxNesting,     \* how deep scopes are nested
    None

VARIABLES
    depth,          \* how many scopes a request has open
    account,        \* what each scope has counted, None before it is opened
    bill            \* how many calls the provider has answered on each key

vars == <<depth, account, bill>>

Scope == Requests \X (1..MaxNesting)

\* metered and unmetered: the calls whose tokens are known, and the others.
Account == [calls : Nat, metered : Nat, unmetered : Nat]

TypeOK ==
    /\ depth \in [Requests -> 0..MaxNesting]
    /\ account \in [Scope -> Account \cup {None}]
    /\ bill \in [Keys -> Nat]

Init ==
    /\ depth = [r \in Requests |-> 0]
    /\ account = [s \in Scope |-> None]
    /\ bill = [k \in Keys |-> 0]

Open(r) ==
    /\ depth[r] < MaxNesting
    /\ depth' = [depth EXCEPT ![r] = @ + 1]
    /\ account' = [account EXCEPT ![<<r, depth[r] + 1>>] = [calls |-> 0, metered |-> 0, unmetered |-> 0]]
    /\ UNCHANGED bill

\* A call is answered, with its tokens or without.
Entered(a, metered) ==
    [calls |-> a.calls + 1, metered |-> a.metered + metered, unmetered |-> a.unmetered + 1 - metered]

Answer(r, metered) ==
    /\ bill' = [bill EXCEPT ![KeyOf[r]] = @ + 1]
    /\ IF depth[r] = 0
       THEN UNCHANGED account
       ELSE account' = [account EXCEPT ![<<r, depth[r]>>] = Entered(@, metered)]
    /\ UNCHANGED depth

\* What the scope counted stays readable.
Close(r) ==
    /\ depth[r] > 0
    /\ depth' = [depth EXCEPT ![r] = @ - 1]
    /\ UNCHANGED <<account, bill>>

Next == \E r \in Requests : Open(r) \/ Close(r) \/ \E m \in {0, 1} : Answer(r, m)

Spec == Init /\ [][Next]_vars
=============================================================================
