-------------------------- MODULE MCCallAccounting --------------------------
(* CallAccounting with two requests on the shared key and one that brings its *)
(* own.                                                                       *)
EXTENDS CallAccounting

CONSTANTS r1, r2, r3, shared, own

MCRequests == {r1, r2, r3}
MCVisitorKey == [r \in MCRequests |-> IF r = r1 THEN own ELSE None]
MCNesting == [r \in MCRequests |-> CASE r = r1 -> 1 [] r = r2 -> 2 [] r = r3 -> 0]
=============================================================================
