---------------------------- MODULE MCAgentGraph ----------------------------
(***************************************************************************)
(* AgentGraph with three candidate programs: one with nothing worse than   *)
(* an unused import, one written for Pydantic v1 and one that does not     *)
(* parse (and would be full of v1 code if it did).                         *)
(***************************************************************************)
EXTENDS AgentGraph

CONSTANTS clean, v1, broken

MCCodes == {clean, v1, broken}

MCFlaws == [c \in MCCodes |->
    CASE c = clean  -> {"pyflakes_other"}
      [] c = v1     -> {"v1_antipattern", "pyflakes_undefined_name"}
      [] c = broken -> {"syntax_error", "v1_antipattern"}]
=============================================================================
