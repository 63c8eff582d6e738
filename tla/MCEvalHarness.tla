---------------------------- MODULE MCEvalHarness ----------------------------
(* EvalHarness with the three methods in their default order, a program that *)
(* works and one that does not.                                              *)
EXTENDS EvalHarness

CONSTANTS good, bad

MCMethods == <<"single_shot", "best_of_n", "self_correct">>
MCCodes == {good, bad}
MCWorking == {good}
=============================================================================
