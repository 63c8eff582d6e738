-------------------------- MODULE MCAnswerPipeline --------------------------
(* AnswerPipeline over all answers of up to MaxFenced lines made of fences,  *)
(* clean and v1 code, and of up to MaxPlain lines of any kind.               *)
EXTENDS AnswerPipeline

CONSTANTS MaxFenced, MaxPlain

UpTo(n, kinds) == UNION {[1..k -> kinds] : k \in 0..n}

MCAnswers == UpTo(MaxFenced, Fence \cup {"code", "v1"}) \cup UpTo(MaxPlain, LineKind)
=============================================================================
