--------------------------- MODULE CodeExtraction ---------------------------
(***************************************************************************)
(* agent/llm.py, strip_code_fences: what is taken for the program in an    *)
(* answer of the model.  An answer is a sequence of lines; the kinds of    *)
(* line that matter here are the fences, "```python" (or "```py"), "```"   *)
(* alone, and "```" with another word after it.                            *)
(*                                                                         *)
(* The expression ```(?:python|py)?\s*\n(.*?)``` is applied from left to   *)
(* right.  It knows no state: a bare fence opens a block wherever the      *)
(* search has come to, and the first backticks after it close the block,   *)
(* whatever word follows them.                                             *)
(***************************************************************************)
EXTENDS Integers, Sequences, FiniteSetsExt

Fence == {"python_fence", "bare_fence", "other_fence"}

HasTicks(line) == line \in Fence
OpensBlock(line) == line \in {"python_fence", "bare_fence"}

\* The first line from i on at which P holds; only used where there is one.
FirstFrom(i, answer, P(_)) == Min({k \in i..Len(answer) : P(answer[k])})

Lines(answer, block) == SubSeq(answer, block.first, block.last)

\* re.findall: the blocks found by a search from each line on.
Findall_Greedy(answer) ==
    IF \E i, k \in DOMAIN answer : i < k /\ OpensBlock(answer[i]) /\ HasTicks(answer[k])
    THEN <<[first |-> FirstFrom(1, answer, OpensBlock) + 1,
            last  |-> Max({k \in DOMAIN answer : HasTicks(answer[k])}) - 1]>>
    ELSE <<>>
Findall(answer) ==
    LET search[i \in 1..Len(answer) + 1] ==
            IF i > Len(answer) THEN <<>>
            ELSE IF OpensBlock(answer[i]) /\ \E k \in i+1..Len(answer) : HasTicks(answer[k])
            THEN LET close == FirstFrom(i + 1, answer, HasTicks)
                 IN  <<[first |-> i + 1, last |-> close - 1]>> \o search[close + 1]
            ELSE search[i + 1]
    IN  search[1]

Size(block) == block.last - block.first + 1

\* max(blocks, key=len): the first of the largest.
Largest_First(blocks) == blocks[1]
Largest(blocks) ==
    blocks[Min({b \in DOMAIN blocks :
                  \A c \in DOMAIN blocks : Size(blocks[c]) <= Size(blocks[b])})]

StripCodeFences(answer) ==
    LET blocks == Findall(answer)
    IN  IF blocks = <<>> THEN answer ELSE Lines(answer, Largest(blocks))

-----------------------------------------------------------------------------
(* What the writer of an answer means by it: fences come in pairs, the     *)
(* second of a pair is bare, and what is between them is the block.        *)

FencedBlocks(answer) ==
    LET IsBare(line) == line = "bare_fence"
        read[i \in 1..Len(answer) + 1] ==
            IF i > Len(answer) THEN <<>>
            ELSE IF ~HasTicks(answer[i]) THEN read[i + 1]
            ELSE IF \E k \in i+1..Len(answer) : IsBare(answer[k])
            THEN LET close == FirstFrom(i + 1, answer, IsBare)
                 IN  <<[first |-> i + 1, last |-> close - 1, fence |-> answer[i]]>>
                        \o read[close + 1]
            ELSE <<[first |-> i + 1, last |-> Len(answer) + 1, fence |-> "unclosed"]>>
    IN  read[1]

\* Every block is closed, and none quotes a fence.
WellFenced(answer) ==
    \A b \in DOMAIN FencedBlocks(answer) :
        LET block == FencedBlocks(answer)[b] IN
        /\ block.fence # "unclosed"
        /\ \A i \in block.first..block.last : ~HasTicks(answer[i])

\* ... and none is in another language.
PythonOnly(answer) ==
    \A b \in DOMAIN FencedBlocks(answer) : FencedBlocks(answer)[b].fence # "other_fence"

\* The blocks that may be Python, by their number.
PythonBlocks(answer) ==
    {b \in DOMAIN FencedBlocks(answer) : FencedBlocks(answer)[b].fence # "other_fence"}

\* The program meant: the largest block that may be Python, the first of these,
\* or the answer itself if it holds none.
IntendedCode(answer) ==
    IF PythonBlocks(answer) = {} THEN answer
    ELSE LET blocks == FencedBlocks(answer)
             best == CHOOSE b \in PythonBlocks(answer) :
                        \A c \in PythonBlocks(answer) :
                            /\ Size(blocks[c]) <= Size(blocks[b])
                            /\ c < b => Size(blocks[c]) < Size(blocks[b])
         IN  Lines(answer, blocks[best])
=============================================================================
