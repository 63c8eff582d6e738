------------------------- MODULE AnswerPipelineProofs -------------------------
(***************************************************************************)
(* Theorems about AnswerPipeline, for answers of any length: what is taken *)
(* from a well-fenced answer is the program meant, and the gate judges     *)
(* that program.                                                           *)
(*                                                                         *)
(* The search of strip_code_fences and a reading of the fences in pairs    *)
(* are two scans of the answer.  A scan is a head and a next position for  *)
(* every line; the two are compared from the end of the answer backwards.  *)
(***************************************************************************)
EXTENDS AnswerPipeline, WellFoundedInduction, TLAPS

USE AnswersAssumption

-----------------------------------------------------------------------------
(* Natural numbers.                                                          *)

LEMMA LeastElement ==
    ASSUME NEW T, T \subseteq Nat, T # {}
    PROVE  Min(T) \in T /\ \A j \in T : Min(T) <= j
<1>1. PICK k \in T : \A j \in T : ~(<<j, k>> \in OpToRel(<, Nat))
    BY NatLessThanWellFounded, WFMin
<1>2. \A j \in T : j \in Nat /\ k \in Nat /\ ~(j < k)
    BY <1>1 DEF OpToRel
<1>3. \A j \in T : k <= j
    BY <1>2
<1> QED
    BY <1>3, Zenon DEF Min

\* Induction from the end of an answer of n lines backwards.
LEMMA Backwards ==
    ASSUME NEW n \in Nat, NEW S,
           \A i \in 1..n + 1 : (\A j \in 1..n + 1 : i < j => j \in S) => i \in S
    PROVE  \A i \in 1..n + 1 : i \in S
<1> SUFFICES ASSUME NEW m \in 1..n + 1, m \notin S PROVE FALSE
    OBVIOUS
<1> DEFINE T == {k \in Nat : k <= n + 1 /\ (n + 1) - k \in 1..n + 1 /\ (n + 1) - k \notin S}
<1>1. T \subseteq Nat
    OBVIOUS
<1>2. T # {}
  <2>1. (n + 1) - ((n + 1) - m) = m /\ (n + 1) - m \in Nat /\ (n + 1) - m <= n + 1
    OBVIOUS
  <2>2. (n + 1) - m \in T
    BY <2>1
  <2> QED
    BY <2>2
<1>3. PICK k \in T : \A j \in T : k <= j
  <2> HIDE DEF T
  <2> QED
    BY <1>1, <1>2, LeastElement
<1> DEFINE i == (n + 1) - k
<1>4. k \in Nat /\ i \in 1..n + 1 /\ i \notin S
    OBVIOUS
<1>5. ASSUME NEW j \in 1..n + 1, i < j PROVE j \in S
  <2> SUFFICES ASSUME j \notin S PROVE FALSE
    OBVIOUS
  <2>1. (n + 1) - j \in Nat /\ (n + 1) - ((n + 1) - j) = j /\ (n + 1) - j <= n + 1
    OBVIOUS
  <2>2. (n + 1) - j \in T
    BY <2>1
  <2>3. k <= (n + 1) - j
    BY <1>3, <2>2
  <2> QED
    BY <1>4, <1>5, <2>1, <2>3
<1> QED
    BY <1>4, <1>5

-----------------------------------------------------------------------------
(* Scans.                                                                    *)

\* What a scan finds from each position on: the head there, and what it finds
\* from the next position on.
IsScan(f, n, head, next) ==
    /\ f[n + 1] = <<>>
    /\ \A i \in 1..n : f[i] = head[i] \o f[next[i]]

LEMMA ScanExists ==
    ASSUME NEW n \in Nat, NEW B, NEW head \in [1..n -> Seq(B)], NEW next \in [1..n -> Nat],
           \A i \in 1..n : next[i] \in i + 1..n + 1
    PROVE  \E f \in [1..n + 1 -> Seq(B)] : IsScan(f, n, head, next)
<1> DEFINE From(f, m) == /\ f \in [m..n + 1 -> Seq(B)]
                         /\ f[n + 1] = <<>>
                         /\ \A i \in m..n : f[i] = head[i] \o f[next[i]]
           S == {m \in 1..n + 1 : \E f : From(f, m)}
<1>1. ASSUME NEW m \in 1..n + 1, \A j \in 1..n + 1 : m < j => j \in S
      PROVE  m \in S
  <2>1. CASE m = n + 1
    <3>1. <<>> \in Seq(B) /\ m..n = {} /\ n + 1 \in m..n + 1
        BY <2>1
    <3>2. From([i \in m..n + 1 |-> <<>>], m)
        BY <3>1
    <3> QED
        BY <3>2
  <2>2. CASE m # n + 1
    <3>1. m \in 1..n /\ m + 1 \in 1..n + 1 /\ m < m + 1
        BY <2>2
    <3>2. m + 1 \in S
        BY <1>1, <3>1
    <3> HIDE DEF From
    <3>3. PICK f : From(f, m + 1)
        BY <3>2
    <3> USE DEF From
    <3>4. next[m] \in m + 1..n + 1 /\ f[next[m]] \in Seq(B) /\ head[m] \in Seq(B)
        BY <3>1, <3>3
    <3>5. head[m] \o f[next[m]] \in Seq(B)
        BY <3>4
    <3> DEFINE g == [i \in m..n + 1 |-> IF i = m THEN head[m] \o f[next[m]] ELSE f[i]]
    <3>6. \A i \in m..n + 1 : i = m \/ i \in m + 1..n + 1
        BY <3>1
    <3>7. g \in [m..n + 1 -> Seq(B)] /\ g[n + 1] = <<>>
        BY <3>1, <3>3, <3>5, <3>6
    <3>8. ASSUME NEW i \in m..n PROVE g[i] = head[i] \o g[next[i]]
      <4>1. next[i] \in i + 1..n + 1 /\ next[i] # m /\ next[i] \in m..n + 1
        BY <3>1
      <4>2. g[next[i]] = f[next[i]]
        BY <4>1
      <4>3. CASE i = m
        BY <4>2, <4>3, <3>1
      <4>4. CASE i # m
        <5>1. i \in m + 1..n /\ g[i] = f[i]
            BY <3>1, <4>4
        <5> QED
            BY <3>3, <4>2, <5>1
      <4> QED
        BY <4>3, <4>4
    <3>9. From(g, m)
        BY <3>7, <3>8
    <3> HIDE DEF From
    <3> QED
        BY <3>9
  <2> QED
    BY <2>1, <2>2
<1>2. 1 \in S
  <2> HIDE DEF S
  <2>1. \A i \in 1..n + 1 : i \in S
    BY <1>1, Backwards
  <2> QED
    BY <2>1
<1> QED
    BY <1>2 DEF IsScan

-----------------------------------------------------------------------------
(* The search of strip_code_fences and the reading in pairs are scans.       *)

Block(n) == [first : 1..n + 1, last : 0..n]
ReadBlock(n) == [first : 1..n + 1, last : 0..n + 1, fence : Fence \cup {"unclosed"}]

\* The lines after the i-th that may close what opens there.
Closers(ans, i) == {k \in i + 1..Len(ans) : HasTicks(ans[k])}
BareClosers(ans, i) == {k \in i + 1..Len(ans) : ans[k] = "bare_fence"}

Opens(ans, i) == OpensBlock(ans[i]) /\ Closers(ans, i) # {}

SearchHead(ans) ==
    [i \in 1..Len(ans) |->
        IF Opens(ans, i)
        THEN <<[first |-> i + 1, last |-> Min(Closers(ans, i)) - 1]>> ELSE <<>>]
SearchNext(ans) ==
    [i \in 1..Len(ans) |-> IF Opens(ans, i) THEN Min(Closers(ans, i)) + 1 ELSE i + 1]

ReadHead(ans) ==
    [i \in 1..Len(ans) |->
        IF ~HasTicks(ans[i]) THEN <<>>
        ELSE IF BareClosers(ans, i) # {}
        THEN <<[first |-> i + 1, last |-> Min(BareClosers(ans, i)) - 1, fence |-> ans[i]]>>
        ELSE <<[first |-> i + 1, last |-> Len(ans) + 1, fence |-> "unclosed"]>>]
ReadNext(ans) ==
    [i \in 1..Len(ans) |->
        IF ~HasTicks(ans[i]) THEN i + 1
        ELSE IF BareClosers(ans, i) # {} THEN Min(BareClosers(ans, i)) + 1
        ELSE Len(ans) + 1]

LEMMA CloserAfter ==
    ASSUME NEW ans \in Seq(LineKind), NEW i \in 1..Len(ans)
    PROVE  /\ Closers(ans, i) # {} =>
                 /\ Min(Closers(ans, i)) \in i + 1..Len(ans)
                 /\ Min(Closers(ans, i)) \in Closers(ans, i)
                 /\ \A k \in Closers(ans, i) : Min(Closers(ans, i)) <= k
           /\ BareClosers(ans, i) # {} =>
                 /\ Min(BareClosers(ans, i)) \in i + 1..Len(ans)
                 /\ Min(BareClosers(ans, i)) \in BareClosers(ans, i)
                 /\ \A k \in BareClosers(ans, i) : Min(BareClosers(ans, i)) <= k
<1>1. Closers(ans, i) \subseteq Nat /\ BareClosers(ans, i) \subseteq Nat
    BY DEF Closers, BareClosers
<1>2. /\ Closers(ans, i) \subseteq i + 1..Len(ans)
      /\ BareClosers(ans, i) \subseteq i + 1..Len(ans)
    BY DEF Closers, BareClosers
<1> QED
    BY <1>1, <1>2, LeastElement

LEMMA SearchTypes ==
    ASSUME NEW ans \in Seq(LineKind)
    PROVE  /\ SearchHead(ans) \in [1..Len(ans) -> Seq(Block(Len(ans)))]
           /\ SearchNext(ans) \in [1..Len(ans) -> Nat]
           /\ \A i \in 1..Len(ans) : SearchNext(ans)[i] \in i + 1..Len(ans) + 1
<1> DEFINE n == Len(ans)
<1>1. n \in Nat
    OBVIOUS
<1>2. ASSUME NEW i \in 1..n
      PROVE  SearchHead(ans)[i] \in Seq(Block(n)) /\ SearchNext(ans)[i] \in i + 1..n + 1
  <2>1. CASE Opens(ans, i)
    <3> DEFINE close == Min(Closers(ans, i))
    <3>1. close \in i + 1..n
        BY <2>1, CloserAfter DEF Opens
    <3>2. /\ SearchHead(ans)[i] = <<[first |-> i + 1, last |-> close - 1]>>
          /\ SearchNext(ans)[i] = close + 1
        BY <2>1 DEF SearchHead, SearchNext
    <3> HIDE DEF close, n
    <3>3. [first |-> i + 1, last |-> close - 1] \in Block(n)
        BY <1>1, <3>1 DEF Block
    <3> QED
        BY <1>1, <3>1, <3>2, <3>3
  <2>2. CASE ~Opens(ans, i)
    BY <1>1, <2>2 DEF SearchHead, SearchNext
  <2> QED
    BY <2>1, <2>2
<1>3. /\ SearchHead(ans) = [i \in 1..n |-> SearchHead(ans)[i]]
      /\ SearchNext(ans) = [i \in 1..n |-> SearchNext(ans)[i]]
    BY Zenon DEF SearchHead, SearchNext
<1>4. \A i \in 1..n : SearchNext(ans)[i] \in Nat
    BY <1>1, <1>2
<1> HIDE DEF n
<1>5. /\ SearchHead(ans) \in [1..n -> Seq(Block(n))]
      /\ SearchNext(ans) \in [1..n -> Nat]
    BY <1>2, <1>3, <1>4, Zenon
<1> QED
    BY <1>2, <1>5 DEF n

LEMMA EmptyPrefix ==
    ASSUME NEW B, NEW s \in Seq(B) PROVE <<>> \o s = s
OBVIOUS

LEMMA SearchIsScan ==
    ASSUME NEW ans \in Seq(LineKind)
    PROVE  \E f \in [1..Len(ans) + 1 -> Seq(Block(Len(ans)))] :
              /\ IsScan(f, Len(ans), SearchHead(ans), SearchNext(ans))
              /\ Findall(ans) = f[1]
<1> DEFINE n == Len(ans)
           body(g) ==
              [i \in 1..n + 1 |->
                 IF i > n THEN <<>>
                 ELSE IF OpensBlock(ans[i]) /\ \E k \in i+1..n : HasTicks(ans[k])
                 THEN LET close == FirstFrom(i + 1, ans, HasTicks)
                      IN  <<[first |-> i + 1, last |-> close - 1]>> \o g[close + 1]
                 ELSE g[i + 1]]
           search == CHOOSE g : g = body(g)
<1>1. n \in Nat
    OBVIOUS
\* One step of the search is one step of the scan.
<1>2. ASSUME NEW i \in 1..n, NEW g
      PROVE  body(g)[i] = IF Opens(ans, i)
                          THEN SearchHead(ans)[i] \o g[SearchNext(ans)[i]]
                          ELSE g[SearchNext(ans)[i]]
  <2>1. FirstFrom(i + 1, ans, HasTicks) = Min(Closers(ans, i))
    BY DEF FirstFrom, Closers
  <2>2. Opens(ans, i) <=> OpensBlock(ans[i]) /\ \E k \in i+1..n : HasTicks(ans[k])
    BY DEF Opens, Closers
  <2>3. ~(i > n) /\ i \in 1..n + 1
    BY <1>1
  <2> QED
    BY <2>1, <2>2, <2>3, Zenon DEF SearchHead, SearchNext
<1>3. PICK f \in [1..n + 1 -> Seq(Block(n))] : IsScan(f, n, SearchHead(ans), SearchNext(ans))
    BY <1>1, SearchTypes, ScanExists
<1>4. f = body(f)
  <2>1. ASSUME NEW i \in 1..n + 1 PROVE f[i] = body(f)[i]
    <3>1. CASE i = n + 1
      <4>1. i > n /\ f[i] = <<>>
        BY <1>1, <1>3, <3>1 DEF IsScan
      <4> QED
        BY <4>1
    <3>2. CASE i # n + 1
      <4>1. i \in 1..n
        BY <1>1, <3>2
      <4>2. f[i] = SearchHead(ans)[i] \o f[SearchNext(ans)[i]]
        BY <1>3, <4>1 DEF IsScan
      <4>3. SearchNext(ans)[i] \in 1..n + 1
        BY <1>1, <4>1, SearchTypes
      <4>4. ~Opens(ans, i) => SearchHead(ans)[i] = <<>>
        BY <4>1 DEF SearchHead
      <4>5. ~Opens(ans, i) => f[i] = f[SearchNext(ans)[i]]
        <5>1. f[SearchNext(ans)[i]] \in Seq(Block(n))
            BY <1>3, <4>3
        <5>2. <<>> \o f[SearchNext(ans)[i]] = f[SearchNext(ans)[i]]
            BY <5>1, EmptyPrefix
        <5> QED
            BY <4>2, <4>4, <5>2
      <4> HIDE DEF body
      <4> QED
        BY <1>2, <4>1, <4>2, <4>5
    <3> QED
        BY <3>1, <3>2
  <2>2. body(f) = [i \in 1..n + 1 |-> body(f)[i]] /\ f = [i \in 1..n + 1 |-> f[i]]
    BY Zenon, <1>3
  <2> HIDE DEF body
  <2> QED
    BY <2>1, <2>2
<1>5. search = body(search)
    BY <1>4, Zenon
<1>6. Findall(ans) = search[1]
    BY Zenon DEF Findall
<1> HIDE DEF search
<1>7. search[n + 1] = <<>>
  <2>1. n + 1 > n /\ n + 1 \in 1..n + 1
    BY <1>1
  <2>2. body(search)[n + 1] = <<>>
    BY <2>1
  <2> QED
    BY <1>5, <2>2
\* The equation has one solution.
<1>8. ASSUME NEW i \in 1..n + 1, \A j \in 1..n + 1 : i < j => search[j] = f[j]
      PROVE  search[i] = f[i]
  <2>1. CASE i = n + 1
    BY <1>3, <1>7, <2>1 DEF IsScan
  <2>2. CASE i # n + 1
    <3>1. i \in 1..n /\ SearchNext(ans)[i] \in 1..n + 1 /\ i < SearchNext(ans)[i]
      <4>1. i \in 1..n
        BY <1>1, <2>2
      <4>2. SearchNext(ans)[i] \in i + 1..n + 1
        BY <4>1, SearchTypes
      <4> QED
        BY <1>1, <4>1, <4>2
    <3>2. search[SearchNext(ans)[i]] = f[SearchNext(ans)[i]]
        BY <1>8, <3>1
    <3>3. search[i] = body(search)[i] /\ f[i] = body(f)[i]
        BY <1>4, <1>5, Zenon
    <3> HIDE DEF body
    <3> QED
        BY <1>2, <3>1, <3>2, <3>3
  <2> QED
    BY <2>1, <2>2
<1>9. search[1] = f[1]
  <2> DEFINE S == {i \in 1..n + 1 : search[i] = f[i]}
  <2>1. \A i \in 1..n + 1 : (\A j \in 1..n + 1 : i < j => j \in S) => i \in S
    BY <1>8
  <2> HIDE DEF S
  <2>2. \A i \in 1..n + 1 : i \in S
    BY <1>1, <2>1, Backwards
  <2> QED
    BY <1>1, <2>2 DEF S
<1> QED
    BY <1>3, <1>6, <1>9

LEMMA ReadTypes ==
    ASSUME NEW ans \in Seq(LineKind)
    PROVE  /\ ReadHead(ans) \in [1..Len(ans) -> Seq(ReadBlock(Len(ans)))]
           /\ ReadNext(ans) \in [1..Len(ans) -> Nat]
           /\ \A i \in 1..Len(ans) : ReadNext(ans)[i] \in i + 1..Len(ans) + 1
<1> DEFINE n == Len(ans)
<1>1. n \in Nat
    OBVIOUS
<1>2. ASSUME NEW i \in 1..n
      PROVE  ReadHead(ans)[i] \in Seq(ReadBlock(n)) /\ ReadNext(ans)[i] \in i + 1..n + 1
  <2>1. CASE ~HasTicks(ans[i])
    BY <1>1, <2>1 DEF ReadHead, ReadNext
  <2>2. CASE HasTicks(ans[i]) /\ BareClosers(ans, i) # {}
    <3> DEFINE close == Min(BareClosers(ans, i))
    <3>1. close \in i + 1..n /\ ans[i] \in Fence
        BY <2>2, CloserAfter DEF HasTicks
    <3>2. /\ ReadHead(ans)[i] = <<[first |-> i + 1, last |-> close - 1, fence |-> ans[i]]>>
          /\ ReadNext(ans)[i] = close + 1
        BY <2>2 DEF ReadHead, ReadNext
    <3> HIDE DEF close, n
    <3>3. [first |-> i + 1, last |-> close - 1, fence |-> ans[i]] \in ReadBlock(n)
        BY <1>1, <3>1 DEF ReadBlock
    <3> QED
        BY <1>1, <3>1, <3>2, <3>3
  <2>3. CASE HasTicks(ans[i]) /\ BareClosers(ans, i) = {}
    <3>1. /\ ReadHead(ans)[i] = <<[first |-> i + 1, last |-> n + 1, fence |-> "unclosed"]>>
          /\ ReadNext(ans)[i] = n + 1
        BY <2>3 DEF ReadHead, ReadNext
    <3> HIDE DEF n
    <3>2. [first |-> i + 1, last |-> n + 1, fence |-> "unclosed"] \in ReadBlock(n)
        BY <1>1 DEF ReadBlock
    <3> QED
        BY <1>1, <3>1, <3>2
  <2> QED
    BY <2>1, <2>2, <2>3
<1>3. /\ ReadHead(ans) = [i \in 1..n |-> ReadHead(ans)[i]]
      /\ ReadNext(ans) = [i \in 1..n |-> ReadNext(ans)[i]]
    BY Zenon DEF ReadHead, ReadNext
<1>4. \A i \in 1..n : ReadNext(ans)[i] \in Nat
    BY <1>1, <1>2
<1> HIDE DEF n
<1>5. /\ ReadHead(ans) \in [1..n -> Seq(ReadBlock(n))]
      /\ ReadNext(ans) \in [1..n -> Nat]
    BY <1>2, <1>3, <1>4, Zenon
<1> QED
    BY <1>2, <1>5 DEF n

LEMMA EmptySuffix ==
    ASSUME NEW B, NEW s \in Seq(B) PROVE s \o <<>> = s
OBVIOUS

LEMMA ReadIsScan ==
    ASSUME NEW ans \in Seq(LineKind)
    PROVE  \E f \in [1..Len(ans) + 1 -> Seq(ReadBlock(Len(ans)))] :
              /\ IsScan(f, Len(ans), ReadHead(ans), ReadNext(ans))
              /\ FencedBlocks(ans) = f[1]
<1> DEFINE n == Len(ans)
           IsBare(line) == line = "bare_fence"
           body(g) ==
              [i \in 1..n + 1 |->
                 IF i > n THEN <<>>
                 ELSE IF ~HasTicks(ans[i]) THEN g[i + 1]
                 ELSE IF \E k \in i+1..n : IsBare(ans[k])
                 THEN LET close == FirstFrom(i + 1, ans, IsBare)
                      IN  <<[first |-> i + 1, last |-> close - 1, fence |-> ans[i]]>>
                             \o g[close + 1]
                 ELSE <<[first |-> i + 1, last |-> n + 1, fence |-> "unclosed"]>>]
           read == CHOOSE g : g = body(g)
<1>1. n \in Nat
    OBVIOUS
\* One step of the reading is one step of the scan.
<1>2. ASSUME NEW i \in 1..n, NEW g
      PROVE  body(g)[i] = IF ~HasTicks(ans[i]) THEN g[ReadNext(ans)[i]]
                          ELSE IF BareClosers(ans, i) # {}
                          THEN ReadHead(ans)[i] \o g[ReadNext(ans)[i]]
                          ELSE ReadHead(ans)[i]
  <2>1. FirstFrom(i + 1, ans, IsBare) = Min(BareClosers(ans, i))
    BY DEF FirstFrom, BareClosers
  <2>2. BareClosers(ans, i) # {} <=> \E k \in i+1..n : IsBare(ans[k])
    BY DEF BareClosers
  <2>3. ~(i > n) /\ i \in 1..n + 1
    BY <1>1
  <2> QED
    BY <2>1, <2>2, <2>3, Zenon DEF ReadHead, ReadNext
<1>3. PICK f \in [1..n + 1 -> Seq(ReadBlock(n))] : IsScan(f, n, ReadHead(ans), ReadNext(ans))
    BY <1>1, ReadTypes, ScanExists
<1>4. f = body(f)
  <2>1. ASSUME NEW i \in 1..n + 1 PROVE f[i] = body(f)[i]
    <3>1. CASE i = n + 1
      <4>1. i > n /\ f[i] = <<>>
        BY <1>1, <1>3, <3>1 DEF IsScan
      <4> QED
        BY <4>1
    <3>2. CASE i # n + 1
      <4>1. i \in 1..n
        BY <1>1, <3>2
      <4>2. f[i] = ReadHead(ans)[i] \o f[ReadNext(ans)[i]]
        BY <1>3, <4>1 DEF IsScan
      <4>3. ReadNext(ans)[i] \in 1..n + 1
        BY <1>1, <4>1, ReadTypes
      <4>4. ~HasTicks(ans[i]) => f[i] = f[ReadNext(ans)[i]]
        <5>1. f[ReadNext(ans)[i]] \in Seq(ReadBlock(n))
            BY <1>3, <4>3
        <5>2. <<>> \o f[ReadNext(ans)[i]] = f[ReadNext(ans)[i]]
            BY <5>1, EmptyPrefix
        <5>3. ~HasTicks(ans[i]) => ReadHead(ans)[i] = <<>>
            BY <4>1 DEF ReadHead
        <5> QED
            BY <4>2, <5>2, <5>3
      <4>5. HasTicks(ans[i]) /\ BareClosers(ans, i) = {} => f[i] = ReadHead(ans)[i]
        <5>1. HasTicks(ans[i]) /\ BareClosers(ans, i) = {} => ReadNext(ans)[i] = n + 1
            BY <4>1 DEF ReadNext
        <5>2. f[n + 1] = <<>>
            BY <1>3 DEF IsScan
        <5>3. ReadHead(ans)[i] \in Seq(ReadBlock(n))
            BY <4>1, ReadTypes
        <5>4. ReadHead(ans)[i] \o <<>> = ReadHead(ans)[i]
            BY <5>3, EmptySuffix
        <5> QED
            BY <4>2, <5>1, <5>2, <5>4
      <4> HIDE DEF body
      <4> QED
        BY <1>2, <4>1, <4>2, <4>4, <4>5
    <3> QED
        BY <3>1, <3>2
  <2>2. body(f) = [i \in 1..n + 1 |-> body(f)[i]] /\ f = [i \in 1..n + 1 |-> f[i]]
    BY Zenon, <1>3
  <2> HIDE DEF body
  <2> QED
    BY <2>1, <2>2
<1>5. read = body(read)
    BY <1>4, Zenon
<1>6. FencedBlocks(ans) = read[1]
    BY Zenon DEF FencedBlocks
<1> HIDE DEF read
<1>7. read[n + 1] = <<>>
  <2>1. n + 1 > n /\ n + 1 \in 1..n + 1
    BY <1>1
  <2>2. body(read)[n + 1] = <<>>
    BY <2>1
  <2> QED
    BY <1>5, <2>2
\* The equation has one solution.
<1>8. ASSUME NEW i \in 1..n + 1, \A j \in 1..n + 1 : i < j => read[j] = f[j]
      PROVE  read[i] = f[i]
  <2>1. CASE i = n + 1
    BY <1>3, <1>7, <2>1 DEF IsScan
  <2>2. CASE i # n + 1
    <3>1. i \in 1..n /\ ReadNext(ans)[i] \in 1..n + 1 /\ i < ReadNext(ans)[i]
      <4>1. i \in 1..n
        BY <1>1, <2>2
      <4>2. ReadNext(ans)[i] \in i + 1..n + 1
        BY <4>1, ReadTypes
      <4> QED
        BY <1>1, <4>1, <4>2
    <3>2. read[ReadNext(ans)[i]] = f[ReadNext(ans)[i]]
        BY <1>8, <3>1
    <3>3. read[i] = body(read)[i] /\ f[i] = body(f)[i]
        BY <1>4, <1>5, Zenon
    <3> HIDE DEF body
    <3> QED
        BY <1>2, <3>1, <3>2, <3>3
  <2> QED
    BY <2>1, <2>2
<1>9. read[1] = f[1]
  <2> DEFINE S == {i \in 1..n + 1 : read[i] = f[i]}
  <2>1. \A i \in 1..n + 1 : (\A j \in 1..n + 1 : i < j => j \in S) => i \in S
    BY <1>8
  <2> HIDE DEF S
  <2>2. \A i \in 1..n + 1 : i \in S
    BY <1>1, <2>1, Backwards
  <2> QED
    BY <1>1, <2>2 DEF S
<1> QED
    BY <1>3, <1>6, <1>9

-----------------------------------------------------------------------------
(* On well-fenced answers the two scans find the same blocks.                *)

AllGood(ans, blocks) ==
    \A b \in DOMAIN blocks :
        /\ blocks[b].fence # "unclosed" /\ blocks[b].fence # "other_fence"
        /\ \A k \in blocks[b].first..blocks[b].last : ~HasTicks(ans[k])

SameBlocks(found, meant) ==
    /\ Len(found) = Len(meant)
    /\ \A b \in 1..Len(found) : found[b].first = meant[b].first /\ found[b].last = meant[b].last

LEMMA OneMore ==
    ASSUME NEW B, NEW x \in B, NEW s \in Seq(B)
    PROVE  /\ <<x>> \o s \in Seq(B) /\ Len(<<x>> \o s) = Len(s) + 1 /\ Len(s) \in Nat
           /\ (<<x>> \o s)[1] = x
           /\ \A b \in 1..Len(s) : (<<x>> \o s)[b + 1] = s[b]
OBVIOUS

LEMMA ScansAgree ==
    ASSUME NEW ans \in Seq(LineKind),
           NEW f \in [1..Len(ans) + 1 -> Seq(Block(Len(ans)))],
           IsScan(f, Len(ans), SearchHead(ans), SearchNext(ans)),
           NEW r \in [1..Len(ans) + 1 -> Seq(ReadBlock(Len(ans)))],
           IsScan(r, Len(ans), ReadHead(ans), ReadNext(ans)),
           AllGood(ans, r[1])
    PROVE  SameBlocks(f[1], r[1])
<1> DEFINE n == Len(ans)
           S == {i \in 1..n + 1 : AllGood(ans, r[i]) => SameBlocks(f[i], r[i])}
<1>1. n \in Nat
    OBVIOUS
<1>2. ASSUME NEW i \in 1..n + 1, \A j \in 1..n + 1 : i < j => j \in S, AllGood(ans, r[i])
      PROVE  SameBlocks(f[i], r[i])
  <2>1. CASE i = n + 1
    <3>1. f[i] = <<>> /\ r[i] = <<>>
        BY <2>1 DEF IsScan
    <3> QED
        BY <3>1 DEF SameBlocks
  <2>2. CASE i # n + 1
    <3>1. i \in 1..n
        BY <1>1, <2>2
    <3>2. /\ f[i] = SearchHead(ans)[i] \o f[SearchNext(ans)[i]]
          /\ r[i] = ReadHead(ans)[i] \o r[ReadNext(ans)[i]]
        BY <3>1 DEF IsScan
    <3>3. CASE ~HasTicks(ans[i])
      <4>1. /\ SearchHead(ans)[i] = <<>> /\ SearchNext(ans)[i] = i + 1
            /\ ReadHead(ans)[i] = <<>> /\ ReadNext(ans)[i] = i + 1
        BY <3>1, <3>3
        DEF SearchHead, SearchNext, ReadHead, ReadNext, Opens, OpensBlock, HasTicks, Fence
      <4>2. i + 1 \in 1..n + 1 /\ i < i + 1
        BY <1>1, <3>1
      <4>3. f[i] = f[i + 1] /\ r[i] = r[i + 1]
        <5>1. f[i + 1] \in Seq(Block(n)) /\ r[i + 1] \in Seq(ReadBlock(n))
            BY <4>2
        <5>2. <<>> \o f[i + 1] = f[i + 1] /\ <<>> \o r[i + 1] = r[i + 1]
            BY <5>1, EmptyPrefix
        <5> QED
            BY <3>2, <4>1, <5>2
      <4> QED
        BY <1>2, <4>2, <4>3
    <3>4. CASE HasTicks(ans[i]) /\ BareClosers(ans, i) = {}
      <4> DEFINE x == [first |-> i + 1, last |-> n + 1, fence |-> "unclosed"]
      <4>1. ReadHead(ans)[i] = <<x>> /\ ReadNext(ans)[i] = n + 1
        BY <3>1, <3>4 DEF ReadHead, ReadNext
      <4>2. x \in ReadBlock(n) /\ r[n + 1] \in Seq(ReadBlock(n))
        <5> HIDE DEF n
        <5>1. x \in ReadBlock(n)
            BY <1>1, <3>1 DEF ReadBlock
        <5>2. n + 1 \in 1..n + 1
            BY <1>1
        <5> QED
            BY <5>1, <5>2 DEF n
      <4> HIDE DEF x
      <4>3. r[i] = <<x>> \o r[n + 1]
        BY <3>2, <4>1
      <4>4. 1 \in DOMAIN r[i] /\ r[i][1] = x
        BY <4>2, <4>3, OneMore
      <4>5. r[i][1].fence # "unclosed"
        BY <1>2, <4>4 DEF AllGood
      <4> QED
        BY <4>4, <4>5 DEF x
    <3>5. CASE HasTicks(ans[i]) /\ BareClosers(ans, i) # {}
      <4> DEFINE c == Min(BareClosers(ans, i))
                 x == [first |-> i + 1, last |-> c - 1, fence |-> ans[i]]
                 y == [first |-> i + 1, last |-> c - 1]
      <4>1. /\ c \in i + 1..n /\ ans[c] = "bare_fence"
            /\ c + 1 \in 1..n + 1 /\ i < c + 1
        <5>1. c \in i + 1..n /\ c \in BareClosers(ans, i)
            BY <3>1, <3>5, CloserAfter
        <5>2. ans[c] = "bare_fence"
            BY <5>1 DEF BareClosers
        <5> HIDE DEF c, n
        <5> QED
            BY <1>1, <3>1, <5>1, <5>2
      <4>2. ReadHead(ans)[i] = <<x>> /\ ReadNext(ans)[i] = c + 1
        BY <3>1, <3>5 DEF ReadHead, ReadNext
      <4> HIDE DEF c
      <4>3. /\ x \in ReadBlock(n) /\ r[c + 1] \in Seq(ReadBlock(n))
            /\ y \in Block(n) /\ f[c + 1] \in Seq(Block(n))
        <5> HIDE DEF n
        <5>1. ans[i] \in Fence
            BY <3>5 DEF HasTicks
        <5>2. x \in ReadBlock(n)
            BY <1>1, <3>1, <4>1, <5>1 DEF ReadBlock
        <5>3. y \in Block(n)
            BY <1>1, <3>1, <4>1 DEF Block
        <5> QED
            BY <4>1, <5>2, <5>3 DEF n
      <4>4. x.fence = ans[i] /\ x.first = i + 1 /\ x.last = c - 1 /\ y.first = i + 1 /\ y.last = c - 1
        OBVIOUS
      <4> HIDE DEF x, y
      <4>5. /\ r[i] = <<x>> \o r[c + 1]
            /\ Len(r[i]) = Len(r[c + 1]) + 1 /\ Len(r[c + 1]) \in Nat
            /\ r[i] \in Seq(ReadBlock(n)) /\ r[i][1] = x
            /\ \A b \in 1..Len(r[c + 1]) : r[i][b + 1] = r[c + 1][b]
        <5>1. r[i] = <<x>> \o r[c + 1]
            BY <3>2, <4>2
        <5> QED
            BY <4>3, <5>1, OneMore
      <4>6. /\ x.fence # "other_fence"
            /\ \A k \in i + 1..c - 1 : ~HasTicks(ans[k])
        <5>1. 1 \in DOMAIN r[i]
            BY <4>5
        <5> QED
            BY <1>2, <4>4, <4>5, <5>1 DEF AllGood
      \* The first backticks after an opening fence are the bare fence of its pair.
      <4>7. Opens(ans, i) /\ Min(Closers(ans, i)) = c
        <5>1. c \in Closers(ans, i)
            BY <4>1 DEF Closers, HasTicks, Fence
        <5>2. Opens(ans, i)
            BY <3>5, <4>4, <4>6, <5>1 DEF Opens, OpensBlock, HasTicks, Fence
        <5>3. /\ Min(Closers(ans, i)) \in i + 1..n
              /\ HasTicks(ans[Min(Closers(ans, i))])
              /\ Min(Closers(ans, i)) <= c
            BY <3>1, <5>1, CloserAfter DEF Closers
        <5>4. ~(Min(Closers(ans, i)) \in i + 1..c - 1)
            BY <4>6, <5>3
        <5> QED
            BY <1>1, <3>1, <4>1, <5>2, <5>3, <5>4
      <4>8. SearchHead(ans)[i] = <<y>> /\ SearchNext(ans)[i] = c + 1
        BY <3>1, <4>7 DEF SearchHead, SearchNext, y
      <4>9. /\ f[i] = <<y>> \o f[c + 1]
            /\ Len(f[i]) = Len(f[c + 1]) + 1 /\ Len(f[c + 1]) \in Nat
            /\ f[i][1] = y
            /\ \A b \in 1..Len(f[c + 1]) : f[i][b + 1] = f[c + 1][b]
        <5>1. f[i] = <<y>> \o f[c + 1]
            BY <3>2, <4>8
        <5> QED
            BY <4>3, <5>1, OneMore
      <4>10. AllGood(ans, r[c + 1])
        <5> SUFFICES ASSUME NEW b \in DOMAIN r[c + 1]
                     PROVE  /\ r[c + 1][b].fence # "unclosed" /\ r[c + 1][b].fence # "other_fence"
                            /\ \A k \in r[c + 1][b].first..r[c + 1][b].last : ~HasTicks(ans[k])
            BY DEF AllGood
        <5>1. b \in 1..Len(r[c + 1]) /\ b + 1 \in DOMAIN r[i]
            BY <4>3, <4>5
        <5> QED
            BY <1>2, <4>5, <5>1 DEF AllGood
      <4>11. SameBlocks(f[c + 1], r[c + 1])
        BY <1>2, <4>1, <4>10
      <4>12. ASSUME NEW b \in 1..Len(f[i])
             PROVE  f[i][b].first = r[i][b].first /\ f[i][b].last = r[i][b].last
        <5>1. CASE b = 1
            BY <4>4, <4>5, <4>9, <5>1
        <5>2. CASE b # 1
          <6>1. b - 1 \in 1..Len(f[c + 1]) /\ (b - 1) + 1 = b /\ b - 1 \in 1..Len(r[c + 1])
            BY <4>9, <4>11, <5>2 DEF SameBlocks
          <6>2. f[i][b] = f[c + 1][b - 1] /\ r[i][b] = r[c + 1][b - 1]
            BY <4>5, <4>9, <6>1
          <6> QED
            BY <4>11, <6>1, <6>2 DEF SameBlocks
        <5> QED
            BY <5>1, <5>2
      <4> QED
        BY <4>5, <4>9, <4>11, <4>12 DEF SameBlocks
    <3> QED
        BY <3>3, <3>4, <3>5
  <2> QED
    BY <2>1, <2>2
<1>3. \A i \in 1..n + 1 : i \in S
  <2>1. \A i \in 1..n + 1 : (\A j \in 1..n + 1 : i < j => j \in S) => i \in S
    BY <1>2
  <2> HIDE DEF S
  <2> QED
    BY <1>1, <2>1, Backwards
<1> QED
    BY <1>1, <1>3

-----------------------------------------------------------------------------
(* The largest block, and what is taken from an answer.                      *)

LargestOf(blocks) == {b \in DOMAIN blocks : \A c \in DOMAIN blocks : Size(blocks[c]) <= Size(blocks[b])}

LEMMA LargestIndex ==
    ASSUME NEW n \in Nat, NEW blocks \in Seq(Block(n)), blocks # <<>>
    PROVE  /\ Min(LargestOf(blocks)) \in LargestOf(blocks)
           /\ \A b \in LargestOf(blocks) : Min(LargestOf(blocks)) <= b
<1>1. \A b \in DOMAIN blocks : blocks[b] \in Block(n)
    OBVIOUS
<1>2. \A b \in DOMAIN blocks : Size(blocks[b]) \in Int /\ n + 1 - Size(blocks[b]) \in Nat
    BY <1>1 DEF Size, Block
<1> DEFINE T == {n + 1 - Size(blocks[b]) : b \in DOMAIN blocks}
<1>3. T \subseteq Nat /\ T # {}
    BY <1>2
<1>4. Min(T) \in T /\ \A j \in T : Min(T) <= j
  <2> HIDE DEF T
  <2> QED
    BY <1>3, LeastElement
<1>5. PICK b \in DOMAIN blocks : Min(T) = n + 1 - Size(blocks[b])
    BY <1>4
<1>6. \A c \in DOMAIN blocks : n + 1 - Size(blocks[b]) <= n + 1 - Size(blocks[c])
    BY <1>4, <1>5
<1>7. \A c \in DOMAIN blocks : Size(blocks[c]) <= Size(blocks[b])
    BY <1>2, <1>6
<1>8. LargestOf(blocks) # {} /\ LargestOf(blocks) \subseteq Nat
    BY <1>7 DEF LargestOf
<1> QED
    BY <1>8, LeastElement

LEMMA Taken ==
    ASSUME NEW ans \in Seq(LineKind)
    PROVE  /\ Findall(ans) \in Seq(Block(Len(ans)))
           /\ StripCodeFences(ans) \in Seq(LineKind)
<1>1. Len(ans) \in Nat
    OBVIOUS
<1>2. Findall(ans) \in Seq(Block(Len(ans)))
  <2>1. PICK f \in [1..Len(ans) + 1 -> Seq(Block(Len(ans)))] : Findall(ans) = f[1]
    BY SearchIsScan
  <2>2. 1 \in 1..Len(ans) + 1
    BY <1>1
  <2> QED
    BY <2>1, <2>2
<1>3. CASE Findall(ans) = <<>>
    BY <1>2, <1>3 DEF StripCodeFences
<1>4. CASE Findall(ans) # <<>>
  <2> DEFINE block == Findall(ans)[Min(LargestOf(Findall(ans)))]
  <2>1. block \in Block(Len(ans))
    BY <1>1, <1>2, <1>4, LargestIndex DEF LargestOf
  <2>2. StripCodeFences(ans) = SubSeq(ans, block.first, block.last)
    BY <1>4 DEF StripCodeFences, Lines, Largest, LargestOf
  <2> HIDE DEF block
  <2>3. block.first \in 1..Len(ans) + 1 /\ block.last \in 0..Len(ans)
    BY <2>1 DEF Block
  <2> QED
    BY <1>1, <1>2, <2>2, <2>3
<1> QED
    BY <1>2, <1>3, <1>4

LEMMA TakesIntended ==
    ASSUME NEW ans \in Seq(LineKind), WellFenced(ans), PythonOnly(ans)
    PROVE  StripCodeFences(ans) = IntendedCode(ans)
<1> DEFINE n == Len(ans)
           found == Findall(ans)
           meant == FencedBlocks(ans)
<1>1. PICK f \in [1..n + 1 -> Seq(Block(n))] :
         IsScan(f, n, SearchHead(ans), SearchNext(ans)) /\ found = f[1]
    BY SearchIsScan
<1>2. PICK r \in [1..n + 1 -> Seq(ReadBlock(n))] :
         IsScan(r, n, ReadHead(ans), ReadNext(ans)) /\ meant = r[1]
    BY ReadIsScan
<1>3. AllGood(ans, meant)
    BY DEF AllGood, WellFenced, PythonOnly
<1>4. SameBlocks(found, meant)
    BY <1>1, <1>2, <1>3, ScansAgree
<1>5. n \in Nat /\ found \in Seq(Block(n)) /\ meant \in Seq(ReadBlock(n))
    BY <1>1, <1>2
<1>6. PythonBlocks(ans) = DOMAIN meant
    BY DEF PythonBlocks, PythonOnly
<1> HIDE DEF n, found, meant
<1>7. /\ DOMAIN found = DOMAIN meant /\ DOMAIN found \subseteq Nat
      /\ \A b \in DOMAIN found : /\ found[b].first = meant[b].first
                                 /\ found[b].last = meant[b].last
                                 /\ Size(found[b]) = Size(meant[b])
                                 /\ Size(found[b]) \in Int
  <2>1. DOMAIN found = 1..Len(found) /\ DOMAIN meant = 1..Len(meant) /\ Len(found) = Len(meant)
    BY <1>4, <1>5 DEF SameBlocks
  <2>2. \A b \in DOMAIN found : found[b].first = meant[b].first /\ found[b].last = meant[b].last
    BY <1>4, <2>1 DEF SameBlocks
  <2>3. \A b \in DOMAIN found : Size(found[b]) = Size(meant[b])
    BY <2>2, Zenon DEF Size
  <2>4. \A b \in DOMAIN found : found[b] \in Block(n)
    BY <1>5
  <2>5. \A b \in DOMAIN found : Size(found[b]) \in Int
    BY <1>5, <2>4 DEF Size, Block
  <2> QED
    BY <2>1, <2>2, <2>3, <2>5
<1>8. CASE found = <<>>
  <2>1. DOMAIN meant = {}
    BY <1>7, <1>8
  <2> QED
    BY <1>6, <1>8, <2>1 DEF StripCodeFences, IntendedCode, found
<1>9. CASE found # <<>>
  <2> DEFINE m == Min(LargestOf(found))
             P(b) == \A c \in PythonBlocks(ans) :
                        /\ Size(meant[c]) <= Size(meant[b])
                        /\ c < b => Size(meant[c]) < Size(meant[b])
             best == CHOOSE b \in PythonBlocks(ans) : P(b)
  <2>1. m \in LargestOf(found) /\ \A b \in LargestOf(found) : m <= b
    BY <1>5, <1>9, LargestIndex
  <2> HIDE DEF m
  <2>2. m \in DOMAIN found /\ \A c \in DOMAIN found : Size(found[c]) <= Size(found[m])
    BY <2>1 DEF LargestOf
  <2>3. ASSUME NEW c \in DOMAIN found, c < m PROVE Size(found[c]) < Size(found[m])
    <3> SUFFICES ASSUME Size(found[c]) = Size(found[m]) PROVE FALSE
        BY <1>7, <2>2
    <3>1. c \in LargestOf(found)
        BY <2>2 DEF LargestOf
    <3> QED
        BY <1>7, <2>1, <2>2, <2>3, <3>1
  <2>4. m \in PythonBlocks(ans) /\ P(m)
    BY <1>6, <1>7, <2>2, <2>3
  <2>5. best \in PythonBlocks(ans) /\ P(best)
    BY <2>4, Zenon
  <2>6. IntendedCode(ans) = SubSeq(ans, meant[best].first, meant[best].last)
    <3>1. PythonBlocks(ans) # {}
        BY <2>4
    <3> QED
        BY <3>1, Zenon DEF IntendedCode, Lines, meant
  <2>7. StripCodeFences(ans) = SubSeq(ans, found[m].first, found[m].last)
    BY <1>9 DEF StripCodeFences, Lines, Largest, LargestOf, found, m
  <2> HIDE DEF best
  <2>8. best = m
    <3>1. best \in DOMAIN found /\ m \in DOMAIN found /\ best \in Nat /\ m \in Nat
        BY <1>6, <1>7, <2>2, <2>5
    <3>2. Size(found[best]) \in Int /\ Size(found[m]) \in Int
        BY <1>7, <3>1
    <3>3. ~(best < m)
        BY <1>6, <1>7, <2>3, <2>5, <3>1, <3>2
    <3>4. ~(m < best)
        BY <1>6, <1>7, <2>2, <2>5, <3>1, <3>2
    <3> QED
        BY <3>1, <3>3, <3>4
  <2> QED
    BY <1>7, <2>2, <2>6, <2>7, <2>8
<1> QED
    BY <1>8, <1>9

-----------------------------------------------------------------------------
(* The gate.                                                                 *)

\* Whatever the program, the gate passes it exactly if each of its lines is
\* clean or an unused import: the two scans lose no issue and invent none.
LEMMA GateVerdict ==
    ASSUME NEW prog
    PROVE  RunStaticCheck(prog).passed <=> \A i \in DOMAIN prog : prog[i] \in {"code", "unused"}
<1>1. RunStaticCheck(prog).passed <=>
         Parses(prog) /\ \A i \in Issues(prog) :
                            i.kind \notin {"v1_antipattern", "pyflakes_undefined_name"}
    BY DEF RunStaticCheck
<1>2. CASE ~Parses(prog)
    BY <1>1, <1>2 DEF Parses, PythonLine
<1>3. CASE Parses(prog)
  <2>1. Issues(prog) = CheckPyflakes(prog) \cup CheckV1Antipatterns(prog)
    BY <1>3 DEF Issues
  <2>2. ASSUME NEW i \in DOMAIN prog, prog[i] \notin {"code", "unused"}
        PROVE  \E x \in Issues(prog) : x.kind \in {"v1_antipattern", "pyflakes_undefined_name"}
    <3>1. prog[i] \in {"v1", "undefined", "star"}
        BY <1>3, <2>2 DEF Parses, PythonLine
    <3>2. CASE prog[i] = "v1"
      <4>1. [kind |-> "v1_antipattern", line |-> i] \in CheckV1Antipatterns(prog)
        BY <3>2 DEF CheckV1Antipatterns
      <4> QED
        BY <2>1, <4>1
    <3>3. ASSUME NEW j \in DOMAIN prog, prog[j] \in {"undefined", "star"},
                 SaysUndefinedName(Message(prog, j))
          PROVE  \E x \in Issues(prog) : x.kind \in {"v1_antipattern", "pyflakes_undefined_name"}
      <4>1. [kind |-> "pyflakes_undefined_name", line |-> j] \in CheckPyflakes(prog)
        BY <3>3 DEF CheckPyflakes
      <4> QED
        BY <2>1, <4>1
    <3>4. ASSUME NEW j \in DOMAIN prog, prog[j] = "star"
          PROVE  SaysUndefinedName(Message(prog, j))
      <4>1. Message(prog, j) = "unable to detect undefined names"
        BY <3>4 DEF Message
      <4> QED
        BY <4>1 DEF SaysUndefinedName
    <3>5. CASE HasStar(prog)
      <4>1. PICK j \in DOMAIN prog : prog[j] = "star"
        BY <3>5 DEF HasStar
      <4> QED
        BY <3>3, <3>4, <4>1
    <3>6. CASE prog[i] = "undefined" /\ ~HasStar(prog)
      <4>1. Message(prog, i) = "undefined name"
        BY <3>6 DEF Message
      <4>2. SaysUndefinedName(Message(prog, i))
        BY <4>1 DEF SaysUndefinedName
      <4> QED
        BY <3>3, <3>6, <4>2
    <3>7. prog[i] = "star" => HasStar(prog)
      BY DEF HasStar
    <3> QED
        BY <3>1, <3>2, <3>5, <3>6, <3>7
  <2>3. ASSUME \A i \in DOMAIN prog : prog[i] \in {"code", "unused"}, NEW x \in Issues(prog)
        PROVE  x.kind \notin {"v1_antipattern", "pyflakes_undefined_name"}
    <3>1. x \notin CheckV1Antipatterns(prog)
        BY <2>3 DEF CheckV1Antipatterns
    <3>2. PICK i \in DOMAIN prog :
             /\ prog[i] = "unused"
             /\ x.kind = IF SaysUndefinedName(Message(prog, i))
                         THEN "pyflakes_undefined_name" ELSE "pyflakes_other"
        BY <2>1, <2>3, <3>1 DEF CheckPyflakes
    <3>3. ~SaysUndefinedName(Message(prog, i))
        BY <3>2 DEF SaysUndefinedName, Message
    <3> QED
        BY <3>2, <3>3
  <2> QED
    BY <1>1, <1>3, <2>2, <2>3
<1> QED
    BY <1>2, <1>3

\* An issue is of a line of the program.
LEMMA IssuesOfLines ==
    ASSUME NEW prog \in Seq(LineKind), NEW x \in Issues(prog)
    PROVE  x.kind \in IssueKind /\ x.line \in DOMAIN prog
<1>1. CASE Parses(prog)
  <2>1. x \in CheckPyflakes(prog) \cup CheckV1Antipatterns(prog)
    BY <1>1 DEF Issues
  <2> QED
    BY <2>1 DEF CheckPyflakes, CheckV1Antipatterns, IssueKind
<1>2. CASE ~Parses(prog)
  <2> DEFINE Bad == {i \in DOMAIN prog : prog[i] \notin PythonLine}
  <2>1. Bad \subseteq Nat /\ Bad # {}
    BY <1>2 DEF Parses
  <2>2. Min(Bad) \in Bad /\ \A j \in Bad : Min(Bad) <= j
    <3> HIDE DEF Bad
    <3> QED
        BY <2>1, LeastElement
  <2>3. /\ Min(Bad) \in DOMAIN prog /\ prog[Min(Bad)] \notin PythonLine
        /\ \A j \in 1..Min(Bad) - 1 : prog[j] \in PythonLine
    <3>1. \A j \in 1..Min(Bad) - 1 : j \in DOMAIN prog /\ j \in Nat /\ j < Min(Bad)
        BY <2>1, <2>2
    <3>2. ASSUME NEW j \in 1..Min(Bad) - 1, j \in Bad PROVE FALSE
      <4>1. j \in Nat /\ j < Min(Bad)
        BY <3>1
      <4>2. Min(Bad) <= j /\ Min(Bad) \in Nat
        BY <2>1, <2>2, <3>2
      <4> QED
        BY <4>1, <4>2
    <3> QED
        BY <2>2, <3>1, <3>2
  <2>4. FirstBadLine(prog) \in DOMAIN prog
    BY <2>3, Zenon DEF FirstBadLine
  <2> QED
    BY <1>2, <2>4 DEF Issues, IssueKind
<1> QED
    BY <1>1, <1>2

-----------------------------------------------------------------------------
(* The theorems.                                                             *)

\* What the two steps leave: the program is what the extraction takes, the
\* verdict is the gate's on it.
PipelineInv ==
    /\ answer \in Seq(LineKind)
    /\ code # None => code = StripCodeFences(answer)
    /\ verdict # None => code # None /\ verdict = RunStaticCheck(code)

LEMMA PipelineInvariant == Spec => []PipelineInv
<1>1. Init => PipelineInv
    BY DEF Init, PipelineInv
<1>2. PipelineInv /\ [Next]_vars => PipelineInv'
    BY DEF PipelineInv, Next, Generate, StaticCheck, vars
<1> QED
    BY <1>1, <1>2, PTL DEF Spec

\* An issue is always of a line of the program it was found in, and the program
\* is made of lines of the answer (llm.py:111-127, static_check.py).
THEOREM PipelineTypes == Spec => []TypeOK
<1>1. PipelineInv => TypeOK
  <2> SUFFICES ASSUME PipelineInv PROVE TypeOK
    OBVIOUS
  <2> USE DEF PipelineInv
  <2>1. code = None \/ code \in Seq(LineKind)
    BY Taken
  <2>2. ASSUME verdict # None
        PROVE  /\ verdict.passed \in BOOLEAN
               /\ \A i \in verdict.issues : i.kind \in IssueKind /\ i.line \in DOMAIN code
    <3>1. code \in Seq(LineKind) /\ verdict.issues = Issues(code)
        BY <2>1, <2>2 DEF RunStaticCheck
    <3>2. verdict.passed \in BOOLEAN
      <4> DEFINE ok == Parses(code) /\ \A i \in Issues(code) :
                          i.kind \notin {"v1_antipattern", "pyflakes_undefined_name"}
      <4>1. ok \in BOOLEAN
        BY Zenon
      <4>2. verdict = [passed |-> ok, issues |-> Issues(code)]
        BY <2>2, Zenon DEF RunStaticCheck
      <4> HIDE DEF ok
      <4> QED
        BY <4>1, <4>2
    <3> QED
        BY <3>1, <3>2, IssuesOfLines
  <2> QED
    BY <2>1, <2>2 DEF TypeOK
<1> QED
    BY <1>1, PipelineInvariant, PTL

\* From every well-fenced answer of Python, of any length, the program taken is
\* the largest block, although the search knows no pairs of fences.
THEOREM TakesIntendedCode == Spec => []StripsToIntendedCode
<1>1. PipelineInv => StripsToIntendedCode
    BY TakesIntended DEF PipelineInv, StripsToIntendedCode
<1> QED
    BY <1>1, PipelineInvariant, PTL

\* The gate passes such an answer exactly if the program meant parses and is free
\* of v1 code and undefined names.
THEOREM GateJudgesIntended == Spec => []GateJudgesIntendedCode
<1>1. PipelineInv => GateJudgesIntendedCode
    BY TakesIntended, GateVerdict DEF PipelineInv, GateJudgesIntendedCode
<1> QED
    BY <1>1, PipelineInvariant, PTL

\* No program with an undefined name passes, whatever the answer it came from and
\* whether or not a star import blurs what pyflakes can tell.
THEOREM CrashesAreRejected == Spec => []GuaranteedCrashIsRejected
<1>1. PipelineInv => GuaranteedCrashIsRejected
  <2> SUFFICES ASSUME PipelineInv, verdict # None,
                      NEW i \in DOMAIN code, code[i] = "undefined"
               PROVE  ~verdict.passed
    BY DEF GuaranteedCrashIsRejected
  <2> QED
    BY GateVerdict DEF PipelineInv
<1> QED
    BY <1>1, PipelineInvariant, PTL
=============================================================================
