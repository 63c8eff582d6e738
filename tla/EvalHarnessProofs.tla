-------------------------- MODULE EvalHarnessProofs --------------------------
(***************************************************************************)
(* Theorems about EvalHarness, for any number of problems, any methods in  *)
(* any order, any number of attempts and any host: the run file holds the  *)
(* rows of the pairs so far, the cost in it is what was answered, what it  *)
(* calls solved is solved, and the two ways of counting what the loop      *)
(* gains agree.                                                            *)
(***************************************************************************)
EXTENDS EvalHarness, FiniteSetTheorems, WellFoundedInduction, TLAPS

-----------------------------------------------------------------------------
(* Induction on the natural numbers, for a set.                              *)

LEMMA InductiveSet ==
    ASSUME NEW S, 0 \in S, \A n \in Nat : n \in S => n + 1 \in S
    PROVE  \A n \in Nat : n \in S
<1> SUFFICES ASSUME NEW m \in Nat, m \notin S PROVE FALSE
    OBVIOUS
<1> DEFINE T == {n \in Nat : n \notin S}
<1>1. PICK k \in T : \A j \in T : ~(<<j, k>> \in OpToRel(<, Nat))
  <2>1. T \subseteq Nat /\ T # {}
    OBVIOUS
  <2> HIDE DEF T
  <2> QED
    BY <2>1, NatLessThanWellFounded, WFMin
<1>2. k \in Nat /\ k \notin S /\ \A j \in T : ~(j < k)
    BY <1>1 DEF OpToRel
<1>3. k # 0
    BY <1>2
<1>4. k - 1 \in Nat /\ k - 1 < k /\ (k - 1) + 1 = k
    BY <1>2, <1>3
<1>5. k - 1 \in S
    BY <1>2, <1>4
<1>6. (k - 1) + 1 \in S
    BY <1>4, <1>5
<1> QED
    BY <1>2, <1>4, <1>6

LEMMA CardinalityUpto ==
    ASSUME NEW n \in Nat PROVE IsFiniteSet(1..n) /\ Cardinality(1..n) = n
BY FS_Interval

-----------------------------------------------------------------------------
(* The sum of a column.                                                      *)

\* The partial sums of a column.
IsTotal(f, s) ==
    /\ f \in [0..Len(s) -> Nat]
    /\ f[0] = 0
    /\ \A n \in 1..Len(s) : f[n] = f[n - 1] + s[n]

LEMMA TotalIs ==
    ASSUME NEW s \in Seq(Nat), NEW f, IsTotal(f, s)
    PROVE  Total(s) = f[Len(s)]
<1> DEFINE body(g) == [n \in 0..Len(s) |-> IF n = 0 THEN 0 ELSE g[n - 1] + s[n]]
           total == CHOOSE g : g = body(g)
<1>1. f = body(f)
  <2>1. \A n \in 0..Len(s) : f[n] = body(f)[n]
    BY DEF IsTotal
  <2> QED
    BY <2>1 DEF IsTotal
<1>2. total = body(total)
    BY <1>1, Zenon
<1>3. Total(s) = total[Len(s)]
    BY Zenon DEF Total
<1> HIDE DEF total
<1>9. total = [n \in 0..Len(s) |-> IF n = 0 THEN 0 ELSE total[n - 1] + s[n]]
    BY <1>2
<1>4. /\ total[0] = 0
      /\ \A n \in 1..Len(s) : total[n] = total[n - 1] + s[n]
  <2>1. Len(s) \in Nat
    OBVIOUS
  <2> QED
    BY <1>9, <2>1
<1> DEFINE S == {n \in Nat : n <= Len(s) => total[n] = f[n]}
<1>5. 0 \in S
    BY <1>4 DEF IsTotal
<1>6. ASSUME NEW n \in Nat, n \in S PROVE n + 1 \in S
  <2> SUFFICES ASSUME n + 1 <= Len(s) PROVE total[n + 1] = f[n + 1]
    OBVIOUS
  <2>1. n + 1 \in 1..Len(s) /\ (n + 1) - 1 = n /\ n <= Len(s)
    OBVIOUS
  <2>2. total[n] = f[n]
    BY <1>6, <2>1
  <2> QED
    BY <1>4, <2>1, <2>2 DEF IsTotal
<1>7. \A n \in Nat : n \in S
  <2> HIDE DEF S
  <2> QED
    BY <1>5, <1>6, InductiveSet
<1>8. Len(s) \in Nat
    OBVIOUS
<1> QED
    BY <1>3, <1>7, <1>8

LEMMA TotalExists ==
    ASSUME NEW s \in Seq(Nat) PROVE \E f : IsTotal(f, s)
<1> DEFINE Upto(f, m) == /\ f \in [0..m -> Nat]
                         /\ f[0] = 0
                         /\ \A n \in 1..m : f[n] = f[n - 1] + s[n]
           S == {m \in Nat : m <= Len(s) => \E f : Upto(f, m)}
<1>1. 0 \in S
  <2>1. Upto([n \in 0..0 |-> 0], 0)
    OBVIOUS
  <2> QED
    BY <2>1
<1>2. ASSUME NEW m \in Nat, m \in S PROVE m + 1 \in S
  <2> HIDE DEF Upto
  <2> SUFFICES ASSUME m + 1 <= Len(s) PROVE \E f : Upto(f, m + 1)
    OBVIOUS
  <2>0. m <= Len(s)
    OBVIOUS
  <2>1. PICK f : Upto(f, m)
    BY <1>2, <2>0
  <2> USE DEF Upto
  <2> DEFINE g == [n \in 0..m + 1 |-> IF n <= m THEN f[n] ELSE f[m] + s[m + 1]]
  <2>2. s[m + 1] \in Nat
    OBVIOUS
  <2>3. g \in [0..m + 1 -> Nat] /\ g[0] = 0
    BY <2>1, <2>2
  <2>4. ASSUME NEW n \in 1..m + 1 PROVE g[n] = g[n - 1] + s[n]
    <3>1. CASE n <= m
        BY <2>1, <3>1
    <3>2. CASE n = m + 1
        BY <2>1, <3>2
    <3> QED
        BY <3>1, <3>2
  <2>5. Upto(g, m + 1)
    BY <2>3, <2>4
  <2> QED
    BY <2>5
<1>3. \A m \in Nat : m \in S
  <2> HIDE DEF S
  <2> QED
    BY <1>1, <1>2, InductiveSet
<1>4. \E f : Upto(f, Len(s))
  <2> HIDE DEF Upto
  <2>1. Len(s) \in Nat /\ Len(s) <= Len(s)
    OBVIOUS
  <2> QED
    BY <1>3, <2>1
<1> QED
    BY <1>4 DEF IsTotal

LEMMA TotalOfNone == Total(<<>>) = 0
<1>1. IsTotal([n \in 0..0 |-> 0], <<>>)
    BY DEF IsTotal
<1> QED
    BY <1>1, TotalIs

LEMMA TotalGrows ==
    ASSUME NEW s \in Seq(Nat), NEW x \in Nat
    PROVE  /\ Total(s) \in Nat
           /\ Total(Append(s, x)) = Total(s) + x
<1>1. PICK f : IsTotal(f, s)
    BY TotalExists
<1>2. Len(s) \in Nat /\ Total(s) = f[Len(s)] /\ f[Len(s)] \in Nat
    BY <1>1, TotalIs DEF IsTotal
<1> DEFINE more == Append(s, x)
           g == [n \in 0..Len(s) + 1 |-> IF n <= Len(s) THEN f[n] ELSE f[Len(s)] + x]
<1>3. /\ more \in Seq(Nat) /\ Len(more) = Len(s) + 1
      /\ \A n \in 1..Len(s) : more[n] = s[n]
      /\ more[Len(s) + 1] = x
    OBVIOUS
<1> HIDE DEF more
<1>5. IsTotal(g, more)
  <2>1. g \in [0..Len(more) -> Nat] /\ g[0] = 0
    BY <1>1, <1>2, <1>3 DEF IsTotal
  <2>2. ASSUME NEW n \in 1..Len(more) PROVE g[n] = g[n - 1] + more[n]
    <3>1. CASE n <= Len(s)
      <4>1. n \in 1..Len(s) /\ n - 1 \in 0..Len(s)
        BY <1>2, <1>3, <3>1
      <4>2. g[n] = f[n] /\ g[n - 1] = f[n - 1]
        BY <1>2, <4>1
      <4>3. f[n] = f[n - 1] + s[n] /\ more[n] = s[n]
        BY <1>1, <1>3, <4>1 DEF IsTotal
      <4> HIDE DEF g
      <4> QED
        BY <4>2, <4>3
    <3>2. CASE n = Len(s) + 1
        BY <1>2, <1>3, <3>2
    <3> QED
        BY <1>2, <1>3, <3>1, <3>2
  <2> QED
    BY <2>1, <2>2 DEF IsTotal
<1>6. Total(more) = g[Len(more)]
    BY <1>3, <1>5, TotalIs
<1> QED
    BY <1>2, <1>3, <1>6 DEF more

\* A column that is zero outside T and between one and k in it.
LEMMA TotalBetween ==
    ASSUME NEW s \in Seq(Nat), NEW T \in SUBSET (DOMAIN s), NEW k \in Nat,
           \A i \in DOMAIN s : IF i \in T THEN s[i] \in 1..k ELSE s[i] = 0
    PROVE  /\ Total(s) \in Nat
           /\ Cardinality(T) <= Total(s) /\ Total(s) <= k * Cardinality(T)
<1>1. PICK f : IsTotal(f, s)
    BY TotalExists
<1>2. Len(s) \in Nat /\ Total(s) = f[Len(s)] /\ f[Len(s)] \in Nat
    BY <1>1, TotalIs DEF IsTotal
<1> DEFINE Upto(n) == T \cap 1..n
           Card(n) == Cardinality(Upto(n))
           S == {n \in Nat : n <= Len(s) =>
                    /\ IsFiniteSet(Upto(n)) /\ Card(n) \in Nat
                    /\ Card(n) <= f[n] /\ f[n] <= k * Card(n)}
<1>3. 0 \in S
  <2>1. Upto(0) = {} /\ k * 0 = 0
    OBVIOUS
  <2>2. IsFiniteSet(Upto(0)) /\ Card(0) = 0
    BY <2>1, FS_EmptySet
  <2> QED
    BY <1>1, <2>1, <2>2 DEF IsTotal
<1>4. ASSUME NEW n \in Nat, n \in S PROVE n + 1 \in S
  <2> HIDE DEF Upto
  <2> SUFFICES ASSUME n + 1 <= Len(s)
               PROVE  /\ IsFiniteSet(Upto(n + 1)) /\ Card(n + 1) \in Nat
                      /\ Card(n + 1) <= f[n + 1] /\ f[n + 1] <= k * Card(n + 1)
    OBVIOUS
  <2>1. /\ IsFiniteSet(Upto(n)) /\ Card(n) \in Nat /\ f[n] \in Nat
        /\ Card(n) <= f[n] /\ f[n] <= k * Card(n)
    BY <1>1, <1>2, <1>4 DEF IsTotal
  <2>2. n + 1 \in DOMAIN s /\ f[n + 1] = f[n] + s[n + 1]
    BY <1>1, <1>2 DEF IsTotal
  <2>3. CASE n + 1 \in T
    <3>1. Upto(n + 1) = Upto(n) \cup {n + 1} /\ n + 1 \notin Upto(n)
        BY <2>3 DEF Upto
    <3>2. /\ IsFiniteSet(Upto(n) \cup {n + 1})
          /\ Cardinality(Upto(n) \cup {n + 1}) = Cardinality(Upto(n)) + 1
        BY <2>1, <3>1, FS_AddElement
    <3>5. IsFiniteSet(Upto(n + 1)) /\ Card(n + 1) = Card(n) + 1
        BY <3>1, <3>2
    <3>3. k * (Card(n) + 1) = k * Card(n) + k /\ k * Card(n) \in Nat
        BY <2>1
    <3>4. s[n + 1] \in 1..k
        BY <2>2, <2>3
    <3> HIDE DEF Card
    <3> QED
        BY <2>1, <2>2, <3>3, <3>4, <3>5
  <2>4. CASE n + 1 \notin T
    <3>1. Upto(n + 1) = Upto(n)
        BY <2>4 DEF Upto
    <3>2. f[n + 1] = f[n]
        BY <2>1, <2>2, <2>4
    <3> QED
        BY <2>1, <3>1, <3>2
  <2> QED
    BY <2>3, <2>4
<1>5. \A n \in Nat : n \in S
  <2> HIDE DEF S
  <2> QED
    BY <1>3, <1>4, InductiveSet
<1>6. Upto(Len(s)) = T
    OBVIOUS
<1> QED
    BY <1>2, <1>5, <1>6

USE HarnessAssumption

\* The usage of the rows.
LEMMA UsageOf ==
    ASSUME NEW file \in Seq(Row)
    PROVE  [i \in 1..Len(file) |-> file[i].usage] \in Seq(Nat)
<1>1. ASSUME NEW i \in 1..Len(file) PROVE file[i].usage \in Nat
  <2>1. file[i] \in Row
    OBVIOUS
  <2> QED
    BY <2>1 DEF Row
<1>2. [i \in 1..Len(file) |-> file[i].usage] \in [1..Len(file) -> Nat] /\ Len(file) \in Nat
    BY <1>1
<1> QED
    BY <1>2

LEMMA UsageGrows ==
    ASSUME NEW file \in Seq(Row), NEW r \in Row
    PROVE  /\ TotalUsage(file) \in Nat
           /\ TotalUsage(Append(file, r)) = TotalUsage(file) + r.usage
<1> DEFINE s == [i \in 1..Len(file) |-> file[i].usage]
           longer == Append(file, r)
           more == [i \in 1..Len(longer) |-> longer[i].usage]
<1>1. s \in Seq(Nat) /\ Len(s) = Len(file) /\ Len(file) \in Nat /\ r.usage \in Nat
  <2>1. r.usage \in Nat
    BY DEF Row
  <2> QED
    BY <2>1, UsageOf
<1>2. more = Append(s, r.usage)
  <2>1. more \in Seq(Nat) /\ Len(more) = Len(file) + 1
    <3>1. longer \in Seq(Row) /\ Len(longer) = Len(file) + 1 /\ Len(file) + 1 \in Nat
        OBVIOUS
    <3> HIDE DEF longer
    <3>2. more \in Seq(Nat)
        BY <3>1, UsageOf
    <3>3. Len(more) = Len(longer)
        BY <3>1
    <3> QED
        BY <3>1, <3>2, <3>3
  <2>2. \A i \in 1..Len(file) + 1 : more[i] = Append(s, r.usage)[i]
    OBVIOUS
  <2> QED
    BY <1>1, <2>1, <2>2
<1> HIDE DEF s
<1>3. TotalUsage(file) = Total(s) /\ TotalUsage(Append(file, r)) = Total(more)
    BY Zenon DEF TotalUsage, s
<1> HIDE DEF more
<1> QED
    BY <1>1, <1>2, <1>3, TotalGrows

-----------------------------------------------------------------------------
(* The order of the run.                                                     *)

L == Len(Methods)
Place(n) == ((n - 1) % L) + 1

LEMMA Division ==
    ASSUME NEW x \in Nat, NEW d \in Nat \ {0}
    PROVE  /\ x \div d \in Nat
           /\ x % d \in 0..d - 1
           /\ x = (d * (x \div d)) + (x % d)
OBVIOUS

LEMMA QuotientOf ==
    ASSUME NEW q \in Nat, NEW d \in Nat \ {0}, NEW r \in 0..d - 1
    PROVE  (d * q + r) \div d = q /\ (d * q + r) % d = r
OBVIOUS

LEMMA TimesGrows ==
    ASSUME NEW d \in Nat, NEW m \in Nat, NEW n \in Nat, m <= n
    PROVE  d * m <= d * n
<1>1. PICK e \in Nat : n = m + e
  <2>1. n - m \in Nat /\ n = m + (n - m)
    OBVIOUS
  <2> QED
    BY <2>1
<1>2. d * n = d * m + d * e /\ d * e \in Nat /\ d * m \in Nat
    BY <1>1
<1> QED
    BY <1>2

\* A cell is a problem and a place in the list of methods, and it is that
\* problem's turn for that method ...
LEMMA CellAt ==
    ASSUME NEW n \in 1..NumCells
    PROVE  /\ L \in Nat \ {0}
           /\ ProblemOf(n) \in 1..NumProblems
           /\ Place(n) \in 1..L /\ Place(n) \in DOMAIN Methods
           /\ MethodOf(n) = Methods[Place(n)] /\ MethodOf(n) \in Method
           /\ n = L * (ProblemOf(n) - 1) + Place(n)
<1>1. L \in Nat /\ NumProblems \in Nat
    BY DEF L
<1>2. L # 0
    BY <1>1 DEF NumCells, L
<1> DEFINE q == (n - 1) \div L
           r == (n - 1) % L
<1>3. q \in Nat /\ r \in 0..L - 1 /\ n - 1 = (L * q) + r
  <2>1. n - 1 \in Nat
    OBVIOUS
  <2> QED
    BY <1>1, <1>2, <2>1, Division
<1>4. ProblemOf(n) = q + 1 /\ Place(n) = r + 1 /\ MethodOf(n) = Methods[r + 1]
    BY DEF ProblemOf, Place, MethodOf, L
<1>5. n <= L * NumProblems
    BY <1>1 DEF NumCells, L
<1> HIDE DEF q, r
<1>6. q < NumProblems
  <2> SUFFICES ASSUME NumProblems <= q PROVE FALSE
    BY <1>1, <1>3
  <2>1. L * NumProblems <= L * q /\ L * NumProblems \in Nat /\ L * q \in Nat
    BY <1>1, <1>3, TimesGrows
  <2> QED
    BY <1>3, <1>5, <2>1
<1>7. r + 1 \in 1..L /\ r + 1 \in DOMAIN Methods /\ Methods[r + 1] \in Method
    BY <1>1, <1>3 DEF L
<1>8. n = L * q + (r + 1) /\ (q + 1) - 1 = q
    BY <1>1, <1>3
<1> QED
    BY <1>1, <1>2, <1>3, <1>4, <1>6, <1>7, <1>8

\* ... and each problem has a turn for each method.
LEMMA CellOf ==
    ASSUME NEW p \in 1..NumProblems, NEW a \in DOMAIN Methods
    PROVE  /\ L * (p - 1) + a \in 1..NumCells
           /\ ProblemOf(L * (p - 1) + a) = p
           /\ MethodOf(L * (p - 1) + a) = Methods[a]
<1>1. L \in Nat \ {0} /\ a \in 1..L /\ a - 1 \in 0..L - 1 /\ p - 1 \in Nat
    BY DEF L
<1>2. L * (p - 1) \in Nat /\ L * p = L * (p - 1) + L /\ L * p <= L * NumProblems
    BY <1>1, TimesGrows
<1>3. NumCells = L * NumProblems /\ L * NumProblems \in Nat
    BY <1>1 DEF NumCells, L
<1>4. (L * (p - 1) + a) - 1 = L * (p - 1) + (a - 1)
    BY <1>1, <1>2
<1>5. (L * (p - 1) + (a - 1)) \div L = p - 1 /\ (L * (p - 1) + (a - 1)) % L = a - 1
    BY <1>1, QuotientOf
<1>6. L * (p - 1) + a \in 1..NumCells
    BY <1>1, <1>2, <1>3
<1>7. ProblemOf(L * (p - 1) + a) = (p - 1) + 1
    BY <1>4, <1>5, Zenon DEF ProblemOf, L
<1>8. MethodOf(L * (p - 1) + a) = Methods[(a - 1) + 1]
    BY <1>4, <1>5, Zenon DEF MethodOf, L
<1> QED
    BY <1>1, <1>6, <1>7, <1>8

-----------------------------------------------------------------------------
(* The rows.                                                                 *)

\* What a new row has to be.
GoodRow(r) ==
    /\ r \in Row
    /\ r.problem = ProblemOf(cell) /\ r.method = MethodOf(cell)
    /\ RowKept(r)

LEMMA CellInRange ==
    ASSUME TypeOK, InCell
    PROVE  cell \in 1..NumCells /\ ProblemOf(cell) \in 1..NumProblems /\ MethodOf(cell) \in Method
<1>1. NumCells \in Nat
    BY DEF NumCells
<1>2. cell \in 1..NumCells
    BY <1>1 DEF TypeOK, InCell
<1> QED
    BY <1>2, CellAt

LEMMA LeastPassing ==
    ASSUME TypeOK, Passing # {}
    PROVE  Min(Passing) \in Passing
<1>1. Passing \subseteq Nat
    BY DEF TypeOK, Passing
<1>2. PICK k \in Passing : \A j \in Passing : ~(<<j, k>> \in OpToRel(<, Nat))
    BY <1>1, NatLessThanWellFounded, WFMin
<1>3. \A j \in Passing : k <= j
  <2>1. \A j \in Passing : j \in Nat /\ k \in Nat /\ ~(j < k)
    BY <1>1, <1>2 DEF OpToRel
  <2> QED
    BY <2>1
<1> QED
    BY <1>3, Zenon DEF Min

LEMMA CompletePair ==
    ASSUME HarnessInv, InCell, NEW m \in Method, m = MethodOf(cell), Complete(m)
    PROVE  GoodRow(ResultRow(m)) /\ ResultRow(m).usage = usage
<1> USE DEF HarnessInv
<1>1. /\ usage \in Nat /\ Len(judged) \in Nat /\ judged \in Seq(Judged)
      /\ cell \in 1..NumCells /\ ProblemOf(cell) \in 1..NumProblems
    BY CellInRange DEF TypeOK
\* What completes a pair, one method at a time.
<1>2. /\ m \in {"single_shot", "best_of_n", "self_correct"}
      /\ m = "single_shot" => Len(judged) = 1
      /\ m = "best_of_n" => Len(judged) = MaxAttempts
      /\ m = "self_correct" => judged # <<>>
                               /\ (LastJudged.how = "passed" \/ Len(judged) = MaxAttempts)
    BY DEF Complete, Method
<1>3. Len(judged) >= 1
  <2> HIDE DEF HarnessInv
  <2>1. m = "self_correct" => Len(judged) # 0
    BY <1>1, <1>2
  <2>2. Len(judged) \in Nat /\ MaxAttempts \in Nat \ {0}
    BY <1>1
  <2> HIDE HarnessAssumption
  <2> QED
    BY <1>2, <2>1, <2>2
<1>4. LastJudged \in Judged /\ Len(judged) \in DOMAIN judged
    BY <1>1, <1>3 DEF LastJudged
<1>5. /\ Cardinality(Passing) \in 0..Len(judged)
      /\ Cardinality(Passing) = 0 <=> Passing = {}
  <2>1. IsFiniteSet(1..Len(judged)) /\ Passing \in SUBSET (1..Len(judged))
    <3>1. Passing \in SUBSET (1..Len(judged))
        BY <1>1 DEF Passing
    <3>2. IsFiniteSet(1..Len(judged))
        BY <1>1, CardinalityUpto
    <3> QED
        BY <3>1, <3>2
  <2>2. IsFiniteSet(Passing) /\ Cardinality(Passing) <= Cardinality(1..Len(judged))
    BY <2>1, FS_Subset
  <2>3. Cardinality(1..Len(judged)) = Len(judged)
    BY <1>1, CardinalityUpto
  <2>4. Cardinality(Passing) \in Nat /\ (Cardinality(Passing) = 0 <=> Passing = {})
    BY <2>2, FS_CardinalityType, FS_EmptySet
  <2> QED
    BY <1>1, <2>2, <2>3, <2>4
\* The program of the row is one of those judged, and one that passed if any did.
<1>6. /\ ResultRow(m).code \in Codes
      /\ Passing # {} => ResultRow(m).code \in Working
  <2>1. CASE m = "best_of_n"
    <3>1. ResultRow(m).code = BestOfN
        BY <2>1 DEF ResultRow
    <3>2. CASE Passing # {}
      <4>1. Min(Passing) \in DOMAIN judged /\ judged[Min(Passing)].how = "passed"
        BY <3>2, LeastPassing DEF Passing
      <4>2. judged[Min(Passing)] \in Judged /\ BestOfN = judged[Min(Passing)].code
        BY <1>1, <3>2, <4>1 DEF BestOfN
      <4>3. judged[Min(Passing)].code \in Working
        BY <4>1 DEF PairInv
      <4> QED
        BY <3>1, <4>2, <4>3
    <3>3. CASE Passing = {}
        BY <1>4, <3>1, <3>3 DEF BestOfN, Judged
    <3> QED
        BY <3>2, <3>3
  <2>2. CASE m # "best_of_n"
    <3>1. ResultRow(m).code = LastJudged.code
        BY <2>2 DEF ResultRow
    <3>2. ASSUME Passing # {} PROVE LastJudged.how = "passed"
      <4>1. PICK i \in DOMAIN judged : judged[i].how = "passed"
        BY <3>2 DEF Passing
      <4>2. i = Len(judged)
        <5>1. CASE m = "single_shot"
            BY <1>1, <1>2, <4>1, <5>1
        <5>2. CASE m = "self_correct"
            BY <4>1, <5>2 DEF PairInv
        <5> QED
            BY <1>2, <2>2, <5>1, <5>2
      <4> QED
        BY <4>1, <4>2 DEF LastJudged
    <3>3. LastJudged.how = "passed" => LastJudged.code \in Working
        BY <1>4 DEF PairInv, LastJudged
    <3> QED
        BY <1>4, <3>1, <3>2, <3>3 DEF Judged
  <2> QED
    BY <2>1, <2>2
\* The method's own count of its calls is what the scope saw.
<1>7. CallsOf(m) = usage
  <2>1. CASE m = "self_correct"
    <3>1. usage = 2 * Len(judged) - 1
        BY <2>1 DEF PairInv
    <3> QED
        BY <1>1, <2>1, <3>1 DEF CallsOf
  <2>2. CASE m # "self_correct"
    <3>1. usage = Len(judged)
        BY <2>2 DEF InCell
    <3> QED
        BY <1>2, <2>2, <3>1 DEF CallsOf
  <2> QED
    BY <2>1, <2>2
<1>8. AttemptsOf(m) \in Nat /\ SamplesOf(m) \in Nat \cup {None}
    BY <1>1, <1>5 DEF AttemptsOf, SamplesOf
<1>9. IF m = "self_correct" THEN StatusOf(m) \in {"passed", "failed_static", "failed_tests"}
                            ELSE StatusOf(m) = None
  <2>1. LastJudged.how \in {"passed", "rejected", "failed"}
    BY <1>4 DEF Judged
  <2> QED
    BY <2>1 DEF StatusOf
<1>10. ResultRow(m) \in Row
    BY <1>1, <1>6, <1>7, <1>8, <1>9 DEF ResultRow, Row
\* Nothing in the row is missing.
<1>11. m = "self_correct" => StatusOf(m) # None
    BY <1>9, NoneAssumption
<1>12. RowKept(ResultRow(m))
  <2>1. /\ ResultRow(m).passed = (Passing # {}) /\ ResultRow(m).method = m
        /\ ResultRow(m).llm_calls = usage /\ ResultRow(m).usage = usage
        /\ ResultRow(m).attempts_used = Len(judged) /\ ResultRow(m).status = StatusOf(m)
        /\ ResultRow(m).samples_passed = SamplesOf(m)
    BY <1>7 DEF ResultRow, AttemptsOf
  <2>2. usage # None /\ Len(judged) # None
    BY <1>1, NoneAssumption
  <2>3. m = "best_of_n" => SamplesOf(m) = Cardinality(Passing) /\ Len(judged) = MaxAttempts
    BY <1>2 DEF SamplesOf
  <2> QED
    BY <1>5, <1>6, <1>11, <2>1, <2>2, <2>3 DEF RowKept
<1> QED
    BY <1>7, <1>10, <1>12 DEF GoodRow, ResultRow

LEMMA RaisedPair ==
    ASSUME TypeOK, InCell, NEW n \in Nat
    PROVE  GoodRow(ErrorRow(n)) /\ ErrorRow(n).usage = n
BY CellInRange DEF GoodRow, RowKept, ErrorRow, Row

\* The file grows by a good row, in its place.
LEMMA RowAdded ==
    ASSUME HarnessInv, InCell, NEW r, GoodRow(r), rows' = Append(rows, r), cell' = cell + 1
    PROVE  /\ rows' \in Seq(Row) /\ cell' \in 1..NumCells + 1
           /\ Len(rows') = cell' - 1
           /\ \A i \in DOMAIN rows' :
                 rows'[i].problem = ProblemOf(i) /\ rows'[i].method = MethodOf(i)
           /\ \A i \in DOMAIN rows' : RowKept(rows'[i])
<1> USE DEF HarnessInv
<1>1. rows \in Seq(Row) /\ Len(rows) \in Nat /\ Len(rows) + 1 = cell /\ cell \in 1..NumCells
    BY CellInRange DEF TypeOK
<1>2. /\ rows' \in Seq(Row) /\ DOMAIN rows' = 1..cell /\ Len(rows') = cell
      /\ rows'[cell] = r
      /\ \A i \in 1..cell : i # cell => i \in DOMAIN rows /\ rows'[i] = rows[i]
    BY <1>1 DEF GoodRow
<1>3. \A i \in DOMAIN rows' : rows'[i].problem = ProblemOf(i) /\ rows'[i].method = MethodOf(i)
    BY <1>2 DEF GoodRow
<1>4. \A i \in DOMAIN rows' : RowKept(rows'[i])
    BY <1>2 DEF GoodRow, PairInv
<1>5. NumCells \in Nat
    BY DEF NumCells
<1> QED
    BY <1>1, <1>2, <1>3, <1>4, <1>5

-----------------------------------------------------------------------------
(* The invariant.                                                            *)

LEMMA InitHarnessInv == Init => HarnessInv
<1> SUFFICES ASSUME Init PROVE HarnessInv
    OBVIOUS
<1> USE DEF Init
<1>1. NumCells \in Nat
    BY DEF NumCells
<1>2. TypeOK
    BY <1>1 DEF TypeOK
<1>3. PairInv
    BY DEF PairInv, InCell
<1> QED
    BY <1>2, <1>3 DEF HarnessInv, InCell

LEMMA GenerateStep ==
    ASSUME HarnessInv, Generate
    PROVE  HarnessInv'
<1> USE DEF HarnessInv
<1>1. PICK c \in Codes, how \in {"passed", "rejected", "failed"} :
         /\ how = "passed" => c \in Working
         /\ judged' = Append(judged, [code |-> c, how |-> how])
    BY DEF Generate
<1>2. /\ judged \in Seq(Judged) /\ Len(judged) \in Nat /\ usage \in Nat /\ usage' = usage + 1
      /\ UNCHANGED <<hostSec, pc, cell, rows>> /\ answered' = answered + 1
    BY DEF TypeOK, Generate
<1> DEFINE j == [code |-> c, how |-> how]
<1>3. /\ judged' \in Seq(Judged) /\ Len(judged') = Len(judged) + 1
      /\ \A i \in 1..Len(judged) : judged'[i] = judged[i]
      /\ judged'[Len(judged) + 1] = j /\ DOMAIN judged' = 1..Len(judged) + 1
    BY <1>1, <1>2 DEF Judged
<1>4. TypeOK'
    BY <1>2, <1>3 DEF TypeOK
<1>5. /\ InCell /\ InCell' /\ pc = "working" /\ MethodOf(cell)' = MethodOf(cell)
    BY <1>2 DEF Generate, InCell, MethodOf
\* No program after one that passed, and no reflection is owed.
<1>6. ASSUME MethodOf(cell) = "self_correct"
      PROVE  /\ \A i \in DOMAIN judged : judged[i].how # "passed"
             /\ usage = 2 * Len(judged)
  <2>1. ~Complete("self_correct") /\ ~OwesReflection("self_correct")
    BY <1>6 DEF Generate
  <2>2. judged # <<>> => LastJudged.how # "passed"
    BY <2>1 DEF Complete
  <2>3. usage = 2 * Len(judged)
    BY <1>2, <1>5, <1>6, <2>1 DEF OwesReflection
  <2>4. \A i \in DOMAIN judged : judged[i].how # "passed"
    BY <1>2, <1>5, <1>6, <2>2 DEF PairInv, LastJudged
  <2> QED
    BY <2>3, <2>4
<1>7. ASSUME MethodOf(cell) = "self_correct"
      PROVE  usage' = 2 * Len(judged') - 1
  <2>1. usage = 2 * Len(judged)
    BY <1>6, <1>7
  <2> QED
    BY <1>2, <1>3, <2>1
<1>8. PairInv'
  <2>1. \A i \in DOMAIN judged' : judged'[i].how = "passed" => judged'[i].code \in Working
    BY <1>1, <1>2, <1>3 DEF PairInv
  <2>2. ASSUME MethodOf(cell) = "self_correct"
        PROVE  \A i \in DOMAIN judged' : judged'[i].how = "passed" => i = Len(judged')
    BY <1>2, <1>3, <1>6, <2>2
  <2> QED
    BY <1>2, <1>5, <1>7, <2>1, <2>2 DEF PairInv
<1>9. IF InCell' /\ MethodOf(cell)' = "self_correct"
      THEN usage' \in {2 * Len(judged') - 1, 2 * Len(judged')} /\ usage' >= 0
      ELSE pc' = "working" => usage' = Len(judged')
    BY <1>2, <1>3, <1>5, <1>7
<1>10. /\ \A i \in DOMAIN rows' : rows'[i].problem = ProblemOf(i) /\ rows'[i].method = MethodOf(i)
       /\ Len(rows') = cell' - 1
       /\ pc' = "done" => Len(rows') = NumCells
    BY <1>2
<1> QED
    BY <1>4, <1>8, <1>9, <1>10

LEMMA ReflectStep ==
    ASSUME HarnessInv, Reflect
    PROVE  HarnessInv'
<1> USE DEF HarnessInv
<1>1. /\ judged \in Seq(Judged) /\ Len(judged) \in Nat /\ usage \in Nat /\ usage' = usage + 1
      /\ UNCHANGED <<hostSec, pc, cell, judged, rows>> /\ answered' = answered + 1
      /\ MethodOf(cell) = "self_correct" /\ usage = 2 * Len(judged) - 1
    BY DEF TypeOK, Reflect, OwesReflection
<1>2. /\ InCell /\ InCell' /\ pc = "working" /\ MethodOf(cell)' = MethodOf(cell)
      /\ ~Complete("self_correct") /\ ~Complete("self_correct")'
    BY <1>1 DEF Reflect, InCell, MethodOf, Complete, LastJudged
<1>3. TypeOK'
    BY <1>1 DEF TypeOK
<1>4. PairInv'
    BY <1>1, <1>2 DEF PairInv
<1>5. usage' = 2 * Len(judged') /\ usage' \in Nat
    BY <1>1
<1>6. /\ \A i \in DOMAIN rows' : rows'[i].problem = ProblemOf(i) /\ rows'[i].method = MethodOf(i)
      /\ Len(rows') = cell' - 1
      /\ pc' = "done" => Len(rows') = NumCells
    BY <1>1
<1> QED
    BY <1>1, <1>2, <1>3, <1>4, <1>5, <1>6

\* A pair ends with a row, and the next one begins with nothing.
LEMMA NextCellStep ==
    ASSUME HarnessInv, InCell, NEW r, GoodRow(r), rows' = Append(rows, r),
           NEW n \in Nat, NextCell(n), answered' \in Nat
    PROVE  HarnessInv'
<1>1. /\ cell' = cell + 1 /\ judged' = <<>> /\ usage' = 0 /\ UNCHANGED <<hostSec, pc>>
      /\ pc = "working"
    BY DEF NextCell, FreshUsage, InCell
<1>2. /\ rows' \in Seq(Row) /\ cell' \in 1..NumCells + 1
      /\ Len(rows') = cell' - 1
      /\ \A i \in DOMAIN rows' :
            rows'[i].problem = ProblemOf(i) /\ rows'[i].method = MethodOf(i)
      /\ \A i \in DOMAIN rows' : RowKept(rows'[i])
    BY <1>1, RowAdded
<1>3. TypeOK'
    BY <1>1, <1>2 DEF HarnessInv, TypeOK
<1>4. ~Complete("self_correct")'
    BY <1>1 DEF Complete
<1>5. PairInv'
    BY <1>1, <1>2, <1>4 DEF PairInv
<1> QED
    BY <1>1, <1>2, <1>3, <1>5 DEF HarnessInv

LEMMA HarnessStep == HarnessInv /\ [Next]_vars => HarnessInv'
<1> SUFFICES ASSUME HarnessInv, [Next]_vars PROVE HarnessInv'
    OBVIOUS
<1>1. CASE SandboxCheck \/ LLMCheck
  <2>1. /\ UNCHANGED <<hostSec, cell, judged, usage, rows, answered>>
        /\ judged = <<>> /\ usage = 0
        /\ pc' \in {"llm_check", "working", "aborted"}
    BY <1>1 DEF SandboxCheck, LLMCheck, HarnessInv, PairInv
  <2>2. TypeOK'
    BY <2>1 DEF HarnessInv, TypeOK
  <2>3. ~Complete("self_correct")'
    BY <2>1 DEF Complete
  <2>4. PairInv'
    BY <2>1, <2>3 DEF HarnessInv, PairInv
  <2> QED
    BY <2>1, <2>2, <2>4 DEF HarnessInv
<1>2. CASE Generate
    BY <1>2, GenerateStep
<1>3. CASE Reflect
    BY <1>3, ReflectStep
<1>4. CASE RecordResult
  <2>1. GoodRow(ResultRow(MethodOf(cell)))
    BY <1>4, CompletePair, CellInRange DEF RecordResult, HarnessInv
  <2> QED
    BY <1>4, <2>1, NextCellStep DEF RecordResult, HarnessInv, TypeOK
<1>5. CASE CellRaises
  <2>1. PICK late \in {0, 1} :
           /\ answered' = answered + late
           /\ rows' = Append(rows, ErrorRow(usage + late))
           /\ NextCell(usage + late)
    BY <1>5 DEF CellRaises, RowsAfterError
  <2>2. usage + late \in Nat /\ answered' \in Nat
    BY <2>1 DEF HarnessInv, TypeOK
  <2>3. InCell /\ GoodRow(ErrorRow(usage + late))
    BY <1>5, <2>2, RaisedPair DEF CellRaises, HarnessInv
  <2> QED
    BY <2>1, <2>2, <2>3, NextCellStep
<1>6. CASE Interrupt \/ Finish
  <2>1. /\ UNCHANGED <<hostSec, cell, judged, usage, rows, answered>>
        /\ pc' \in {"interrupted", "done"}
        /\ pc' = "done" => cell > NumCells
    BY <1>6 DEF Interrupt, Finish
  <2>2. pc' = "done" => Len(rows) = NumCells
    BY <2>1 DEF HarnessInv, TypeOK, NumCells
  <2>3. TypeOK'
    BY <2>1 DEF HarnessInv, TypeOK
  <2>4. PairInv'
    BY <2>1 DEF HarnessInv, PairInv, InCell
  <2> QED
    BY <2>1, <2>2, <2>3, <2>4 DEF HarnessInv, InCell
<1>7. CASE UNCHANGED vars
    BY <1>7
    DEF vars, HarnessInv, TypeOK, PairInv, InCell, MethodOf, Complete, LastJudged
<1> QED
    BY <1>1, <1>2, <1>3, <1>4, <1>5, <1>6, <1>7 DEF Next, Work

\* The inductive invariant: the file holds the rows of the pairs so far, one
\* each, in the order of the run, however its pairs ended; and what the methods
\* rely on within a pair (run_eval.py's main loop).
THEOREM HarnessInvariant == Spec => []HarnessInv
BY InitHarnessInv, HarnessStep, PTL DEF Spec

-----------------------------------------------------------------------------
(* What the files of a run say.                                              *)

LEMMA CostStep ==
    HarnessInv /\ [Next]_vars /\ TotalUsage(rows) + usage = answered
        => TotalUsage(rows') + usage' = answered'
<1> SUFFICES ASSUME HarnessInv, [Next]_vars, TotalUsage(rows) + usage = answered
             PROVE  TotalUsage(rows') + usage' = answered'
    OBVIOUS
<1>1. rows \in Seq(Row) /\ usage \in Nat /\ answered \in Nat
    BY DEF HarnessInv, TypeOK
<1>2. /\ TotalUsage(rows) \in Nat
      /\ \A r \in Row : TotalUsage(Append(rows, r)) = TotalUsage(rows) + r.usage
  <2>1. TotalUsage(rows) \in Nat
    <3> DEFINE s == [i \in 1..Len(rows) |-> rows[i].usage]
    <3>1. s \in Seq(Nat)
        BY <1>1, UsageOf
    <3> HIDE DEF s
    <3>2. Total(s) \in Nat
        BY <3>1, TotalGrows
    <3> QED
        BY <3>2, Zenon DEF TotalUsage, s
  <2> QED
    BY <1>1, <2>1, UsageGrows
<1>3. CASE RecordResult
  <2>1. GoodRow(ResultRow(MethodOf(cell))) /\ ResultRow(MethodOf(cell)).usage = usage
    BY <1>3, CompletePair, CellInRange DEF RecordResult, HarnessInv
  <2> QED
    BY <1>1, <1>2, <1>3, <2>1 DEF RecordResult, NextCell, FreshUsage, GoodRow
<1>4. CASE CellRaises
  <2>1. PICK late \in {0, 1} :
           /\ answered' = answered + late
           /\ rows' = Append(rows, ErrorRow(usage + late))
           /\ usage' = 0
    BY <1>4 DEF CellRaises, RowsAfterError, NextCell, FreshUsage
  <2>2. GoodRow(ErrorRow(usage + late)) /\ ErrorRow(usage + late).usage = usage + late
    BY <1>1, <1>4, RaisedPair DEF CellRaises, HarnessInv
  <2> QED
    BY <1>1, <1>2, <2>1, <2>2 DEF GoodRow
<1>5. CASE Generate \/ Reflect
  <2>1. rows' = rows /\ usage' = usage + 1 /\ answered' = answered + 1
    BY <1>5 DEF Generate, Reflect
  <2>2. TotalUsage(rows') = TotalUsage(rows)
    BY <2>1
  <2>3. TotalUsage(rows) \in Nat
    BY <1>2
  <2>4. \A t \in Nat : t + usage = answered => t + (usage + 1) = answered + 1
    BY <1>1
  <2> QED
    BY <2>1, <2>2, <2>3, <2>4, Zenon
<1>6. CASE UNCHANGED <<rows, usage, answered>>
    BY <1>6
<1> QED
    BY <1>3, <1>4, <1>5, <1>6
    DEF Next, Work, vars, SandboxCheck, LLMCheck, Interrupt, Finish

\* The cost tables are measured: each row's own count of calls is what its usage
\* scope saw, and the scopes saw every call that was answered, those of pairs that
\* raised included (run_eval.py's track_usage() around each pair).
THEOREM CostsAreMeasured == Spec => []CostIsMeasured
<1> DEFINE Sums == TotalUsage(rows) + usage = answered
<1>1. Init => Sums
  <2>1. [i \in 1..Len(<<>>) |-> <<>>[i].usage] = <<>>
    OBVIOUS
  <2> QED
    BY <2>1, TotalOfNone DEF Init, TotalUsage
<1>2. HarnessInv /\ Sums /\ [Next]_vars => Sums'
    BY CostStep
<1>3. HarnessInv /\ Sums => CostIsMeasured
    BY DEF CostIsMeasured, HarnessInv, PairInv, RowKept, CostRows, RowsOf
<1> HIDE DEF Sums
<1> QED
    BY <1>1, <1>2, <1>3, HarnessInvariant, PTL DEF Spec

\* What the run reports as solved, partial_credit.py finds solved when it runs
\* the recorded program once more: of the samples of best_of_n one that passed is
\* recorded, of the agent's attempts the last.
THEOREM ReportedSuccessesReproduce == Spec => []SuccessesReproduce
<1>1. HarnessInv => SuccessesReproduce
  <2> SUFFICES ASSUME HarnessInv, NEW m \in Method, NEW i \in SolvedBy(m)
               PROVE  i \in FullMarks(m)
    BY DEF SuccessesReproduce, HarnessInv
  <2>1. i \in DOMAIN rows /\ i \in RowsOf(m) /\ rows[i].code \in Working
    BY DEF HarnessInv, PairInv, RowKept, SolvedBy, RowsOf
  <2> QED
    BY <2>1, NoneAssumption DEF FullMarks, PartialRows
<1> QED
    BY <1>1, HarnessInvariant, PTL

-----------------------------------------------------------------------------
(* The headline's difference, counted by problems.                           *)

\* The row of a problem's turn for the method in place a.
Turn(p, a) == L * (p - 1) + a

LEMMA RowsOfMethod ==
    ASSUME HarnessInv, pc = "done", NEW a \in DOMAIN Methods
    PROVE  /\ \A p \in 1..NumProblems :
                 Turn(p, a) \in RowsOf(Methods[a]) /\ rows[Turn(p, a)].problem = p
           /\ \A i \in RowsOf(Methods[a]) :
                 rows[i].problem \in 1..NumProblems /\ i = Turn(rows[i].problem, a)
<1>1. /\ DOMAIN rows = 1..NumCells
      /\ \A i \in 1..NumCells : rows[i].problem = ProblemOf(i) /\ rows[i].method = MethodOf(i)
    BY DEF HarnessInv, TypeOK
<1>2. ASSUME NEW p \in 1..NumProblems
      PROVE  Turn(p, a) \in RowsOf(Methods[a]) /\ rows[Turn(p, a)].problem = p
    BY <1>1, CellOf DEF Turn, RowsOf
<1>3. ASSUME NEW i \in RowsOf(Methods[a])
      PROVE  rows[i].problem \in 1..NumProblems /\ i = Turn(rows[i].problem, a)
  <2>1. i \in 1..NumCells /\ MethodOf(i) = Methods[a]
    BY <1>1 DEF RowsOf
  <2>2. Methods[Place(i)] = Methods[a] /\ Place(i) \in DOMAIN Methods
    BY <2>1, CellAt
  <2>3. Place(i) = a
    BY <2>2
  <2>4. ProblemOf(i) \in 1..NumProblems /\ i = L * (ProblemOf(i) - 1) + Place(i)
    BY <2>1, CellAt
  <2> QED
    BY <1>1, <2>1, <2>3, <2>4 DEF Turn
<1> QED
    BY <1>2, <1>3

LEMMA Counted ==
    ASSUME NEW S \in SUBSET (1..NumProblems), NEW T, NEW f \in [S -> T],
           \A p, q \in S : f[p] = f[q] => p = q,
           \A t \in T : \E p \in S : f[p] = t
    PROVE  Cardinality(T) = Cardinality(S)
<1>1. IsFiniteSet(S)
  <2>1. IsFiniteSet(1..NumProblems)
    BY FS_Interval
  <2> QED
    BY <2>1, FS_Subset
<1>2. f \in Bijection(S, T)
    BY DEF Bijection, Injection, Surjection, IsInjective
<1> QED
    BY <1>1, <1>2, FS_Bijection DEF ExistsBijection

LEMMA DeltaCounted ==
    ASSUME HarnessInv, pc = "done", NEW a \in DOMAIN Methods, NEW b \in DOMAIN Methods,
           Methods[a] = "single_shot", Methods[b] = "self_correct"
    PROVE  Delta = Cardinality(Fixed) - Cardinality(Broken)
<1> DEFINE P1 == {p \in 1..NumProblems : rows[Turn(p, a)].passed}
           P2 == {p \in 1..NumProblems : rows[Turn(p, b)].passed}
           Pair(p) == <<Turn(p, a), Turn(p, b)>>
<1>1. /\ \A p \in 1..NumProblems :
            /\ Turn(p, a) \in RowsOf("single_shot") /\ rows[Turn(p, a)].problem = p
            /\ Turn(p, b) \in RowsOf("self_correct") /\ rows[Turn(p, b)].problem = p
      /\ \A i \in RowsOf("single_shot") :
            rows[i].problem \in 1..NumProblems /\ i = Turn(rows[i].problem, a)
      /\ \A i \in RowsOf("self_correct") :
            rows[i].problem \in 1..NumProblems /\ i = Turn(rows[i].problem, b)
    BY RowsOfMethod
<1> HIDE HarnessAssumption
<1>2. Cardinality(SolvedBy("single_shot")) = Cardinality(P1)
  <2> DEFINE f == [p \in P1 |-> Turn(p, a)]
  <2>1. f \in [P1 -> SolvedBy("single_shot")]
    BY <1>1 DEF SolvedBy
  <2>2. \A p, q \in P1 : f[p] = f[q] => p = q
    BY <1>1
  <2>3. \A i \in SolvedBy("single_shot") : \E p \in P1 : f[p] = i
    BY <1>1 DEF SolvedBy
  <2> HIDE DEF f, P1
  <2> QED
    BY <2>1, <2>2, <2>3, Counted DEF P1
<1>3. Cardinality(SolvedBy("self_correct")) = Cardinality(P2)
  <2> DEFINE f == [p \in P2 |-> Turn(p, b)]
  <2>1. f \in [P2 -> SolvedBy("self_correct")]
    BY <1>1 DEF SolvedBy
  <2>2. \A p, q \in P2 : f[p] = f[q] => p = q
    BY <1>1
  <2>3. \A i \in SolvedBy("self_correct") : \E p \in P2 : f[p] = i
    BY <1>1 DEF SolvedBy
  <2> HIDE DEF f, P2
  <2> QED
    BY <2>1, <2>2, <2>3, Counted DEF P2
\* The merge puts the two rows of each problem side by side.
<1>4. /\ \A p \in 1..NumProblems : Pair(p) \in Merged /\ rows[Pair(p)[1]].problem = p
      /\ \A m \in Merged : \E p \in 1..NumProblems : m = Pair(p)
    BY <1>1 DEF Merged
<1>5. Cardinality(Fixed) = Cardinality(P2 \ P1)
  <2> DEFINE f == [p \in P2 \ P1 |-> Pair(p)]
  <2>1. f \in [P2 \ P1 -> Fixed]
    BY <1>4 DEF Fixed
  <2>2. \A p, q \in P2 \ P1 : f[p] = f[q] => p = q
    BY <1>4
  <2>3. \A m \in Fixed : \E p \in P2 \ P1 : f[p] = m
    BY <1>4 DEF Fixed
  <2>4. P2 \ P1 \in SUBSET (1..NumProblems)
    OBVIOUS
  <2> HIDE DEF f, P1, P2
  <2> QED
    BY <2>1, <2>2, <2>3, <2>4, Counted
<1>6. Cardinality(Broken) = Cardinality(P1 \ P2)
  <2> DEFINE f == [p \in P1 \ P2 |-> Pair(p)]
  <2>1. f \in [P1 \ P2 -> Broken]
    BY <1>4 DEF Broken
  <2>2. \A p, q \in P1 \ P2 : f[p] = f[q] => p = q
    BY <1>4
  <2>3. \A m \in Broken : \E p \in P1 \ P2 : f[p] = m
    BY <1>4 DEF Broken
  <2>4. P1 \ P2 \in SUBSET (1..NumProblems)
    OBVIOUS
  <2> HIDE DEF f, P1, P2
  <2> QED
    BY <2>1, <2>2, <2>3, <2>4, Counted
\* What the sets have in common counts on both sides.
<1>7. IsFiniteSet(P1) /\ IsFiniteSet(P2)
  <2>1. IsFiniteSet(1..NumProblems)
    BY FS_Interval, HarnessAssumption
  <2> QED
    BY <2>1, FS_Subset
<1> HIDE DEF P1, P2
<1>8. /\ Cardinality(P2 \ P1) = Cardinality(P2) - Cardinality(P2 \cap P1)
      /\ Cardinality(P1 \ P2) = Cardinality(P1) - Cardinality(P2 \cap P1)
  <2>1. P1 \cap P2 = P2 \cap P1
    OBVIOUS
  <2> QED
    BY <1>7, <2>1, FS_Difference
<1>9. Cardinality(P1) \in Nat /\ Cardinality(P2) \in Nat /\ Cardinality(P2 \cap P1) \in Nat
    BY <1>7, FS_Intersection, FS_CardinalityType
<1>10. Delta = Cardinality(P2) - Cardinality(P1)
    BY <1>2, <1>3, Zenon DEF Delta
<1> QED
    BY <1>5, <1>6, <1>8, <1>9, <1>10

\* The two ways analyze.py counts what the loop gains agree on the file of every
\* completed run: the difference of the solved rows, and the problems fixed less
\* those broken (analyze.py:100-118).
THEOREM DeltaExplained == Spec => []DeltaIsExplained
<1>1. HarnessInv => DeltaIsExplained
  <2> SUFFICES ASSUME HarnessInv, pc = "done",
                      NEW i \in RowsOf("single_shot"), NEW j \in RowsOf("self_correct")
               PROVE  Delta = Cardinality(Fixed) - Cardinality(Broken)
    BY DEF DeltaIsExplained
  <2>1. i \in 1..NumCells /\ MethodOf(i) = "single_shot"
    BY DEF HarnessInv, TypeOK, RowsOf
  <2>2. j \in 1..NumCells /\ MethodOf(j) = "self_correct"
    BY DEF HarnessInv, TypeOK, RowsOf
  <2>3. /\ Place(i) \in DOMAIN Methods /\ Methods[Place(i)] = "single_shot"
        /\ Place(j) \in DOMAIN Methods /\ Methods[Place(j)] = "self_correct"
    BY <2>1, <2>2, CellAt
  <2> QED
    BY <2>3, DeltaCounted
<1> QED
    BY <1>1, HarnessInvariant, PTL

-----------------------------------------------------------------------------
(* The tables.                                                               *)

\* The agent's rows, by attempt, by terminal state and by error.
LEMMA AgentRowsAddUp ==
    ASSUME HarnessInv
    PROVE  /\ (SolvedOnSome \cup UnsolvedAsSome) \cap Errored("self_correct") = {}
           /\ SolvedOnSome \cup UnsolvedAsSome \cup Errored("self_correct") = RowsOf("self_correct")
<1>1. ASSUME NEW i \in RowsOf("self_correct")
      PROVE  /\ rows[i] \in Row /\ RowKept(rows[i]) /\ rows[i].method = "self_correct"
  <2>1. i \in DOMAIN rows /\ rows \in Seq(Row) /\ rows[i].method = "self_correct"
    BY DEF HarnessInv, TypeOK, RowsOf
  <2> QED
    BY <2>1 DEF HarnessInv, PairInv
<1>2. ASSUME NEW i \in RowsOf("self_correct"), i \notin Errored("self_correct")
      PROVE  /\ rows[i].attempts_used \in AttemptsSeen
             /\ rows[i].status \in TerminalStates
             /\ rows[i].passed \in BOOLEAN
  <2>1. rows[i].attempts_used # None /\ rows[i].status # None
    BY <1>1, <1>2 DEF RowKept, Errored
  <2>2. rows[i].status \in {"passed", "failed_static", "failed_tests", None} /\ rows[i].passed \in BOOLEAN
    BY <1>1 DEF Row
  <2> QED
    BY <2>1, <2>2 DEF AttemptsSeen, TerminalStates
<1>3. ASSUME NEW i \in Errored("self_correct")
      PROVE  ~rows[i].passed /\ rows[i].status = None /\ i \in RowsOf("self_correct")
  <2>1. i \in RowsOf("self_correct") /\ rows[i].llm_calls = None
    BY DEF Errored
  <2> QED
    BY <1>1, <2>1 DEF RowKept
<1>4. ASSUME NEW i \in RowsOf("self_correct"), i \notin Errored("self_correct")
      PROVE  \/ \E k \in AttemptsSeen : i \in SolvedOn(k)
             \/ \E st \in TerminalStates : i \in UnsolvedAs(st)
  <2>1. CASE rows[i].passed
    BY <1>2, <1>4, <2>1 DEF SolvedOn, SolvedBy
  <2>2. CASE ~rows[i].passed
    BY <1>2, <1>4, <2>2 DEF UnsolvedAs
  <2> QED
    BY <2>1, <2>2
<1>5. SolvedOnSome \subseteq RowsOf("self_correct") /\ UnsolvedAsSome \subseteq RowsOf("self_correct")
    BY DEF SolvedOnSome, SolvedOn, SolvedBy, UnsolvedAsSome, UnsolvedAs
<1>6. (SolvedOnSome \cup UnsolvedAsSome) \cap Errored("self_correct") = {}
  <2>1. None \notin TerminalStates
    BY NoneAssumption DEF TerminalStates
  <2> QED
    BY <1>3, <2>1 DEF SolvedOnSome, SolvedOn, SolvedBy, UnsolvedAsSome, UnsolvedAs
<1>7. \A i \in RowsOf("self_correct") :
         i \in SolvedOnSome \/ i \in UnsolvedAsSome \/ i \in Errored("self_correct")
    BY <1>4 DEF SolvedOnSome, UnsolvedAsSome
<1>8. Errored("self_correct") \subseteq RowsOf("self_correct")
    BY <1>3
<1> QED
    BY <1>5, <1>6, <1>7, <1>8

\* The samples of best_of_n.
LEMMA SamplesAddUp ==
    ASSUME HarnessInv
    PROVE  /\ Cardinality(SolvedBy("best_of_n")) <= SamplesPassed
           /\ SamplesPassed <= SamplesDrawn
           /\ SamplesPassed <= MaxAttempts * Cardinality(SolvedBy("best_of_n"))
<1> DEFINE s == [i \in 1..Len(rows) |-> SamplesOfRow(i)]
           T == SolvedBy("best_of_n")
<1>1. rows \in Seq(Row) /\ Len(rows) \in Nat /\ DOMAIN rows = 1..Len(rows)
      /\ MaxAttempts \in Nat
    BY DEF HarnessInv, TypeOK
<1>2. ASSUME NEW i \in 1..Len(rows)
      PROVE  /\ SamplesOfRow(i) \in Nat
             /\ IF i \in T THEN SamplesOfRow(i) \in 1..MaxAttempts ELSE SamplesOfRow(i) = 0
             /\ i \in T => i \in SampledRows
  <2>1. rows[i] \in Row /\ RowKept(rows[i]) /\ i \in DOMAIN rows
    BY <1>1 DEF HarnessInv, PairInv
  <2>2. CASE i \in SampledRows
    <3>1. /\ rows[i].method = "best_of_n" /\ rows[i].samples_passed # None
          /\ i \in RowsOf("best_of_n") /\ SamplesOfRow(i) = rows[i].samples_passed
        BY <2>1, <2>2 DEF SampledRows, Sampled, RowsOf, SamplesOfRow
    <3>2. /\ rows[i].samples_passed \in 0..MaxAttempts
          /\ rows[i].passed <=> rows[i].samples_passed # 0
        BY <2>1, <3>1 DEF RowKept
    <3>3. i \in T <=> rows[i].passed
        BY <3>1 DEF SolvedBy
    <3> QED
        BY <1>1, <2>2, <3>1, <3>2, <3>3
  <2>3. CASE i \notin SampledRows
    <3>1. SamplesOfRow(i) = 0
        BY <2>1, <2>3 DEF SamplesOfRow, SampledRows, Sampled
    <3>2. ASSUME i \in T PROVE FALSE
      <4>1. rows[i].method = "best_of_n" /\ rows[i].passed /\ rows[i].samples_passed = None
        BY <2>1, <2>3, <3>2 DEF SolvedBy, RowsOf, SampledRows, Sampled
      <4>2. None \in 0..MaxAttempts
        BY <2>1, <4>1 DEF RowKept
      <4> QED
        BY <1>1, <4>2, NoneAssumption
    <3> QED
        BY <3>1, <3>2
  <2> QED
    BY <2>2, <2>3
<1>3. s \in Seq(Nat) /\ DOMAIN s = 1..Len(rows)
  <2>1. s \in [1..Len(rows) -> Nat]
    BY <1>2
  <2> QED
    BY <1>1, <2>1
<1>4. T \in SUBSET (1..Len(rows)) /\ SampledRows \in SUBSET (1..Len(rows)) /\ T \subseteq SampledRows
  <2>1. RowsOf("best_of_n") \subseteq 1..Len(rows)
    BY <1>1 DEF RowsOf
  <2> QED
    BY <1>1, <1>2, <2>1 DEF SolvedBy, SampledRows
<1>5. \A i \in DOMAIN s : IF i \in T THEN s[i] \in 1..MaxAttempts ELSE s[i] = 0
    BY <1>2, <1>3
<1>6. SamplesPassed = Total(s)
    BY Zenon DEF SamplesPassed
<1> HIDE DEF s, T
<1>7. /\ Total(s) \in Nat
      /\ Cardinality(T) <= Total(s) /\ Total(s) <= MaxAttempts * Cardinality(T)
    BY <1>1, <1>3, <1>4, <1>5, TotalBetween
<1>8. Cardinality(T) \in Nat /\ Cardinality(SampledRows) \in Nat
      /\ Cardinality(T) <= Cardinality(SampledRows)
  <2>1. IsFiniteSet(1..Len(rows))
    BY <1>1, CardinalityUpto
  <2>2. IsFiniteSet(SampledRows) /\ IsFiniteSet(T)
    BY <1>4, <2>1, FS_Subset
  <2> QED
    BY <1>4, <2>2, FS_Subset, FS_CardinalityType
<1>9. MaxAttempts * Cardinality(T) <= SamplesDrawn
  <2>1. MaxAttempts * Cardinality(T) <= MaxAttempts * Cardinality(SampledRows)
    BY <1>1, <1>8, TimesGrows
  <2> QED
    BY <2>1 DEF SamplesDrawn
<1>10. SamplesDrawn \in Nat /\ MaxAttempts * Cardinality(T) \in Nat
    BY <1>1, <1>8 DEF SamplesDrawn
<1> QED
    BY <1>6, <1>7, <1>8, <1>9, <1>10 DEF T

\* No row of the run is lost between the tables or counted in two of them, and the
\* samples that passed are those of the rows the oracle solved (analyze.py:120-138).
THEOREM TablesComplete == Spec => []TablesAddUp
<1>1. HarnessInv => TablesAddUp
    BY AgentRowsAddUp, SamplesAddUp DEF TablesAddUp
<1> QED
    BY <1>1, HarnessInvariant, PTL
=============================================================================
