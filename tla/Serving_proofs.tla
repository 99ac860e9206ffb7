--------------------------- MODULE Serving_proofs ---------------------------
(***************************************************************************)
(* Proofs about LogLines, DbAuthService and ServeLog, for logs of any      *)
(* length, any sizes of chunks, any ranges and any number of requests: a   *)
(* normalized log is what a terminal shows, ranges of lines are read       *)
(* right, and answers are right; and about BuildQueueStateProxy, for any   *)
(* number of operations and pages of any size: pages are right.            *)
(*                                                                         *)
(* What the operators of Selections and LogLines compute is proved from    *)
(* lemmas about recursive functions, folds and flattened sequences.  Where *)
(* induction is needed, it is on the numbers up to n and on a set          *)
(* (Induct).                                                               *)
(***************************************************************************)
EXTENDS ServeLog, BuildQueueStateProxy, Integers, FiniteSetTheorems, SequenceTheorems, WellFoundedInduction, TLAPS

-----------------------------------------------------------------------------
(* Induction, and functions that are defined by recursion.                 *)

\* A set of numbers that has zero and with a number the next one.
LEMMA Induct ==
  ASSUME NEW n \in Nat, NEW T, 0 \in T, \A i \in 0..(n-1) : i \in T => i + 1 \in T
  PROVE  \A i \in 0..n : i \in T
<1> DEFINE Others == {i \in Nat : i <= n /\ i \notin T}
<1> SUFFICES ASSUME Others # {} PROVE FALSE
  OBVIOUS
<1>1. PICK d \in Others : \A e \in Others : ~(<<e, d>> \in OpToRel(<, Nat))
  <2>1. Others \subseteq Nat
    OBVIOUS
  <2> QED
    BY <2>1, NatLessThanWellFounded, WFMin
<1>2. d \in Nat /\ d # 0 /\ d <= n /\ d \notin T
  OBVIOUS
<1>3. d - 1 \in Nat /\ d - 1 < d
  BY <1>2
<1>4. d - 1 \notin Others
  BY <1>1, <1>2, <1>3 DEF OpToRel
<1> QED
  BY <1>2, <1>3, <1>4

\* What is computed in n steps from base, each of them from the value before.
Steps(n, V) == [1..n -> [V -> V]]
Computes(f, base, step, n, V) ==
  f \in [0..n -> V] /\ f[0] = base /\ \A i \in 1..n : f[i] = step[i][f[i-1]]

LEMMA Recursion ==
  ASSUME NEW V, NEW base \in V, NEW n \in Nat, NEW step \in Steps(n, V)
  PROVE  \E f : Computes(f, base, step, n, V)
<1> DEFINE Has(m, f) == f \in [0..m -> V] /\ f[0] = base /\ \A i \in 1..m : f[i] = step[i][f[i-1]]
           T == {m \in 0..n : \E f : Has(m, f)}
<1> USE DEF Steps
<1>1. 0 \in T
  <2>1. Has(0, [i \in 0..0 |-> base])
    OBVIOUS
  <2> HIDE DEF Has
  <2> QED
    BY <2>1
<1>2. ASSUME NEW m \in 0..(n-1), m \in T
      PROVE  m + 1 \in T
  <2>1. PICK f : Has(m, f)
    BY <1>2
  <2> DEFINE g == [i \in 0..(m+1) |-> IF i <= m THEN f[i] ELSE step[m+1][f[m]]]
  <2>2. f[m] \in V /\ step[m+1] \in [V -> V] /\ step[m+1][f[m]] \in V
    BY <2>1
  <2>3. g \in [0..(m+1) -> V] /\ g[0] = base
    BY <2>1, <2>2
  <2>4. ASSUME NEW i \in 1..(m+1)
        PROVE  g[i] = step[i][g[i-1]]
    <3>1. CASE i <= m
      BY <3>1, <2>1
    <3>2. CASE i = m + 1
      BY <3>2, <2>1
    <3> QED
      BY <3>1, <3>2
  <2>5. Has(m + 1, g)
    BY <2>3, <2>4
  <2> HIDE DEF Has, g
  <2> QED
    BY <2>5
<1> HIDE DEF T
<1>3. \A m \in 0..n : m \in T
  BY <1>1, <1>2, Induct
<1>4. \E f : Has(n, f)
  BY <1>3, n \in 0..n DEF T
<1> QED
  BY <1>4 DEF Computes

\* The greatest element of a set.
LEMMA MaxOf ==
  ASSUME NEW n \in Nat, NEW S \in SUBSET (0..n), S # {}
  PROVE  Max(S) \in S /\ \A x \in S : x <= Max(S)
<1> DEFINE T == {m \in 0..n : (\E x \in S : x <= m) =>
                               \E x \in S : x <= m /\ \A y \in S : y <= m => y <= x}
<1>1. 0 \in T
  OBVIOUS
<1>2. ASSUME NEW m \in 0..(n-1), m \in T
      PROVE  m + 1 \in T
  <2>1. CASE m + 1 \in S
    BY <2>1
  <2>2. CASE m + 1 \notin S
    <3>1. \A x \in S : x <= m + 1 <=> x <= m
      BY <2>2
    <3> QED
      BY <3>1, <1>2
  <2> QED
    BY <2>1, <2>2
<1> HIDE DEF T
<1>3. n \in T
  BY <1>1, <1>2, Induct
<1>4. \E x \in S : \A y \in S : x >= y
  <2>1. \A x \in S : x \in Nat /\ x <= n
    OBVIOUS
  <2>2. PICK x \in S : \A y \in S : y <= n => y <= x
    BY <1>3, <2>1 DEF T
  <2> QED
    BY <2>1, <2>2
<1> QED
  BY <1>4 DEF Max

\* The same on sets of numbers: what is computed from the set without its greatest.
FoldsTo(f, base, step, n, V) ==
  /\ f \in [SUBSET (1..n) -> V]
  /\ \A x \in SUBSET (1..n) :
       f[x] = IF x = {} THEN base ELSE step[Max(x)][f[x \ {Max(x)}]]

LEMMA SetRecursion ==
  ASSUME NEW V, NEW base \in V, NEW n \in Nat, NEW step \in Steps(n, V)
  PROVE  \E f : FoldsTo(f, base, step, n, V)
<1> DEFINE Has(m, f) == /\ f \in [SUBSET (1..m) -> V]
                        /\ \A x \in SUBSET (1..m) :
                             f[x] = IF x = {} THEN base ELSE step[Max(x)][f[x \ {Max(x)}]]
           T == {m \in 0..n : \E f : Has(m, f)}
<1> USE DEF Steps
<1>1. 0 \in T
  <2> DEFINE g == [x \in SUBSET (1..0) |-> base]
  <2>1. \A x \in SUBSET (1..0) : x = {}
    OBVIOUS
  <2>2. Has(0, g)
    BY <2>1
  <2> HIDE DEF Has, g
  <2> QED
    BY <2>2
<1>2. ASSUME NEW m \in 0..(n-1), m \in T
      PROVE  m + 1 \in T
  <2>1. PICK f : Has(m, f)
    BY <1>2
  <2> DEFINE g == [x \in SUBSET (1..(m+1)) |->
                     IF m + 1 \in x THEN step[m+1][f[x \ {m+1}]] ELSE f[x]]
  <2>2. ASSUME NEW x \in SUBSET (1..(m+1)), m + 1 \in x
        PROVE  /\ x \ {m+1} \in SUBSET (1..m) /\ Max(x) = m + 1
               /\ g[x] \in V /\ g[x] = step[Max(x)][g[x \ {Max(x)}]]
    <3>1. x \ {m+1} \in SUBSET (1..m) /\ x \ {m+1} \in SUBSET (1..(m+1))
      <4>1. \A y \in 1..(m+1) : y # m + 1 => y \in 1..m
        OBVIOUS
      <4> QED
        BY <4>1
    <3>2. Max(x) = m + 1
      <4>1. Max(x) \in x /\ m + 1 <= Max(x)
        BY <2>2, MaxOf, x \in SUBSET (0..(m+1)), m + 1 \in Nat
      <4>2. Max(x) \in 1..(m+1)
        BY <4>1
      <4> QED
        BY <4>1, <4>2
    <3>3. g[x] = step[m+1][f[x \ {m+1}]] /\ g[x \ {m+1}] = f[x \ {m+1}]
      BY <2>2, <3>1
    <3>4. f[x \ {m+1}] \in V /\ step[m+1] \in [V -> V]
      BY <2>1, <3>1
    <3> QED
      BY <3>1, <3>2, <3>3, <3>4
  <2>3. ASSUME NEW x \in SUBSET (1..(m+1)), m + 1 \notin x
        PROVE  /\ g[x] \in V
               /\ g[x] = IF x = {} THEN base ELSE step[Max(x)][g[x \ {Max(x)}]]
    <3>1. x \in SUBSET (1..m) /\ g[x] = f[x] /\ x \ {Max(x)} \in SUBSET (1..m)
      <4>1. \A y \in 1..(m+1) : y # m + 1 => y \in 1..m
        OBVIOUS
      <4> QED
        BY <2>3, <4>1
    <3>2. g[x \ {Max(x)}] = f[x \ {Max(x)}]
      <4>1. x \ {Max(x)} \in SUBSET (1..(m+1)) /\ m + 1 \notin x \ {Max(x)}
        BY <2>3
      <4> QED
        BY <4>1
    <3> HIDE DEF g
    <3> QED
      BY <2>1, <3>1, <3>2
  <2>4. Has(m + 1, g)
    <3>1. g = [x \in SUBSET (1..(m+1)) |-> g[x]]
      OBVIOUS
    <3> HIDE DEF g
    <3>2. \A x \in SUBSET (1..(m+1)) : g[x] \in V
      BY <2>2, <2>3
    <3>3. g \in [SUBSET (1..(m+1)) -> V]
      BY <3>1, <3>2
    <3>4. \A x \in SUBSET (1..(m+1)) :
            g[x] = IF x = {} THEN base ELSE step[Max(x)][g[x \ {Max(x)}]]
      BY <2>2, <2>3
    <3> QED
      BY <3>3, <3>4
  <2> HIDE DEF Has, g
  <2> QED
    BY <2>4
<1> HIDE DEF T
<1>3. \A m \in 0..n : m \in T
  BY <1>1, <1>2, Induct
<1>4. \E f : Has(n, f)
  BY <1>3, n \in 0..n DEF T
<1> QED
  BY <1>4 DEF FoldsTo

-----------------------------------------------------------------------------
(* FlattenSeq, and the elements of a sequence at some positions.           *)

\* A flattened sequence, one element after the other.
LEMMA FlattenSteps ==
  ASSUME NEW S, NEW q \in Seq(Seq(S))
  PROVE  \E f \in [0..Len(q) -> Seq(S)] :
           /\ f[0] = <<>> /\ \A i \in 1..Len(q) : f[i] = f[i-1] \o q[i]
           /\ FlattenSeq(q) = f[Len(q)]
<1> DEFINE n == Len(q)
           V == Seq(S)
           base == <<>>
           step == [i \in 1..n |-> [v \in V |-> v \o q[i]]]
<1>1. n \in Nat /\ \A i \in 1..n : q[i] \in Seq(S)
  OBVIOUS
<1>2. base \in V
  OBVIOUS
<1>3. step \in Steps(n, V)
  BY <1>1, ConcatProperties DEF Steps
<1>4. PICK f \in [0..n -> Seq(S)] : f[0] = <<>> /\ \A i \in 1..n : f[i] = step[i][f[i-1]]
  <2>1. \E f : Computes(f, base, step, n, V)
    <3> HIDE DEF n, step, V, base
    <3> QED
      BY <1>1, <1>2, <1>3, Recursion
  <2> HIDE DEF n, step
  <2> QED
    BY <2>1 DEF Computes
<1>5. ASSUME NEW i \in 1..n
      PROVE  f[i] = f[i-1] \o q[i]
  <2>1. i - 1 \in 0..n
    BY <1>1
  <2>2. f[i-1] \in Seq(S) /\ f[i] = step[i][f[i-1]]
    BY <2>1, <1>4
  <2> HIDE DEF n
  <2> QED
    BY <2>2
<1>6. FlattenSeq(q) = f[n]
  <2>1. CASE n = 0
    BY <2>1, <1>4 DEF FlattenSeq
  <2>2. CASE n # 0
    <3> DEFINE Is(g) == g = [i \in 1..Len(q) |-> IF i = 1 THEN q[i] ELSE g[i-1] \o q[i]]
               h == [i \in 1..n |-> f[i]]
               g0 == CHOOSE g : Is(g)
    <3>1. f[1] = q[1]
      <4>1. f[1] = <<>> \o q[1]
        <5>1. 1 \in 1..n /\ 1 - 1 = 0
          BY <1>1, <2>2
        <5> QED
          BY <5>1, <1>4, <1>5
      <4> QED
        BY <1>1, <2>2, <4>1, ConcatEmptySeq
    <3>2. \A i \in 1..n : h[i] = IF i = 1 THEN q[i] ELSE h[i-1] \o q[i]
      <4> SUFFICES ASSUME NEW i \in 1..n
                   PROVE  h[i] = IF i = 1 THEN q[i] ELSE h[i-1] \o q[i]
        OBVIOUS
      <4>1. CASE i = 1
        BY <3>1, <4>1
      <4>2. CASE i # 1
        <5>1. i - 1 \in 1..n
          BY <1>1, <4>2
        <5> HIDE DEF n
        <5> QED
          BY <5>1, <4>2, <1>5
      <4> QED
        BY <4>1, <4>2
    <3>3. Is(h)
      <4> HIDE DEF n
      <4>1. h = [i \in 1..n |-> IF i = 1 THEN q[i] ELSE h[i-1] \o q[i]]
        BY <3>2
      <4> QED
        BY <4>1 DEF n
    <3>4. Is(g0)
      <4> HIDE DEF Is, h
      <4> QED
        BY <3>3
    <3>5. FlattenSeq(q) = g0[n]
      BY <2>2 DEF FlattenSeq
    <3>6. \A i \in 0..n : i \in {j \in 0..n : j = 0 \/ g0[j] = f[j]}
      <4> DEFINE T == {j \in 0..n : j = 0 \/ g0[j] = f[j]}
      <4> HIDE DEF g0
      <4>1. 0 \in T
        BY <1>1
      <4>2. ASSUME NEW i \in 0..(n-1), i \in T
            PROVE  i + 1 \in T
        <5>1. i + 1 \in 1..n /\ (i + 1) - 1 = i
          BY <1>1
        <5>2. g0[i+1] = IF i + 1 = 1 THEN q[i+1] ELSE g0[(i+1)-1] \o q[i+1]
          BY <3>4, <5>1
        <5>3. f[i+1] = f[i] \o q[i+1]
          BY <1>5, <5>1
        <5>4. CASE i = 0
          BY <3>1, <5>1, <5>2, <5>4
        <5>5. CASE i # 0
          <6>1. g0[i] = f[i] /\ i + 1 # 1
            BY <4>2, <5>5
          <6>2. g0[i+1] = f[i+1]
            <7> HIDE DEF n
            <7> QED
              BY <6>1, <5>1, <5>2, <5>3
          <6>3. i + 1 \in 0..n
            BY <5>1
          <6> HIDE DEF n
          <6> QED
            BY <6>2, <6>3
        <5> QED
          BY <5>4, <5>5
      <4> HIDE DEF T
      <4> QED
        BY <1>1, <4>1, <4>2, Induct DEF T
    <3>7. n \in 0..n
      BY <1>1
    <3> HIDE DEF g0
    <3> QED
      BY <2>2, <3>5, <3>6, <3>7
  <2> QED
    BY <2>1, <2>2
<1> QED
  BY <1>4, <1>5, <1>6

\* The empty sequence, and one that begins or ends with an element.
LEMMA FlattenFacts ==
  ASSUME NEW S, NEW q \in Seq(Seq(S))
  PROVE  /\ FlattenSeq(q) \in Seq(S)
         /\ q = <<>> => FlattenSeq(q) = <<>>
<1>1. PICK f \in [0..Len(q) -> Seq(S)] : FlattenSeq(q) = f[Len(q)] /\ f[0] = <<>>
  BY FlattenSteps
<1>2. Len(q) \in 0..Len(q) /\ (q = <<>> => Len(q) = 0)
  OBVIOUS
<1> QED
  BY <1>1, <1>2

LEMMA FlattenAppend ==
  ASSUME NEW S, NEW q \in Seq(Seq(S)), NEW x \in Seq(S)
  PROVE  FlattenSeq(Append(q, x)) = FlattenSeq(q) \o x
<1> DEFINE r == Append(q, x)
           n == Len(q)
<1>1. n \in Nat /\ r \in Seq(Seq(S)) /\ Len(r) = n + 1 /\ r[n+1] = x /\ \A i \in 1..n : r[i] = q[i]
  BY AppendProperties
<1>2. PICK f \in [0..n -> Seq(S)] : /\ f[0] = <<>> /\ \A i \in 1..n : f[i] = f[i-1] \o q[i]
                                    /\ FlattenSeq(q) = f[n]
  BY FlattenSteps
<1> HIDE DEF r, n
<1>3. PICK g \in [0..(n+1) -> Seq(S)] : /\ g[0] = <<>>
                                        /\ \A i \in 1..(n+1) : g[i] = g[i-1] \o r[i]
                                        /\ FlattenSeq(r) = g[n+1]
  <2>1. \E g \in [0..Len(r) -> Seq(S)] : /\ g[0] = <<>>
                                         /\ \A i \in 1..Len(r) : g[i] = g[i-1] \o r[i]
                                         /\ FlattenSeq(r) = g[Len(r)]
    BY <1>1, FlattenSteps
  <2>2. Len(r) = n + 1
    BY <1>1
  <2> QED
    BY <2>1, <2>2
<1> DEFINE T == {i \in 0..n : g[i] = f[i]}
<1>4. 0 \in T
  BY <1>1, <1>2, <1>3
<1>5. ASSUME NEW i \in 0..(n-1), i \in T
      PROVE  i + 1 \in T
  <2>1. i + 1 \in 1..n /\ i + 1 \in 1..(n+1) /\ (i + 1) - 1 = i /\ i + 1 \in 0..n
    BY <1>1
  <2>2. g[i+1] = g[i] \o r[i+1] /\ f[i+1] = f[i] \o q[i+1]
    BY <2>1, <1>2, <1>3
  <2> QED
    BY <2>1, <2>2, <1>1, <1>5
<1> HIDE DEF T
<1>6. n \in T
  <2>1. n \in Nat
    BY <1>1
  <2>2. \A i \in 0..n : i \in T
    BY <2>1, <1>4, <1>5, Induct
  <2> QED
    BY <2>1, <2>2
<1>7. g[n+1] = g[n] \o x
  <2>1. n + 1 \in 1..(n+1) /\ (n + 1) - 1 = n
    BY <1>1
  <2> QED
    BY <2>1, <1>1, <1>3
<1> QED
  BY <1>2, <1>3, <1>6, <1>7 DEF T, r

LEMMA FlattenTail ==
  ASSUME NEW S, NEW q \in Seq(Seq(S)), q # <<>>
  PROVE  FlattenSeq(q) = Head(q) \o FlattenSeq(Tail(q))
<1> DEFINE r == Tail(q)
           x == Head(q)
           n == Len(q) - 1
<1>1. /\ n \in Nat /\ Len(q) = n + 1 /\ r \in Seq(Seq(S)) /\ Len(r) = n /\ x \in Seq(S)
      /\ q[1] = x /\ \A i \in 1..n : r[i] = q[i+1] /\ r[i] \in Seq(S)
  <2>1. Len(q) \in Nat /\ Len(q) # 0
    OBVIOUS
  <2> QED
    BY <2>1, HeadTailProperties
<1> HIDE DEF r, n, x
<1>2. PICK f \in [0..(n+1) -> Seq(S)] : /\ f[0] = <<>>
                                        /\ \A i \in 1..(n+1) : f[i] = f[i-1] \o q[i]
                                        /\ FlattenSeq(q) = f[n+1]
  <2>1. \E f \in [0..Len(q) -> Seq(S)] : /\ f[0] = <<>>
                                         /\ \A i \in 1..Len(q) : f[i] = f[i-1] \o q[i]
                                         /\ FlattenSeq(q) = f[Len(q)]
    BY FlattenSteps
  <2>2. Len(q) = n + 1
    BY <1>1
  <2> QED
    BY <2>1, <2>2
<1>3. PICK g \in [0..n -> Seq(S)] : /\ g[0] = <<>> /\ \A i \in 1..n : g[i] = g[i-1] \o r[i]
                                    /\ FlattenSeq(r) = g[n]
  BY <1>1, FlattenSteps
<1> DEFINE T == {i \in 0..n : f[i+1] = x \o g[i]}
<1>4. 0 \in T
  <2>1. f[1] = <<>> \o x
    <3>1. 1 \in 1..(n+1) /\ 1 - 1 = 0
      BY <1>1
    <3> QED
      BY <3>1, <1>1, <1>2
  <2>2. f[1] = x \o <<>>
    BY <2>1, <1>1, ConcatEmptySeq
  <2> QED
    <3>1. 0 \in 0..n /\ 0 + 1 = 1 /\ g[0] = <<>>
      BY <1>1, <1>3
    <3> QED
      BY <3>1, <2>2
<1>5. ASSUME NEW i \in 0..(n-1), i \in T
      PROVE  i + 1 \in T
  <2>1. i + 1 \in 1..n /\ (i + 1) + 1 \in 1..(n+1) /\ (i + 1) - 1 = i /\ i \in 0..n
        /\ ((i + 1) + 1) - 1 = i + 1 /\ i + 1 \in 0..n
    BY <1>1
  <2>2. g[i+1] = g[i] \o r[i+1] /\ f[(i+1)+1] = f[i+1] \o r[i+1]
    BY <2>1, <1>1, <1>2, <1>3
  <2>3. (x \o g[i]) \o r[i+1] = x \o (g[i] \o r[i+1])
    <3> DEFINE y == g[i]
               z == r[i+1]
    <3>1. x \in Seq(S) /\ y \in Seq(S) /\ z \in Seq(S)
      BY <2>1, <1>1, <1>3
    <3>2. (x \o y) \o z = x \o (y \o z)
      <4> HIDE DEF y, z
      <4> QED
        BY <3>1, ConcatAssociative, SMTT(30)
    <3> QED
      BY <3>2
  <2> QED
    BY <2>1, <2>2, <2>3, <1>5
<1> HIDE DEF T
<1>6. n \in T
  <2>1. n \in Nat
    BY <1>1
  <2>2. \A i \in 0..n : i \in T
    BY <2>1, <1>4, <1>5, Induct
  <2> QED
    BY <2>1, <2>2
<1> QED
  BY <1>2, <1>3, <1>6 DEF T, r, x

\* Pieces that are next to each other.
LEMMA PiecesJoin ==
  ASSUME NEW S, NEW s \in Seq(S), NEW a \in 0..Len(s), NEW b \in 0..Len(s), NEW c \in 0..Len(s),
         a <= b, b <= c
  PROVE  SubSeq(s, a + 1, b) \o SubSeq(s, b + 1, c) = SubSeq(s, a + 1, c)
<1> DEFINE m == a + 1
<1>1. m \in 1..(Len(s)+1) /\ b \in (m-1)..Len(s) /\ c \in b..Len(s)
  OBVIOUS
<1> HIDE DEF m
<1>2. SubSeq(s, m, b) \o SubSeq(s, b + 1, c) = SubSeq(s, m, c)
  BY <1>1, ConcatAdjacentSubSeq
<1> QED
  BY <1>2 DEF m

ArePieces(q, s, cut) ==
  /\ cut \in [0..Len(q) -> 0..Len(s)]
  /\ \A i \in 1..Len(q) : cut[i-1] <= cut[i] /\ q[i] = SubSeq(s, cut[i-1] + 1, cut[i])

LEMMA FlattenPieces ==
  ASSUME NEW S, NEW s \in Seq(S), NEW q \in Seq(Seq(S)), NEW cut, ArePieces(q, s, cut)
  PROVE  FlattenSeq(q) = SubSeq(s, cut[0] + 1, cut[Len(q)])
<1> DEFINE n == Len(q)
<1>1. PICK f \in [0..n -> Seq(S)] : /\ f[0] = <<>> /\ \A i \in 1..n : f[i] = f[i-1] \o q[i]
                                    /\ FlattenSeq(q) = f[n]
  BY FlattenSteps
<1>2. n \in Nat /\ Len(s) \in Nat
  OBVIOUS
<1> DEFINE T == {i \in 0..n : cut[0] <= cut[i] /\ f[i] = SubSeq(s, cut[0] + 1, cut[i])}
<1> HIDE DEF n
<1>0. cut \in [0..n -> 0..Len(s)] /\ \A i \in 1..n : cut[i-1] <= cut[i] /\ q[i] = SubSeq(s, cut[i-1] + 1, cut[i])
  BY DEF n, ArePieces
<1>3. 0 \in T
  <2>1. cut[0] \in Nat
    BY <1>0, <1>2
  <2>2. SubSeq(s, cut[0] + 1, cut[0]) = <<>>
    BY <2>1, SubSeqEmpty
  <2> QED
    BY <1>1, <1>2, <2>1, <2>2
<1>4. ASSUME NEW i \in 0..(n-1), i \in T
      PROVE  i + 1 \in T
  <2>1. i + 1 \in 1..n /\ (i + 1) - 1 = i /\ i \in 0..n /\ 0 \in 0..n /\ i + 1 \in 0..n
    BY <1>2
  <2>2. f[i+1] = SubSeq(s, cut[0] + 1, cut[i]) \o SubSeq(s, cut[i] + 1, cut[i+1])
    BY <2>1, <1>0, <1>1, <1>4
  <2>3. cut[0] \in 0..Len(s) /\ cut[i] \in 0..Len(s) /\ cut[i+1] \in 0..Len(s) 
        /\ cut[0] <= cut[i] /\ cut[i] <= cut[i+1]
    BY <2>1, <1>0, <1>4
  <2>5. f[i+1] = SubSeq(s, cut[0] + 1, cut[i+1])
    <3> DEFINE a == cut[0]
               b == cut[i]
               c == cut[i+1]
    <3>1. a \in 0..Len(s) /\ b \in 0..Len(s) /\ c \in 0..Len(s) /\ a <= b /\ b <= c
      BY <2>3
    <3>2. SubSeq(s, a + 1, b) \o SubSeq(s, b + 1, c) = SubSeq(s, a + 1, c)
      <4> HIDE DEF a, b, c
      <4> QED
        BY <3>1, PiecesJoin
    <3> QED
      BY <2>2, <3>2
  <2>6. cut[0] <= cut[i+1]
    BY <2>3, <1>2
  <2> QED
    BY <2>1, <2>5, <2>6
<1> HIDE DEF T
<1>5. n \in T
  <2>1. n \in Nat
    BY <1>2
  <2>2. \A i \in 0..n : i \in T
    BY <2>1, <1>3, <1>4, Induct
  <2> QED
    BY <2>1, <2>2
<1> QED
  BY <1>1, <1>5 DEF T, n

\* The elements at the positions up to i.
Selects(f, s, positions, S) ==
  /\ f \in [0..Len(s) -> Seq(S)] /\ f[0] = <<>>
  /\ \A i \in 1..Len(s) :
       f[i] = IF i \in positions THEN Append(f[i-1], s[i]) ELSE f[i-1]

LEMMA ElementsSteps ==
  ASSUME NEW S, NEW s \in Seq(S), NEW positions
  PROVE  \E f : Selects(f, s, positions, S) /\ ElementsAt(s, positions) = f[Len(s)]
<1> DEFINE n == Len(s)
           V == Seq(S)
           base == <<>>
           step == [i \in 1..n |-> [v \in V |-> IF i \in positions THEN Append(v, s[i]) ELSE v]]
<1>1. n \in Nat /\ base \in V
  OBVIOUS
<1>2. step \in Steps(n, V)
  <2>1. \A i \in 1..n : s[i] \in S
    OBVIOUS
  <2> QED
    BY <2>1, AppendProperties DEF Steps
<1>3. PICK f \in [0..n -> V] : f[0] = base /\ \A i \in 1..n : f[i] = step[i][f[i-1]]
  <2>1. \E f : Computes(f, base, step, n, V)
    <3> HIDE DEF n, step, V, base
    <3> QED
      BY <1>1, <1>2, Recursion
  <2> HIDE DEF n, step, V, base
  <2> QED
    BY <2>1 DEF Computes
<1>4. ASSUME NEW i \in 1..n
      PROVE  f[i] = IF i \in positions THEN Append(f[i-1], s[i]) ELSE f[i-1]
  <2>1. i - 1 \in 0..n
    BY <1>1
  <2>2. f[i-1] \in V /\ f[i] = step[i][f[i-1]]
    BY <2>1, <1>3
  <2> HIDE DEF n, V
  <2> QED
    BY <2>2
<1> DEFINE Is(g) == g = [i \in 0..n |-> IF i = 0 THEN <<>>
                       ELSE IF i \in positions THEN Append(g[i-1], s[i])
                       ELSE g[i-1]]
           g0 == CHOOSE g : Is(g)
<1>5. ElementsAt(s, positions) = g0[n]
  BY DEF ElementsAt
<1>6. Is(f)
  <2> HIDE DEF n, V
  <2> DEFINE h == [i \in 0..n |-> IF i = 0 THEN <<>>
                       ELSE IF i \in positions THEN Append(f[i-1], s[i])
                       ELSE f[i-1]]
  <2>1. \A i \in 0..n : h[i] = f[i]
    <3> SUFFICES ASSUME NEW i \in 0..n PROVE h[i] = f[i]
      OBVIOUS
    <3>1. CASE i = 0
      <4>1. h[0] = <<>> /\ f[0] = <<>>
        BY <1>1, <1>3, 0 \in 0..n
      <4> QED
        BY <4>1, <3>1
    <3>2. CASE i # 0
      <4>1. i \in 1..n
        BY <3>2, <1>1
      <4> QED
        BY <4>1, <3>2, <1>4
    <3> QED
      BY <3>1, <3>2
  <2>2. f = [i \in 0..n |-> f[i]] /\ h = [i \in 0..n |-> h[i]]
    BY <1>3
  <2> HIDE DEF h
  <2>3. f = h
    BY <2>1, <2>2
  <2> QED
    BY <2>3 DEF h
<1>7. Is(g0)
  <2> HIDE DEF Is
  <2> QED
    BY <1>6
<1> DEFINE T == {i \in 0..n : g0[i] = f[i]}
<1> HIDE DEF g0
<1>8. 0 \in T
  <2>1. 0 \in 0..n
    BY <1>1
  <2>2. g0[0] = <<>>
    <3> HIDE DEF n
    <3> QED
      BY <2>1, <1>7
  <2>3. f[0] = <<>> /\ g0[0] = <<>>
    BY <2>2, <1>3
  <2> HIDE DEF n
  <2> QED
    BY <2>1, <2>3
<1>9. ASSUME NEW i \in 0..(n-1), i \in T
      PROVE  i + 1 \in T
  <2> HIDE DEF n
  <2>1. i + 1 \in 1..n /\ i + 1 \in 0..n /\ (i + 1) - 1 = i /\ i + 1 # 0 /\ g0[i] = f[i]
    BY <1>1, <1>9
  <2>2. g0[i+1] = IF i + 1 \in positions THEN Append(g0[i], s[i+1]) ELSE g0[i]
    BY <2>1, <1>7
  <2>3. f[i+1] = IF i + 1 \in positions THEN Append(f[i], s[i+1]) ELSE f[i]
    BY <2>1, <1>4
  <2> QED
    BY <2>1, <2>2, <2>3
<1> HIDE DEF T
<1>10. n \in T
  <2>1. n \in Nat
    BY <1>1
  <2>2. \A i \in 0..n : i \in T
    BY <2>1, <1>8, <1>9, Induct
  <2> QED
    BY <2>1, <2>2
<1> QED
  BY <1>3, <1>4, <1>5, <1>10 DEF T, Selects

-----------------------------------------------------------------------------
(* Positions in their order.                                               *)

Rank(positions, i) == Cardinality({p \in positions : p <= i})

LEMMA RankSteps ==
  ASSUME NEW n \in Nat, NEW P \in SUBSET (1..n)
  PROVE  /\ Rank(P, 0) = 0
         /\ Rank(P, n) = Cardinality(P)
         /\ \A i \in 0..n : Rank(P, i) \in Nat
         /\ \A i \in 1..n : Rank(P, i) = IF i \in P THEN Rank(P, i-1) + 1 ELSE Rank(P, i-1)
         /\ \A i, j \in 0..n : i <= j => Rank(P, i) <= Rank(P, j)
<1> DEFINE Until(i) == {p \in P : p <= i}
<1>0. \A p \in P : p \in Int /\ 1 <= p /\ p <= n
  OBVIOUS
<1>1. \A i \in 0..n : IsFiniteSet(Until(i)) /\ Cardinality(Until(i)) \in Nat
  <2> SUFFICES ASSUME NEW i \in 0..n PROVE IsFiniteSet(Until(i)) /\ Cardinality(Until(i)) \in Nat
    OBVIOUS
  <2>1. Until(i) \in SUBSET (1..n)
    BY Zenon
  <2>2. IsFiniteSet(Until(i))
    <3>1. IsFiniteSet(1..n)
      BY FS_Interval
    <3> HIDE DEF Until
    <3> QED
      BY <2>1, <3>1, FS_Subset
  <2> QED
    BY <2>2, FS_CardinalityType
<1>2. Rank(P, 0) = 0
  <2>1. Until(0) = {}
    <3>1. \A p \in P : ~(p <= 0)
      BY <1>0
    <3> QED
      BY <3>1
  <2> QED
    BY <2>1, FS_EmptySet DEF Rank
<1>3. Rank(P, n) = Cardinality(P)
  <2>1. Until(n) = P
    BY <1>0
  <2> QED
    BY <2>1 DEF Rank
<1>4. ASSUME NEW i \in 1..n
      PROVE  Rank(P, i) = IF i \in P THEN Rank(P, i-1) + 1 ELSE Rank(P, i-1)
  <2>1. i - 1 \in 0..n /\ IsFiniteSet(Until(i-1))
    <3>1. i - 1 \in 0..n
      OBVIOUS
    <3> QED
      BY <3>1, <1>1
  <2>2. CASE i \in P
    <3>0. \A p \in P : p <= i <=> p <= i - 1 \/ p = i
      BY <1>0
    <3>1. Until(i) = Until(i-1) \cup {i} /\ i \notin Until(i-1)
      <4>1. ~(i <= i - 1)
        OBVIOUS
      <4> QED
        BY <2>2, <3>0, <4>1, Zenon
    <3> QED
      BY <2>1, <2>2, <3>1, FS_AddElement DEF Rank
  <2>3. CASE i \notin P
    <3>0. \A p \in P : p <= i <=> p <= i - 1
      BY <1>0, <2>3
    <3>1. Until(i) = Until(i-1)
      BY <3>0, Zenon
    <3> QED
      BY <2>3, <3>1 DEF Rank
  <2> QED
    BY <2>2, <2>3
<1>5. ASSUME NEW i \in 0..n, NEW j \in 0..n, i <= j
      PROVE  Rank(P, i) <= Rank(P, j)
  <2>0. \A p \in P : p <= i => p <= j
    BY <1>0, <1>5
  <2>1. Until(i) \in SUBSET Until(j)
    BY <2>0, Zenon
  <2> QED
    BY <1>1, <2>1, FS_Subset DEF Rank
<1> QED
  BY <1>1, <1>2, <1>3, <1>4, <1>5 DEF Rank

\* The k-th of the positions is the one of rank k.
LEMMA InOrderOf ==
  ASSUME NEW S, NEW s \in Seq(S), NEW P \in SUBSET (1..Len(s))
  PROVE  LET e == InOrder(s, P) IN
         /\ e \in Seq(Nat) /\ Len(e) = Cardinality(P) /\ DOMAIN e = 1..Cardinality(P)
         /\ \A k \in 1..Cardinality(P) : e[k] \in P /\ Rank(P, e[k]) = k
<1> DEFINE n == Len(s)
           id == [i \in DOMAIN s |-> i]
           e == InOrder(s, P)
<1>1. n \in Nat /\ id \in Seq(Nat) /\ Len(id) = n /\ \A i \in 1..n : id[i] = i
  <2>1. DOMAIN s = 1..n /\ n \in Nat
    OBVIOUS
  <2>2. id \in [1..n -> Nat]
    BY <2>1
  <2>3. id \in Seq(Nat)
    BY <2>1, <2>2
  <2> QED
    BY <2>1, <2>2, <2>3
<1>2. PICK f \in [0..n -> Seq(Nat)] :
        /\ f[0] = <<>>
        /\ \A i \in 1..n : f[i] = IF i \in P THEN Append(f[i-1], i) ELSE f[i-1]
        /\ e = f[n]
  <2>1. \E f : Selects(f, id, P, Nat) /\ ElementsAt(id, P) = f[Len(id)]
    <3> HIDE DEF id
    <3> QED
      BY <1>1, ElementsSteps
  <2> HIDE DEF id
  <2> QED
    BY <1>1, <2>1 DEF InOrder, id, Selects
<1> HIDE DEF n, id, e
<1>3. /\ Rank(P, 0) = 0 /\ Rank(P, n) = Cardinality(P)
      /\ \A i \in 0..n : Rank(P, i) \in Nat
      /\ \A i \in 1..n : Rank(P, i) = IF i \in P THEN Rank(P, i-1) + 1 ELSE Rank(P, i-1)
  BY <1>1, RankSteps DEF n
<1> DEFINE Ranked(i) == /\ Len(f[i]) = Rank(P, i)
                        /\ \A k \in 1..Len(f[i]) : f[i][k] \in P /\ Rank(P, f[i][k]) = k
           T == {i \in 0..n : Ranked(i)}
<1>4. 0 \in T
  <2>1. 0 \in 0..n /\ Len(f[0]) = 0
    BY <1>1, <1>2
  <2> QED
    BY <2>1, <1>3
<1>5. ASSUME NEW i \in 0..(n-1), i \in T
      PROVE  i + 1 \in T
  <2>1. i + 1 \in 1..n /\ i + 1 \in 0..n /\ (i + 1) - 1 = i /\ i \in 0..n
    BY <1>1
  <2>2. Ranked(i) /\ f[i] \in Seq(Nat) /\ Len(f[i]) \in Nat
    BY <1>2, <1>5, <2>1
  <2>3. CASE i + 1 \in P
    <3> DEFINE g == f[i]
    <3>1. f[i+1] = Append(g, i + 1) /\ Rank(P, i + 1) = Rank(P, i) + 1
      BY <2>1, <2>3, <1>2, <1>3
    <3>2. /\ Len(Append(g, i + 1)) = Len(g) + 1 /\ Append(g, i + 1)[Len(g) + 1] = i + 1
          /\ \A k \in 1..Len(g) : Append(g, i + 1)[k] = g[k]
      <4>1. g \in Seq(Nat) /\ i + 1 \in Nat
        BY <2>2
      <4> HIDE DEF g
      <4> QED
        BY <4>1, AppendProperties
    <3>3. Ranked(i)
      BY <2>2
    <3>4. Ranked(i + 1)
      <4>1. Len(g) \in Nat /\ Len(g) = Rank(P, i) /\ \A k \in 1..Len(g) : g[k] \in P /\ Rank(P, g[k]) = k
        BY <2>2
      <4> HIDE DEF g
      <4> QED
        BY <2>3, <3>1, <3>2, <4>1
    <3> QED
      BY <2>1, <3>4
  <2>4. CASE i + 1 \notin P
    <3>1. f[i+1] = f[i] /\ Rank(P, i + 1) = Rank(P, i)
      BY <2>1, <2>4, <1>2, <1>3
    <3> QED
      BY <2>1, <2>2, <3>1
  <2> QED
    BY <2>3, <2>4
<1> HIDE DEF T
<1>6. \A i \in 0..n : i \in T
  BY <1>1, <1>4, <1>5, Induct
<1>7. Ranked(n) /\ f[n] \in Seq(Nat) /\ Rank(P, n) = Cardinality(P)
  BY <1>1, <1>2, <1>3, <1>6, n \in 0..n DEF T
<1> HIDE DEF Ranked
<1> QED
  BY <1>2, <1>7 DEF Ranked, e

-----------------------------------------------------------------------------
(* Lines.                                                                  *)

Bytes == {Text, NL, Up}

\* The line that byte i is in, or would be in; the first line is 0.
LineOf(s, i) == Rank(Positions(NL, s), i - 1)

\* The bytes before line k.
IsEnd(s, k, b) == b \in 0..Len(s) /\ \A i \in 1..Len(s) : i <= b <=> LineOf(s, i) < k
EndOf(s, k) == CHOOSE b : IsEnd(s, k, b)

LEMMA LineSteps ==
  ASSUME NEW S, NEW s \in Seq(S)
  PROVE  /\ LineOf(s, 1) = 0
         /\ LineOf(s, Len(s) + 1) = Count(NL, s)
         /\ \A i \in 1..(Len(s)+1) : LineOf(s, i) \in Nat
         /\ \A i \in 1..Len(s) :
              LineOf(s, i + 1) = IF s[i] = NL THEN LineOf(s, i) + 1 ELSE LineOf(s, i)
         /\ \A i, j \in 1..(Len(s)+1) : i <= j => LineOf(s, i) <= LineOf(s, j)
<1> DEFINE n == Len(s)
           P == Positions(NL, s)
<1>1. n \in Nat /\ P \in SUBSET (1..n) /\ \A i \in 1..n : i \in P <=> s[i] = NL
  BY DEF Positions
<1> HIDE DEF n, P
<1>2. /\ Rank(P, 0) = 0
      /\ Rank(P, n) = Cardinality(P)
      /\ \A i \in 0..n : Rank(P, i) \in Nat
      /\ \A i \in 1..n : Rank(P, i) = IF i \in P THEN Rank(P, i-1) + 1 ELSE Rank(P, i-1)
      /\ \A i, j \in 0..n : i <= j => Rank(P, i) <= Rank(P, j)
  BY <1>1, RankSteps
<1>3. \A i \in 1..(n+1) : LineOf(s, i) = Rank(P, i - 1) /\ i - 1 \in 0..n
  BY <1>1 DEF LineOf, P
<1>4. 1 \in 1..(n+1) /\ n + 1 \in 1..(n+1) /\ 1 - 1 = 0 /\ (n + 1) - 1 = n
  BY <1>1
<1>5. LineOf(s, 1) = 0 /\ LineOf(s, n + 1) = Cardinality(P)
  BY <1>2, <1>3, <1>4
<1>6. \A i \in 1..(n+1) : LineOf(s, i) \in Nat
  BY <1>2, <1>3
<1>7. ASSUME NEW i \in 1..n
      PROVE  LineOf(s, i + 1) = IF s[i] = NL THEN LineOf(s, i) + 1 ELSE LineOf(s, i)
  <2>1. i \in 1..(n+1) /\ i + 1 \in 1..(n+1) /\ (i + 1) - 1 = i
    BY <1>1
  <2> QED
    BY <2>1, <1>1, <1>2, <1>3
<1>8. ASSUME NEW i \in 1..(n+1), NEW j \in 1..(n+1), i <= j
      PROVE  LineOf(s, i) <= LineOf(s, j)
  BY <1>1, <1>2, <1>3, <1>8
<1> QED
  BY <1>5, <1>6, <1>7, <1>8 DEF n, P, Count

LEMMA EndExists ==
  ASSUME NEW S, NEW s \in Seq(S), NEW k \in Nat
  PROVE  /\ IsEnd(s, k, EndOf(s, k))
         /\ \A b : IsEnd(s, k, b) => b = EndOf(s, k)
<1> DEFINE n == Len(s)
<1>1. n \in Nat
  OBVIOUS
<1>2. /\ \A i \in 1..(n+1) : LineOf(s, i) \in Nat
      /\ \A i, j \in 1..(n+1) : i <= j => LineOf(s, i) <= LineOf(s, j)
  BY LineSteps
<1> DEFINE IsIn(m, b) == b \in 0..m /\ \A i \in 1..m : i <= b <=> LineOf(s, i) < k
           T == {m \in 0..n : \E b \in 0..m : IsIn(m, b)}
<1> HIDE DEF n
<1>3. 0 \in T
  BY <1>1
<1>4. ASSUME NEW m \in 0..(n-1), m \in T
      PROVE  m + 1 \in T
  <2>1. PICK b \in 0..m : IsIn(m, b)
    BY <1>4
  <2>2. m + 1 \in 0..n /\ m \in Nat
    BY <1>1
  <2>3. CASE LineOf(s, m + 1) < k
    <3>1. \A i \in 1..(m+1) : LineOf(s, i) < k
      <4> SUFFICES ASSUME NEW i \in 1..(m+1) PROVE LineOf(s, i) < k
        OBVIOUS
      <4>1. LineOf(s, i) <= LineOf(s, m + 1) /\ LineOf(s, i) \in Nat /\ LineOf(s, m + 1) \in Nat
        BY <1>1, <1>2, <2>2
      <4> QED
        BY <4>1, <2>3
    <3>2. IsIn(m + 1, m + 1)
      BY <2>2, <3>1
    <3> QED
      BY <2>2, <3>2
  <2>4. CASE ~(LineOf(s, m + 1) < k)
    <3>1. IsIn(m + 1, b)
      BY <2>1, <2>2, <2>4
    <3> QED
      BY <2>2, <3>1
  <2> QED
    BY <2>3, <2>4
<1> HIDE DEF T
<1>5. \A m \in 0..n : m \in T
  BY <1>1, <1>3, <1>4, Induct
<1>6. \E b : IsEnd(s, k, b)
  BY <1>1, <1>5, n \in 0..n DEF T, IsEnd, n
<1>7. IsEnd(s, k, EndOf(s, k))
  BY <1>6 DEF EndOf
<1>8. ASSUME NEW b, NEW c, IsEnd(s, k, b), IsEnd(s, k, c)
      PROVE  ~(b < c)
  <2> SUFFICES ASSUME b < c PROVE FALSE
    OBVIOUS
  <2>1. c \in 1..n /\ b \in Nat
    BY <1>8, <1>1 DEF IsEnd, n
  <2>2. LineOf(s, c) < k /\ ~(LineOf(s, c) < k)
    BY <1>8, <2>1 DEF IsEnd, n
  <2> QED
    BY <2>2
<1>9. ASSUME NEW b, IsEnd(s, k, b)
      PROVE  b = EndOf(s, k)
  <2>1. ~(b < EndOf(s, k)) /\ ~(EndOf(s, k) < b)
    BY <1>7, <1>8, <1>9
  <2>2. b \in Nat /\ EndOf(s, k) \in Nat
    BY <1>7, <1>9, <1>1 DEF IsEnd, n
  <2> QED
    BY <2>1, <2>2
<1> QED
  BY <1>7, <1>9

LEMMA EndFacts ==
  ASSUME NEW S, NEW s \in Seq(S)
  PROVE  /\ EndOf(s, 0) = 0
         /\ \A k \in Nat : EndOf(s, k) \in 0..Len(s)
         /\ \A k, l \in Nat : k <= l => EndOf(s, k) <= EndOf(s, l)
<1>1. /\ \A i \in 1..(Len(s)+1) : LineOf(s, i) \in Nat
      /\ Len(s) \in Nat
  BY LineSteps
<1>2. \A k \in Nat : IsEnd(s, k, EndOf(s, k))
  BY EndExists
<1>3. IsEnd(s, 0, 0)
  <2>1. \A i \in 1..Len(s) : ~(i <= 0) /\ i \in 1..(Len(s)+1)
    OBVIOUS
  <2>2. \A i \in 1..Len(s) : ~(LineOf(s, i) < 0)
    BY <1>1, <2>1
  <2> QED
    BY <1>1, <2>1, <2>2 DEF IsEnd
<1>4. EndOf(s, 0) = 0
  BY <1>3, EndExists
<1>5. \A k \in Nat : EndOf(s, k) \in 0..Len(s)
  BY <1>2 DEF IsEnd
<1>6. ASSUME NEW k \in Nat, NEW l \in Nat, k <= l
      PROVE  EndOf(s, k) <= EndOf(s, l)
  <2> DEFINE b == EndOf(s, k)
             c == EndOf(s, l)
  <2>1. IsEnd(s, k, b) /\ IsEnd(s, l, c)
    BY <1>2
  <2> HIDE DEF b, c
  <2>2. b \in Nat /\ c \in Nat /\ b <= Len(s)
    BY <1>1, <2>1 DEF IsEnd
  <2>3. CASE b = 0
    BY <2>2, <2>3 DEF b, c
  <2>4. CASE b # 0
    <3>1. b \in 1..Len(s) /\ b \in 1..(Len(s)+1)
      BY <1>1, <2>2, <2>4
    <3>2. LineOf(s, b) < k /\ LineOf(s, b) \in Nat
      BY <1>1, <2>1, <2>2, <3>1 DEF IsEnd
    <3>3. b <= c
      BY <1>6, <2>1, <3>1, <3>2 DEF IsEnd
    <3> QED
      BY <3>3 DEF b, c
  <2> QED
    BY <2>3, <2>4
<1> QED
  BY <1>4, <1>5, <1>6

\* The k-th newline is the end of line k - 1.
LEMMA EndAtNewline ==
  ASSUME NEW S, NEW s \in Seq(S), NEW k \in Nat \ {0}, NEW b \in 1..Len(s),
         LineOf(s, b) = k - 1, s[b] = NL \/ b = Len(s)
  PROVE  EndOf(s, k) = b
<1>1. /\ \A i \in 1..(Len(s)+1) : LineOf(s, i) \in Nat
      /\ \A i \in 1..Len(s) :
              LineOf(s, i + 1) = IF s[i] = NL THEN LineOf(s, i) + 1 ELSE LineOf(s, i)
      /\ \A i, j \in 1..(Len(s)+1) : i <= j => LineOf(s, i) <= LineOf(s, j)
      /\ Len(s) \in Nat
  BY LineSteps
<1>2. ASSUME NEW i \in 1..Len(s)
      PROVE  i <= b <=> LineOf(s, i) < k
  <2>1. i \in 1..(Len(s)+1) /\ b \in 1..(Len(s)+1) /\ LineOf(s, i) \in Nat
    BY <1>1
  <2>2. CASE i <= b
    <3>1. LineOf(s, i) <= LineOf(s, b)
      BY <1>1, <2>1, <2>2
    <3> QED
      BY <2>1, <2>2, <3>1
  <2>3. CASE ~(i <= b)
    <3>1. s[b] = NL /\ b + 1 <= i /\ b + 1 \in 1..(Len(s)+1)
      BY <1>1, <2>3
    <3>2. LineOf(s, b + 1) = k /\ LineOf(s, b + 1) <= LineOf(s, i)
      BY <1>1, <2>1, <3>1
    <3> QED
      BY <2>1, <2>3, <3>2
  <2> QED
    BY <2>2, <2>3
<1>3. b \in 0..Len(s)
  BY <1>1
<1>4. IsEnd(s, k, b)
  BY <1>2, <1>3 DEF IsEnd
<1> QED
  BY <1>4, EndExists

\* There is nothing after the last line.
LEMMA EndOfLast ==
  ASSUME NEW S, NEW s \in Seq(S), NEW k \in Nat,
         \A i \in 1..Len(s) : LineOf(s, i) < k
  PROVE  EndOf(s, k) = Len(s)
<1>1. IsEnd(s, k, Len(s))
  BY DEF IsEnd
<1> QED
  BY <1>1, EndExists

\* A piece of a sequence.
LEMMA PieceFacts ==
  ASSUME NEW S, NEW s \in Seq(S), NEW a \in 0..Len(s), NEW b \in 0..Len(s)
  PROVE  /\ SubSeq(s, a + 1, b) \in Seq(S)
         /\ Len(SubSeq(s, a + 1, b)) = IF a <= b THEN b - a ELSE 0
         /\ \A i \in 1..(b - a) : SubSeq(s, a + 1, b)[i] = s[a + i]
         /\ b <= a => SubSeq(s, a + 1, b) = <<>>
<1>1. a \in Nat /\ b \in Nat /\ a + 1 \in Int /\ b \in Int /\ Len(s) \in Nat
  OBVIOUS
<1>2. \A i \in (a+1)..b : s[i] \in S
  BY <1>1
<1> DEFINE m == a + 1
<1>3. m \in Int /\ \A i \in m..b : s[i] \in S
  BY <1>1, <1>2
<1>4. /\ SubSeq(s, m, b) \in Seq(S)
      /\ Len(SubSeq(s, m, b)) = IF m <= b THEN b - m + 1 ELSE 0
      /\ \A i \in 1..(b-m+1) : SubSeq(s, m, b)[i] = s[m+i-1]
  <2> HIDE DEF m
  <2> QED
    BY <1>1, <1>3, SubSeqProperties
<1>5. b <= a => SubSeq(s, m, b) = <<>>
  <2>1. b <= a => b < m
    BY <1>1
  <2> HIDE DEF m
  <2> QED
    BY <1>1, <1>3, <2>1, SubSeqEmpty
<1>6. (IF m <= b THEN b - m + 1 ELSE 0) = IF a <= b THEN b - a ELSE 0
  BY <1>1
<1>7. ASSUME NEW i \in 1..(b - a)
      PROVE  SubSeq(s, m, b)[i] = s[a + i]
  <2>1. i \in 1..(b-m+1) /\ m + i - 1 = a + i
    BY <1>1
  <2> HIDE DEF m
  <2> QED
    BY <1>4, <2>1
<1> QED
  BY <1>4, <1>5, <1>6, <1>7

LEMMA LinesOf ==
  ASSUME NEW S, NEW s \in Seq(S)
  PROVE  LET ends == InOrder(s, Positions(NL, s) \cup ({Len(s)} \ {0}))
             n == Len(Lines(s))
         IN
         /\ Lines(s) \in Seq(Seq(S)) /\ n \in Nat
         /\ \A k \in 1..n : /\ Lines(s)[k] = SubSeq(s, EndOf(s, k-1) + 1, EndOf(s, k))
                            /\ EndOf(s, k) = ends[k]
         /\ \A k \in Nat : n <= k => EndOf(s, k) = Len(s)
<1> DEFINE P == Positions(NL, s)
           E == P \cup ({Len(s)} \ {0})
           e == InOrder(s, E)
           n == Cardinality(E)
           l == Len(s)
<1>1. /\ l \in Nat /\ E \in SUBSET (1..l) /\ P \in SUBSET (1..l)
      /\ \A i \in 1..l : i \in P <=> s[i] = NL
      /\ l # 0 => l \in E
      /\ \A i \in E : i \in P \/ i = l
      /\ P \subseteq E
  BY DEF Positions
<1>2. /\ \A i \in 1..(l+1) : LineOf(s, i) \in Nat
      /\ \A i \in 1..l :
              LineOf(s, i + 1) = IF s[i] = NL THEN LineOf(s, i) + 1 ELSE LineOf(s, i)
      /\ \A i, j \in 1..(l+1) : i <= j => LineOf(s, i) <= LineOf(s, j)
  BY LineSteps
<1>3. /\ e \in Seq(Nat) /\ Len(e) = n /\ DOMAIN e = 1..n
      /\ \A k \in 1..n : e[k] \in E /\ Rank(E, e[k]) = k
  <2> HIDE DEF E
  <2> QED
    BY <1>1, InOrderOf
<1>4. /\ n \in Nat /\ Rank(E, l) = n /\ Rank(E, 0) = 0
      /\ \A i \in 0..l : Rank(E, i) \in Nat
      /\ \A i \in 1..l : Rank(E, i) = IF i \in E THEN Rank(E, i-1) + 1 ELSE Rank(E, i-1)
      /\ \A i, j \in 0..l : i <= j => Rank(E, i) <= Rank(E, j)
  <2> HIDE DEF E, l
  <2>1. l \in 0..l
    BY <1>1
  <2> QED
    BY <1>1, <2>1, RankSteps
<1>5. Lines(s) = [k \in 1..n |-> SubSeq(s, IF k = 1 THEN 1 ELSE e[k-1] + 1, e[k])]
  BY <1>3 DEF Lines
<1> HIDE DEF E, e, n, l
\* All the ends but the last one are newlines.
<1>6. \A i \in 0..l : i \in {j \in 0..l : j < l => Rank(E, j) = LineOf(s, j + 1)}
  <2> DEFINE T == {j \in 0..l : j < l => Rank(E, j) = LineOf(s, j + 1)}
  <2>1. 0 \in T
    <3>1. LineOf(s, 0 + 1) = 0
      BY LineSteps
    <3> QED
      BY <1>1, <1>4, <3>1
  <2>2. ASSUME NEW i \in 0..(l-1), i \in T
        PROVE  i + 1 \in T
    <3> SUFFICES ASSUME i + 1 < l PROVE Rank(E, i + 1) = LineOf(s, (i + 1) + 1)
      BY <1>1
    <3>1. i + 1 \in 1..l /\ (i + 1) - 1 = i /\ i + 1 # l /\ i < l
      BY <1>1
    <3>2. Rank(E, i) = LineOf(s, i + 1)
      BY <2>2, <3>1
    <3>3. i + 1 \in E <=> s[i+1] = NL
      BY <1>1, <3>1
    <3> QED
      BY <1>2, <1>4, <3>1, <3>2, <3>3
  <2> HIDE DEF T
  <2> QED
    BY <1>1, <2>1, <2>2, Induct DEF T
<1>7. ASSUME NEW k \in 1..n
      PROVE  e[k] \in 1..l /\ EndOf(s, k) = e[k]
  <2> DEFINE b == e[k]
  <2>1. b \in E /\ Rank(E, b) = k /\ b \in 1..l
    BY <1>1, <1>3
  <2>2. b - 1 \in 0..l /\ b - 1 < l /\ (b - 1) + 1 = b
    BY <1>1, <2>1
  <2>3. Rank(E, b) = Rank(E, b - 1) + 1 /\ Rank(E, b - 1) \in Nat
    BY <1>4, <2>1, <2>2
  <2>4. Rank(E, b - 1) = LineOf(s, b)
    BY <1>6, <2>2
  <2>5. LineOf(s, b) = k - 1 /\ k \in Nat \ {0} /\ (s[b] = NL \/ b = l)
    BY <1>1, <1>4, <2>1, <2>3, <2>4
  <2>6. EndOf(s, k) = b
    <3> HIDE DEF b
    <3> QED
      BY <2>1, <2>5, EndAtNewline DEF l
  <2> QED
    BY <2>1, <2>6
<1>8. ASSUME NEW k \in Nat, n <= k
      PROVE  EndOf(s, k) = l
  <2>1. ASSUME NEW i \in 1..l
        PROVE  LineOf(s, i) < k
    <3>1. l \in 1..l /\ l \in 0..l /\ l - 1 \in 0..l /\ l - 1 < l /\ i \in 1..(l+1) /\ l \in 1..(l+1) /\ i <= l
          /\ (l - 1) + 1 = l /\ l # 0
      BY <1>1
    <3>2. Rank(E, l - 1) = LineOf(s, l)
      BY <1>6, <3>1
    <3>3. Rank(E, l) = Rank(E, l - 1) + 1
      BY <1>1, <1>4, <3>1
    <3>4. LineOf(s, i) <= LineOf(s, l) /\ LineOf(s, i) \in Nat /\ LineOf(s, l) \in Nat
      BY <1>2, <3>1
    <3> QED
      BY <1>4, <1>8, <3>2, <3>3, <3>4
  <2> QED
    BY <2>1, EndOfLast DEF l
<1>9. \A k \in Nat : EndOf(s, k) \in 0..l
  BY EndFacts DEF l
<1>10. ASSUME NEW k \in 1..n
       PROVE  /\ Lines(s)[k] = SubSeq(s, EndOf(s, k-1) + 1, EndOf(s, k))
              /\ Lines(s)[k] \in Seq(S)
  <2>1. Lines(s)[k] = SubSeq(s, IF k = 1 THEN 1 ELSE e[k-1] + 1, e[k])
    BY <1>5
  <2>2. (IF k = 1 THEN 1 ELSE e[k-1] + 1) = EndOf(s, k-1) + 1
    <3>1. CASE k = 1
      BY <3>1, EndFacts
    <3>2. CASE k # 1
      <4>1. k - 1 \in 1..n
        BY <1>4, <3>2
      <4> QED
        BY <3>2, <4>1, <1>7
    <3> QED
      BY <3>1, <3>2
  <2>3. SubSeq(s, EndOf(s, k-1) + 1, EndOf(s, k)) \in Seq(S)
    <3> DEFINE a == EndOf(s, k-1)
               b == EndOf(s, k)
    <3>1. a \in 0..Len(s) /\ b \in 0..Len(s)
      <4>1. k - 1 \in Nat /\ k \in Nat
        BY <1>4
      <4> QED
        BY <4>1, <1>9 DEF l
    <3> HIDE DEF a, b
    <3>2. SubSeq(s, a + 1, b) \in Seq(S)
      BY <3>1, PieceFacts
    <3> QED
      BY <3>2 DEF a, b
  <2> QED
    BY <2>1, <2>2, <2>3, <1>7
<1>11. Lines(s) \in Seq(Seq(S)) /\ Len(Lines(s)) = n
  <2>1. Lines(s) \in [1..n -> Seq(S)]
    <3>1. Lines(s) = [k \in 1..n |-> Lines(s)[k]]
      BY <1>5
    <3> QED
      BY <1>10, <3>1
  <2> QED
    BY <2>1, <1>4
<1> QED
  BY <1>4, <1>7, <1>8, <1>10, <1>11 DEF l, e, E

-----------------------------------------------------------------------------
(* Ranges of lines.                                                        *)

\* The bytes of the lines from start up to end.
BytesOf(s, start, end) == SubSeq(s, EndOf(s, start) + 1, EndOf(s, end))

LEMMA RangeIs ==
  ASSUME NEW S, NEW s \in Seq(S), NEW start \in Nat, NEW end \in Nat, start <= end
  PROVE  RangeOfLines(s, start, end) = BytesOf(s, start, end)
<1> DEFINE lines == Lines(s)
           n == Len(lines)
           m == Min({end, n})
           q == SubSeq(lines, start + 1, m)
<1>1. /\ lines \in Seq(Seq(S)) /\ n \in Nat
      /\ \A k \in 1..n : lines[k] = SubSeq(s, EndOf(s, k-1) + 1, EndOf(s, k))
      /\ \A k \in Nat : n <= k => EndOf(s, k) = Len(s)
  BY LinesOf
<1>2. /\ \A k \in Nat : EndOf(s, k) \in 0..Len(s)
      /\ \A k, l \in Nat : k <= l => EndOf(s, k) <= EndOf(s, l)
  BY EndFacts
<1>3. RangeOfLines(s, start, end) = FlattenSeq(q)
  BY DEF RangeOfLines
<1> HIDE DEF lines, n
<1>4. m = IF end <= n THEN end ELSE n
  <2>1. \E x \in {end, n} : \A y \in {end, n} : x <= y
    BY <1>1
  <2>2. m \in {end, n} /\ m <= end /\ m <= n
    BY <2>1 DEF Min
  <2> HIDE DEF m
  <2> QED
    BY <1>1, <2>2
<1>5. EndOf(s, m) = EndOf(s, end)
  BY <1>1, <1>4
<1>6. m \in Nat /\ m <= n
  BY <1>1, <1>4
<1> HIDE DEF m
<1>7. CASE start <= m
  <2> DEFINE c == m - start
             cut == [i \in 0..c |-> EndOf(s, start + i)]
  <2>1. /\ q \in Seq(Seq(S)) /\ Len(q) = c
        /\ \A i \in 1..c : q[i] = lines[start + i]
    <3>1. start \in 0..Len(lines) /\ m \in 0..Len(lines)
      BY <1>1, <1>6, <1>7 DEF n
    <3>2. /\ SubSeq(lines, start + 1, m) \in Seq(Seq(S))
          /\ Len(SubSeq(lines, start + 1, m)) = IF start <= m THEN m - start ELSE 0
          /\ \A i \in 1..(m - start) : SubSeq(lines, start + 1, m)[i] = lines[start + i]
      BY <1>1, <3>1, PieceFacts
    <3> QED
      BY <1>7, <3>2
  <2>2. c \in Nat /\ \A i \in 0..c : start + i \in Nat
    BY <1>6, <1>7
  <2>3. cut \in [0..c -> 0..Len(s)] /\ \A i \in 0..c : cut[i] = EndOf(s, start + i)
    BY <1>2, <2>2
  <2>4. ASSUME NEW i \in 1..c
        PROVE  cut[i-1] <= cut[i] /\ q[i] = SubSeq(s, cut[i-1] + 1, cut[i])
    <3>1. i - 1 \in 0..c /\ i \in 0..c /\ start + i \in 1..n /\ start + (i - 1) = (start + i) - 1
          /\ start + i \in Nat /\ (start + i) - 1 \in Nat /\ (start + i) - 1 <= start + i
      BY <1>1, <1>6, <1>7, <2>2
    <3>2. cut[i] = EndOf(s, start + i) /\ cut[i-1] = EndOf(s, (start + i) - 1)
      BY <2>3, <3>1
    <3> HIDE DEF cut, q
    <3> QED
      BY <1>1, <1>2, <2>1, <3>1, <3>2
  <2> HIDE DEF cut, q
  <2>5. FlattenSeq(q) = SubSeq(s, cut[0] + 1, cut[Len(q)])
    <3>1. ArePieces(q, s, cut)
      BY <2>1, <2>3, <2>4 DEF ArePieces
    <3> QED
      BY <2>1, <3>1, FlattenPieces
  <2>6. cut[0] = EndOf(s, start) /\ cut[c] = EndOf(s, m)
    <3>1. 0 \in 0..c /\ c \in 0..c /\ start + 0 = start /\ start + c = m
      BY <1>6, <2>2
    <3> QED
      BY <2>3, <3>1
  <2> QED
    BY <1>3, <1>5, <2>1, <2>5, <2>6 DEF BytesOf, q
<1>8. CASE ~(start <= m)
  <2>1. m < start + 1 /\ m = n /\ n <= start /\ n <= end
    BY <1>1, <1>4, <1>6, <1>8
  <2>2. q = <<>>
    <3> DEFINE a == start + 1
    <3>1. a \in Int /\ m \in Int /\ m < a
      BY <2>1, <1>6
    <3>2. SubSeq(lines, a, m) = <<>>
      <4> HIDE DEF a
      <4> QED
        BY <3>1, SubSeqEmpty
    <3> QED
      BY <3>2
  <2>3. FlattenSeq(q) = <<>>
    BY <2>2, FlattenFacts, <<>> \in Seq(Seq(S))
  <2>4. EndOf(s, start) = Len(s) /\ EndOf(s, end) = Len(s)
    BY <1>1, <2>1
  <2>5. SubSeq(s, Len(s) + 1, Len(s)) = <<>>
    BY SubSeqEmpty, Len(s) \in Nat
  <2> QED
    BY <1>3, <2>3, <2>4, <2>5 DEF BytesOf
<1> QED
  BY <1>7, <1>8

\* The buffer is cut after the newlines before the first and the end of the last line.
LEMMA SubsliceIs ==
  ASSUME NEW S, NEW s \in Seq(S), NEW start \in Nat, NEW end \in Nat, start < end
  PROVE  Subslice(s, start, end) = BytesOf(s, start, end)
<1> DEFINE P == Positions(NL, s)
           e == InOrder(s, P)
           n == Cardinality(P)
           l == Len(s)
<1>1. l \in Nat /\ P \in SUBSET (1..l) /\ \A i \in 1..l : i \in P <=> s[i] = NL
  BY DEF Positions
<1>2. /\ DOMAIN e = 1..n
      /\ \A k \in 1..n : e[k] \in P /\ Rank(P, e[k]) = k
  <2> HIDE DEF P
  <2> QED
    BY <1>1, InOrderOf
<1>3. /\ n \in Nat /\ Rank(P, l) = n
      /\ \A i \in 0..l : Rank(P, i) \in Nat
      /\ \A i \in 1..l : Rank(P, i) = IF i \in P THEN Rank(P, i-1) + 1 ELSE Rank(P, i-1)
      /\ \A i, j \in 0..l : i <= j => Rank(P, i) <= Rank(P, j)
  <2>1. l \in 0..l /\ l \in Nat /\ P \in SUBSET (1..l)
    BY <1>1
  <2> HIDE DEF P, l
  <2> QED
    BY <2>1, RankSteps
<1>4. \A i \in 1..l : LineOf(s, i) = Rank(P, i - 1)
  BY DEF LineOf
<1>5. Subslice(s, start, end) =
        SubSeq(s, IF start = 0 THEN 1 ELSE IF start \in 1..n THEN e[start] + 1 ELSE l + 1,
                  IF end \in 1..n THEN e[end] ELSE l)
  BY <1>2 DEF Subslice
<1> HIDE DEF P, e, n, l
<1>6. ASSUME NEW k \in 1..n
      PROVE  EndOf(s, k) = e[k]
  <2> DEFINE b == e[k]
  <2>1. b \in 1..l /\ s[b] = NL /\ Rank(P, b) = k /\ b \in P
    BY <1>1, <1>2
  <2>2. b - 1 \in 0..l /\ Rank(P, b) = Rank(P, b - 1) + 1 /\ Rank(P, b - 1) \in Nat
    BY <1>1, <1>3, <2>1
  <2>3. LineOf(s, b) = k - 1 /\ k \in Nat \ {0}
    BY <1>3, <1>4, <2>1, <2>2
  <2> HIDE DEF b
  <2>4. EndOf(s, k) = b
    BY <2>1, <2>3, EndAtNewline DEF l
  <2> QED
    BY <2>4 DEF b
<1>7. ASSUME NEW k \in Nat, n < k
      PROVE  EndOf(s, k) = l
  <2>1. ASSUME NEW i \in 1..l
        PROVE  LineOf(s, i) < k
    <3>1. i - 1 \in 0..l /\ l \in 0..l /\ i - 1 <= l
      BY <1>1
    <3>2. Rank(P, i - 1) <= Rank(P, l) /\ Rank(P, i - 1) \in Nat
      BY <1>3, <3>1
    <3> QED
      BY <1>3, <1>4, <1>7, <3>2
  <2> QED
    BY <2>1, EndOfLast DEF l
<1>8. EndOf(s, 0) = 0
  BY EndFacts
<1>9. (IF start = 0 THEN 1 ELSE IF start \in 1..n THEN e[start] + 1 ELSE l + 1) = EndOf(s, start) + 1
  <2>1. CASE start = 0
    BY <1>8, <2>1
  <2>2. CASE start \in 1..n
    BY <1>6, <2>2
  <2>3. CASE start # 0 /\ start \notin 1..n
    <3>1. n < start
      BY <1>3, <2>3
    <3> QED
      BY <1>7, <2>3, <3>1
  <2> QED
    BY <2>1, <2>2, <2>3
<1>10. (IF end \in 1..n THEN e[end] ELSE l) = EndOf(s, end)
  <2>1. CASE end \in 1..n
    BY <1>6, <2>1
  <2>2. CASE end \notin 1..n
    <3>1. n < end
      BY <1>3, <2>2
    <3> QED
      BY <1>7, <2>2, <3>1
  <2> QED
    BY <2>1, <2>2
<1> QED
  BY <1>5, <1>9, <1>10 DEF BytesOf

\* The lines of a piece are lines of the whole.
LEMMA PieceLines ==
  ASSUME NEW S, NEW s \in Seq(S), NEW a \in 0..Len(s), NEW b \in 0..Len(s), a <= b
  PROVE  LET d == SubSeq(s, a + 1, b) IN
         /\ \A i \in 1..(b-a+1) : LineOf(d, i) = LineOf(s, a + i) - LineOf(s, a + 1)
         /\ Count(NL, d) = LineOf(s, b + 1) - LineOf(s, a + 1)
<1> DEFINE d == SubSeq(s, a + 1, b)
           n == b - a
<1>1. /\ d \in Seq(S) /\ Len(d) = n /\ \A i \in 1..n : d[i] = s[a + i]
      /\ n \in Nat /\ a \in Nat /\ b \in Nat /\ Len(s) \in Nat
  BY PieceFacts
<1> HIDE DEF d, n
<1>2. /\ LineOf(d, 1) = 0 /\ LineOf(d, n + 1) = Count(NL, d)
      /\ \A i \in 1..(n+1) : LineOf(d, i) \in Nat
      /\ \A i \in 1..n : LineOf(d, i + 1) = IF d[i] = NL THEN LineOf(d, i) + 1 ELSE LineOf(d, i)
  BY <1>1, LineSteps
<1>3. /\ \A i \in 1..(Len(s)+1) : LineOf(s, i) \in Nat
      /\ \A i \in 1..Len(s) : LineOf(s, i + 1) = IF s[i] = NL THEN LineOf(s, i) + 1 ELSE LineOf(s, i)
  BY LineSteps
<1> DEFINE T == {i \in 0..n : LineOf(d, i + 1) = LineOf(s, a + (i + 1)) - LineOf(s, a + 1)}
<1>4. 0 \in T
  <2>1. a + 1 \in 1..(Len(s)+1) /\ 0 + 1 = 1 /\ 0 \in 0..n
    BY <1>1
  <2>2. LineOf(s, a + 1) \in Nat
    BY <1>3, <2>1
  <2> QED
    BY <1>2, <2>1, <2>2
<1>5. ASSUME NEW i \in 0..(n-1), i \in T
      PROVE  i + 1 \in T
  <2>1. /\ i + 1 \in 1..n /\ i + 1 \in 0..n /\ a + (i + 1) \in 1..Len(s) /\ i + 1 \in 1..(n+1)
        /\ a + ((i + 1) + 1) = (a + (i + 1)) + 1 /\ a + (i + 1) \in 1..(Len(s)+1)
        /\ a + 1 \in 1..(Len(s)+1)
    BY <1>1 DEF n
  <2>2. LineOf(d, (i + 1) + 1) = IF s[a + (i + 1)] = NL THEN LineOf(d, i + 1) + 1 ELSE LineOf(d, i + 1)
    BY <1>1, <1>2, <2>1
  <2>3. LineOf(s, (a + (i + 1)) + 1)
          = IF s[a + (i + 1)] = NL THEN LineOf(s, a + (i + 1)) + 1 ELSE LineOf(s, a + (i + 1))
    BY <1>3, <2>1
  <2>4. LineOf(d, i + 1) \in Nat /\ LineOf(s, a + (i + 1)) \in Nat /\ LineOf(s, a + 1) \in Nat
    BY <1>2, <1>3, <2>1
  <2>5. LineOf(d, i + 1) = LineOf(s, a + (i + 1)) - LineOf(s, a + 1)
    BY <1>5
  <2> QED
    BY <2>1, <2>2, <2>3, <2>4, <2>5
<1> HIDE DEF T
<1>6. \A i \in 0..n : i \in T
  BY <1>1, <1>4, <1>5, Induct
<1>7. ASSUME NEW i \in 1..(n+1)
      PROVE  LineOf(d, i) = LineOf(s, a + i) - LineOf(s, a + 1)
  <2>1. i - 1 \in 0..n /\ (i - 1) + 1 = i
    BY <1>1
  <2> QED
    BY <1>6, <2>1 DEF T
<1>8. n + 1 \in 1..(n+1) /\ a + (n + 1) = b + 1
  BY <1>1 DEF n
<1>9. Count(NL, d) = LineOf(s, b + 1) - LineOf(s, a + 1)
  BY <1>2, <1>7, <1>8
<1> QED
  BY <1>7, <1>9 DEF d, n

-----------------------------------------------------------------------------
(* Chunks.                                                                 *)

LEMMA Products ==
  ASSUME NEW size \in Nat \ {0}, NEW n \in Nat
  PROVE  \A i \in 0..n : i * size \in Nat /\ i * size <= n * size
<1>1. ASSUME NEW i \in 0..n
      PROVE  i * size \in Nat /\ i * size <= n * size
  <2>1. i * size \in Nat
    OBVIOUS
  <2>2. (n - i) * size \in Nat
    OBVIOUS
  <2>3. n * size = i * size + (n - i) * size
    OBVIOUS
  <2> QED
    BY <2>1, <2>2, <2>3
<1> QED
  BY <1>1

NumChunks(s, size) == (Len(s) + size - 1) \div size
Cut(s, size, i) == IF i * size <= Len(s) THEN i * size ELSE Len(s)

LEMMA CutFacts ==
  ASSUME NEW S, NEW s \in Seq(S), NEW size \in Nat \ {0}
  PROVE  LET n == NumChunks(s, size) IN
         /\ n \in Nat
         /\ Cut(s, size, 0) = 0 /\ Cut(s, size, n) = Len(s)
         /\ \A i \in 0..n : Cut(s, size, i) \in 0..Len(s)
         /\ \A i \in 1..n : /\ Cut(s, size, i-1) = (i - 1) * size
                            /\ Cut(s, size, i-1) < Cut(s, size, i)
<1> DEFINE l == Len(s)
           n == NumChunks(s, size)
<1>1. l \in Nat /\ l + size - 1 \in Nat
  OBVIOUS
<1> HIDE DEF l
<1>2. n \in Nat /\ n * size <= l + size - 1 /\ l + size - 1 < n * size + size
  <2> DEFINE m == l + size - 1
  <2>1. m \in Nat /\ n = m \div size
    BY <1>1 DEF NumChunks, l
  <2> HIDE DEF m, n
  <2>2. n \in Nat /\ m = n * size + (m % size) /\ m % size \in 0..(size-1)
    BY <2>1
  <2>3. n * size \in Nat
    BY <2>2
  <2> QED
    <3> DEFINE p == n * size
               r == m % size
    <3>0. p \in Nat /\ r \in 0..(size-1) /\ m = p + r
      BY <2>2, <2>3
    <3>1. n * size <= m /\ m < n * size + size
      <4>1. p <= m /\ m < p + size
        <5> HIDE DEF p, r
        <5> QED
          BY <3>0
      <4> QED
        BY <4>1
    <3> QED
      BY <2>2, <3>1 DEF m
<1> HIDE DEF n
<1>3. n * size \in Nat
  BY <1>2
<1>4. l <= n * size
  BY <1>1, <1>2, <1>3
<1>5. Cut(s, size, 0) = 0
  BY <1>1 DEF Cut, l
<1>6. Cut(s, size, n) = l
  BY <1>1, <1>3, <1>4 DEF Cut, l
<1>7. ASSUME NEW i \in 0..n
      PROVE  Cut(s, size, i) \in 0..l
  <2>1. i * size \in Nat
    OBVIOUS
  <2> QED
    BY <1>1, <2>1 DEF Cut, l
<1>8. ASSUME NEW i \in 1..n
      PROVE  Cut(s, size, i-1) = (i - 1) * size /\ Cut(s, size, i-1) < Cut(s, size, i)
  <2>1. i * size \in Nat /\ i * size <= n * size
    BY <1>2, Products
  <2>2. (i - 1) * size = i * size - size
    OBVIOUS
  <2>3. (i - 1) * size <= l - 1
    BY <1>1, <1>2, <1>3, <2>1, <2>2
  <2>4. (i - 1) * size \in Int /\ size \in Nat /\ size # 0
    OBVIOUS
  <2> HIDE DEF l
  <2> QED
    BY <1>1, <2>1, <2>2, <2>3, <2>4 DEF Cut, l
<1> QED
  BY <1>2, <1>5, <1>6, <1>7, <1>8 DEF n, l

\* The chunks of a text: their bytes, and the lines of their first and last byte.
IsChunked(c, s, size) ==
  /\ c = [i \in 1..NumChunks(s, size) |-> c[i]]
  /\ \A i \in 1..NumChunks(s, size) :
       c[i] = [data |-> SubSeq(s, Cut(s, size, i-1) + 1, Cut(s, size, i)),
               first |-> LineOf(s, Cut(s, size, i-1) + 1),
               last |-> LineOf(s, Cut(s, size, i))]

LEMMA ChunksOf ==
  ASSUME NEW S, NEW s \in Seq(S), NEW size \in Nat \ {0}
  PROVE  IsChunked(Chunks(s, size), s, size)
<1> DEFINE n == NumChunks(s, size)
           cut(i) == Cut(s, size, i)
           Data(i) == SubSeq(s, (i - 1) * size + 1, Min({i * size, Len(s)}))
           Chunk(first, i) ==
             [data |-> Data(i), first |-> first,
              last |-> IF EndsWith(NL, Data(i)) THEN first + Count(NL, Data(i)) - 1
                       ELSE first + Count(NL, Data(i))]
           Is(g) == g = [i \in 1..n |-> Chunk(IF i = 1 THEN 0 ELSE NextLineIndex(g[i-1]), i)]
           g0 == CHOOSE g : Is(g)
           Right(i) == [data |-> SubSeq(s, cut(i-1) + 1, cut(i)), first |-> LineOf(s, cut(i-1) + 1),
                        last |-> LineOf(s, cut(i))]
           h == [i \in 1..n |-> Right(i)]
<1>1. Chunks(s, size) = g0
  BY DEF Chunks, NumChunks
<1>2. /\ n \in Nat /\ cut(0) = 0 /\ cut(n) = Len(s)
      /\ \A i \in 0..n : cut(i) \in 0..Len(s)
      /\ \A i \in 1..n : cut(i-1) = (i - 1) * size /\ cut(i-1) < cut(i)
  BY CutFacts
<1>3. /\ LineOf(s, 1) = 0
      /\ \A i \in 1..(Len(s)+1) : LineOf(s, i) \in Nat
      /\ \A i \in 1..Len(s) : LineOf(s, i + 1) = IF s[i] = NL THEN LineOf(s, i) + 1 ELSE LineOf(s, i)
  BY LineSteps
<1>4. ASSUME NEW i \in 1..n
      PROVE  /\ Data(i) = SubSeq(s, cut(i-1) + 1, cut(i))
             /\ EndsWith(NL, Data(i)) <=> s[cut(i)] = NL
             /\ Count(NL, Data(i)) = LineOf(s, cut(i) + 1) - LineOf(s, cut(i-1) + 1)
  <2> DEFINE a == cut(i-1)
             b == cut(i)
  <2>1. i - 1 \in 0..n /\ i \in 0..n
    BY <1>2
  <2>2. a \in 0..Len(s) /\ b \in 0..Len(s) /\ a < b /\ a = (i - 1) * size
    BY <1>2, <2>1
  <2>3. Min({i * size, Len(s)}) = b
    <3> DEFINE p == i * size
               l == Len(s)
    <3>1. p \in Int /\ l \in Int
      OBVIOUS
    <3>2. b = IF p <= l THEN p ELSE l
      BY DEF Cut
    <3> HIDE DEF p, l, b
    <3>3. \E x \in {p, l} : \A y \in {p, l} : x <= y
      BY <3>1
    <3>4. Min({p, l}) \in {p, l} /\ Min({p, l}) <= p /\ Min({p, l}) <= l
      BY <3>3 DEF Min
    <3>5. Min({p, l}) = b
      BY <3>1, <3>2, <3>4
    <3> QED
      BY <3>5 DEF p, l
  <2> DEFINE d == SubSeq(s, a + 1, b)
  <2>4. Data(i) = d
    BY <2>2, <2>3
  <2> HIDE DEF a, b
  <2>5. d \in Seq(S) /\ Len(d) = b - a /\ \A j \in 1..(b - a) : d[j] = s[a + j]
    BY <2>2, PieceFacts
  <2>6. Count(NL, d) = LineOf(s, b + 1) - LineOf(s, a + 1)
    BY <2>2, PieceLines
  <2> HIDE DEF d
  <2>7. EndsWith(NL, d) <=> s[b] = NL
    <3>1. d # <<>> /\ Last(d) = d[b - a]
      BY <2>2, <2>5 DEF Last
    <3>2. b - a \in 1..(b - a) /\ a + (b - a) = b
      BY <2>2
    <3> QED
      BY <2>5, <3>1, <3>2 DEF EndsWith
  <2> HIDE DEF Data
  <2> QED
    BY <2>4, <2>6, <2>7 DEF a, b, d
<1> HIDE DEF n, cut, Data
<1>5. ASSUME NEW i \in 1..n
      PROVE  Right(i) = Chunk(LineOf(s, cut(i-1) + 1), i)
  <2>1. /\ i - 1 \in 0..n /\ i \in 0..n
        /\ cut(i-1) \in 0..Len(s) /\ cut(i) \in 0..Len(s) /\ cut(i-1) < cut(i)
    BY <1>2
  <2>2. cut(i) \in 1..Len(s) /\ cut(i) \in 1..(Len(s)+1) /\ cut(i-1) + 1 \in 1..(Len(s)+1)
    BY <2>1
  <2>3. LineOf(s, cut(i) + 1) = IF s[cut(i)] = NL THEN LineOf(s, cut(i)) + 1 ELSE LineOf(s, cut(i))
    BY <1>3, <2>2
  <2>4. LineOf(s, cut(i)) \in Nat /\ LineOf(s, cut(i-1) + 1) \in Nat
    BY <1>3, <2>2
  <2>5. LineOf(s, cut(i)) = IF EndsWith(NL, Data(i)) THEN LineOf(s, cut(i-1) + 1) + Count(NL, Data(i)) - 1
                            ELSE LineOf(s, cut(i-1) + 1) + Count(NL, Data(i))
    BY <1>4, <2>3, <2>4
  <2> QED
    BY <1>4, <2>5
<1>6. ASSUME NEW i \in 1..n
      PROVE  (IF i = 1 THEN 0 ELSE NextLineIndex(Right(i-1))) = LineOf(s, cut(i-1) + 1)
  <2>1. CASE i = 1
    <3>1. LineOf(s, cut(0) + 1) = 0
      BY <1>2, <1>3
    <3> QED
      BY <2>1, <3>1
  <2>2. CASE i # 1
    <3> DEFINE j == i - 1
    <3>1. j \in 1..n /\ j \in 0..n /\ j - 1 \in 0..n
      BY <1>2, <2>2
    <3>2. cut(j) \in 1..Len(s)
      BY <1>2, <3>1
    <3> HIDE DEF j
    <3>3. Right(j).data = Data(j) /\ Right(j).last = LineOf(s, cut(j))
      BY <1>4, <3>1
    <3>4. NextLineIndex(Right(j)) = IF s[cut(j)] = NL THEN LineOf(s, cut(j)) + 1 ELSE LineOf(s, cut(j))
      <4> HIDE DEF Right
      <4> QED
        BY <1>4, <3>1, <3>3 DEF NextLineIndex
    <3>5. NextLineIndex(Right(j)) = LineOf(s, cut(j) + 1)
      BY <1>3, <3>2, <3>4
    <3> HIDE DEF Right
    <3> QED
      BY <2>2, <3>5 DEF j
  <2> QED
    BY <2>1, <2>2
<1>7. Is(h)
  <2>1. ASSUME NEW i \in 1..n
        PROVE  h[i] = Chunk(IF i = 1 THEN 0 ELSE NextLineIndex(h[i-1]), i)
    <3>1. CASE i = 1
      <4> HIDE DEF Right, Chunk
      <4> QED
        BY <1>5, <1>6, <3>1
    <3>2. CASE i # 1
      <4>1. i - 1 \in 1..n
        BY <1>2, <3>2
      <4>2. h[i-1] = Right(i-1) /\ h[i] = Right(i)
        BY <4>1
      <4> HIDE DEF Right, Chunk, h
      <4> QED
        BY <1>5, <1>6, <3>2, <4>2
    <3> QED
      BY <3>1, <3>2
  <2>2. h = [i \in 1..n |-> h[i]]
    OBVIOUS
  <2> HIDE DEF h, Chunk
  <2> QED
    BY <2>1, <2>2
<1>8. Is(g0)
  <2> HIDE DEF Is, h
  <2> QED
    BY <1>7
<1> HIDE DEF g0
<1>9. \A i \in 1..n : g0[i] = Chunk(IF i = 1 THEN 0 ELSE NextLineIndex(g0[i-1]), i)
  <2> HIDE DEF Chunk
  <2> QED
    BY <1>8
<1> DEFINE T == {i \in 0..n : i = 0 \/ g0[i] = Right(i)}
<1>10. 0 \in T
  BY <1>2
<1>11. ASSUME NEW i \in 0..(n-1), i \in T
       PROVE  i + 1 \in T
  <2>1. i + 1 \in 1..n /\ i + 1 \in 0..n /\ (i + 1) - 1 = i
    BY <1>2
  <2> HIDE DEF Right, Chunk
  <2>2. g0[i+1] = Chunk(IF i + 1 = 1 THEN 0 ELSE NextLineIndex(g0[i]), i + 1)
    BY <1>9, <2>1
  <2>3. (IF i + 1 = 1 THEN 0 ELSE NextLineIndex(g0[i])) = LineOf(s, cut(i) + 1)
    <3>1. (IF i + 1 = 1 THEN 0 ELSE NextLineIndex(Right(i))) = LineOf(s, cut(i) + 1)
      BY <1>6, <2>1
    <3>2. CASE i = 0
      BY <3>1, <3>2
    <3>3. CASE i # 0
      <4>1. g0[i] = Right(i)
        BY <1>11, <3>3
      <4> QED
        BY <3>1, <4>1
    <3> QED
      BY <3>2, <3>3
  <2>4. Right(i + 1) = Chunk(LineOf(s, cut(i) + 1), i + 1)
    BY <1>5, <2>1
  <2> QED
    BY <2>1, <2>2, <2>3, <2>4
<1> HIDE DEF T
<1>12. \A i \in 0..n : i \in T
  BY <1>2, <1>10, <1>11, Induct
<1>13. \A i \in 1..n : g0[i] = Right(i)
  <2>1. \A i \in 1..n : i \in 0..n /\ i # 0
    BY <1>2
  <2> HIDE DEF Right
  <2> QED
    BY <1>12, <2>1 DEF T
<1>14. g0 = [i \in 1..n |-> g0[i]]
  <2> HIDE DEF Chunk
  <2> QED
    BY <1>8
<1> QED
  BY <1>1, <1>13, <1>14 DEF IsChunked, n, cut

\* A piece of a piece.
LEMMA PieceOfPiece ==
  ASSUME NEW S, NEW s \in Seq(S), NEW a \in 0..Len(s), NEW b \in 0..Len(s), a <= b,
         NEW x \in 0..(b - a), NEW y \in 0..(b - a), x <= y
  PROVE  SubSeq(SubSeq(s, a + 1, b), x + 1, y) = SubSeq(s, (a + x) + 1, a + y)
<1> DEFINE d == SubSeq(s, a + 1, b)
           p == SubSeq(d, x + 1, y)
           r == SubSeq(s, (a + x) + 1, a + y)
<1>1. d \in Seq(S) /\ Len(d) = b - a /\ \A i \in 1..(b - a) : d[i] = s[a + i]
  BY PieceFacts
<1>2. a + x \in 0..Len(s) /\ a + y \in 0..Len(s) /\ a + x <= a + y /\ (a + y) - (a + x) = y - x
  OBVIOUS
<1>3. r \in Seq(S) /\ Len(r) = y - x /\ \A i \in 1..(y - x) : r[i] = s[(a + x) + i]
  <2> DEFINE u == a + x
             v == a + y
  <2>1. u \in 0..Len(s) /\ v \in 0..Len(s) /\ u <= v /\ v - u = y - x
    BY <1>2
  <2> HIDE DEF u, v
  <2>2. /\ SubSeq(s, u + 1, v) \in Seq(S) /\ Len(SubSeq(s, u + 1, v)) = v - u
        /\ \A i \in 1..(v - u) : SubSeq(s, u + 1, v)[i] = s[u + i]
    BY <2>1, PieceFacts
  <2> QED
    BY <2>1, <2>2 DEF u, v
<1> HIDE DEF d, r
<1>4. p \in Seq(S) /\ Len(p) = y - x /\ \A i \in 1..(y - x) : p[i] = d[x + i]
  <2>1. x \in 0..Len(d) /\ y \in 0..Len(d)
    BY <1>1
  <2> QED
    BY <1>1, <2>1, PieceFacts
<1> HIDE DEF p
<1>5. \A i \in 1..(y - x) : p[i] = r[i]
  <2>1. \A i \in 1..(y - x) : x + i \in 1..(b - a) /\ a + (x + i) = (a + x) + i
    OBVIOUS
  <2> QED
    BY <1>1, <1>3, <1>4, <2>1
<1>6. p = r
  BY <1>3, <1>4, <1>5, SeqEqual
<1> QED
  BY <1>6 DEF p, r, d

\* What the scan of a chunk finds: the byte after the end of the lines before k, unless
\* that is outside of the chunk, or its first byte.
LEMMA BeginOfLine ==
  ASSUME NEW S, NEW s \in Seq(S), NEW lo \in 0..Len(s), NEW hi \in 0..Len(s), lo < hi,
         NEW k \in Nat
  PROVE  LET d == SubSeq(s, lo + 1, hi)
             L(i) == LineOf(s, lo + 1) + Count(NL, SubSeq(d, 1, i - 1))
         IN {i \in {j \in 2..Len(d) : d[j-1] = NL} : L(i) = k}
              = IF lo < EndOf(s, k) /\ EndOf(s, k) < hi THEN {EndOf(s, k) + 1 - lo} ELSE {}
<1> DEFINE d == SubSeq(s, lo + 1, hi)
           m == hi - lo
           L(i) == LineOf(s, lo + 1) + Count(NL, SubSeq(d, 1, i - 1))
           X == {i \in {j \in 2..Len(d) : d[j-1] = NL} : L(i) = k}
           e == EndOf(s, k)
<1>1. d \in Seq(S) /\ Len(d) = m /\ \A i \in 1..m : d[i] = s[lo + i]
  BY PieceFacts
<1>2. \A i \in 1..(m + 1) : LineOf(d, i) = LineOf(s, lo + i) - LineOf(s, lo + 1)
  BY PieceLines
<1>3. /\ \A i \in 1..(Len(s)+1) : LineOf(s, i) \in Nat
      /\ \A i \in 1..Len(s) :
           LineOf(s, i + 1) = IF s[i] = NL THEN LineOf(s, i) + 1 ELSE LineOf(s, i)
  BY LineSteps
<1>4. ASSUME NEW i \in 2..m
      PROVE  /\ d[i-1] = s[lo + (i-1)]
             /\ L(i) = LineOf(s, lo + i)
             /\ lo + (i-1) \in 1..Len(s) /\ lo + i = (lo + (i-1)) + 1
  <2> DEFINE b == i - 1
  <2>0. b \in 1..m /\ b \in 0..m /\ i = b + 1 /\ i \in 1..(m+1)
    OBVIOUS
  <2> HIDE DEF d
  <2>1. Count(NL, SubSeq(d, 0 + 1, b)) = LineOf(d, b + 1) - LineOf(d, 0 + 1)
    <3>1. 0 \in 0..Len(d) /\ b \in 0..Len(d) /\ 0 <= b
      BY <1>1, <2>0
    <3> HIDE DEF b
    <3> QED
      BY <1>1, <3>1, PieceLines
  <2>2. LineOf(d, 1) = 0
    BY <1>1, LineSteps
  <2>3. Count(NL, SubSeq(d, 1, i - 1)) = LineOf(d, i)
    <3>1. LineOf(d, i) \in Int
      <4>1. LineOf(s, lo + i) \in Nat /\ LineOf(s, lo + 1) \in Nat
        BY <1>3
      <4>2. LineOf(d, i) = LineOf(s, lo + i) - LineOf(s, lo + 1)
        BY <1>2, <2>0
      <4> QED
        BY <4>1, <4>2
    <3>2. 0 + 1 = 1
      OBVIOUS
    <3> HIDE DEF b
    <3>3. Count(NL, SubSeq(d, 1, b)) = LineOf(d, i) - 0
      BY <2>0, <2>1, <2>2, <3>2
    <3> QED
      BY <3>1, <3>3 DEF b
  <2>4. LineOf(s, lo + i) \in Nat /\ LineOf(s, lo + 1) \in Nat
    BY <1>3
  <2>5. L(i) = LineOf(s, lo + i)
    BY <1>2, <2>0, <2>3, <2>4
  <2> QED
    BY <1>1, <2>0, <2>5
<1>5. /\ e \in 0..Len(s)
      /\ \A i \in 1..Len(s) : i <= e <=> LineOf(s, i) < k
  BY EndExists DEF IsEnd
<1>6. X = {i \in 2..m : s[lo + (i-1)] = NL /\ LineOf(s, lo + i) = k}
  <2> HIDE DEF d, L
  <2>1. \A i : i \in X <=> i \in 2..m /\ d[i-1] = NL /\ L(i) = k
    BY <1>1
  <2> HIDE DEF X
  <2> QED
    BY <1>4, <2>1
<1>7. ASSUME NEW i \in 2..m, s[lo + (i-1)] = NL, LineOf(s, lo + i) = k
      PROVE  i = e + 1 - lo /\ lo < e /\ e < hi
  <2> DEFINE b == lo + (i-1)
  <2>1. b \in 1..Len(s) /\ lo + i = b + 1 /\ b + 1 \in 1..(Len(s)+1) /\ b \in 1..(Len(s)+1)
    BY <1>4
  <2>2. LineOf(s, b + 1) = k /\ s[b] = NL
    BY <1>7, <2>1
  <2>3. b > lo /\ b < hi /\ i = b + 1 - lo
    OBVIOUS
  <2> HIDE DEF b
  <2>4. LineOf(s, b) = k - 1 /\ LineOf(s, b) \in Nat
    BY <1>3, <2>1, <2>2
  <2>5. k \in Nat \ {0}
    BY <2>4
  <2>6. e = b
    BY <2>1, <2>2, <2>4, <2>5, EndAtNewline
  <2> QED
    BY <2>3, <2>6
<1>8. ASSUME lo < e, e < hi
      PROVE  LET i == e + 1 - lo IN i \in 2..m /\ s[lo + (i-1)] = NL /\ LineOf(s, lo + i) = k
  <2> DEFINE i == e + 1 - lo
  <2>1. i \in 2..m /\ lo + (i-1) = e /\ lo + i = e + 1 /\ e \in 1..Len(s) /\ e + 1 \in 1..Len(s)
        /\ ~(e + 1 <= e) /\ e <= e /\ e \in 1..(Len(s)+1)
    <3>1. e \in 0..Len(s) /\ Len(s) \in Nat
      BY <1>5
    <3> HIDE DEF e
    <3> QED
      BY <1>8, <3>1
  <2>2. LineOf(s, e) < k /\ ~(LineOf(s, e + 1) < k)
    BY <1>5, <2>1
  <2>3. LineOf(s, e) \in Nat /\ LineOf(s, e + 1) = IF s[e] = NL THEN LineOf(s, e) + 1 ELSE LineOf(s, e)
    BY <1>3, <2>1
  <2> HIDE DEF e
  <2>4. s[e] = NL /\ LineOf(s, e + 1) = k
    BY <2>2, <2>3
  <2> QED
    BY <2>1, <2>4
<1> HIDE DEF e, X, m
<1>9. X = IF lo < e /\ e < hi THEN {e + 1 - lo} ELSE {}
  <2>1. CASE lo < e /\ e < hi
    BY <1>6, <1>7, <1>8, <2>1
  <2>2. CASE ~(lo < e /\ e < hi)
    BY <1>6, <1>7, <2>2
  <2> QED
    BY <2>1, <2>2
<1> QED
  BY <1>9 DEF X, e

\* What is read of a chunk that has some of the lines: those of their bytes that it has.
LEMMA ReadChunkIs ==
  ASSUME NEW S, NEW s \in Seq(S), NEW lo \in 0..Len(s), NEW hi \in 0..Len(s), lo < hi,
         NEW start \in Nat, NEW end \in Nat, start <= end,
         lo < EndOf(s, end), EndOf(s, start) < hi,
         NEW c, c.data = SubSeq(s, lo + 1, hi), c.first = LineOf(s, lo + 1)
  PROVE  ReadChunk(c, start, end)
           = SubSeq(s, (IF lo <= EndOf(s, start) THEN EndOf(s, start) ELSE lo) + 1,
                       IF hi <= EndOf(s, end) THEN hi ELSE EndOf(s, end))
<1> DEFINE d == SubSeq(s, lo + 1, hi)
           m == hi - lo
           X(k) == {i \in {j \in 2..Len(d) : d[j-1] = NL} :
                      LineOf(s, lo + 1) + Count(NL, SubSeq(d, 1, i - 1)) = k}
           e1 == EndOf(s, start)
           e2 == EndOf(s, end)
           from == IF X(start) = {} THEN 1 ELSE Max(X(start))
           to == IF X(end) = {} THEN Len(d) ELSE Max(X(end)) - 1
           x == (IF lo <= e1 THEN e1 ELSE lo) - lo
           y == (IF hi <= e2 THEN hi ELSE e2) - lo
<1>1. ReadChunk(c, start, end) = SubSeq(d, from, to)
  BY DEF ReadChunk
<1>2. ASSUME NEW k \in Nat
      PROVE  X(k) = IF lo < EndOf(s, k) /\ EndOf(s, k) < hi THEN {EndOf(s, k) + 1 - lo} ELSE {}
  BY BeginOfLine
<1>3. Len(d) = m
  BY PieceFacts
<1>4. e1 \in 0..Len(s) /\ e2 \in 0..Len(s) /\ e1 <= e2
  BY EndFacts
<1>5. X(start) = (IF lo < e1 /\ e1 < hi THEN {e1 + 1 - lo} ELSE {})
  BY <1>2
<1>6. X(end) = (IF lo < e2 /\ e2 < hi THEN {e2 + 1 - lo} ELSE {})
  BY <1>2
<1>7. lo < e2 /\ e1 < hi
  OBVIOUS
<1>8. ASSUME NEW v \in Int
      PROVE  Max({v}) = v
  BY DEF Max
<1> HIDE DEF X, e1, e2, d
<1>9. from = x + 1
  <2>1. e1 + 1 - lo \in Int
    BY <1>4
  <2>2. Max({e1 + 1 - lo}) = e1 + 1 - lo
    BY <1>8, <2>1
  <2>3. CASE lo < e1
    <3>1. X(start) = {e1 + 1 - lo}
      BY <1>5, <1>7, <2>3
    <3>2. from = e1 + 1 - lo
      BY <2>2, <3>1
    <3> QED
      BY <1>4, <2>3, <3>2
  <2>4. CASE ~(lo < e1)
    <3>1. X(start) = {}
      BY <1>5, <2>4
    <3>2. from = 1
      BY <3>1
    <3> QED
      BY <1>4, <2>4, <3>2
  <2> QED
    BY <2>3, <2>4
<1>10. to = y
  <2>1. e2 + 1 - lo \in Int
    BY <1>4
  <2>2. Max({e2 + 1 - lo}) = e2 + 1 - lo
    BY <1>8, <2>1
  <2>3. CASE e2 < hi
    <3>1. X(end) = {e2 + 1 - lo}
      BY <1>6, <1>7, <2>3
    <3>2. to = (e2 + 1 - lo) - 1
      BY <2>2, <3>1
    <3> QED
      BY <1>4, <2>3, <3>2
  <2>4. CASE ~(e2 < hi)
    <3>1. X(end) = {}
      BY <1>6, <2>4
    <3>2. to = m
      BY <1>3, <3>1
    <3>3. y = m
      BY <1>4, <2>4
    <3> QED
      BY <3>2, <3>3
  <2> QED
    BY <2>3, <2>4
<1>11. x \in 0..m /\ y \in 0..m /\ x <= y
  BY <1>4, <1>7
<1>12. lo + x = (IF lo <= e1 THEN e1 ELSE lo) /\ lo + y = (IF hi <= e2 THEN hi ELSE e2)
  BY <1>4
<1> HIDE DEF x, y, from, to
<1>13. SubSeq(d, x + 1, y) = SubSeq(s, (lo + x) + 1, lo + y)
  BY <1>11, PieceOfPiece DEF d
<1> QED
  BY <1>1, <1>9, <1>10, <1>12, <1>13 DEF e1, e2

-----------------------------------------------------------------------------
(* Ranges of lines from chunks.                                            *)

\* The lines of the range that are in each of the chunks q.
Pieces(q, start, end) == [i \in DOMAIN q |-> ReadChunk(q[i], start, end)]

LEMMA PiecesAppend ==
  ASSUME NEW S, NEW V, NEW q \in Seq(V), NEW v \in V, NEW start, NEW end,
         Pieces(q, start, end) \in Seq(Seq(S)), ReadChunk(v, start, end) \in Seq(S)
  PROVE  /\ Pieces(Append(q, v), start, end) = Append(Pieces(q, start, end), ReadChunk(v, start, end))
         /\ Pieces(Append(q, v), start, end) \in Seq(Seq(S))
<1> DEFINE R(c) == ReadChunk(c, start, end)
           p == Pieces(q, start, end)
           qv == Append(q, v)
           pv == Pieces(qv, start, end)
           x == R(v)
<1>1. p = [i \in DOMAIN q |-> R(q[i])] /\ pv = [i \in DOMAIN qv |-> R(qv[i])]
  BY DEF Pieces
<1>2. x \in Seq(S) /\ p \in Seq(Seq(S))
  OBVIOUS
<1> HIDE DEF R
<1> DEFINE n == Len(q)
<1>3. n \in Nat /\ DOMAIN q = 1..n /\ DOMAIN qv = 1..(n+1) /\ qv[n+1] = v
      /\ \A i \in 1..n : qv[i] = q[i]
  OBVIOUS
<1> HIDE DEF p, qv, x, n
<1>4. DOMAIN p = 1..n /\ Len(p) = n
  BY <1>1, <1>2, <1>3
<1>5. /\ Append(p, x) \in Seq(Seq(S)) /\ Len(Append(p, x)) = n + 1
      /\ Append(p, x)[n+1] = x /\ \A i \in 1..n : Append(p, x)[i] = p[i]
      /\ Append(p, x) = [i \in 1..(n+1) |-> Append(p, x)[i]]
  <2> DEFINE W == Seq(S)
  <2>1. p \in Seq(W) /\ x \in W
    BY <1>2
  <2> HIDE DEF W
  <2>2. /\ Append(p, x) \in Seq(W) /\ Len(Append(p, x)) = n + 1
        /\ Append(p, x)[n+1] = x /\ \A i \in 1..n : Append(p, x)[i] = p[i]
    BY <1>3, <1>4, <2>1
  <2>3. \A a \in Seq(W) : a = [i \in 1..Len(a) |-> a[i]]
    OBVIOUS
  <2> QED
    BY <2>2, <2>3 DEF W
<1>6. ASSUME NEW i \in 1..(n+1)
      PROVE  Append(p, x)[i] = R(qv[i])
  <2>1. CASE i = n + 1
    BY <1>3, <1>5, <2>1 DEF x
  <2>2. CASE i # n + 1
    <3>1. i \in 1..n
      BY <1>3, <2>2
    <3> QED
      BY <1>1, <1>3, <1>5, <3>1
  <2> QED
    BY <2>1, <2>2
<1>7. pv = Append(p, x)
  <2> DEFINE a == Append(p, x)
  <2> HIDE DEF a, pv
  <2>2. a = [i \in 1..(n+1) |-> a[i]] /\ \A i \in 1..(n+1) : a[i] = R(qv[i])
    BY <1>5, <1>6 DEF a
  <2>3. pv = [i \in 1..(n+1) |-> R(qv[i])]
    BY <1>1, <1>3 DEF pv
  <2>4. pv = a
    BY <2>2, <2>3
  <2> QED
    BY <2>4 DEF a
<1> QED
  BY <1>5, <1>7 DEF p, qv, x, R

ChunkSet(s, size) == {Chunks(s, size)[i] : i \in 1..NumChunks(s, size)}

LEMMA ReadChunksIs ==
  ASSUME NEW S, NEW s \in Seq(S), NEW size \in Nat \ {0},
         NEW start \in Nat, NEW end \in Nat, start <= end
  PROVE  LET selected == SelectChunks(Chunks(s, size), start, end) IN
         /\ selected \in Seq(ChunkSet(s, size))
         /\ Pieces(selected, start, end) \in Seq(Seq(S))
         /\ FlattenSeq(Pieces(selected, start, end)) = BytesOf(s, start, end)
<1> DEFINE c == Chunks(s, size)
           n == NumChunks(s, size)
           V == {c[i] : i \in 1..n}
           P == {i \in DOMAIN c : c[i].first < end /\ c[i].last >= start}
           cut(i) == Cut(s, size, i)
           e1 == EndOf(s, start)
           e2 == EndOf(s, end)
           upTo(i) == IF cut(i) <= e2 THEN cut(i) ELSE e2
<1>1. /\ n \in Nat /\ cut(0) = 0 /\ cut(n) = Len(s)
      /\ \A i \in 0..n : cut(i) \in 0..Len(s)
      /\ \A i \in 1..n : cut(i-1) < cut(i)
  BY CutFacts
<1>2. /\ c = [i \in 1..n |-> c[i]]
      /\ \A i \in 1..n : /\ c[i].data = SubSeq(s, cut(i-1) + 1, cut(i))
                         /\ c[i].first = LineOf(s, cut(i-1) + 1)
                         /\ c[i].last = LineOf(s, cut(i))
  <2>1. IsChunked(c, s, size)
    BY ChunksOf
  <2> HIDE DEF c
  <2> QED
    BY <2>1 DEF IsChunked
<1>3. e1 \in 0..Len(s) /\ e2 \in 0..Len(s) /\ e1 <= e2
  BY EndFacts
<1>4. \A i \in 1..Len(s) : (i <= e1 <=> LineOf(s, i) < start) /\ (i <= e2 <=> LineOf(s, i) < end)
  BY EndExists DEF IsEnd
<1>5. \A i \in 1..(Len(s)+1) : LineOf(s, i) \in Nat
  BY LineSteps
<1> HIDE DEF c, n, cut, e1, e2
<1>6. c \in Seq(V) /\ Len(c) = n /\ DOMAIN c = 1..n
  <2>1. c \in [1..n -> V] /\ DOMAIN c = 1..n
    BY <1>2
  <2> HIDE DEF V
  <2>2. c \in Seq(V)
    BY <1>1, <2>1
  <2> QED
    BY <1>1, <2>1, <2>2
<1>7. SelectChunks(c, start, end) = ElementsAt(c, P)
  BY DEF SelectChunks
<1> HIDE DEF V
<1>8. ASSUME NEW i \in 1..n
      PROVE  /\ i \in P <=> cut(i-1) < e2 /\ e1 < cut(i)
             /\ c[i] \in V
             /\ cut(i-1) \in 0..Len(s) /\ cut(i) \in 0..Len(s) /\ cut(i-1) < cut(i)
  <2>1. i - 1 \in 0..n /\ i \in 0..n
    BY <1>1
  <2>2. cut(i-1) \in 0..Len(s) /\ cut(i) \in 0..Len(s) /\ cut(i-1) < cut(i)
    BY <1>1, <2>1
  <2>3. cut(i-1) + 1 \in 1..Len(s) /\ cut(i) \in 1..Len(s)
        /\ cut(i-1) + 1 \in 1..(Len(s)+1) /\ cut(i) \in 1..(Len(s)+1)
    BY <2>2
  <2>4. (cut(i-1) + 1 <= e2 <=> LineOf(s, cut(i-1) + 1) < end) /\ (cut(i) <= e1 <=> LineOf(s, cut(i)) < start)
    BY <1>4, <2>3
  <2>5. LineOf(s, cut(i)) \in Nat
    BY <1>5, <2>3
  <2>6. i \in P <=> LineOf(s, cut(i-1) + 1) < end /\ LineOf(s, cut(i)) >= start
    BY <1>2, <1>6
  <2>7. c[i] \in V
    BY <1>6
  <2> DEFINE a == cut(i-1)
             b == cut(i)
             l1 == LineOf(s, a + 1)
             l2 == LineOf(s, b)
  <2> HIDE DEF P
  <2>8. /\ a \in Nat /\ b \in Nat /\ l2 \in Nat
        /\ (a + 1 <= e2 <=> l1 < end) /\ (b <= e1 <=> l2 < start)
        /\ i \in P <=> l1 < end /\ l2 >= start
    BY <2>2, <2>4, <2>5, <2>6
  <2> HIDE DEF a, b, l1, l2
  <2>9. i \in P <=> a < e2 /\ e1 < b
    <3>1. a + 1 <= e2 <=> a < e2
      BY <1>3, <2>8
    <3>2. l2 >= start <=> ~(l2 < start)
      BY <2>8
    <3>3. ~(b <= e1) <=> e1 < b
      BY <1>3, <2>8
    <3> QED
      BY <2>8, <3>1, <3>2, <3>3
  <2> QED
    BY <2>2, <2>7, <2>9 DEF a, b
<1> HIDE DEF P
<1>9. PICK f : Selects(f, c, P, V) /\ ElementsAt(c, P) = f[Len(c)]
  BY <1>6, ElementsSteps
<1>10. /\ f[0] = <<>> /\ \A i \in 0..n : f[i] \in Seq(V)
       /\ \A i \in 1..n : f[i] = IF i \in P THEN Append(f[i-1], c[i]) ELSE f[i-1]
       /\ ElementsAt(c, P) = f[n]
  BY <1>6, <1>9 DEF Selects
<1> DEFINE R(i) == Pieces(f[i], start, end)
           B(i) == SubSeq(s, e1 + 1, upTo(i))
           T == {i \in 0..n : R(i) \in Seq(Seq(S)) /\ FlattenSeq(R(i)) = B(i)}
<1>11. 0 \in T
  <2>1. upTo(0) = 0
    BY <1>1, <1>3
  <2>2. B(0) = <<>>
    <3>1. SubSeq(s, e1 + 1, 0) = <<>>
      BY <1>3, PieceFacts
    <3> QED
      BY <2>1, <3>1
  <2>3. R(0) = <<>>
    <3>1. Pieces(<<>>, start, end) = <<>>
      BY DEF Pieces
    <3> QED
      BY <1>10, <3>1
  <2>4. <<>> \in Seq(Seq(S))
    OBVIOUS
  <2>5. FlattenSeq(R(0)) = <<>>
    <3> HIDE DEF R
    <3> QED
      BY <2>3, <2>4, FlattenFacts
  <2> HIDE DEF R, B
  <2>6. R(0) \in Seq(Seq(S)) /\ FlattenSeq(R(0)) = B(0)
    BY <2>2, <2>3, <2>4, <2>5
  <2>7. 0 \in 0..n
    BY <1>1
  <2> QED
    BY <2>6, <2>7
<1>12. ASSUME NEW i \in 0..(n-1), i \in T
       PROVE  i + 1 \in T
  <2> DEFINE j == i + 1
             lo == cut(i)
             hi == cut(j)
  <2>1. j \in 1..n /\ j \in 0..n /\ i \in 0..n /\ j - 1 = i
    BY <1>1
  <2>2. R(i) \in Seq(Seq(S)) /\ FlattenSeq(R(i)) = SubSeq(s, e1 + 1, upTo(i))
    BY <1>12
  <2> HIDE DEF j
  <2>3. /\ j \in P <=> lo < e2 /\ e1 < hi
        /\ c[j] \in V
        /\ lo \in 0..Len(s) /\ hi \in 0..Len(s) /\ lo < hi
    BY <1>8, <2>1
  <2>4. f[j] = IF j \in P THEN Append(f[i], c[j]) ELSE f[i]
    BY <1>10, <2>1
  <2>5. /\ c[j].data = SubSeq(s, lo + 1, hi) /\ c[j].first = LineOf(s, lo + 1)
    BY <1>2, <2>1
  <2>6. upTo(i) = (IF lo <= e2 THEN lo ELSE e2) /\ upTo(j) = (IF hi <= e2 THEN hi ELSE e2)
    OBVIOUS
  <2> HIDE DEF upTo, lo, hi
  <2>7. upTo(i) \in 0..Len(s) /\ upTo(j) \in 0..Len(s)
    BY <1>3, <2>3, <2>6
  <2>8. CASE j \in P
    <3> DEFINE x == ReadChunk(c[j], start, end)
               a == IF lo <= e1 THEN e1 ELSE lo
               v == c[j]
    <3>1. x = SubSeq(s, a + 1, upTo(j))
      <4>1. lo < EndOf(s, end) /\ EndOf(s, start) < hi
        BY <2>3, <2>8 DEF e1, e2
      <4>2. v.data = SubSeq(s, lo + 1, hi) /\ v.first = LineOf(s, lo + 1)
        BY <2>5
      <4> HIDE DEF v
      <4>3. ReadChunk(v, start, end)
              = SubSeq(s, (IF lo <= EndOf(s, start) THEN EndOf(s, start) ELSE lo) + 1,
                          IF hi <= EndOf(s, end) THEN hi ELSE EndOf(s, end))
        BY <2>3, <4>1, <4>2, ReadChunkIs
      <4> QED
        BY <2>6, <4>3 DEF v, e1, e2
    <3>2. a \in 0..Len(s) /\ a <= upTo(j)
      BY <1>3, <2>3, <2>6, <2>8
    <3>3. x \in Seq(S)
      <4> HIDE DEF x, a
      <4> QED
        BY <2>7, <3>1, <3>2, PieceFacts
    <3>4. R(j) = Append(R(i), x) /\ R(j) \in Seq(Seq(S))
      <4> DEFINE q == f[i]
      <4>1. q \in Seq(V) /\ v \in V /\ f[j] = Append(q, v) /\ Pieces(q, start, end) \in Seq(Seq(S))
        BY <1>10, <2>1, <2>2, <2>3, <2>4, <2>8
      <4>2. ReadChunk(v, start, end) \in Seq(S)
        BY <3>3
      <4> HIDE DEF q, v
      <4>3. Pieces(Append(q, v), start, end) = Append(Pieces(q, start, end), ReadChunk(v, start, end))
            /\ Pieces(Append(q, v), start, end) \in Seq(Seq(S))
        BY <4>1, <4>2, PiecesAppend
      <4> QED
        BY <4>1, <4>3 DEF q, v
    <3>5. FlattenSeq(R(j)) = FlattenSeq(R(i)) \o x
      <4> HIDE DEF x, R
      <4> QED
        BY <2>2, <3>3, <3>4, FlattenAppend
    <3>6. SubSeq(s, e1 + 1, upTo(i)) \o x = SubSeq(s, e1 + 1, upTo(j))
      <4>1. upTo(i) = lo
        BY <2>6, <2>3, <2>8, <1>3
      <4>2. CASE lo <= e1
        <5>1. SubSeq(s, e1 + 1, lo) = <<>>
          BY <1>3, <2>3, <4>2, PieceFacts
        <5>2. x = SubSeq(s, e1 + 1, upTo(j))
          BY <3>1, <4>2
        <5> HIDE DEF x
        <5>3. <<>> \o x = x
          BY <3>3
        <5> QED
          BY <4>1, <5>1, <5>2, <5>3
      <4>3. CASE ~(lo <= e1)
        <5>1. x = SubSeq(s, lo + 1, upTo(j)) /\ e1 <= lo /\ lo <= upTo(j)
          <6>1. a = lo
            BY <4>3
          <6>2. e1 <= lo
            BY <1>3, <2>3, <4>3
          <6> HIDE DEF a, x
          <6> QED
            BY <3>1, <3>2, <6>1, <6>2
        <5> HIDE DEF x
        <5>2. SubSeq(s, e1 + 1, lo) \o SubSeq(s, lo + 1, upTo(j)) = SubSeq(s, e1 + 1, upTo(j))
          BY <1>3, <2>3, <2>7, <5>1, PiecesJoin
        <5> QED
          BY <4>1, <5>1, <5>2
      <4> QED
        BY <4>2, <4>3
    <3> HIDE DEF R
    <3>7. FlattenSeq(R(j)) = B(j)
      BY <2>2, <3>5, <3>6
    <3> QED
      BY <2>1, <3>4, <3>7 DEF j
  <2>9. CASE j \notin P
    <3>1. R(j) = R(i)
      BY <2>4, <2>9
    <3>2. B(i) = B(j)
      <4>1. CASE e2 <= lo
        <5>1. upTo(i) = upTo(j)
          BY <1>3, <2>3, <2>6, <4>1
        <5>2. \A x, y : x = y => SubSeq(s, e1 + 1, x) = SubSeq(s, e1 + 1, y)
          OBVIOUS
        <5> QED
          BY <5>1, <5>2
      <4>2. CASE hi <= e1
        <5>1. upTo(i) <= e1 /\ upTo(j) <= e1
          BY <1>3, <2>3, <2>6, <4>2
        <5>2. SubSeq(s, e1 + 1, upTo(i)) = <<>>
          BY <1>3, <2>7, <5>1, PieceFacts
        <5>3. SubSeq(s, e1 + 1, upTo(j)) = <<>>
          BY <1>3, <2>7, <5>1, PieceFacts
        <5> QED
          BY <5>2, <5>3
      <4>3. e2 <= lo \/ hi <= e1
        BY <1>3, <2>3, <2>9
      <4> HIDE DEF B
      <4> QED
        BY <4>1, <4>2, <4>3
    <3> HIDE DEF R, B
    <3>3. R(j) \in Seq(Seq(S)) /\ FlattenSeq(R(j)) = B(j)
      BY <1>12, <3>1, <3>2
    <3> QED
      BY <2>1, <3>3 DEF j
  <2> QED
    BY <2>8, <2>9
<1> HIDE DEF T
<1>13. \A i \in 0..n : i \in T
  BY <1>1, <1>11, <1>12, Induct
<1>14. R(n) \in Seq(Seq(S)) /\ FlattenSeq(R(n)) = B(n)
  <2>1. n \in T
    BY <1>1, <1>13
  <2> HIDE DEF R, B
  <2> QED
    BY <2>1 DEF T
<1>15. upTo(n) = e2
  BY <1>1, <1>3
<1>16. f[n] \in Seq(V)
  BY <1>1, <1>10
<1>17. f[n] = SelectChunks(c, start, end)
  BY <1>7, <1>10
<1> QED
  BY <1>14, <1>15, <1>16, <1>17 DEF BytesOf, ChunkSet, V, c, n, e1, e2

LEMMA ReadsRight ==
  ASSUME NEW S, NEW text \in Seq(S)
  PROVE  IsReadRight(text)
<1>1. ASSUME NEW r \in Ranges(text)
      PROVE  r[1] \in Nat /\ r[2] \in Nat /\ r[1] < r[2] /\ r[1] <= r[2]
  BY DEF Ranges
<1>2. ASSUME NEW r \in Ranges(text)
      PROVE  Subslice(text, r[1], r[2]) = RangeOfLines(text, r[1], r[2])
  <2>1. \A i, j \in Nat : i < j => Subslice(text, i, j) = BytesOf(text, i, j)
    BY SubsliceIs
  <2>2. \A i, j \in Nat : i <= j => RangeOfLines(text, i, j) = BytesOf(text, i, j)
    BY RangeIs
  <2> QED
    BY <1>1, <2>1, <2>2
<1>3. ASSUME NEW size \in ChunkSizes, NEW r \in Ranges(text)
      PROVE  ReadChunks(Chunks(text, size), r[1], r[2]) = RangeOfLines(text, r[1], r[2])
  <2> DEFINE c == Chunks(text, size)
             i == r[1]
             j == r[2]
  <2>1. size \in Nat \ {0}
    BY LinesAssumption
  <2>2. i \in Nat /\ j \in Nat /\ i <= j
    BY <1>1
  <2>3. ReadChunks(c, i, j) = FlattenSeq(Pieces(SelectChunks(c, i, j), i, j))
    BY DEF ReadChunks, Pieces
  <2> HIDE DEF i, j
  <2>4. FlattenSeq(Pieces(SelectChunks(c, i, j), i, j)) = BytesOf(text, i, j)
    <3>1. \A z \in Nat \ {0}, k, l \in Nat : k <= l =>
            FlattenSeq(Pieces(SelectChunks(Chunks(text, z), k, l), k, l)) = BytesOf(text, k, l)
      BY ReadChunksIs
    <3> QED
      BY <2>1, <2>2, <3>1
  <2>5. RangeOfLines(text, i, j) = BytesOf(text, i, j)
    BY <2>2, RangeIs
  <2> QED
    BY <2>3, <2>4, <2>5 DEF i, j
<1> QED
  BY <1>2, <1>3 DEF IsReadRight

-----------------------------------------------------------------------------
(* Normalization.                                                          *)

LEMMA KeepLineSpans ==
  ASSUME NEW S, NEW spans \in Seq(Seq(S)), NEW line \in Seq(S)
  PROVE  KeepLine(spans, line) \in Seq(Seq(S))
<1> DEFINE ups == Positions(Up, line)
           start == IF ups = {} THEN 1 ELSE Max(ups) + 1
           m == Len(spans) - Cardinality(ups)
           kept == SubSeq(spans, 1, m)
           rest == SubSeq(line, start, Len(line))
<1>1. ups \in SUBSET (1..Len(line)) /\ Len(line) \in Nat /\ ups \in SUBSET (0..Len(line))
  BY DEF Positions
<1>2. Cardinality(ups) \in Nat
  <2> HIDE DEF ups
  <2>1. IsFiniteSet(1..Len(line))
    BY <1>1, FS_Interval
  <2>2. IsFiniteSet(ups)
    BY <1>1, <2>1, FS_Subset
  <2> QED
    BY <2>2, FS_CardinalityType
<1>3. start \in 1..(Len(line) + 1)
  <2>1. CASE ups = {}
    BY <1>1, <2>1
  <2>2. CASE ups # {}
    <3>1. Max(ups) \in ups
      BY <1>1, <2>2, MaxOf
    <3> QED
      BY <1>1, <2>2, <3>1
  <2> QED
    BY <2>1, <2>2
<1> HIDE DEF ups
<1>4. rest \in Seq(S)
  <2>1. start - 1 \in 0..Len(line) /\ Len(line) \in 0..Len(line) /\ (start - 1) + 1 = start
    BY <1>1, <1>3
  <2> DEFINE a == start - 1
  <2>2. SubSeq(line, a + 1, Len(line)) \in Seq(S)
    <3> HIDE DEF a
    <3> QED
      BY <2>1, PieceFacts DEF a
  <2> QED
    BY <2>1, <2>2
<1>5. kept \in Seq(Seq(S))
  <2> DEFINE W == Seq(S)
  <2>1. m \in Int /\ m <= Len(spans)
    BY <1>2
  <2> HIDE DEF m
  <2>2. CASE m < 1
    <3>1. SubSeq(spans, 1, m) = <<>>
      BY <2>1, <2>2, SubSeqEmpty
    <3>2. <<>> \in Seq(Seq(S))
      OBVIOUS
    <3> QED
      BY <3>1, <3>2
  <2>3. CASE m >= 1
    <3>1. \A i \in 1..m : spans[i] \in W
      BY <2>1
    <3> HIDE DEF W
    <3>2. SubSeq(spans, 1, m) \in Seq(W)
      BY <2>1, <3>1, SubSeqProperties
    <3> QED
      BY <3>2 DEF W
  <2> QED
    BY <2>1, <2>2, <2>3
<1>6. KeepLine(spans, line) = Append(kept, rest)
  BY DEF KeepLine, ups
<1> HIDE DEF kept, rest
<1>7. \A q \in Seq(Seq(S)), x \in Seq(S) : Append(q, x) \in Seq(Seq(S))
  <2> DEFINE W == Seq(S)
  <2>1. \A q \in Seq(W), x \in W : Append(q, x) \in Seq(W)
    <3> HIDE DEF W
    <3> QED
      BY AppendProperties
  <2> QED
    BY <2>1
<1> QED
  BY <1>4, <1>5, <1>6, <1>7

\* The initial segments of the numbers up to n.
LEMMA Segments ==
  ASSUME NEW n \in Nat
  PROVE  /\ 1..0 = {}
         /\ \A i \in 0..n : 1..i \in SUBSET (1..n)
         /\ \A i \in 1..n : 1..i # {} /\ Max(1..i) = i /\ (1..i) \ {i} = 1..(i-1)
<1>1. ASSUME NEW i \in 1..n
      PROVE  Max(1..i) = i
  <2>1. i \in Nat /\ 1..i \in SUBSET (0..i) /\ 1..i # {} /\ i \in 1..i
    OBVIOUS
  <2>2. Max(1..i) \in 1..i /\ \A x \in 1..i : x <= Max(1..i)
    BY <2>1, MaxOf
  <2> QED
    BY <2>1, <2>2
<1>2. ASSUME NEW i \in 1..n
      PROVE  1..i # {} /\ (1..i) \ {i} = 1..(i-1)
  OBVIOUS
<1>3. 1..0 = {} /\ \A i \in 0..n : 1..i \in SUBSET (1..n)
  OBVIOUS
<1> QED
  BY <1>1, <1>2, <1>3

\* The lines that are kept of the first i lines.
KeepsTo(g, lines, S) ==
  /\ g \in [0..Len(lines) -> Seq(Seq(S))] /\ g[0] = <<>>
  /\ \A i \in 1..Len(lines) : g[i] = KeepLine(g[i-1], lines[i])

LEMMA KeepSteps ==
  ASSUME NEW S, NEW lines \in Seq(Seq(S))
  PROVE  \E g : KeepsTo(g, lines, S) /\ FoldLeft(KeepLine, <<>>, lines) = g[Len(lines)]
<1> DEFINE n == Len(lines)
           V == Seq(Seq(S))
           base == <<>>
           step == [i \in 1..n |-> [v \in V |-> KeepLine(v, lines[i])]]
           Is(it) == it = [x \in SUBSET DOMAIN lines |->
                             IF x = {} THEN <<>> ELSE KeepLine(it[x \ {Max(x)}], lines[Max(x)])]
           it0 == CHOOSE it : Is(it)
           g == [i \in 0..n |-> it0[1..i]]
<1>1. n \in Nat /\ DOMAIN lines = 1..n /\ \A i \in 1..n : lines[i] \in Seq(S)
  OBVIOUS
<1>2. base \in V
  OBVIOUS
<1>3. \A v \in V, i \in 1..n : KeepLine(v, lines[i]) \in V
  BY <1>1, KeepLineSpans
<1>4. step \in Steps(n, V)
  <2> HIDE DEF n, V
  <2> QED
    BY <1>3 DEF Steps
<1>5. PICK f : FoldsTo(f, base, step, n, V)
  <2> HIDE DEF n, V, step, base
  <2> QED
    BY <1>1, <1>2, <1>4, SetRecursion
<1>6. ASSUME NEW x \in SUBSET (1..n), x # {}
      PROVE  Max(x) \in 1..n /\ x \ {Max(x)} \in SUBSET (1..n)
  <2>1. x \in SUBSET (0..n)
    BY <1>1
  <2>2. Max(x) \in x
    BY <1>1, <1>6, <2>1, MaxOf
  <2> QED
    BY <2>2
<1>7. Is(f)
  <2> HIDE DEF V, n
  <2>1. f \in [SUBSET (1..n) -> V]
    BY <1>5 DEF FoldsTo
  <2>2. ASSUME NEW x \in SUBSET (1..n)
        PROVE  f[x] = IF x = {} THEN <<>> ELSE KeepLine(f[x \ {Max(x)}], lines[Max(x)])
    <3>1. f[x] = IF x = {} THEN base ELSE step[Max(x)][f[x \ {Max(x)}]]
      BY <1>5 DEF FoldsTo
    <3>2. CASE x = {}
      BY <3>1, <3>2
    <3>3. CASE x # {}
      <4>1. f[x \ {Max(x)}] \in V /\ Max(x) \in 1..n
        BY <1>6, <2>1, <3>3
      <4> DEFINE k == Max(x)
                 v == f[x \ {Max(x)}]
      <4> HIDE DEF k, v
      <4>2. step[k][v] = KeepLine(v, lines[k])
        BY <4>1 DEF k, v
      <4> QED
        BY <3>1, <3>3, <4>2 DEF k, v
    <3> QED
      BY <3>2, <3>3
  <2>3. f = [x \in SUBSET (1..n) |-> f[x]]
    BY <2>1
  <2>4. SUBSET DOMAIN lines = SUBSET (1..n)
    BY <1>1
  <2>5. [x \in SUBSET DOMAIN lines |-> f[x]]
          = [x \in SUBSET DOMAIN lines |->
               IF x = {} THEN <<>> ELSE KeepLine(f[x \ {Max(x)}], lines[Max(x)])]
    BY <2>2, <2>4
  <2> QED
    BY <2>3, <2>4, <2>5
<1>8. Is(it0)
  <2> HIDE DEF Is
  <2> QED
    BY <1>7
<1>9. FoldLeft(KeepLine, <<>>, lines) = it0[DOMAIN lines]
  BY DEF FoldLeft, MapThenFoldSet
<1> HIDE DEF it0, n
<1>10. \A x \in SUBSET (1..n) :
         it0[x] = IF x = {} THEN <<>> ELSE KeepLine(it0[x \ {Max(x)}], lines[Max(x)])
  <2>1. SUBSET DOMAIN lines = SUBSET (1..n)
    BY <1>1
  <2> QED
    BY <1>8, <2>1
<1>11. /\ 1..0 = {}
       /\ \A i \in 0..n : 1..i \in SUBSET (1..n)
       /\ \A i \in 1..n : 1..i # {} /\ Max(1..i) = i /\ (1..i) \ {i} = 1..(i-1)
  BY <1>1, Segments
<1>12. it0[1..0] = <<>>
  BY <1>1, <1>10, <1>11
<1>13. ASSUME NEW i \in 1..n
       PROVE  it0[1..i] = KeepLine(it0[1..(i-1)], lines[i])
  <2>1. 1..i \in SUBSET (1..n)
    BY <1>1, <1>11
  <2>2. it0[1..i] = KeepLine(it0[(1..i) \ {Max(1..i)}], lines[Max(1..i)])
    BY <1>10, <1>11, <2>1
  <2> QED
    BY <1>11, <2>2
<1> DEFINE T == {i \in 0..n : it0[1..i] \in V}
<1>14. \A i \in 0..n : i \in T
  <2>1. 0 \in T
    <3>1. 0 \in 0..n /\ it0[1..0] \in V
      BY <1>1, <1>2, <1>12
    <3> HIDE DEF V
    <3> QED
      BY <3>1
  <2>2. ASSUME NEW i \in 0..(n-1), i \in T
        PROVE  i + 1 \in T
    <3>1. i + 1 \in 1..n /\ (i + 1) - 1 = i /\ i + 1 \in 0..n
      BY <1>1
    <3> HIDE DEF V
    <3>2. it0[1..(i+1)] = KeepLine(it0[1..i], lines[i+1])
      BY <1>13, <3>1
    <3> QED
      BY <1>3, <2>2, <3>1, <3>2
  <2> HIDE DEF T
  <2> QED
    BY <1>1, <2>1, <2>2, Induct
<1>15. g \in [0..n -> V] /\ g[0] = <<>> /\ g[n] = it0[1..n]
  <2>1. \A i \in 0..n : it0[1..i] \in V
    BY <1>14
  <2>2. 0 \in 0..n /\ n \in 0..n
    BY <1>1
  <2> HIDE DEF V
  <2> QED
    BY <1>12, <2>1, <2>2
<1>16. ASSUME NEW i \in 1..n
       PROVE  g[i] = KeepLine(g[i-1], lines[i])
  <2>1. i - 1 \in 0..n /\ i \in 0..n
    BY <1>1
  <2> QED
    BY <1>13, <2>1
<1> HIDE DEF g
<1>17. KeepsTo(g, lines, S)
  BY <1>15, <1>16 DEF KeepsTo, n
<1>18. FoldLeft(KeepLine, <<>>, lines) = g[n]
  BY <1>1, <1>9, <1>15
<1> QED
  BY <1>17, <1>18 DEF n

LEMMA NormalizeType ==
  ASSUME NEW S, NEW s \in Seq(S)
  PROVE  Normalize(s) \in Seq(S)
<1>1. Lines(s) \in Seq(Seq(S))
  BY LinesOf
<1> DEFINE lines == Lines(s)
           fold == FoldLeft(KeepLine, <<>>, lines)
<1>2. fold \in Seq(Seq(S))
  <2> HIDE DEF lines
  <2>1. PICK g : KeepsTo(g, lines, S) /\ fold = g[Len(lines)]
    BY <1>1, KeepSteps DEF lines
  <2>2. Len(lines) \in 0..Len(lines)
    BY <1>1 DEF lines
  <2> HIDE DEF fold
  <2> QED
    BY <2>1, <2>2 DEF KeepsTo
<1>3. Normalize(s) = FlattenSeq(fold)
  BY DEF Normalize
<1> HIDE DEF fold
<1> QED
  BY <1>2, <1>3, FlattenFacts

-----------------------------------------------------------------------------
(* The terminal.                                                           *)

\* The cursor is in one of the rows.
Screens == {s \in [row : Nat, rows : Seq(Seq(Bytes))] : s.row \in 1..Len(s.rows)}

LEMMA DisplayDoes ==
  ASSUME NEW s \in Screens, NEW b \in Bytes
  PROVE  /\ Display(s, b) \in Screens
         /\ b = Text => /\ Display(s, b).row = s.row
                        /\ Len(Display(s, b).rows) = Len(s.rows)
                        /\ Display(s, b).rows[s.row] = Append(s.rows[s.row], b)
                        /\ \A j \in 1..Len(s.rows) : j # s.row => Display(s, b).rows[j] = s.rows[j]
         /\ b = Up => LET up == IF s.row = 1 THEN 1 ELSE s.row - 1 IN
                      /\ Display(s, b).row = up
                      /\ Len(Display(s, b).rows) = Len(s.rows)
                      /\ Display(s, b).rows[up] = <<>>
                      /\ \A j \in 1..Len(s.rows) : j # up => Display(s, b).rows[j] = s.rows[j]
         /\ b = NL => /\ Display(s, b).row = s.row + 1
                      /\ \A j \in 1..Len(s.rows) : Display(s, b).rows[j] = s.rows[j]
                      /\ \A j \in 1..Len(Display(s, b).rows) :
                           j > Len(s.rows) => Display(s, b).rows[j] = <<>>
                      /\ Len(s.rows) <= Len(Display(s, b).rows)
<1> DEFINE W == Seq(Bytes)
           rows == s.rows
           row == s.row
           l == Len(rows)
           d == Display(s, b)
<1>1. s = [row |-> row, rows |-> rows] /\ rows \in Seq(W) /\ row \in 1..l /\ l \in Nat /\ row \in Nat
  BY DEF Screens
<1>2. Text # NL /\ Text # Up /\ NL # Up
  BY DEF Text, NL, Up
<1>3. \A j \in 1..l : rows[j] \in W
  <2> HIDE DEF W, rows
  <2> QED
    BY <1>1
<1>4. ASSUME NEW x \in W, NEW k \in 1..l
      PROVE  LET e == [rows EXCEPT ![k] = x] IN
             /\ e \in Seq(W) /\ Len(e) = l /\ e[k] = x
             /\ \A j \in 1..l : j # k => e[j] = rows[j]
  <2> DEFINE e == [rows EXCEPT ![k] = x]
  <2> HIDE DEF W, rows, l
  <2>1. DOMAIN rows = 1..l /\ rows \in [1..l -> W]
    BY <1>1 DEF l
  <2>2. e \in [1..l -> W] /\ e[k] = x /\ \A j \in 1..l : j # k => e[j] = rows[j]
    BY <2>1
  <2> HIDE DEF e
  <2>3. e \in Seq(W) /\ Len(e) = l
    <3>1. l \in Nat /\ e \in [1..l -> W]
      BY <1>1, <2>2
    <3> QED
      BY <3>1
  <2> QED
    BY <2>2, <2>3 DEF e
<1>5. CASE b = Text
  <2> DEFINE x == Append(rows[row], b)
             e == [rows EXCEPT ![row] = x]
  <2>1. x \in W
    <3>1. rows[row] \in Seq(Bytes)
      BY <1>1, <1>3
    <3> DEFINE y == rows[row]
    <3> HIDE DEF y
    <3>2. Append(y, b) \in Seq(Bytes)
      BY <3>1, AppendProperties DEF y
    <3> QED
      BY <3>2 DEF y
  <2>2. d = [s EXCEPT !.rows[s.row] = Append(@, b)]
    BY <1>2, <1>5 DEF Display
  <2>3. d = [row |-> row, rows |-> e]
    BY <1>1, <2>2
  <2> HIDE DEF x, W
  <2>4. e \in Seq(W) /\ Len(e) = l /\ e[row] = x /\ \A j \in 1..l : j # row => e[j] = rows[j]
    BY <1>1, <1>4, <2>1
  <2> HIDE DEF e, d
  <2>5. d.row = row /\ d.rows = e
    BY <2>3
  <2>6. d \in Screens
    BY <1>1, <2>3, <2>4 DEF Screens, W
  <2> QED
    BY <1>2, <1>5, <2>4, <2>5, <2>6 DEF d, x
<1>6. CASE b = Up
  <2> DEFINE up == IF row = 1 THEN 1 ELSE row - 1
             e == [rows EXCEPT ![up] = <<>>]
  <2>1. Max({1, row - 1}) = up
    <3>1. \E y \in {1, row - 1} : \A z \in {1, row - 1} : y >= z
      BY <1>1
    <3>2. Max({1, row - 1}) \in {1, row - 1} /\ Max({1, row - 1}) >= 1 /\ Max({1, row - 1}) >= row - 1
      BY <3>1 DEF Max
    <3> QED
      BY <1>1, <3>2
  <2>2. d = [row |-> up, rows |-> e]
    BY <1>2, <1>6, <2>1 DEF Display
  <2>3. up \in 1..l /\ up \in Nat /\ <<>> \in W
    BY <1>1
  <2> HIDE DEF up, W
  <2>4. e \in Seq(W) /\ Len(e) = l /\ e[up] = <<>> /\ \A j \in 1..l : j # up => e[j] = rows[j]
    BY <1>4, <2>3
  <2> HIDE DEF e, d
  <2>5. d.row = up /\ d.rows = e
    BY <2>2
  <2>6. d \in Screens
    BY <2>2, <2>3, <2>4 DEF Screens, W
  <2> QED
    BY <1>2, <1>6, <2>4, <2>5, <2>6 DEF d, up
<1>7. CASE b = NL
  <2> DEFINE m == Max({row + 1, l})
             e == [j \in 1..m |-> IF j \in DOMAIN rows THEN rows[j] ELSE <<>>]
  <2>1. m \in Nat /\ row + 1 <= m /\ l <= m
    <3>1. \E y \in {row + 1, l} : \A z \in {row + 1, l} : y >= z
      BY <1>1
    <3>2. m \in {row + 1, l} /\ m >= row + 1 /\ m >= l
      BY <3>1 DEF Max
    <3> QED
      BY <1>1, <3>2
  <2>2. d = [row |-> row + 1, rows |-> e]
    BY <1>2, <1>7 DEF Display
  <2>3. DOMAIN rows = 1..l
    BY <1>1
  <2> HIDE DEF m, d, W, l
  <2>4. e \in [1..m -> W]
    <3>1. <<>> \in W
      BY DEF W
    <3> QED
      BY <1>3, <2>3, <3>1
  <2>5. (\A j \in 1..l : e[j] = rows[j]) /\ (\A j \in 1..m : j > l => e[j] = <<>>)
    BY <1>1, <2>1, <2>3
  <2> HIDE DEF e
  <2>6. e \in Seq(W) /\ Len(e) = m
    BY <2>1, <2>4
  <2>7. d.row = row + 1 /\ d.rows = e
    BY <2>2
  <2>8. d \in Screens
    BY <1>1, <2>1, <2>2, <2>6 DEF Screens, W
  <2> QED
    BY <1>2, <1>7, <2>1, <2>5, <2>6, <2>7, <2>8 DEF d, l
<1> QED
  BY <1>5, <1>6, <1>7 DEF Bytes

\* The screens after the first i bytes.
Blank == [row |-> 1, rows |-> << <<>> >>]

DisplaysTo(g, s) ==
  /\ g \in [0..Len(s) -> Screens] /\ g[0] = Blank
  /\ \A i \in 1..Len(s) : g[i] = Display(g[i-1], s[i])

LEMMA DisplaySteps ==
  ASSUME NEW s \in Seq(Bytes)
  PROVE  \E g : DisplaysTo(g, s) /\ FoldLeft(Display, Blank, s) = g[Len(s)]
<1> DEFINE n == Len(s)
           V == Screens
           base == Blank
           step == [i \in 1..n |-> [v \in V |-> Display(v, s[i])]]
           Is(it) == it = [x \in SUBSET DOMAIN s |->
                             IF x = {} THEN Blank ELSE Display(it[x \ {Max(x)}], s[Max(x)])]
           it0 == CHOOSE it : Is(it)
           g == [i \in 0..n |-> it0[1..i]]
<1>1. n \in Nat /\ DOMAIN s = 1..n /\ \A i \in 1..n : s[i] \in Bytes
  OBVIOUS
<1>2. base \in V
  <2> DEFINE q == << <<>> >>
  <2>1. q \in Seq(Seq(Bytes)) /\ Len(q) = 1
    OBVIOUS
  <2>2. base = [row |-> 1, rows |-> q]
    BY DEF Blank
  <2> HIDE DEF q, base
  <2>3. base \in [row : Nat, rows : Seq(Seq(Bytes))] /\ base.row = 1 /\ base.rows = q
    BY <2>1, <2>2
  <2>4. base.row \in 1..Len(base.rows)
    <3>1. Len(base.rows) = 1
      BY <2>1, <2>3
    <3> QED
      BY <2>3, <3>1
  <2> QED
    BY <2>3, <2>4 DEF Screens
<1>3. \A v \in V, i \in 1..n : Display(v, s[i]) \in V
  BY <1>1, DisplayDoes
<1>4. step \in Steps(n, V)
  <2> HIDE DEF n, V
  <2> QED
    BY <1>3 DEF Steps
<1>5. PICK f : FoldsTo(f, base, step, n, V)
  <2> HIDE DEF n, V, step, base
  <2> QED
    BY <1>1, <1>2, <1>4, SetRecursion
<1>6. ASSUME NEW x \in SUBSET (1..n), x # {}
      PROVE  Max(x) \in 1..n /\ x \ {Max(x)} \in SUBSET (1..n)
  <2>1. x \in SUBSET (0..n)
    BY <1>1
  <2>2. Max(x) \in x
    BY <1>1, <1>6, <2>1, MaxOf
  <2> QED
    BY <2>2
<1>7. Is(f)
  <2> HIDE DEF V, n
  <2>1. f \in [SUBSET (1..n) -> V]
    BY <1>5 DEF FoldsTo
  <2>2. ASSUME NEW x \in SUBSET (1..n)
        PROVE  f[x] = IF x = {} THEN Blank ELSE Display(f[x \ {Max(x)}], s[Max(x)])
    <3>1. f[x] = IF x = {} THEN base ELSE step[Max(x)][f[x \ {Max(x)}]]
      BY <1>5 DEF FoldsTo
    <3>2. CASE x = {}
      BY <3>1, <3>2
    <3>3. CASE x # {}
      <4>1. f[x \ {Max(x)}] \in V /\ Max(x) \in 1..n
        BY <1>6, <2>1, <3>3
      <4> DEFINE k == Max(x)
                 v == f[x \ {Max(x)}]
      <4> HIDE DEF k, v
      <4>2. step[k][v] = Display(v, s[k])
        BY <4>1 DEF k, v
      <4> QED
        BY <3>1, <3>3, <4>2 DEF k, v
    <3> QED
      BY <3>2, <3>3
  <2>3. f = [x \in SUBSET (1..n) |-> f[x]]
    BY <2>1
  <2>4. SUBSET DOMAIN s = SUBSET (1..n)
    BY <1>1
  <2>5. [x \in SUBSET DOMAIN s |-> f[x]]
          = [x \in SUBSET DOMAIN s |->
               IF x = {} THEN Blank ELSE Display(f[x \ {Max(x)}], s[Max(x)])]
    BY <2>2, <2>4
  <2> QED
    BY <2>3, <2>4, <2>5
<1>8. Is(it0)
  <2> HIDE DEF Is
  <2> QED
    BY <1>7
<1>9. FoldLeft(Display, Blank, s) = it0[DOMAIN s]
  BY DEF FoldLeft, MapThenFoldSet
<1> HIDE DEF it0, n
<1>10. \A x \in SUBSET (1..n) :
         it0[x] = IF x = {} THEN Blank ELSE Display(it0[x \ {Max(x)}], s[Max(x)])
  <2>1. SUBSET DOMAIN s = SUBSET (1..n)
    BY <1>1
  <2> QED
    BY <1>8, <2>1
<1>11. /\ 1..0 = {}
       /\ \A i \in 0..n : 1..i \in SUBSET (1..n)
       /\ \A i \in 1..n : 1..i # {} /\ Max(1..i) = i /\ (1..i) \ {i} = 1..(i-1)
  BY <1>1, Segments
<1>12. it0[1..0] = Blank
  BY <1>1, <1>10, <1>11
<1>13. ASSUME NEW i \in 1..n
       PROVE  it0[1..i] = Display(it0[1..(i-1)], s[i])
  <2>1. 1..i \in SUBSET (1..n)
    BY <1>1, <1>11
  <2>2. it0[1..i] = Display(it0[(1..i) \ {Max(1..i)}], s[Max(1..i)])
    BY <1>10, <1>11, <2>1
  <2> QED
    BY <1>11, <2>2
<1> DEFINE T == {i \in 0..n : it0[1..i] \in V}
<1>14. \A i \in 0..n : i \in T
  <2>1. 0 \in T
    <3>1. 0 \in 0..n /\ it0[1..0] \in V
      BY <1>1, <1>2, <1>12
    <3> HIDE DEF V
    <3> QED
      BY <3>1
  <2>2. ASSUME NEW i \in 0..(n-1), i \in T
        PROVE  i + 1 \in T
    <3>1. i + 1 \in 1..n /\ (i + 1) - 1 = i /\ i + 1 \in 0..n
      BY <1>1
    <3> HIDE DEF V
    <3>2. it0[1..(i+1)] = Display(it0[1..i], s[i+1])
      BY <1>13, <3>1
    <3> QED
      BY <1>3, <2>2, <3>1, <3>2
  <2> HIDE DEF T
  <2> QED
    BY <1>1, <2>1, <2>2, Induct
<1>15. g \in [0..n -> V] /\ g[0] = Blank /\ g[n] = it0[1..n]
  <2>1. \A i \in 0..n : it0[1..i] \in V
    BY <1>14
  <2>2. 0 \in 0..n /\ n \in 0..n
    BY <1>1
  <2> HIDE DEF V
  <2> QED
    BY <1>12, <2>1, <2>2
<1>16. ASSUME NEW i \in 1..n
       PROVE  g[i] = Display(g[i-1], s[i])
  <2>1. i - 1 \in 0..n /\ i \in 0..n
    BY <1>1
  <2> QED
    BY <1>13, <2>1
<1> HIDE DEF g
<1>17. DisplaysTo(g, s)
  BY <1>15, <1>16 DEF DisplaysTo, n
<1>18. FoldLeft(Display, Blank, s) = g[n]
  BY <1>1, <1>9, <1>15
<1> QED
  BY <1>17, <1>18 DEF n

\* The rows that are left of those kept when a line begins with m escape sequences.
RowsLeft(kept, m) == IF m <= Len(kept) THEN Len(kept) - m ELSE 0

LEMMA KeptOfLine ==
  ASSUME NEW kept \in Seq(Seq(Bytes)), NEW s \in Seq(Bytes),
         NEW e \in 0..Len(s), NEW b \in 0..Len(s), e <= b, NEW m \in 0..(b - e),
         \A j \in 1..m : s[e + j] = Up,
         \A j \in (e + m + 1)..b : s[j] # Up
  PROVE  KeepLine(kept, SubSeq(s, e + 1, b))
           = Append(SubSeq(kept, 1, RowsLeft(kept, m)), SubSeq(s, e + m + 1, b))
<1> DEFINE line == SubSeq(s, e + 1, b)
           ups == Positions(Up, line)
           l == b - e
<1>1. Len(s) \in Nat /\ Len(kept) \in Nat /\ l \in Nat /\ m \in Nat /\ m <= l
  OBVIOUS
<1>2. line \in Seq(Bytes) /\ Len(line) = l /\ \A i \in 1..l : line[i] = s[e + i]
  BY <1>1, PieceFacts
<1>3. DOMAIN line = 1..l
  BY <1>2
<1>4. ups = 1..m
  <2>1. \A i \in 1..l : line[i] = Up <=> i <= m
    <3> SUFFICES ASSUME NEW i \in 1..l PROVE line[i] = Up <=> i <= m
      OBVIOUS
    <3>1. CASE i <= m
      <4>1. i \in 1..m
        BY <3>1, <1>1
      <4> QED
        BY <4>1, <3>1, <1>2
    <3>2. CASE ~(i <= m)
      <4>1. e + i \in (e + m + 1)..b
        BY <3>2, <1>1
      <4> QED
        BY <4>1, <3>2, <1>2
    <3> QED
      BY <3>1, <3>2
  <2>2. ups = {i \in DOMAIN line : line[i] = Up}
    BY DEF Positions
  <2> HIDE DEF line, l, ups
  <2> QED
    BY <2>1, <2>2, <1>3, <1>1
<1>5. Cardinality(ups) = m
  <2>1. Cardinality(1..m) = IF 1 > m THEN 0 ELSE m - 1 + 1
    BY <1>1, FS_Interval
  <2> QED
    BY <2>1, <1>1, <1>4
<1>6. SubSeq(line, m + 1, l) = SubSeq(s, e + m + 1, b)
  <2> DEFINE x == m
             y == l
  <2>1. x \in 0..(b - e) /\ y \in 0..(b - e) /\ x <= y /\ e + y = b /\ (e + x) + 1 = e + m + 1
    BY <1>1
  <2>2. SubSeq(SubSeq(s, e + 1, b), x + 1, y) = SubSeq(s, (e + x) + 1, e + y)
    <3> HIDE DEF x, y
    <3> QED
      BY <2>1, PieceOfPiece
  <2> QED
    BY <2>1, <2>2
<1>7. (IF ups = {} THEN 1 ELSE Max(ups) + 1) = m + 1
  <2>1. CASE m = 0
    BY <2>1, <1>4
  <2>2. CASE m # 0
    <3>1. m \in 1..m
      BY <2>2, <1>1
    <3>2. 1..m # {} /\ Max(1..m) = m
      BY <3>1, <1>1, Segments
    <3> QED
      BY <3>2, <1>4
  <2> QED
    BY <2>1, <2>2
<1>8. SubSeq(kept, 1, Len(kept) - m) = SubSeq(kept, 1, RowsLeft(kept, m))
  <2>1. CASE m <= Len(kept)
    BY <2>1 DEF RowsLeft
  <2>2. CASE ~(m <= Len(kept))
    <3>1. 1..(Len(kept) - m) = {} /\ 1..0 = {}
      BY <2>2, <1>1
    <3> QED
      BY <2>2, <3>1 DEF RowsLeft
  <2> QED
    BY <2>1, <2>2
<1> HIDE DEF line, ups, l
<1>9. KeepLine(kept, line) = Append(SubSeq(kept, 1, Len(kept) - m), SubSeq(line, m + 1, l))
  BY <1>2, <1>5, <1>7 DEF KeepLine, ups
<1> QED
  BY <1>9, <1>8, <1>6 DEF line

\* How a screen corresponds to the lines kept when the bytes up to e are whole lines,
\* and those up to i have m escape sequences and then text.
Follows(s, kept, screen, e, i, m) ==
  /\ m \in 0..(i - e)
  /\ \A j \in 1..m : s[e + j] = Up
  /\ \A j \in (e + m + 1)..i : s[j] = Text
  /\ screen.row = RowsLeft(kept, m) + 1
  /\ \A j \in 1..RowsLeft(kept, m) : Append(screen.rows[j], NL) = kept[j]
  /\ \A j \in 1..Len(screen.rows) : j > screen.row => screen.rows[j] = <<>>
  /\ screen.rows[screen.row] = SubSeq(s, e + m + 1, i)

LEMMA ScreenType ==
  ASSUME NEW screen \in Screens
  PROVE  /\ screen.row \in Nat /\ screen.rows \in Seq(Seq(Bytes))
         /\ Len(screen.rows) \in Nat /\ screen.row \in 1..Len(screen.rows)
BY DEF Screens

LEMMA TextFollows ==
  ASSUME NEW s \in Seq(Bytes), NEW kept \in Seq(Seq(Bytes)), NEW screen \in Screens,
         NEW e \in 0..Len(s), NEW i \in 0..(Len(s) - 1), e <= i, NEW m,
         Follows(s, kept, screen, e, i, m), s[i + 1] = Text
  PROVE  Follows(s, kept, Display(screen, Text), e, i + 1, m)
<1> DEFINE next == Display(screen, Text)
           r == screen.row
<1>1. Len(s) \in Nat /\ i \in Nat /\ e \in Nat /\ i + 1 \in 0..Len(s) /\ Text \in Bytes
  BY DEF Bytes
<1>2. m \in 0..(i - e) /\ m \in Nat /\ RowsLeft(kept, m) \in Nat
  BY <1>1 DEF Follows, RowsLeft
<1>3. /\ next.row = r
      /\ Len(next.rows) = Len(screen.rows)
      /\ next.rows[r] = Append(screen.rows[r], Text)
      /\ \A j \in 1..Len(screen.rows) : j # r => next.rows[j] = screen.rows[j]
  BY <1>1, DisplayDoes
<1>4. r \in Nat /\ Len(screen.rows) \in Nat /\ r \in 1..Len(screen.rows)
  BY ScreenType
<1> HIDE DEF next
<1>5. m \in 0..((i + 1) - e)
  BY <1>1, <1>2
<1>6. \A j \in 1..m : s[e + j] = Up
  BY DEF Follows
<1>7. \A j \in (e + m + 1)..(i + 1) : s[j] = Text
  <2>1. \A j \in (e + m + 1)..(i + 1) : j = i + 1 \/ j \in (e + m + 1)..i
    BY <1>1, <1>2
  <2> QED
    BY <2>1 DEF Follows
<1>8. next.row = RowsLeft(kept, m) + 1
  BY <1>3 DEF Follows
<1>9. \A j \in 1..RowsLeft(kept, m) : Append(next.rows[j], NL) = kept[j]
  <2>1. r = RowsLeft(kept, m) + 1
    BY DEF Follows
  <2>2. \A j \in 1..RowsLeft(kept, m) : j \in 1..Len(screen.rows) /\ j # r
    <3> DEFINE n == RowsLeft(kept, m)
               l == Len(screen.rows)
    <3>1. n \in Nat /\ l \in Nat /\ r = n + 1 /\ r <= l
      BY <2>1, <1>2, <1>4
    <3> HIDE DEF n, l, r
    <3>2. \A j \in 1..n : j \in 1..l /\ j # r
      BY <3>1
    <3> QED
      BY <3>2 DEF n, l, r
  <2> QED
    BY <2>2, <1>3 DEF Follows
<1>10. \A j \in 1..Len(next.rows) : j > next.row => next.rows[j] = <<>>
  <2>1. \A j \in 1..Len(screen.rows) : j > r => j # r
    BY <1>4
  <2> QED
    BY <2>1, <1>3 DEF Follows
<1>11. next.rows[next.row] = SubSeq(s, e + m + 1, i + 1)
  <2>1. screen.rows[r] = SubSeq(s, e + m + 1, i)
    BY DEF Follows
  <2> DEFINE b == e + m + 1
  <2>2. b \in 1..(i + 1)
    BY <1>1, <1>2
  <2>3. Append(SubSeq(s, b, i), s[i + 1]) = SubSeq(s, b, i + 1)
    <3> HIDE DEF b
    <3> QED
      BY <2>2, <1>1
  <2> QED
    BY <2>1, <2>3, <1>3
<1> QED
  BY <1>5, <1>6, <1>7, <1>8, <1>9, <1>10, <1>11 DEF Follows, next

LEMMA UpFollows ==
  ASSUME NEW s \in Seq(Bytes), NEW kept \in Seq(Seq(Bytes)), NEW screen \in Screens,
         NEW e \in 0..Len(s), NEW i \in 0..(Len(s) - 1), e <= i, NEW m,
         Follows(s, kept, screen, e, i, m), s[i + 1] = Up, i = 0 \/ s[i] # Text
  PROVE  Follows(s, kept, Display(screen, Up), e, i + 1, m + 1)
<1> DEFINE next == Display(screen, Up)
           r == screen.row
           l == Len(screen.rows)
           c == Len(kept)
           n == RowsLeft(kept, m)
           up == IF r = 1 THEN 1 ELSE r - 1
<1>1. Len(s) \in Nat /\ i \in Nat /\ e \in Nat /\ i + 1 \in 0..Len(s) /\ Up \in Bytes
      /\ c \in Nat
  BY DEF Bytes
<1>2. m \in 0..(i - e) /\ m \in Nat /\ n \in Nat /\ n = IF m <= c THEN c - m ELSE 0
  BY <1>1 DEF Follows, RowsLeft
<1>3. e + m = i
  <2>1. CASE e + m + 1 <= i
    <3>1. i \in (e + m + 1)..i /\ i # 0
      BY <2>1, <1>1, <1>2
    <3> QED
      BY <3>1 DEF Follows, Text
  <2> QED
    BY <2>1, <1>1, <1>2
<1>4. /\ next.row = up
      /\ Len(next.rows) = l
      /\ next.rows[up] = <<>>
      /\ \A j \in 1..l : j # up => next.rows[j] = screen.rows[j]
  BY <1>1, DisplayDoes
<1>5. r \in Nat /\ l \in Nat /\ 1 <= r /\ r <= l
  BY ScreenType
<1>6. r = n + 1
  BY DEF Follows
<1> DEFINE k == RowsLeft(kept, m + 1)
<1>7. k \in Nat /\ k + 1 = up /\ k <= n
  <2>1. k = IF m + 1 <= c THEN c - (m + 1) ELSE 0
    BY DEF RowsLeft
  <2> HIDE DEF n, r, c, k
  <2>2. CASE m + 1 <= c
    BY <2>1, <2>2, <1>1, <1>2, <1>5, <1>6
  <2>3. CASE ~(m + 1 <= c)
    <3>1. n = 0 /\ k = 0
      BY <2>1, <2>3, <1>1, <1>2
    <3> QED
      BY <3>1, <1>6
  <2> QED
    BY <2>2, <2>3
<1>8. SubSeq(s, e + m + 1, i) = <<>> /\ SubSeq(s, e + (m + 1) + 1, i + 1) = <<>>
  BY <1>1, <1>2, <1>3
<1>9. m + 1 \in 0..((i + 1) - e)
  BY <1>1, <1>2
<1>10. \A j \in 1..(m + 1) : s[e + j] = Up
  <2>1. \A j \in 1..(m + 1) : j \in 1..m \/ j = m + 1
    BY <1>2
  <2>2. e + (m + 1) = i + 1
    BY <1>1, <1>2, <1>3
  <2> QED
    BY <2>1, <2>2 DEF Follows
<1>11. \A j \in (e + (m + 1) + 1)..(i + 1) : s[j] = Text
  BY <1>1, <1>2, <1>3
<1>12. \A j \in 1..k : Append(next.rows[j], NL) = kept[j]
  <2>1. \A j \in 1..k : j \in 1..n /\ j \in 1..l /\ j # up
    <3> HIDE DEF k, n, l, r, up
    <3>1. k \in Nat /\ n \in Nat /\ l \in Nat /\ k <= n /\ n <= l /\ up = k + 1
      BY <1>2, <1>5, <1>6, <1>7
    <3>2. ASSUME NEW j \in 1..k
          PROVE  j \in 1..n /\ j \in 1..l /\ j # up
      <4>1. j \in Nat /\ 1 <= j /\ j <= k
        BY <3>1
      <4> QED
        BY <3>1, <4>1
    <3> QED
      BY <3>2
  <2> QED
    BY <2>1, <1>4 DEF Follows
<1>13. \A j \in 1..Len(next.rows) : j > next.row => next.rows[j] = <<>>
  <2>1. \A j \in 1..l : j > up => j # up /\ (j > r \/ j = r)
    <3> HIDE DEF n, l, r
    <3> QED
      BY <1>5
  <2>2. screen.rows[r] = <<>>
    BY <1>8 DEF Follows
  <2>3. \A j \in 1..l : j > r => screen.rows[j] = <<>>
    BY DEF Follows
  <2> HIDE DEF next, l, r, up
  <2> QED
    BY <2>1, <2>2, <2>3, <1>4
<1>14. next.rows[next.row] = SubSeq(s, e + (m + 1) + 1, i + 1)
  BY <1>4, <1>8
<1>15. next.row = RowsLeft(kept, m + 1) + 1
  BY <1>4, <1>7
<1> HIDE DEF next, r, l, c, n, up
<1> QED
  BY <1>9, <1>10, <1>11, <1>12, <1>13, <1>14, <1>15 DEF Follows, next

\* When a line ends, it is kept, and the screen has it.
LEMMA NewlineFollows ==
  ASSUME NEW s \in Seq(Bytes), NEW kept \in Seq(Seq(Bytes)), NEW screen \in Screens,
         NEW e \in 0..Len(s), NEW i \in 0..(Len(s) - 1), e <= i, NEW m,
         Follows(s, kept, screen, e, i, m), s[i + 1] = NL
  PROVE  Follows(s, KeepLine(kept, SubSeq(s, e + 1, i + 1)), Display(screen, NL), i + 1, i + 1, 0)
<1> DEFINE next == Display(screen, NL)
           r == screen.row
           l == Len(screen.rows)
           n == RowsLeft(kept, m)
           line == SubSeq(s, e + m + 1, i + 1)
           then == Append(SubSeq(kept, 1, n), line)
<1>1. Len(s) \in Nat /\ i \in Nat /\ e \in Nat /\ i + 1 \in 0..Len(s) /\ NL \in Bytes
      /\ Len(kept) \in Nat
  BY DEF Bytes
<1>2. m \in 0..(i - e) /\ m \in Nat /\ n \in Nat /\ n <= Len(kept)
  BY <1>1 DEF Follows, RowsLeft
<1>3. KeepLine(kept, SubSeq(s, e + 1, i + 1)) = then
  <2> DEFINE b == i + 1
  <2>1. b \in 0..Len(s) /\ e <= b /\ m \in 0..(b - e)
    BY <1>1, <1>2
  <2>2. \A j \in (e + m + 1)..b : s[j] # Up
    <3>1. \A j \in (e + m + 1)..b : j = i + 1 \/ j \in (e + m + 1)..i
      BY <1>1, <1>2
    <3>2. NL # Up /\ Text # Up
      BY DEF NL, Up, Text
    <3> QED
      BY <3>1, <3>2 DEF Follows
  <2>3. \A j \in 1..m : s[e + j] = Up
    BY DEF Follows
  <2> HIDE DEF b
  <2>4. KeepLine(kept, SubSeq(s, e + 1, b)) = Append(SubSeq(kept, 1, RowsLeft(kept, m)), SubSeq(s, e + m + 1, b))
    BY <2>1, <2>2, <2>3, KeptOfLine
  <2> QED
    BY <2>4 DEF b
<1>4. /\ then \in Seq(Seq(Bytes)) /\ Len(then) = n + 1
      /\ \A j \in 1..n : then[j] = kept[j]
      /\ then[n + 1] = line
  <2> DEFINE W == Seq(Bytes)
             front == SubSeq(kept, 1, n)
  <2>1. line \in W
    <3> DEFINE a == e + m
               b == i + 1
    <3>1. a \in 0..Len(s) /\ b \in 0..Len(s)
      BY <1>1, <1>2
    <3> HIDE DEF a, b
    <3>2. SubSeq(s, a + 1, b) \in Seq(Bytes)
      BY <3>1, PieceFacts
    <3> QED
      BY <3>2 DEF a, b
  <2> HIDE DEF W, n, line
  <2>2. kept \in Seq(W)
    BY DEF W
  <2>3. front \in Seq(W) /\ Len(front) = n /\ \A j \in 1..n : front[j] = kept[j]
    <3>1. n <= Len(kept) /\ n \in Nat
      BY <1>2
    <3>2. front \in Seq(W)
      BY <3>1, <2>2
    <3>3. Len(front) = n
      BY <3>1, <2>2
    <3>4. \A j \in 1..n : front[j] = kept[j]
      BY <3>1, <2>2
    <3> QED
      BY <3>2, <3>3, <3>4
  <2> HIDE DEF front
  <2>4. Append(front, line) \in Seq(W) /\ Len(Append(front, line)) = n + 1
        /\ (\A j \in 1..n : Append(front, line)[j] = front[j])
        /\ Append(front, line)[n + 1] = line
    BY <1>2, <2>1, <2>3
  <2> QED
    BY <2>3, <2>4 DEF W, front
<1>5. RowsLeft(then, 0) = n + 1
  BY <1>2, <1>4 DEF RowsLeft
<1>6. /\ next.row = r + 1
      /\ \A j \in 1..l : next.rows[j] = screen.rows[j]
      /\ \A j \in 1..Len(next.rows) : j > l => next.rows[j] = <<>>
      /\ l <= Len(next.rows)
  BY <1>1, DisplayDoes
<1>7. next \in Screens /\ next.row \in 1..Len(next.rows) /\ Len(next.rows) \in Nat
  BY <1>1, DisplayDoes, ScreenType
<1>8. r \in Nat /\ l \in Nat /\ 1 <= r /\ r <= l
  BY ScreenType
<1>9. r = n + 1
  BY DEF Follows
<1>10. \A j \in 1..Len(next.rows) : j > r => next.rows[j] = <<>>
  <2>1. \A j \in 1..l : j > r => screen.rows[j] = <<>>
    BY DEF Follows
  <2>2. \A j \in 1..Len(next.rows) : j \in 1..l \/ j > l
    BY <1>7, <1>8
  <2> HIDE DEF next, l, r
  <2> QED
    BY <2>1, <2>2, <1>6
<1>11. line = Append(screen.rows[r], NL)
  <2> DEFINE b == e + m + 1
  <2>1. b \in 1..(i + 1)
    BY <1>1, <1>2
  <2>2. Append(SubSeq(s, b, i), s[i + 1]) = SubSeq(s, b, i + 1)
    <3> HIDE DEF b
    <3> QED
      BY <2>1, <1>1
  <2>3. screen.rows[r] = SubSeq(s, e + m + 1, i)
    BY DEF Follows
  <2> QED
    BY <2>2, <2>3
<1>12. \A j \in 1..(n + 1) : Append(next.rows[j], NL) = then[j]
  <2>1. \A j \in 1..(n + 1) : j \in 1..l /\ (j \in 1..n \/ j = r)
    <3> HIDE DEF n, l, r
    <3> QED
      BY <1>2, <1>8, <1>9
  <2>2. \A j \in 1..n : Append(screen.rows[j], NL) = kept[j]
    BY DEF Follows
  <2> HIDE DEF next, l, r, n, then, line
  <2> QED
    BY <2>1, <2>2, <1>4, <1>6, <1>9, <1>11
<1>13. \A j \in 1..Len(next.rows) : j > next.row => next.rows[j] = <<>>
  <2> HIDE DEF next, l, r
  <2>1. \A j \in 1..Len(next.rows) : j > r + 1 => j > r
    BY <1>8
  <2> QED
    BY <2>1, <1>6, <1>10
<1>14. next.rows[next.row] = <<>>
  <2> HIDE DEF next, l, r
  <2>1. next.row > r
    BY <1>6, <1>8
  <2> QED
    BY <2>1, <1>7, <1>10
<1>15. SubSeq(s, i + 1 + 0 + 1, i + 1) = <<>>
  BY <1>1
<1>16. 0 \in 0..((i + 1) - (i + 1)) /\ (\A j \in 1..0 : s[i + 1 + j] = Up)
       /\ \A j \in (i + 1 + 0 + 1)..(i + 1) : s[j] = Text
  BY <1>1
<1> HIDE DEF next, l, r, n, then, line
<1>17. Follows(s, then, next, i + 1, i + 1, 0)
  BY <1>5, <1>6, <1>9, <1>12, <1>13, <1>14, <1>15, <1>16 DEF Follows
<1> QED
  BY <1>3, <1>17 DEF next

\* There is a line for each position, and it begins at or before the position.
LEMMA LineBegun ==
  ASSUME NEW S, NEW s \in Seq(S), NEW i \in 0..(Len(s) - 1)
  PROVE  /\ LineOf(s, i + 1) \in Nat
         /\ LineOf(s, i + 1) + 1 <= Len(Lines(s))
         /\ EndOf(s, LineOf(s, i + 1)) <= i
<1> DEFINE k == LineOf(s, i + 1)
           e == EndOf(s, k)
<1>1. Len(s) \in Nat /\ i + 1 \in 1..Len(s) /\ i + 1 \in 1..(Len(s) + 1) /\ i \in Nat
  OBVIOUS
<1>2. k \in Nat
  BY <1>1, LineSteps
<1> HIDE DEF k
<1>3. e \in 0..Len(s) /\ \A j \in 1..Len(s) : j <= e <=> LineOf(s, j) < k
  <2>1. IsEnd(s, k, EndOf(s, k))
    BY <1>2, EndExists
  <2> QED
    BY <2>1 DEF IsEnd
<1> HIDE DEF e
<1>4. ~(i + 1 <= e)
  <2>1. i + 1 <= e <=> LineOf(s, i + 1) < k
    BY <1>1, <1>3
  <2>2. ~(k < k)
    BY <1>2
  <2> QED
    BY <2>1, <2>2 DEF k
<1>5. e <= i
  BY <1>1, <1>3, <1>4
<1>6. Len(Lines(s)) \in Nat /\ (Len(Lines(s)) <= k => e = Len(s))
  <2>1. Len(Lines(s)) \in Nat /\ \A l \in Nat : Len(Lines(s)) <= l => EndOf(s, l) = Len(s)
    BY LinesOf
  <2> QED
    BY <2>1, <1>2 DEF e
<1>7. k + 1 <= Len(Lines(s))
  BY <1>1, <1>2, <1>5, <1>6
<1> QED
  BY <1>2, <1>5, <1>7 DEF k, e

\* No line is after the one that ends with the text.
LEMMA LastLine ==
  ASSUME NEW S, NEW s \in Seq(S), NEW k \in Nat \ {0}, EndOf(s, k) = Len(s)
  PROVE  Len(Lines(s)) <= k
<1> DEFINE P == Positions(NL, s) \cup ({Len(s)} \ {0})
           ends == InOrder(s, P)
           n == Len(Lines(s))
<1> SUFFICES ASSUME ~(n <= k) PROVE FALSE
  OBVIOUS
<1>1. Len(s) \in Nat /\ n \in Nat /\ n \in 1..n /\ k \in 1..n
  <2>1. Len(s) \in Nat /\ n \in Nat
    BY LinesOf
  <2> HIDE DEF n
  <2> QED
    BY <2>1
<1>2. P \in SUBSET (1..Len(s))
  BY <1>1 DEF Positions
<1>3. \A j \in 1..n : EndOf(s, j) = ends[j]
  BY LinesOf
<1>4. n = Cardinality(P)
  <2>1. DOMAIN ends = 1..Cardinality(P) /\ Len(ends) = Cardinality(P)
    BY <1>2, InOrderOf
  <2>2. Lines(s) = [j \in DOMAIN ends |-> SubSeq(s, IF j = 1 THEN 1 ELSE ends[j-1] + 1, ends[j])]
    BY DEF Lines
  <2>3. DOMAIN Lines(s) = 1..n
    BY LinesOf
  <2>4. DOMAIN Lines(s) = 1..Cardinality(P)
    BY <2>1, <2>2
  <2>5. Cardinality(P) \in Nat
    BY <1>2, InOrderOf, <2>1, <1>1
  <2> HIDE DEF P, n
  <2> QED
    BY <2>3, <2>4, <2>5, <1>1
<1>5. \A j \in 1..n : Rank(P, ends[j]) = j
  BY <1>2, <1>4, InOrderOf
<1>6. EndOf(s, n) = Len(s)
  <2>1. EndOf(s, n) \in 0..Len(s) /\ EndOf(s, k) <= EndOf(s, n)
    BY <1>1, EndFacts
  <2> QED
    BY <2>1, <1>1
<1>7. ends[n] = ends[k]
  BY <1>1, <1>3, <1>6
<1>8. n = k
  BY <1>1, <1>5, <1>7
<1> QED
  BY <1>1, <1>8

\* Escape sequences are at the beginning of a line only.
UpsBeginLines(s) == \A i \in 2..Len(s) : s[i] = Up => s[i-1] # Text

IsShownAt(s, g, h, i) ==
  LET k == LineOf(s, i + 1) IN
  /\ k <= Len(Lines(s))
  /\ \E m : Follows(s, g[k], h[i], EndOf(s, k), i, m)

LEMMA ScreenFollows ==
  ASSUME NEW s \in Seq(Bytes), UpsBeginLines(s),
         NEW g, KeepsTo(g, Lines(s), Bytes), NEW h, DisplaysTo(h, s)
  PROVE  \A i \in 0..Len(s) : IsShownAt(s, g, h, i)
<1> DEFINE l == Len(s)
           n == Len(Lines(s))
           T == {i \in 0..l : IsShownAt(s, g, h, i)}
<1>1. l \in Nat /\ n \in Nat
  BY LinesOf
<1>2. g \in [0..n -> Seq(Seq(Bytes))] /\ g[0] = <<>>
      /\ \A k \in 1..n : g[k] = KeepLine(g[k-1], Lines(s)[k])
  BY DEF KeepsTo
<1>3. h \in [0..l -> Screens] /\ h[0] = Blank /\ \A i \in 1..l : h[i] = Display(h[i-1], s[i])
  BY DEF DisplaysTo
<1>4. LineOf(s, 1) = 0 /\ (\A i \in 1..(l+1) : LineOf(s, i) \in Nat)
      /\ \A i \in 1..l : LineOf(s, i + 1) = IF s[i] = NL THEN LineOf(s, i) + 1 ELSE LineOf(s, i)
  BY LineSteps
<1>5. \A k \in Nat : EndOf(s, k) \in 0..l
  BY EndFacts
<1>6. 0 \in T
  <2>1. Follows(s, <<>>, Blank, 0, 0, 0)
    <3>1. Blank.row = 1 /\ Len(Blank.rows) = 1 /\ Blank.rows[1] = <<>>
      BY DEF Blank
    <3>2. SubSeq(s, 0 + 0 + 1, 0) = <<>>
      BY <1>1
    <3>3. RowsLeft(<<>>, 0) = 0
      BY DEF RowsLeft
    <3> QED
      BY <3>1, <3>2, <3>3 DEF Follows
  <2>2. EndOf(s, 0) = 0
    BY EndFacts
  <2>3. LineOf(s, 0 + 1) = 0
    BY <1>4
  <2>4. IsShownAt(s, g, h, 0)
    BY <2>1, <2>2, <2>3, <1>1, <1>2, <1>3 DEF IsShownAt
  <2> QED
    BY <2>4, <1>1
<1>7. ASSUME NEW i \in 0..(l - 1), IsShownAt(s, g, h, i)
      PROVE  IsShownAt(s, g, h, i + 1)
  <2> DEFINE k == LineOf(s, i + 1)
             e == EndOf(s, k)
             kept == g[k]
             screen == h[i]
  <2>1. k \in Nat /\ k + 1 <= n /\ e <= i /\ e \in 0..l
    BY LineBegun, <1>5
  <2>2. i + 1 \in 1..l /\ i \in 0..l /\ i + 1 \in 0..l /\ i + 1 \in 1..(l + 1) /\ i + 1 - 1 = i
    BY <1>1
  <2>3. kept \in Seq(Seq(Bytes)) /\ screen \in Screens /\ h[i + 1] = Display(screen, s[i + 1])
    <3>1. k \in 0..n
      BY <2>1, <1>1
    <3>2. h[i + 1] = Display(h[i + 1 - 1], s[i + 1])
      BY <2>2, <1>3
    <3> QED
      BY <3>1, <3>2, <2>2, <1>2, <1>3
  <2>4. LineOf(s, (i + 1) + 1) = IF s[i + 1] = NL THEN k + 1 ELSE k
    BY <2>2, <1>4
  <2>5. PICK m : Follows(s, kept, screen, e, i, m)
    BY <1>7 DEF IsShownAt
  <2>6. s[i + 1] \in {Text, NL, Up}
    BY <2>2 DEF Bytes
  <2>7. NL # Text /\ NL # Up
    BY DEF NL, Text, Up
  <2>8. CASE s[i + 1] = Text
    <3>1. LineOf(s, (i + 1) + 1) = k
      BY <2>4, <2>7, <2>8
    <3> HIDE DEF k, e, kept, screen, l, n
    <3>2. Follows(s, kept, Display(screen, Text), e, i + 1, m)
      BY <2>1, <2>3, <2>5, <2>8, TextFollows DEF l
    <3>3. \E x : Follows(s, kept, h[i + 1], e, i + 1, x)
      BY <3>2, <2>3, <2>8
    <3>4. k <= n
      BY <2>1, <1>1
    <3> QED
      BY <3>1, <3>3, <3>4 DEF IsShownAt, e, kept, n
  <2>9. CASE s[i + 1] = Up
    <3>1. LineOf(s, (i + 1) + 1) = k
      BY <2>4, <2>7, <2>9
    <3> HIDE DEF k, e, kept, screen, n
    <3>2. i = 0 \/ s[i] # Text
      <4>1. CASE i # 0
        <5>1. i + 1 \in 2..l
          BY <4>1, <2>2, <1>1
        <5> QED
          BY <5>1, <2>2, <2>9 DEF UpsBeginLines
      <4> QED
        BY <4>1
    <3>3. Follows(s, kept, Display(screen, Up), e, i + 1, m + 1)
      BY <2>1, <2>3, <2>5, <2>9, <3>2, UpFollows
    <3>4. \E x : Follows(s, kept, h[i + 1], e, i + 1, x)
      BY <3>3, <2>3, <2>9
    <3>5. k <= n
      BY <2>1, <1>1
    <3> QED
      BY <3>1, <3>4, <3>5 DEF IsShownAt, e, kept, n
  <2>10. CASE s[i + 1] = NL
    <3>1. LineOf(s, (i + 1) + 1) = k + 1
      BY <2>4, <2>10
    <3> DEFINE b == i + 1
    <3>2. EndOf(s, k + 1) = b
      <4> DEFINE q == k + 1
      <4>1. q \in Nat \ {0} /\ b \in 1..Len(s) /\ LineOf(s, b) = q - 1 /\ s[b] = NL
        <5>1. LineOf(s, b) = k /\ b \in 1..Len(s) /\ s[b] = NL
          BY <2>2, <2>10
        <5> HIDE DEF k, b
        <5>2. q \in Nat \ {0} /\ k = q - 1
          BY <2>1
        <5> QED
          BY <5>1, <5>2
      <4> HIDE DEF q, b
      <4>2. EndOf(s, q) = b
        BY <4>1, EndAtNewline
      <4> QED
        BY <4>2 DEF q
    <3>3. g[k + 1] = KeepLine(kept, SubSeq(s, e + 1, b))
      <4> DEFINE q == k + 1
      <4>1. q \in 1..n /\ q - 1 = k
        <5> HIDE DEF k, n
        <5> QED
          BY <2>1, <1>1
      <4> HIDE DEF q
      <4>2. Lines(s)[q] = SubSeq(s, EndOf(s, q - 1) + 1, EndOf(s, q))
        BY <4>1, LinesOf
      <4>3. g[q] = KeepLine(g[q - 1], Lines(s)[q])
        BY <4>1, <1>2
      <4>4. EndOf(s, q) = b
        BY <3>2 DEF q
      <4> HIDE DEF b, k
      <4>5. g[q] = KeepLine(g[k], SubSeq(s, EndOf(s, k) + 1, b))
        BY <4>1, <4>2, <4>3, <4>4
      <4> QED
        BY <4>5 DEF q
    <3> HIDE DEF k, e, kept, screen, n
    <3>4. Follows(s, KeepLine(kept, SubSeq(s, e + 1, i + 1)), Display(screen, NL), i + 1, i + 1, 0)
      BY <2>1, <2>3, <2>5, <2>10, NewlineFollows
    <3>5. Follows(s, g[k + 1], h[i + 1], EndOf(s, k + 1), i + 1, 0)
      BY <3>2, <3>3, <3>4, <2>3, <2>10
    <3> QED
      BY <3>1, <3>5, <2>1 DEF IsShownAt, n
  <2> QED
    BY <2>6, <2>8, <2>9, <2>10
<1>8. \A i \in 0..(l-1) : i \in T => i + 1 \in T
  <2> SUFFICES ASSUME NEW i \in 0..(l-1), i \in T PROVE i + 1 \in T
    OBVIOUS
  <2>1. IsShownAt(s, g, h, i + 1)
    BY <1>7
  <2> QED
    BY <2>1, <1>1
<1>9. \A i \in 0..l : i \in T
  <2> HIDE DEF T, l
  <2> QED
    BY <1>1, <1>6, <1>8, Induct
<1> QED
  BY <1>9

LEMMA NormalizeShows ==
  ASSUME NEW s \in Seq(Bytes), UpsBeginLines(s)
  PROVE  Normalize(s) = Shown(s)
<1> DEFINE l == Len(s)
           lines == Lines(s)
           n == Len(lines)
           k == LineOf(s, l + 1)
           e == EndOf(s, k)
<1>1. l \in Nat /\ n \in Nat /\ lines \in Seq(Seq(Bytes))
  <2>1. Lines(s) \in Seq(Seq(Bytes)) /\ Len(Lines(s)) \in Nat
    BY LinesOf
  <2>2. Len(s) \in Nat
    OBVIOUS
  <2> HIDE DEF lines
  <2> QED
    BY <2>1, <2>2 DEF lines
<1>2. PICK g : KeepsTo(g, lines, Bytes) /\ FoldLeft(KeepLine, <<>>, lines) = g[n]
  <2> HIDE DEF lines
  <2> QED
    BY <1>1, KeepSteps
<1>3. PICK h : DisplaysTo(h, s) /\ FoldLeft(Display, Blank, s) = h[l]
  BY DisplaySteps
<1> DEFINE kept == g[k]
           screen == h[l]
           r == screen.row
<1>4. k <= n /\ \E m : Follows(s, kept, screen, e, l, m)
  <2>1. l \in 0..l
    BY <1>1
  <2>2. IsShownAt(s, g, h, l)
    BY <1>2, <1>3, <2>1, ScreenFollows
  <2> QED
    BY <2>2 DEF IsShownAt
<1>5. PICK m : Follows(s, kept, screen, e, l, m)
  BY <1>4
<1>6. k \in Nat /\ e \in 0..l /\ e <= l
  <2>1. l + 1 \in 1..(Len(s) + 1)
    BY <1>1
  <2>2. k \in Nat
    BY <2>1, LineSteps
  <2> HIDE DEF k
  <2>3. e \in 0..l
    BY <2>2, EndFacts
  <2> QED
    BY <2>2, <2>3, <1>1
<1>7. g \in [0..n -> Seq(Seq(Bytes))] /\ \A i \in 1..n : g[i] = KeepLine(g[i-1], lines[i])
  BY <1>2 DEF KeepsTo
<1>8. kept \in Seq(Seq(Bytes)) /\ screen \in Screens
  <2>1. k \in 0..n
    BY <1>1, <1>4, <1>6
  <2>2. h \in [0..l -> Screens] /\ l \in 0..l
    BY <1>1, <1>3 DEF DisplaysTo
  <2> QED
    BY <2>1, <2>2, <1>7
<1> DEFINE c == RowsLeft(kept, m)
           front == SubSeq(kept, 1, c)
           x == SubSeq(s, e + m + 1, l)
           q == [i \in 1..r |-> IF i < r THEN Append(screen.rows[i], NL) ELSE screen.rows[i]]
<1>9. m \in 0..(l - e) /\ m \in Nat /\ c \in Nat /\ c <= Len(kept) /\ r = c + 1
  <2>1. m \in 0..(l - e) /\ r = c + 1
    BY <1>5 DEF Follows
  <2>2. Len(kept) \in Nat
    BY <1>8
  <2> QED
    BY <2>1, <2>2, <1>1, <1>6 DEF RowsLeft
<1>10. Shown(s) = FlattenSeq(q)
  BY <1>3 DEF Shown, Blank
<1> HIDE DEF lines, n, k, e, kept, screen, r, l
<1>11. front \in Seq(Seq(Bytes)) /\ Len(front) = c /\ \A i \in 1..c : front[i] = kept[i]
  <2> DEFINE W == Seq(Bytes)
  <2> HIDE DEF W, c
  <2>1. kept \in Seq(W) /\ c \in Nat /\ c <= Len(kept)
    BY <1>8, <1>9 DEF W
  <2>2. front \in Seq(W)
    BY <2>1
  <2>3. Len(front) = c /\ \A i \in 1..c : front[i] = kept[i]
    BY <2>1
  <2> QED
    BY <2>2, <2>3 DEF W
<1>12. x \in Seq(Bytes)
  <2> DEFINE a == e + m
  <2>1. a \in 0..Len(s) /\ l \in 0..Len(s)
    BY <1>1, <1>6, <1>9 DEF l
  <2> HIDE DEF a
  <2>2. SubSeq(s, a + 1, l) \in Seq(Bytes)
    BY <2>1, PieceFacts
  <2> QED
    BY <2>2 DEF a
<1>13. q = Append(front, x)
  <2> DEFINE W == Seq(Bytes)
             z == Append(front, x)
  <2> HIDE DEF W, c, front, x
  <2>1. front \in Seq(W) /\ x \in W /\ Len(front) = c /\ c \in Nat
    BY <1>9, <1>11, <1>12 DEF W
  <2>2. z \in Seq(W) /\ Len(z) = c + 1 /\ (\A i \in 1..c : z[i] = front[i]) /\ z[c + 1] = x
    <3>1. z \in Seq(W) /\ Len(z) = c + 1
      BY <2>1
    <3>2. z[c + 1] = x
      BY <2>1
    <3>3. \A i \in 1..c : z[i] = front[i]
      BY <2>1
    <3> QED
      BY <3>1, <3>2, <3>3
  <2>3. DOMAIN z = 1..(c + 1) /\ z = [i \in DOMAIN z |-> z[i]]
    <3> HIDE DEF z
    <3>1. DOMAIN z = 1..Len(z) /\ z = [i \in DOMAIN z |-> z[i]]
      BY <2>2
    <3> QED
      BY <3>1, <2>2
  <2>4. screen.rows[r] = x /\ \A i \in 1..c : Append(screen.rows[i], NL) = kept[i]
    BY <1>5 DEF Follows, c, x, r
  <2> HIDE DEF z
  <2>5. ASSUME NEW i \in 1..(c + 1)
        PROVE  z[i] = IF i < r THEN Append(screen.rows[i], NL) ELSE screen.rows[i]
    <3>1. CASE i = c + 1
      <4>1. ~(i < r) /\ i = r
        BY <3>1, <1>9
      <4> QED
        BY <3>1, <4>1, <2>2, <2>4
    <3>2. CASE i # c + 1
      <4>1. i \in 1..c /\ i < r
        BY <3>2, <1>9
      <4> QED
        BY <4>1, <2>2, <2>4, <1>11
    <3> QED
      BY <3>1, <3>2
  <2>6. z = [i \in 1..(c + 1) |-> IF i < r THEN Append(screen.rows[i], NL) ELSE screen.rows[i]]
    BY <2>3, <2>5
  <2> QED
    BY <2>6, <1>9 DEF z
<1>14. FlattenSeq(g[n]) = FlattenSeq(q)
  <2>1. CASE n <= k
    <3>1. e = l /\ k = n
      <4>1. EndOf(s, k) = Len(s)
        BY <2>1, <1>6, LinesOf DEF n, lines
      <4> QED
        BY <4>1, <2>1, <1>1, <1>4, <1>6 DEF e, l
    <3>2. m = 0 /\ x = <<>>
      BY <3>1, <1>1, <1>9
    <3>3. c = Len(kept)
      BY <3>2, <1>8 DEF RowsLeft
    <3>4. front = kept
      <4> DEFINE W == Seq(Bytes)
      <4> HIDE DEF W
      <4>1. kept \in Seq(W)
        BY <1>8 DEF W
      <4>2. SubSeq(kept, 1, Len(kept)) = kept
        BY <4>1
      <4> QED
        BY <4>2, <3>3
    <3> HIDE DEF front, x, q
    <3>5. FlattenSeq(q) = FlattenSeq(kept) \o x
      BY <1>8, <1>12, <1>13, <3>4, FlattenAppend
    <3>6. FlattenSeq(kept) \in Seq(Bytes)
      BY <1>8, FlattenFacts
    <3>7. FlattenSeq(kept) \o <<>> = FlattenSeq(kept)
      BY <3>6
    <3> QED
      BY <3>1, <3>2, <3>5, <3>7 DEF kept
  <2>2. CASE ~(n <= k)
    <3>1. EndOf(s, k + 1) = Len(s)
      <4>1. \A i \in 1..Len(s) : LineOf(s, i) < k + 1
        <5> SUFFICES ASSUME NEW i \in 1..Len(s) PROVE LineOf(s, i) < k + 1
          OBVIOUS
        <5>1. i \in 1..(Len(s) + 1) /\ Len(s) + 1 \in 1..(Len(s) + 1) /\ i <= Len(s) + 1
          BY <1>1 DEF l
        <5>2. LineOf(s, i) <= LineOf(s, Len(s) + 1) /\ LineOf(s, i) \in Nat
          BY <5>1, LineSteps
        <5> QED
          BY <5>2, <1>6 DEF k, l
      <4> DEFINE b == k + 1
      <4>2. b \in Nat
        BY <1>6
      <4> HIDE DEF b
      <4>3. EndOf(s, b) = Len(s)
        BY <4>1, <4>2, EndOfLast DEF b
      <4> QED
        BY <4>3 DEF b
    <3> DEFINE b == k + 1
    <3>2. b \in Nat \ {0} /\ b - 1 = k
      BY <1>6
    <3> HIDE DEF b
    <3>3. Len(Lines(s)) <= b
      BY <3>1, <3>2, LastLine DEF b
    <3>4. n = b /\ b \in 1..n
      BY <3>2, <3>3, <2>2, <1>1, <1>6 DEF n, lines
    <3>5. lines[b] = SubSeq(s, EndOf(s, b - 1) + 1, EndOf(s, b))
      BY <3>4, LinesOf DEF n, lines
    <3>6. lines[b] = SubSeq(s, e + 1, l)
      BY <3>1, <3>2, <3>5 DEF e, l, b
    <3>7. g[b] = KeepLine(kept, lines[b])
      BY <3>2, <3>4, <1>7 DEF kept
    <3>8. KeepLine(kept, SubSeq(s, e + 1, l)) = Append(front, x)
      <4>1. e \in 0..Len(s) /\ l \in 0..Len(s)
        BY <1>1, <1>6 DEF l
      <4>2. Text # Up
        BY DEF Text, Up
      <4>3. (\A j \in 1..m : s[e + j] = Up) /\ \A j \in (e + m + 1)..l : s[j] # Up
        BY <1>5, <4>2 DEF Follows
      <4> QED
        BY <4>1, <4>3, <1>6, <1>8, <1>9, KeptOfLine
    <3> QED
      BY <3>4, <3>6, <3>7, <3>8, <1>13
  <2> QED
    BY <2>1, <2>2
<1> QED
  BY <1>2, <1>10, <1>14 DEF Normalize, lines, n

-----------------------------------------------------------------------------
(* Snippets, and what kind of rows chunks are.                             *)

LEMMA AllElements ==
  ASSUME NEW S, NEW s \in Seq(S), NEW positions
  PROVE  /\ ElementsAt(s, positions) \in Seq(S)
         /\ DOMAIN s \subseteq positions => ElementsAt(s, positions) = s
<1> DEFINE n == Len(s)
<1>1. PICK f : Selects(f, s, positions, S) /\ ElementsAt(s, positions) = f[n]
  BY ElementsSteps
<1>2. /\ n \in Nat /\ DOMAIN s = 1..n
      /\ \A i \in 0..n : f[i] \in Seq(S)
      /\ f[0] = <<>>
      /\ \A i \in 1..n : f[i] = IF i \in positions THEN Append(f[i-1], s[i]) ELSE f[i-1]
  <2>1. n \in Nat /\ DOMAIN s = 1..n
    OBVIOUS
  <2>2. f \in [0..n -> Seq(S)]
    BY <1>1 DEF Selects
  <2>3. f[0] = <<>>
    BY <1>1 DEF Selects
  <2>4. \A i \in 1..n : f[i] = IF i \in positions THEN Append(f[i-1], s[i]) ELSE f[i-1]
    BY <1>1 DEF Selects
  <2> HIDE DEF n
  <2> QED
    BY <2>1, <2>2, <2>3, <2>4
<1>3. n \in 0..n /\ \A i \in 1..n : s[i] \in S
  BY <1>2
<1>4. ASSUME DOMAIN s \subseteq positions
      PROVE  f[n] = s
  <2> DEFINE T == {i \in 0..n : Len(f[i]) = i /\ \A j \in 1..i : f[i][j] = s[j]}
  <2> HIDE DEF n
  <2>1. 0 \in T
    <3>1. Len(f[0]) = 0 /\ \A j \in 1..0 : f[0][j] = s[j]
      BY <1>2
    <3> QED
      BY <1>2, <3>1
  <2>2. ASSUME NEW i \in 0..(n-1), i \in T
        PROVE  i + 1 \in T
    <3>1. i + 1 \in 1..n /\ i + 1 \in 0..n /\ (i + 1) - 1 = i /\ i \in 0..n
      BY <1>2
    <3>2. f[i+1] = Append(f[i], s[i+1])
      BY <1>2, <1>4, <3>1
    <3> DEFINE q == f[i]
               x == s[i+1]
    <3>3. q \in Seq(S) /\ x \in S /\ Len(q) = i /\ \A j \in 1..i : q[j] = s[j]
      BY <1>2, <1>3, <2>2, <3>1
    <3> HIDE DEF q, x
    <3>4. Len(Append(q, x)) = i + 1 /\ \A j \in 1..i : Append(q, x)[j] = q[j]
      BY <3>3
    <3>5. Append(q, x)[i+1] = x
      BY <3>3
    <3>6. \A j \in 1..(i+1) : j \in 1..i \/ j = i + 1
      BY <3>1
    <3>7. \A j \in 1..(i+1) : Append(q, x)[j] = s[j]
      BY <3>3, <3>4, <3>5, <3>6 DEF x
    <3> QED
      BY <3>1, <3>2, <3>4, <3>7 DEF q, x
  <2> HIDE DEF T
  <2>3. \A i \in 0..n : i \in T
    BY <1>2, <2>1, <2>2, Induct
  <2>4. f[n] \in Seq(S) /\ Len(f[n]) = n /\ \A j \in 1..n : f[n][j] = s[j]
    BY <1>2, <1>3, <2>3 DEF T
  <2> DEFINE q == f[n]
  <2>5. q \in Seq(S) /\ Len(q) = Len(s) /\ \A j \in 1..Len(q) : q[j] = s[j]
    BY <2>4 DEF n
  <2> HIDE DEF q
  <2>6. q = s
    BY <2>5, SeqEqual
  <2> QED
    BY <2>6 DEF q
<1> QED
  BY <1>1, <1>2, <1>3, <1>4

LEMMA SnippetsAreTheLog ==
  ASSUME log \in Seq(Bytes)
  PROVE  /\ \A parts : SnippetsOf(parts) \in Seq(Bytes)
         /\ SnippetsOf(Parts) = log
<1>1. \A parts : SnippetsOf(parts) \in Seq(Bytes)
  BY AllElements DEF SnippetsOf
<1>2. DOMAIN log \subseteq {i \in DOMAIN log : i % 2 \in Parts}
  BY DEF Parts
<1>3. SnippetsOf(Parts) = log
  <2> DEFINE positions == {i \in DOMAIN log : i % 2 \in Parts}
  <2>1. DOMAIN log \subseteq positions
    BY <1>2
  <2> HIDE DEF positions
  <2>2. ElementsAt(log, positions) = log
    BY <2>1, AllElements
  <2> QED
    BY <2>2 DEF SnippetsOf, positions
<1> QED
  BY <1>1, <1>3

AChunk == [data : Seq(Bytes), first : Nat, last : Nat]

LEMMA ChunkType ==
  ASSUME NEW s \in Seq(Bytes), NEW size \in Nat \ {0}
  PROVE  ChunkSet(s, size) \subseteq AChunk
<1> DEFINE c == Chunks(s, size)
           n == NumChunks(s, size)
           cut(i) == Cut(s, size, i)
<1>1. /\ n \in Nat
      /\ \A i \in 0..n : cut(i) \in 0..Len(s)
      /\ \A i \in 1..n : cut(i-1) < cut(i)
  BY CutFacts
<1>2. \A i \in 1..n : c[i] = [data |-> SubSeq(s, cut(i-1) + 1, cut(i)),
                              first |-> LineOf(s, cut(i-1) + 1),
                              last |-> LineOf(s, cut(i))]
  <2>1. IsChunked(c, s, size)
    BY ChunksOf
  <2> HIDE DEF c
  <2> QED
    BY <2>1 DEF IsChunked
<1>3. \A i \in 1..(Len(s)+1) : LineOf(s, i) \in Nat
  BY LineSteps
<1> HIDE DEF c, n, cut
<1>4. ASSUME NEW i \in 1..n
      PROVE  c[i] \in AChunk
  <2> DEFINE a == cut(i-1)
             b == cut(i)
  <2>1. i - 1 \in 0..n /\ i \in 0..n
    BY <1>1
  <2>2. a \in 0..Len(s) /\ b \in 0..Len(s) /\ a < b
    BY <1>1, <2>1
  <2>3. c[i] = [data |-> SubSeq(s, a + 1, b), first |-> LineOf(s, a + 1), last |-> LineOf(s, b)]
    BY <1>2
  <2> HIDE DEF a, b
  <2>4. SubSeq(s, a + 1, b) \in Seq(Bytes)
    BY <2>2, PieceFacts
  <2>5. LineOf(s, a + 1) \in Nat /\ LineOf(s, b) \in Nat
    BY <1>3, <2>2
  <2> QED
    BY <2>3, <2>4, <2>5 DEF AChunk
<1> QED
  BY <1>4 DEF ChunkSet, c, n

LEMMA ReadChunkType ==
  ASSUME NEW c \in AChunk, NEW start, NEW end
  PROVE  ReadChunk(c, start, end) \in Seq(Bytes)
<1> DEFINE d == c.data
           begins == {i \in 2..Len(d) : d[i-1] = NL}
           Line(i) == c.first + Count(NL, SubSeq(d, 1, i - 1))
           X == {i \in begins : Line(i) = start}
           Y == {i \in begins : Line(i) = end}
           from == IF X = {} THEN 1 ELSE Max(X)
           to == IF Y = {} THEN Len(d) ELSE Max(Y) - 1
<1>1. ReadChunk(c, start, end) = SubSeq(d, from, to)
  BY DEF ReadChunk
<1>2. d \in Seq(Bytes) /\ Len(d) \in Nat
  BY DEF AChunk
<1>3. X \in SUBSET (2..Len(d)) /\ Y \in SUBSET (2..Len(d))
  OBVIOUS
<1> HIDE DEF d, X, Y
<1>4. \A Z \in SUBSET (2..Len(d)) : Z # {} => Max(Z) \in 2..Len(d)
  <2> SUFFICES ASSUME NEW Z \in SUBSET (2..Len(d)), Z # {}
               PROVE  Max(Z) \in 2..Len(d)
    OBVIOUS
  <2>1. Z \in SUBSET (0..Len(d))
    BY <1>2
  <2>2. Max(Z) \in Z
    BY <1>2, <2>1, MaxOf
  <2> QED
    BY <2>2
<1>5. from \in Int /\ to \in Int /\ 1 <= from /\ to <= Len(d)
  <2>1. from \in 1..1 \/ from \in 2..Len(d)
    BY <1>3, <1>4
  <2>2. to = Len(d) \/ (to + 1 \in 2..Len(d) /\ to = (to + 1) - 1)
    <3>1. CASE Y = {}
      BY <3>1
    <3>2. CASE Y # {}
      <4>1. Max(Y) \in 2..Len(d) /\ to = Max(Y) - 1
        BY <1>3, <1>4, <3>2
      <4> QED
        BY <1>2, <4>1
    <3> QED
      BY <3>1, <3>2
  <2> HIDE DEF from, to
  <2> QED
    BY <1>2, <2>1, <2>2
<1> HIDE DEF from, to
<1>6. \A i \in from..to : d[i] \in Bytes
  <2>1. \A i \in from..to : i \in 1..Len(d)
    BY <1>2, <1>5
  <2> QED
    BY <1>2, <2>1
<1>7. SubSeq(d, from, to) \in Seq(Bytes)
  BY <1>5, <1>6, SubSeqProperties
<1> QED
  BY <1>1, <1>7 DEF d

-----------------------------------------------------------------------------
(***************************************************************************)
(* The inductive invariant.  No escape sequence follows text in its line   *)
(* (UpsBeginLines).  The log does not change once there are chunks or a    *)
(* request has its names (LogIsWritten), the chunks are those of the       *)
(* normalized log (ChunksAreOfLog), and while a request is served, what    *)
(* the client has, what is in the pipe and what the chunks that are left   *)
(* have of the lines are, together, the lines (CopyIsRight).  The names    *)
(* that the last request to fill the list has found are in the list or     *)
(* still to be appended, unless two have filled it at once (ListIsFilled). *)
(***************************************************************************)

Labels == {"off", "list", "snippets", "copy", "done", "notFound", "failed", "left"}
FetcherLabels == {"none", "fetch", "write", "ended", "failed"}
CallLabels == {"off", "query", "reset", "fill", "return", "returned"}

\* What the variables of DbAuthService and ServeLog may be.
TypeOK ==
  /\ log \in Seq(Bytes)
  /\ call \in [Callers -> CallLabels]
  /\ found \in [Callers -> SUBSET Names] /\ result \in [Callers -> SUBSET Names]
  /\ promised \in [Callers -> SUBSET Names]
  /\ stored \subseteq Names /\ instanceNames \subseteq Names /\ filled \subseteq Names
  /\ raced \in BOOLEAN /\ removed \in BOOLEAN
  /\ deleted \subseteq Parts
  /\ at \in [Readers -> Labels]
  /\ want \in [Readers -> Wanted]
  /\ list \in [Readers -> Seq(AChunk)]
  /\ fetcher \in [Readers -> FetcherLabels]
  /\ pipe \in [Readers -> Seq(Bytes)] /\ got \in [Readers -> Seq(Bytes)]

\* What is served, compacted or deleted is a log that is stored, and a request has its
\* list of instance names before it looks for the log.
LogIsWritten ==
  /\ chunks # <<>> \/ deleted # {} \/ removed => stored # {}
  /\ deleted # {} => chunks # <<>> \/ removed
  /\ \A r \in Readers : at[r] # "off" => call[r] = "returned"

\* The chunks are those of the log as it is now.
ChunksAreOfLog ==
  chunks # <<>> => \E size \in ServedSizes : chunks = Chunks(Normalize(log), size)

\* The lines that are asked for.
Asked(r) == BytesOf(Normalize(log), want[r][1], want[r][2])

\* What the chunks that are left have of them.
Left(r) == FlattenSeq(Pieces(list[r], want[r][1], want[r][2]))

\* How far the goroutine of a request may be when the handler is where it is.
FetcherIsRight ==
  \A r \in Readers :
    /\ at[r] \in {"off", "list", "snippets", "notFound"} =>
         fetcher[r] = "none" /\ got[r] = <<>> /\ pipe[r] = <<>>
    /\ at[r] \in {"list", "snippets", "copy"} => ~IsEmpty(want[r])
    /\ fetcher[r] # "write" /\ at[r] # "left" => pipe[r] = <<>>
    /\ fetcher[r] = "ended" => list[r] = <<>>

\* What the client has, what is in the pipe and what the remaining chunks have of the
\* range are the lines that were asked for.
CopyIsRight ==
  \A r \in Readers :
    at[r] = "copy" /\ fetcher[r] # "failed" =>
      /\ fetcher[r] # "none"
      /\ Pieces(list[r], want[r][1], want[r][2]) \in Seq(Seq(Bytes))
      /\ (got[r] \o pipe[r]) \o Left(r) = Asked(r)

\* As long as nobody raced, one request at most fills the list of names, and the list has
\* all names that were in the database, or the filler still has those that are missing.
ListIsFilled ==
  /\ ~raced =>
       /\ \A c, d \in Callers : call[c] = "fill" /\ call[d] = "fill" => c = d
       /\ \A c \in Callers : call[c] = "fill" => filled \subseteq instanceNames \cup found[c]
       /\ (\A c \in Callers : call[c] # "fill") => filled \subseteq instanceNames
  /\ \A c \in Callers : call[c] = "returned" => promised[c] \subseteq result[c]

IInv ==
  /\ TypeOK /\ UpsBeginLines(log) /\ LogIsWritten /\ ChunksAreOfLog /\ FetcherIsRight
  /\ CopyIsRight /\ ListIsFilled /\ AnswersAreRight

-----------------------------------------------------------------------------
(* What reading gives.                                                     *)

LEMMA NormalType == TypeOK => Normalize(log) \in Seq(Bytes)
  BY NormalizeType DEF TypeOK

LEMMA WantedRange ==
  ASSUME TypeOK, NEW r \in Readers
  PROVE  /\ want[r][1] \in Nat /\ want[r][2] \in Nat
         /\ ~IsEmpty(want[r]) => want[r][1] < want[r][2] /\ want[r][1] <= want[r][2]
<1>1. want[r] \in Nat \X Nat
  BY ServeAssumption DEF TypeOK
<1> QED
  BY <1>1 DEF IsEmpty

\* The range of a request whose range is not empty.
LEMMA AskedFor ==
  ASSUME TypeOK, NEW r \in Readers, ~IsEmpty(want[r])
  PROVE  /\ RangeOfLines(Normalize(log), want[r][1], want[r][2]) = Asked(r)
         /\ Subslice(Normalize(log), want[r][1], want[r][2]) = Asked(r)
<1>1. Normalize(log) \in Seq(Bytes)
  BY NormalType
<1> DEFINE text == Normalize(log)
           i == want[r][1]
           j == want[r][2]
<1>2. i \in Nat /\ j \in Nat /\ i < j /\ i <= j
  BY WantedRange
<1>3. text \in Seq(Bytes)
  BY <1>1
<1> HIDE DEF text, i, j
<1>4. Subslice(text, i, j) = BytesOf(text, i, j)
  BY <1>2, <1>3, SubsliceIs
<1>5. RangeOfLines(text, i, j) = BytesOf(text, i, j)
  BY <1>2, <1>3, RangeIs
<1> QED
  BY <1>4, <1>5 DEF Asked, text, i, j

\* What is read from snippets is a text.
LEMMA SnippetsAreText ==
  ASSUME TypeOK, NEW r \in Readers, ~IsEmpty(want[r]), NEW s \in Seq(Bytes)
  PROVE  Subslice(Normalize(s), want[r][1], want[r][2]) \in Seq(Bytes)
<1> DEFINE text == Normalize(s)
           i == want[r][1]
           j == want[r][2]
<1>1. i \in Nat /\ j \in Nat /\ i < j
  BY WantedRange
<1>2. text \in Seq(Bytes)
  BY NormalizeType
<1> HIDE DEF text, i, j
<1>3. Subslice(text, i, j) = BytesOf(text, i, j)
  BY <1>1, <1>2, SubsliceIs
<1>4. EndOf(text, i) \in 0..Len(text) /\ EndOf(text, j) \in 0..Len(text)
  BY <1>1, <1>2, EndFacts
<1>5. BytesOf(text, i, j) \in Seq(Bytes)
  BY <1>2, <1>4, PieceFacts DEF BytesOf
<1> QED
  BY <1>3, <1>5 DEF text, i, j

\* The chunks that are listed, and the lines that they have.
LEMMA ListedChunks ==
  ASSUME TypeOK, ChunksAreOfLog, NEW r \in Readers, ~IsEmpty(want[r])
  PROVE  LET selected == SelectChunks(chunks, want[r][1], want[r][2]) IN
         /\ selected \in Seq(AChunk)
         /\ selected # <<>> =>
              /\ Pieces(selected, want[r][1], want[r][2]) \in Seq(Seq(Bytes))
              /\ FlattenSeq(Pieces(selected, want[r][1], want[r][2])) = Asked(r)
<1> DEFINE text == Normalize(log)
           i == want[r][1]
           j == want[r][2]
           selected == SelectChunks(chunks, i, j)
<1>1. i \in Nat /\ j \in Nat /\ i <= j
  BY WantedRange
<1>2. text \in Seq(Bytes)
  BY NormalType
<1> HIDE DEF i, j
<1>3. CASE chunks = <<>>
  <2> DEFINE P == {k \in DOMAIN chunks : chunks[k].first < j /\ chunks[k].last >= i}
  <2>1. selected = ElementsAt(chunks, P)
    BY DEF SelectChunks
  <2> HIDE DEF P, selected
  <2>2. chunks \in Seq(AChunk) /\ chunks \in Seq({})
    BY <1>3
  <2>3. selected \in Seq({})
    BY <2>1, <2>2, AllElements
  <2>4. selected = <<>>
    <3>1. Len(selected) = 0
      BY <2>3
    <3> QED
      BY <2>3, <3>1
  <2>5. <<>> \in Seq(AChunk)
    OBVIOUS
  <2> QED
    BY <2>4, <2>5 DEF selected, i, j
<1>4. CASE chunks # <<>>
  <2>1. PICK size \in ServedSizes : chunks = Chunks(text, size)
    BY <1>4 DEF ChunksAreOfLog
  <2>2. size \in Nat \ {0}
    BY LinesAssumption, ServeAssumption
  <2> HIDE DEF text
  <2>3. /\ SelectChunks(Chunks(text, size), i, j) \in Seq(ChunkSet(text, size))
        /\ Pieces(SelectChunks(Chunks(text, size), i, j), i, j) \in Seq(Seq(Bytes))
        /\ FlattenSeq(Pieces(SelectChunks(Chunks(text, size), i, j), i, j)) = BytesOf(text, i, j)
    <3>1. \A z \in Nat \ {0}, k, l \in Nat : k <= l =>
            /\ SelectChunks(Chunks(text, z), k, l) \in Seq(ChunkSet(text, z))
            /\ Pieces(SelectChunks(Chunks(text, z), k, l), k, l) \in Seq(Seq(Bytes))
            /\ FlattenSeq(Pieces(SelectChunks(Chunks(text, z), k, l), k, l)) = BytesOf(text, k, l)
      BY <1>2, ReadChunksIs
    <3> QED
      BY <1>1, <2>2, <3>1
  <2>4. selected \in Seq(ChunkSet(text, size)) /\ Pieces(selected, i, j) \in Seq(Seq(Bytes))
        /\ FlattenSeq(Pieces(selected, i, j)) = BytesOf(text, i, j)
    BY <2>1, <2>3
  <2> HIDE DEF selected
  <2>5. ChunkSet(text, size) \subseteq AChunk
    BY <1>2, <2>2, ChunkType
  <2>6. selected \in Seq(AChunk)
    <3>1. \A A, B : A \subseteq B => Seq(A) \subseteq Seq(B)
      OBVIOUS
    <3> QED
      BY <2>4, <2>5, <3>1
  <2> QED
    BY <2>4, <2>6 DEF selected, Asked, text, i, j
<1> QED
  BY <1>3, <1>4

\* Fetching the first of the chunks that are left takes its lines from what they have.
LEMMA FetchedChunk ==
  ASSUME NEW q \in Seq(AChunk), q # <<>>, NEW i, NEW j,
         Pieces(q, i, j) \in Seq(Seq(Bytes))
  PROVE  /\ ReadChunk(Head(q), i, j) \in Seq(Bytes)
         /\ Tail(q) \in Seq(AChunk)
         /\ Pieces(Tail(q), i, j) \in Seq(Seq(Bytes))
         /\ FlattenSeq(Pieces(q, i, j))
              = ReadChunk(Head(q), i, j) \o FlattenSeq(Pieces(Tail(q), i, j))
<1> DEFINE p == Pieces(q, i, j)
           R(c) == ReadChunk(c, i, j)
           n == Len(q)
<1>1. p = [k \in DOMAIN q |-> R(q[k])]
  BY DEF Pieces
<1>2. Pieces(Tail(q), i, j) = [k \in DOMAIN Tail(q) |-> R(Tail(q)[k])]
  BY DEF Pieces
<1>3. Head(q) \in AChunk /\ Tail(q) \in Seq(AChunk)
  BY HeadTailProperties
<1>4. R(Head(q)) \in Seq(Bytes)
  BY <1>3, ReadChunkType
<1> HIDE DEF R
<1>5. n \in Nat /\ n # 0 /\ DOMAIN q = 1..n /\ Head(q) = q[1] /\ 1 \in 1..n
      /\ Len(Tail(q)) = n - 1 /\ DOMAIN Tail(q) = 1..(n-1)
      /\ \A k \in 1..(n-1) : Tail(q)[k] = q[k+1] /\ k + 1 \in 1..n
  <2>1. n \in Nat /\ DOMAIN q = 1..n /\ n # 0
    BY EmptySeq
  <2>2. Head(q) = q[1]
    OBVIOUS
  <2>3. Len(Tail(q)) = n - 1 /\ \A k \in 1..(n-1) : Tail(q)[k] = q[k+1]
    BY HeadTailProperties
  <2> QED
    BY <1>3, <2>1, <2>2, <2>3
<1> HIDE DEF p, n
<1>6. p \in Seq(Seq(Bytes)) /\ DOMAIN p = 1..n /\ Len(p) = n
  <2>1. p \in Seq(Seq(Bytes))
    BY DEF p
  <2>2. DOMAIN p = 1..n
    BY <1>1, <1>5
  <2> QED
    BY <1>5, <2>1, <2>2
<1> DEFINE W == Seq(Bytes)
<1> HIDE DEF W
<1>7. p \in Seq(W)
  BY <1>6 DEF W
<1>8. p # <<>>
  BY <1>5, <1>6
<1>9. Head(p) = R(Head(q))
  <2>1. Head(p) = p[1]
    BY <1>7
  <2> QED
    BY <1>1, <1>5, <2>1
<1>10. Tail(p) = Pieces(Tail(q), i, j) /\ Tail(p) \in Seq(W)
  <2>1. Tail(p) \in Seq(W) /\ Len(Tail(p)) = n - 1
        /\ \A k \in 1..(n-1) : Tail(p)[k] = p[k+1]
    BY <1>6, <1>7, <1>8, HeadTailProperties
  <2>2. \A k \in 1..(n-1) : Tail(p)[k] = R(Tail(q)[k])
    BY <1>1, <1>5, <2>1
  <2>3. Tail(p) = [k \in 1..(n-1) |-> Tail(p)[k]]
    <3>1. \A a \in Seq(W) : a = [k \in 1..Len(a) |-> a[k]]
      OBVIOUS
    <3> QED
      BY <2>1, <3>1
  <2>4. Pieces(Tail(q), i, j) = [k \in 1..(n-1) |-> R(Tail(q)[k])]
    BY <1>2, <1>5
  <2> DEFINE a == Tail(p)
             b == Pieces(Tail(q), i, j)
  <2> HIDE DEF a, b
  <2>5. a = [k \in 1..(n-1) |-> a[k]] /\ b = [k \in 1..(n-1) |-> R(Tail(q)[k])]
        /\ \A k \in 1..(n-1) : a[k] = R(Tail(q)[k])
    BY <2>2, <2>3, <2>4 DEF a, b
  <2>6. a = b
    BY <2>5
  <2> QED
    BY <2>1, <2>6 DEF a, b
<1>11. FlattenSeq(p) = Head(p) \o FlattenSeq(Tail(p))
  BY <1>7, <1>8, FlattenTail DEF W
<1> QED
  BY <1>3, <1>4, <1>9, <1>10, <1>11 DEF p, R, W

-----------------------------------------------------------------------------
(* Every step keeps the types.                                             *)

\* What a caller does to the list leaves the types right.
LEMMA CallType ==
  ASSUME TypeOK, NEW c \in Callers, Call(c)
  PROVE  /\ call' \in [Callers -> CallLabels]
         /\ found' \in [Callers -> SUBSET Names] /\ result' \in [Callers -> SUBSET Names]
         /\ promised' \in [Callers -> SUBSET Names]
         /\ stored' \subseteq Names /\ instanceNames' \subseteq Names /\ filled' \subseteq Names
         /\ raced' \in BOOLEAN
<1> USE DEF TypeOK, Goto, CallLabels
<1>1. CASE GetInstanceNames(c)
  BY <1>1 DEF GetInstanceNames
<1>2. CASE QueryNames(c)
  BY <1>2 DEF QueryNames
<1>3. CASE QueryFails(c)
  BY <1>3 DEF QueryFails
<1>4. CASE Reset(c)
  BY <1>4 DEF Reset, OthersFill
<1>5. CASE AppendName(c)
  <2>1. PICK n \in found[c] : /\ found' = [found EXCEPT ![c] = @ \ {n}]
                              /\ instanceNames' \subseteq instanceNames \cup {n}
    BY <1>5 DEF AppendName
  <2>2. UNCHANGED <<stored, isFresh, call, result, filled, raced, promised>>
    BY <1>5 DEF AppendName
  <2> QED
    BY <2>1, <2>2
<1>6. CASE SetLastUpdated(c)
  BY <1>6 DEF SetLastUpdated
<1>7. CASE Return(c)
  <2>1. PICK S \in SUBSET instanceNames : result' = [result EXCEPT ![c] = S]
    BY <1>7 DEF Return
  <2>2. /\ promised' = [promised EXCEPT ![c] = IF raced \/ OthersFill(c) THEN {} ELSE filled]
        /\ call' = [call EXCEPT ![c] = "returned"]
        /\ UNCHANGED <<stored, instanceNames, found, filled, raced>>
    BY <1>7 DEF Return
  <2>3. (IF raced \/ OthersFill(c) THEN {} ELSE filled) \in SUBSET Names
    OBVIOUS
  <2> QED
    BY <2>1, <2>2, <2>3
<1> QED
  BY <1>1, <1>2, <1>3, <1>4, <1>5, <1>6, <1>7 DEF Call

LEMMA TypeStep ==
  ASSUME TypeOK, ChunksAreOfLog, FetcherIsRight, CopyIsRight, [Next]_vars
  PROVE  TypeOK'
<1> USE DEF rowVars, requestVars
<1>1. CASE WriteEvents
  <2>1. PICK b \in Bytes : log' = Append(log, b)
    BY <1>1 DEF WriteEvents, WriteLog, Write, Bytes
  <2>2. log' \in Seq(Bytes)
    BY <2>1 DEF TypeOK
  <2> QED
    BY <1>1, <2>2 DEF WriteEvents, authVars, TypeOK
<1>2. CASE Compact \/ DeleteSnippets \/ RemoveInvocation
  <2>1. deleted' \subseteq Parts /\ removed' \in BOOLEAN
    BY <1>2 DEF Compact, DeleteSnippets, RemoveInvocation, TypeOK
  <2>2. UNCHANGED <<log, authVars, requestVars>>
    BY <1>2 DEF Compact, DeleteSnippets, RemoveInvocation
  <2> QED
    BY <2>1, <2>2 DEF authVars, TypeOK
<1>3. CASE Environment
  <2>1. stored' \subseteq Names
    BY <1>3 DEF Environment, StoreName, Expire, TypeOK
  <2>2. UNCHANGED <<log, rowVars, requestVars, instanceNames, call, found, result, filled, raced, promised>>
    BY <1>3 DEF Environment, StoreName, Expire
  <2> QED
    BY <2>1, <2>2 DEF TypeOK
<1>4. ASSUME NEW c \in Callers, Authorize(c)
      PROVE  TypeOK'
  <2>1. Call(c) /\ UNCHANGED <<log, rowVars, requestVars>>
    BY <1>4 DEF Authorize
  <2>2. /\ call' \in [Callers -> CallLabels]
        /\ found' \in [Callers -> SUBSET Names] /\ result' \in [Callers -> SUBSET Names]
        /\ promised' \in [Callers -> SUBSET Names]
        /\ stored' \subseteq Names /\ instanceNames' \subseteq Names /\ filled' \subseteq Names
        /\ raced' \in BOOLEAN
    BY <2>1, CallType
  <2> QED
    BY <2>1, <2>2 DEF TypeOK
<1>5. ASSUME NEW r \in Readers, Serve(r) \/ Leave(r)
      PROVE  TypeOK'
  <2>0. UNCHANGED <<log, authVars, rowVars, want>>
    BY <1>5 DEF Serve, Exists, ListChunks, ReadSnippets, FetchChunk, CopyChunk, CloseWriter,
                EndCopy, Leave
  <2> SUFFICES /\ at' \in [Readers -> Labels]
               /\ list' \in [Readers -> Seq(AChunk)]
               /\ fetcher' \in [Readers -> FetcherLabels]
               /\ pipe' \in [Readers -> Seq(Bytes)] /\ got' \in [Readers -> Seq(Bytes)]
    BY <2>0 DEF TypeOK, authVars
  <2> DEFINE i == want[r][1]
             j == want[r][2]
  <2>t. /\ at \in [Readers -> Labels]
        /\ list \in [Readers -> Seq(AChunk)]
        /\ fetcher \in [Readers -> FetcherLabels]
        /\ pipe \in [Readers -> Seq(Bytes)] /\ got \in [Readers -> Seq(Bytes)]
    BY DEF TypeOK
  <2>1. CASE Exists(r)
    BY <2>1, <2>t DEF Exists, At, Labels
  <2>2. CASE ListChunks(r)
    <3>1. SelectChunks(chunks, i, j) \in Seq(AChunk)
      <4>1. ~IsEmpty(want[r])
        BY <2>2 DEF ListChunks, FetcherIsRight
      <4> QED
        BY <4>1, ListedChunks
    <3> DEFINE selected == SelectChunks(chunks, i, j)
    <3> HIDE DEF selected
    <3>2. list' = [list EXCEPT ![r] = selected]
      BY <2>2 DEF ListChunks, selected
    <3>3. list' \in [Readers -> Seq(AChunk)]
      BY <2>t, <3>1, <3>2 DEF selected
    <3>4. at' \in [Readers -> Labels] /\ fetcher' \in [Readers -> FetcherLabels] /\ UNCHANGED <<pipe, got>>
      BY <2>2, <2>t DEF ListChunks, At, Labels, FetcherLabels
    <3> QED
      BY <2>t, <3>3, <3>4
  <2>3. CASE ReadSnippets(r)
    <3> DEFINE s == SnippetsOf(Parts \ deleted)
               text == Subslice(Normalize(s), i, j)
    <3>1. text \in Seq(Bytes)
      <4>1. ~IsEmpty(want[r])
        BY <2>3 DEF ReadSnippets, FetcherIsRight
      <4>2. s \in Seq(Bytes)
        BY SnippetsAreTheLog DEF TypeOK
      <4> HIDE DEF s
      <4> QED
        BY <4>1, <4>2, SnippetsAreText
    <3> HIDE DEF text
    <3>2. got' = [got EXCEPT ![r] = text]
      BY <2>3 DEF ReadSnippets, text
    <3>3. at' \in [Readers -> Labels] /\ UNCHANGED <<list, fetcher, pipe>>
      BY <2>3, <2>t DEF ReadSnippets, At, Labels
    <3> QED
      BY <2>t, <3>1, <3>2, <3>3
  <2>4. CASE FetchChunk(r)
    <3>1. CASE at[r] = "left" \/ removed
      BY <2>4, <2>t, <3>1 DEF FetchChunk, FetcherLabels
    <3>2. CASE ~(at[r] = "left" \/ removed)
      <4> DEFINE text == ReadChunk(Head(list[r]), i, j)
                 rest == Tail(list[r])
      <4>1. list[r] \in Seq(AChunk) /\ list[r] # <<>>
        BY <2>4, <2>t DEF FetchChunk
      <4>2. Head(list[r]) \in AChunk /\ rest \in Seq(AChunk)
        BY <4>1, HeadTailProperties
      <4>3. text \in Seq(Bytes)
        BY <4>2, ReadChunkType
      <4> HIDE DEF text, rest
      <4>4. list' = [list EXCEPT ![r] = rest] /\ pipe' = [pipe EXCEPT ![r] = text]
            /\ fetcher' = [fetcher EXCEPT ![r] = "write"] /\ UNCHANGED <<at, got>>
        BY <2>4, <3>2 DEF FetchChunk, text, rest
      <4> QED
        BY <2>t, <4>2, <4>3, <4>4 DEF FetcherLabels
    <3> QED
      BY <3>1, <3>2
  <2>5. CASE CopyChunk(r)
    <3>1. got[r] \o pipe[r] \in Seq(Bytes)
      BY <2>t, ConcatProperties
    <3>2. <<>> \in Seq(Bytes)
      OBVIOUS
    <3> DEFINE x == got[r] \o pipe[r]
    <3> HIDE DEF x
    <3>3. got' = [got EXCEPT ![r] = x] /\ pipe' = [pipe EXCEPT ![r] = <<>>]
          /\ fetcher' = [fetcher EXCEPT ![r] = "fetch"] /\ UNCHANGED <<at, list>>
      BY <2>5 DEF CopyChunk, x
    <3> QED
      BY <2>t, <3>1, <3>2, <3>3 DEF FetcherLabels, x
  <2>6. CASE CloseWriter(r)
    BY <2>6, <2>t DEF CloseWriter, FetcherLabels
  <2>7. CASE EndCopy(r)
    BY <2>7, <2>t DEF EndCopy, At, Labels
  <2>8. CASE Leave(r)
    BY <2>8, <2>t DEF Leave, At, Labels
  <2> QED
    BY <1>5, <2>1, <2>2, <2>3, <2>4, <2>5, <2>6, <2>7, <2>8 DEF Serve
<1>6. CASE UNCHANGED vars
  BY <1>6 DEF vars, authVars, TypeOK
<1> QED
  BY <1>1, <1>2, <1>3, <1>4, <1>5, <1>6 DEF Next

-----------------------------------------------------------------------------
(* The log, and its chunks.                                                *)

LEMMA NotBeingWritten ==
  ASSUME TypeOK, LogIsWritten, chunks # <<>> \/ deleted # {} \/ removed
                               \/ \E r \in Readers : at[r] # "off"
  PROVE  ~IsBeingWritten
<1>1. CASE chunks # <<>> \/ deleted # {} \/ removed
  BY <1>1 DEF LogIsWritten, IsBeingWritten
<1>2. ASSUME NEW r \in Readers, at[r] # "off"
      PROVE  ~IsBeingWritten
  <2>1. call[r] = "returned" /\ r \in Callers
    BY <1>2, ServeAssumption DEF LogIsWritten
  <2> QED
    BY <2>1 DEF IsBeingWritten
<1> QED
  BY <1>1, <1>2

\* A call that has returned stays so.
LEMMA CallStep ==
  ASSUME TypeOK, NEW c \in Callers, Call(c)
  PROVE  /\ stored' = stored
         /\ \A d \in Callers : d # c => call'[d] = call[d] /\ found'[d] = found[d]
                                        /\ result'[d] = result[d] /\ promised'[d] = promised[d]
         /\ call[c] # "returned"
<1> USE DEF TypeOK, Goto
<1>1. CASE GetInstanceNames(c) \/ QueryNames(c) \/ QueryFails(c)
  BY <1>1 DEF GetInstanceNames, QueryNames, QueryFails
<1>2. CASE Reset(c) \/ SetLastUpdated(c)
  BY <1>2 DEF Reset, SetLastUpdated
<1>3. CASE AppendName(c)
  <2>1. PICK n : found' = [found EXCEPT ![c] = @ \ {n}]
    BY <1>3 DEF AppendName
  <2>2. call[c] = "fill" /\ UNCHANGED <<stored, isFresh, call, result, filled, raced, promised>>
    BY <1>3 DEF AppendName
  <2> QED
    BY <2>1, <2>2
<1>4. CASE Return(c)
  <2>1. PICK S : result' = [result EXCEPT ![c] = S]
    BY <1>4 DEF Return
  <2>2. PICK P : promised' = [promised EXCEPT ![c] = P]
    BY <1>4 DEF Return
  <2>3. call[c] = "return" /\ call' = [call EXCEPT ![c] = "returned"] /\ UNCHANGED <<stored, found>>
    BY <1>4 DEF Return
  <2> QED
    BY <2>1, <2>2, <2>3
<1> QED
  BY <1>1, <1>2, <1>3, <1>4 DEF Call

LEMMA WrittenStep ==
  ASSUME TypeOK, LogIsWritten, [Next]_vars
  PROVE  LogIsWritten'
<1> USE DEF rowVars, requestVars
<1>1. CASE WriteEvents
  BY <1>1 DEF WriteEvents, authVars, LogIsWritten
<1>2. CASE Compact
  BY <1>2 DEF Compact, Created, authVars, LogIsWritten
<1>3. CASE DeleteSnippets
  BY <1>3 DEF DeleteSnippets, authVars, LogIsWritten
<1>4. CASE RemoveInvocation
  BY <1>4 DEF RemoveInvocation, Created, authVars, LogIsWritten
<1>5. CASE Environment
  <2>1. stored # {} => stored' # {}
    BY <1>5 DEF Environment, StoreName, Expire
  <2>2. UNCHANGED <<call, rowVars, requestVars>>
    BY <1>5 DEF Environment, StoreName, Expire
  <2> QED
    BY <2>1, <2>2 DEF LogIsWritten
<1>6. ASSUME NEW c \in Callers, Authorize(c)
      PROVE  LogIsWritten'
  <2>1. Call(c) /\ UNCHANGED <<rowVars, requestVars>>
    BY <1>6 DEF Authorize
  <2>2. stored' = stored /\ call[c] # "returned" /\ \A d \in Callers : d # c => call'[d] = call[d]
    BY <2>1, CallStep
  <2>3. \A r \in Readers : r \in Callers
    BY ServeAssumption
  <2> QED
    BY <2>1, <2>2, <2>3 DEF LogIsWritten
<1>7. ASSUME NEW r \in Readers, Serve(r) \/ Leave(r)
      PROVE  LogIsWritten'
  <2>1. UNCHANGED <<authVars, rowVars>>
    BY <1>7 DEF Serve, Exists, ListChunks, ReadSnippets, FetchChunk, CopyChunk, CloseWriter,
                EndCopy, Leave
  <2>2. at \in [Readers -> Labels]
    BY DEF TypeOK
  <2>3. at'[r] = at[r] \/ call[r] = "returned"
    <3>1. CASE Exists(r)
      BY <3>1 DEF Exists
    <3>2. CASE FetchChunk(r) \/ CopyChunk(r) \/ CloseWriter(r)
      BY <3>2 DEF FetchChunk, CopyChunk, CloseWriter
    <3>3. CASE ListChunks(r) \/ ReadSnippets(r) \/ EndCopy(r) \/ Leave(r)
      <4>1. at[r] # "off"
        BY <3>3 DEF ListChunks, ReadSnippets, EndCopy, Leave
      <4> QED
        BY <4>1 DEF LogIsWritten
    <3> QED
      BY <1>7, <3>1, <3>2, <3>3 DEF Serve
  <2>4. \A q \in Readers : q # r => at'[q] = at[q]
    BY <1>7, <2>2 DEF Serve, Exists, ListChunks, ReadSnippets, FetchChunk, CopyChunk,
                CloseWriter, EndCopy, Leave, At
  <2> QED
    BY <2>1, <2>3, <2>4 DEF LogIsWritten, authVars
<1>8. CASE UNCHANGED vars
  BY <1>8 DEF vars, authVars, LogIsWritten
<1> QED
  BY <1>1, <1>2, <1>3, <1>4, <1>5, <1>6, <1>7, <1>8 DEF Next

\* The log does not change any more, and its chunks appear and disappear as a whole.
\* Only the build tool writes the log.
LEMMA OtherStep ==
  ASSUME [Next]_vars, ~WriteEvents
  PROVE  log' = log
<1> USE DEF rowVars, requestVars
<1>1. CASE Compact \/ DeleteSnippets \/ RemoveInvocation \/ Environment
  BY <1>1 DEF Compact, DeleteSnippets, RemoveInvocation, Environment
<1>2. CASE \E c \in Callers : Authorize(c)
  BY <1>2 DEF Authorize
<1>3. CASE \E r \in Readers : Serve(r) \/ Leave(r)
  BY <1>3 DEF Serve, Exists, ListChunks, ReadSnippets, FetchChunk, CopyChunk, CloseWriter,
              EndCopy, Leave
<1>4. CASE UNCHANGED vars
  BY <1>4 DEF vars
<1> QED
  BY <1>1, <1>2, <1>3, <1>4 DEF Next

LEMMA LogStep ==
  ASSUME [Next]_vars, ~IsBeingWritten
  PROVE  log' = log
BY OtherStep DEF WriteEvents

\* Bazel goes up from the beginning of a line only.
LEMMA UpsStep ==
  ASSUME TypeOK, UpsBeginLines(log), [Next]_vars
  PROVE  UpsBeginLines(log)'
<1>1. CASE WriteEvents
  <2>1. PICK b \in Bytes : Write(b)
    BY <1>1 DEF WriteEvents, WriteLog, Bytes
  <2> DEFINE n == Len(log)
  <2>2. log \in Seq(Bytes) /\ n \in Nat /\ log' = Append(log, b)
    BY <2>1 DEF Write, TypeOK
  <2>3. Len(log') = n + 1 /\ log'[n + 1] = b /\ \A i \in 1..n : log'[i] = log[i]
    BY <2>2
  <2>4. b = Up /\ n # 0 => log[n] # Text
    <3>1. n # 0 => log # <<>> /\ Last(log) = log[n]
      BY <2>2 DEF Last
    <3> QED
      BY <2>1, <3>1 DEF Write, EndsWith
  <2> SUFFICES ASSUME NEW i \in 2..Len(log'), log'[i] = Up
               PROVE  log'[i-1] # Text
    BY DEF UpsBeginLines
  <2>5. i - 1 \in 1..n /\ (i = n + 1 \/ i \in 2..n)
    BY <2>2, <2>3
  <2>6. CASE i = n + 1
    BY <2>2, <2>3, <2>4, <2>5, <2>6
  <2>7. CASE i \in 2..n
    <3>1. log'[i] = log[i] /\ log'[i-1] = log[i-1]
      BY <2>2, <2>3, <2>5, <2>7
    <3> QED
      BY <3>1, <2>7 DEF UpsBeginLines
  <2> QED
    BY <2>5, <2>6, <2>7
<1>2. CASE ~WriteEvents
  <2>1. log' = log
    BY <1>2, OtherStep
  <2> QED
    BY <2>1 DEF UpsBeginLines
<1> QED
  BY <1>1, <1>2

LEMMA ChunksStep ==
  ASSUME TypeOK, LogIsWritten, ChunksAreOfLog, [Next]_vars
  PROVE  ChunksAreOfLog'
<1> USE DEF rowVars, requestVars
<1>1. CASE Compact
  <2>1. PICK size \in ServedSizes : chunks' = Chunks(Normalize(log), size)
    BY <1>1 DEF Compact
  <2>2. log' = log
    BY <1>1 DEF Compact
  <2> QED
    BY <2>1, <2>2 DEF ChunksAreOfLog
<1>2. CASE RemoveInvocation
  BY <1>2 DEF RemoveInvocation, ChunksAreOfLog
<1>3. CASE ~Compact /\ ~RemoveInvocation
  <2>1. chunks' = chunks
    <3>1. CASE WriteEvents \/ DeleteSnippets \/ Environment
      BY <3>1 DEF WriteEvents, DeleteSnippets, Environment
    <3>2. CASE \E c \in Callers : Authorize(c)
      BY <3>2 DEF Authorize
    <3>3. CASE \E r \in Readers : Serve(r) \/ Leave(r)
      BY <3>3 DEF Serve, Exists, ListChunks, ReadSnippets, FetchChunk, CopyChunk, CloseWriter,
                  EndCopy, Leave
    <3>4. CASE UNCHANGED vars
      BY <3>4 DEF vars
    <3> QED
      BY <1>3, <3>1, <3>2, <3>3, <3>4 DEF Next
  <2>2. chunks # <<>> => log' = log
    BY NotBeingWritten, LogStep
  <2> QED
    BY <2>1, <2>2 DEF ChunksAreOfLog
<1> QED
  BY <1>1, <1>2, <1>3

-----------------------------------------------------------------------------
(* The requests.                                                           *)

\* Nothing but a step of its own changes where a request is.
LEMMA RequestStep ==
  ASSUME [Next]_vars, NEW r \in Readers, TypeOK
  PROVE  \/ Serve(r) \/ Leave(r)
         \/ /\ at'[r] = at[r] /\ want'[r] = want[r] /\ list'[r] = list[r]
            /\ fetcher'[r] = fetcher[r] /\ pipe'[r] = pipe[r] /\ got'[r] = got[r]
<1> DEFINE Same == /\ at'[r] = at[r] /\ want'[r] = want[r] /\ list'[r] = list[r]
                   /\ fetcher'[r] = fetcher[r] /\ pipe'[r] = pipe[r] /\ got'[r] = got[r]
<1>1. CASE WriteEvents \/ Compact \/ DeleteSnippets \/ RemoveInvocation \/ Environment
  BY <1>1 DEF WriteEvents, Compact, DeleteSnippets, RemoveInvocation, Environment, requestVars
<1>2. CASE \E c \in Callers : Authorize(c)
  BY <1>2 DEF Authorize, requestVars
<1>3. ASSUME NEW q \in Readers, Serve(q) \/ Leave(q), q # r
      PROVE  Same
  <2> USE <1>3 DEF TypeOK
  <2>1. CASE Exists(q)
    BY <2>1 DEF Exists, At
  <2>2. CASE ListChunks(q)
    <3> DEFINE s == SelectChunks(chunks, want[q][1], want[q][2])
    <3>1. list' = [list EXCEPT ![q] = s] /\ UNCHANGED <<want, pipe, got>>
      BY <2>2 DEF ListChunks
    <3>2. at'[r] = at[r] /\ fetcher'[r] = fetcher[r]
      BY <2>2 DEF ListChunks, At
    <3> HIDE DEF s
    <3> QED
      BY <3>1, <3>2
  <2>3. CASE ReadSnippets(q)
    <3>1. PICK s : got' = [got EXCEPT ![q] = s]
      BY <2>3 DEF ReadSnippets
    <3>2. at'[r] = at[r] /\ UNCHANGED <<want, list, fetcher, pipe>>
      BY <2>3 DEF ReadSnippets, At
    <3> QED
      BY <3>1, <3>2
  <2>4. CASE FetchChunk(q)
    <3>1. UNCHANGED <<at, want, got>> /\ fetcher'[r] = fetcher[r]
      BY <2>4 DEF FetchChunk
    <3>2. list'[r] = list[r]
      BY <2>4 DEF FetchChunk
    <3>3. pipe'[r] = pipe[r]
      <4>1. pipe' = pipe \/ \E s : pipe' = [pipe EXCEPT ![q] = s]
        BY <2>4 DEF FetchChunk
      <4> QED
        BY <4>1
    <3> QED
      BY <3>1, <3>2, <3>3
  <2>5. CASE CopyChunk(q)
    BY <2>5 DEF CopyChunk
  <2>6. CASE CloseWriter(q)
    BY <2>6 DEF CloseWriter
  <2>7. CASE EndCopy(q)
    BY <2>7 DEF EndCopy, At
  <2>8. CASE Leave(q)
    BY <2>8 DEF Leave, At
  <2> QED
    BY <2>1, <2>2, <2>3, <2>4, <2>5, <2>6, <2>7, <2>8 DEF Serve
<1>4. CASE UNCHANGED vars
  BY <1>4 DEF vars, requestVars
<1> QED
  BY <1>1, <1>2, <1>3, <1>4 DEF Next

\* What each step of a request does to it.
LEMMA ExistsDoes ==
  ASSUME TypeOK, NEW r \in Readers, Exists(r)
  PROVE  /\ at[r] = "off" /\ call[r] = "returned"
         /\ at'[r] = IF Ours \notin result[r] \/ removed THEN "notFound"
                     ELSE IF IsEmpty(want[r]) THEN "done" ELSE "list"
         /\ UNCHANGED <<log, authVars, rowVars, want, list, fetcher, pipe, got>>
BY DEF Exists, At, TypeOK

LEMMA ListDoes ==
  ASSUME TypeOK, NEW r \in Readers, ListChunks(r)
  PROVE  /\ at[r] = "list"
         /\ list'[r] = SelectChunks(chunks, want[r][1], want[r][2])
         /\ \/ list'[r] = <<>> /\ at'[r] = "snippets" /\ fetcher' = fetcher
            \/ list'[r] # <<>> /\ at'[r] = "copy" /\ fetcher'[r] = "fetch"
         /\ UNCHANGED <<log, authVars, rowVars, want, pipe, got>>
<1> DEFINE s == SelectChunks(chunks, want[r][1], want[r][2])
<1>1. list' = [list EXCEPT ![r] = s]
  BY DEF ListChunks
<1> HIDE DEF s
<1>2. list'[r] = s
  BY <1>1 DEF TypeOK
<1>3. \/ list'[r] = <<>> /\ at'[r] = "snippets" /\ fetcher' = fetcher
      \/ list'[r] # <<>> /\ at'[r] = "copy" /\ fetcher'[r] = "fetch"
  BY DEF ListChunks, At, TypeOK
<1> QED
  BY <1>2, <1>3 DEF ListChunks, s

LEMMA ReadDoes ==
  ASSUME TypeOK, NEW r \in Readers, ReadSnippets(r)
  PROVE  /\ at[r] = "snippets" /\ at'[r] = "done"
         /\ got'[r] = Subslice(Normalize(SnippetsOf(Parts \ deleted)), want[r][1], want[r][2])
         /\ UNCHANGED <<log, authVars, rowVars, want, list, fetcher, pipe>>
<1> DEFINE s == Subslice(Normalize(SnippetsOf(Parts \ deleted)), want[r][1], want[r][2])
<1>1. got' = [got EXCEPT ![r] = s]
  BY DEF ReadSnippets
<1> HIDE DEF s
<1>2. got'[r] = s
  BY <1>1 DEF TypeOK
<1>3. at'[r] = "done"
  BY DEF ReadSnippets, At, TypeOK
<1> QED
  BY <1>2, <1>3 DEF ReadSnippets, s

LEMMA FetchDoes ==
  ASSUME TypeOK, NEW r \in Readers, FetchChunk(r)
  PROVE  /\ fetcher[r] = "fetch" /\ list[r] # <<>>
         /\ \/ fetcher'[r] = "failed" /\ UNCHANGED <<list, pipe>>
            \/ /\ at[r] # "left" /\ fetcher'[r] = "write"
               /\ list'[r] = Tail(list[r])
               /\ pipe'[r] = ReadChunk(Head(list[r]), want[r][1], want[r][2])
         /\ UNCHANGED <<log, authVars, rowVars, at, want, got>>
<1>1. CASE at[r] = "left" \/ removed
  BY <1>1 DEF FetchChunk, TypeOK
<1>2. CASE ~(at[r] = "left" \/ removed)
  <2> DEFINE s == ReadChunk(Head(list[r]), want[r][1], want[r][2])
             q == Tail(list[r])
  <2> HIDE DEF s, q
  <2>1. pipe' = [pipe EXCEPT ![r] = s] /\ list' = [list EXCEPT ![r] = q]
        /\ fetcher' = [fetcher EXCEPT ![r] = "write"]
    BY <1>2 DEF FetchChunk, s, q
  <2>2. pipe'[r] = s /\ list'[r] = q /\ fetcher'[r] = "write"
    BY <2>1 DEF TypeOK
  <2> QED
    BY <1>2, <2>2 DEF FetchChunk, s, q
<1> QED
  BY <1>1, <1>2

LEMMA CopyDoes ==
  ASSUME TypeOK, NEW r \in Readers, CopyChunk(r)
  PROVE  /\ at[r] = "copy" /\ fetcher[r] = "write"
         /\ got'[r] = got[r] \o pipe[r] /\ pipe'[r] = <<>> /\ fetcher'[r] = "fetch"
         /\ UNCHANGED <<log, authVars, rowVars, at, want, list>>
BY DEF CopyChunk, TypeOK

LEMMA CloseDoes ==
  ASSUME TypeOK, NEW r \in Readers, CloseWriter(r)
  PROVE  /\ fetcher[r] = "fetch" /\ list[r] = <<>> /\ fetcher'[r] = "ended"
         /\ UNCHANGED <<log, authVars, rowVars, at, want, list, pipe, got>>
BY DEF CloseWriter, TypeOK

LEMMA EndDoes ==
  ASSUME TypeOK, NEW r \in Readers, EndCopy(r)
  PROVE  /\ at[r] = "copy" /\ fetcher[r] \in {"ended", "failed"}
         /\ at'[r] = IF fetcher[r] = "ended" THEN "done" ELSE "failed"
         /\ UNCHANGED <<log, authVars, rowVars, want, list, fetcher, pipe, got>>
BY DEF EndCopy, At, TypeOK

LEMMA LeaveDoes ==
  ASSUME TypeOK, NEW r \in Readers, Leave(r)
  PROVE  /\ at[r] \in {"list", "snippets", "copy"} /\ at'[r] = "left"
         /\ UNCHANGED <<log, authVars, rowVars, want, list, fetcher, pipe, got>>
BY DEF Leave, At, TypeOK

-----------------------------------------------------------------------------
(* The lines that a request reads from chunks.                             *)

LEMMA FetcherStep ==
  ASSUME TypeOK, FetcherIsRight, [Next]_vars
  PROVE  FetcherIsRight'
<1> SUFFICES ASSUME NEW r \in Readers
             PROVE  /\ at'[r] \in {"off", "list", "snippets", "notFound"} =>
                         fetcher'[r] = "none" /\ got'[r] = <<>> /\ pipe'[r] = <<>>
                    /\ at'[r] \in {"list", "snippets", "copy"} => ~IsEmpty(want'[r])
                    /\ fetcher'[r] # "write" /\ at'[r] # "left" => pipe'[r] = <<>>
                    /\ fetcher'[r] = "ended" => list'[r] = <<>>
  BY DEF FetcherIsRight
<1>0. /\ at[r] \in {"off", "list", "snippets", "notFound"} =>
           fetcher[r] = "none" /\ got[r] = <<>> /\ pipe[r] = <<>>
      /\ at[r] \in {"list", "snippets", "copy"} => ~IsEmpty(want[r])
      /\ fetcher[r] # "write" /\ at[r] # "left" => pipe[r] = <<>>
      /\ fetcher[r] = "ended" => list[r] = <<>>
  BY DEF FetcherIsRight
<1>1. CASE Exists(r)
  BY <1>0, <1>1, ExistsDoes
<1>2. CASE ListChunks(r)
  BY <1>0, <1>2, ListDoes
<1>3. CASE ReadSnippets(r)
  BY <1>0, <1>3, ReadDoes
<1>4. CASE FetchChunk(r)
  BY <1>0, <1>4, FetchDoes
<1>5. CASE CopyChunk(r)
  BY <1>0, <1>5, CopyDoes
<1>6. CASE CloseWriter(r)
  BY <1>0, <1>6, CloseDoes
<1>7. CASE EndCopy(r)
  BY <1>0, <1>7, EndDoes
<1>8. CASE Leave(r)
  BY <1>0, <1>8, LeaveDoes
<1>9. CASE /\ at'[r] = at[r] /\ want'[r] = want[r] /\ list'[r] = list[r]
           /\ fetcher'[r] = fetcher[r] /\ pipe'[r] = pipe[r] /\ got'[r] = got[r]
  BY <1>0, <1>9
<1> QED
  BY <1>1, <1>2, <1>3, <1>4, <1>5, <1>6, <1>7, <1>8, <1>9, RequestStep DEF Serve

\* What is asked for does not change while a request is served.
LEMMA AskedStep ==
  ASSUME TypeOK, LogIsWritten, [Next]_vars, NEW r \in Readers, at[r] # "off"
  PROVE  log' = log /\ want'[r] = want[r] /\ Asked(r)' = Asked(r)
<1>1. log' = log
  BY NotBeingWritten, LogStep
<1>2. want'[r] = want[r]
  <2>1. CASE Serve(r) \/ Leave(r)
    BY <2>1, ExistsDoes, ListDoes, ReadDoes, FetchDoes, CopyDoes, CloseDoes, EndDoes, LeaveDoes
       DEF Serve
  <2> QED
    BY <2>1, RequestStep
<1> QED
  BY <1>1, <1>2 DEF Asked

LEMMA CopyStep ==
  ASSUME TypeOK, LogIsWritten, ChunksAreOfLog, FetcherIsRight, CopyIsRight, [Next]_vars, TypeOK'
  PROVE  CopyIsRight'
<1> DEFINE Right(r) == /\ fetcher[r] # "none"
                       /\ Pieces(list[r], want[r][1], want[r][2]) \in Seq(Seq(Bytes))
                       /\ (got[r] \o pipe[r]) \o Left(r) = Asked(r)
<1> SUFFICES ASSUME NEW r \in Readers, at'[r] = "copy", fetcher'[r] # "failed"
             PROVE  Right(r)'
  BY DEF CopyIsRight
<1>0. at[r] = "copy" /\ fetcher[r] # "failed" => Right(r)
  BY DEF CopyIsRight
<1>t. /\ got[r] \in Seq(Bytes) /\ pipe[r] \in Seq(Bytes) /\ list[r] \in Seq(AChunk)
      /\ got'[r] \in Seq(Bytes) /\ pipe'[r] \in Seq(Bytes)
  BY DEF TypeOK
<1>a. at[r] # "off" => want'[r] = want[r] /\ Asked(r)' = Asked(r)
  BY AskedStep
<1>1. CASE Exists(r)
  BY <1>1, ExistsDoes
<1>2. CASE ListChunks(r)
  <2> DEFINE selected == SelectChunks(chunks, want[r][1], want[r][2])
  <2>1. /\ at[r] = "list" /\ list'[r] = selected /\ selected # <<>> /\ fetcher'[r] = "fetch"
        /\ got'[r] = <<>> /\ pipe'[r] = <<>> /\ ~IsEmpty(want[r])
    BY <1>2, ListDoes DEF FetcherIsRight
  <2>2. Pieces(selected, want[r][1], want[r][2]) \in Seq(Seq(Bytes))
        /\ FlattenSeq(Pieces(selected, want[r][1], want[r][2])) = Asked(r)
    BY <2>1, ListedChunks
  <2> HIDE DEF selected
  <2>3. Left(r)' = Asked(r) /\ Asked(r)' = Asked(r) /\ want'[r] = want[r]
    BY <1>a, <2>1, <2>2 DEF Left
  <2>4. Asked(r) \in Seq(Bytes)
    BY <2>2, FlattenFacts
  <2>5. (<<>> \o <<>>) \o Asked(r) = Asked(r)
    <3> DEFINE x == Asked(r)
    <3> HIDE DEF x
    <3>1. x \in Seq(Bytes)
      BY <2>4 DEF x
    <3>2. <<>> \o x = x
      BY <3>1, ConcatEmptySeq
    <3>3. <<>> \o <<>> = <<>>
      OBVIOUS
    <3> QED
      BY <3>2, <3>3 DEF x
  <2>6. (got'[r] \o pipe'[r]) \o Left(r)' = Asked(r)'
    BY <2>1, <2>3, <2>5
  <2>7. Pieces(list'[r], want'[r][1], want'[r][2]) \in Seq(Seq(Bytes))
    BY <2>1, <2>2, <2>3
  <2> QED
    BY <2>1, <2>6, <2>7
<1>3. CASE ReadSnippets(r)
  BY <1>3, ReadDoes
<1>4. CASE FetchChunk(r)
  <2> DEFINE x == ReadChunk(Head(list[r]), want[r][1], want[r][2])
             y == FlattenSeq(Pieces(Tail(list[r]), want[r][1], want[r][2]))
             z == got[r]
  <2>1. /\ at[r] = "copy" /\ fetcher[r] = "fetch" /\ list[r] # <<>>
        /\ fetcher'[r] = "write" /\ list'[r] = Tail(list[r]) /\ pipe'[r] = x
        /\ want' = want /\ got' = got
    BY <1>4, FetchDoes
  <2>2. Right(r) /\ pipe[r] = <<>>
    BY <1>0, <2>1 DEF FetcherIsRight
  <2>3. /\ x \in Seq(Bytes) /\ Left(r) = x \o y
        /\ Pieces(Tail(list[r]), want[r][1], want[r][2]) \in Seq(Seq(Bytes))
    <3> DEFINE q == list[r]
               i == want[r][1]
               j == want[r][2]
    <3>1. Pieces(q, i, j) \in Seq(Seq(Bytes)) /\ q \in Seq(AChunk) /\ q # <<>>
      BY <1>t, <2>1, <2>2
    <3> HIDE DEF q, i, j
    <3>2. /\ ReadChunk(Head(q), i, j) \in Seq(Bytes)
          /\ Pieces(Tail(q), i, j) \in Seq(Seq(Bytes))
          /\ FlattenSeq(Pieces(q, i, j))
               = ReadChunk(Head(q), i, j) \o FlattenSeq(Pieces(Tail(q), i, j))
      BY <3>1, FetchedChunk
    <3> QED
      BY <3>2 DEF Left, q, i, j
  <2>4. y \in Seq(Bytes)
    BY <2>3, FlattenFacts
  <2>5. (z \o <<>>) \o (x \o y) = Asked(r)
    <3> HIDE DEF x, y
    <3> QED
      BY <2>2, <2>3
  <2>6. Left(r)' = y
    BY <2>1 DEF Left
  <2>7. Pieces(list'[r], want'[r][1], want'[r][2]) \in Seq(Seq(Bytes))
    BY <2>1, <2>3
  <2>8. (z \o x) \o y = Asked(r)
    <3>1. x \in Seq(Bytes) /\ y \in Seq(Bytes) /\ z \in Seq(Bytes)
      BY <1>t, <2>3, <2>4
    <3> HIDE DEF x, y, z
    <3>2. z \o <<>> = z
      BY <3>1, ConcatEmptySeq
    <3>3. (z \o x) \o y = z \o (x \o y)
      BY <3>1, ConcatAssociative
    <3> QED
      BY <2>5, <3>2, <3>3
  <2>9. Asked(r)' = Asked(r)
    BY <1>a, <2>1
  <2>10. (got'[r] \o pipe'[r]) \o Left(r)' = Asked(r)'
    <3> HIDE DEF x, y
    <3> QED
      BY <2>1, <2>6, <2>8, <2>9
  <2> QED
    BY <2>1, <2>7, <2>10
<1>5. CASE CopyChunk(r)
  <2> DEFINE x == got[r] \o pipe[r]
  <2>1. /\ at[r] = "copy" /\ fetcher[r] = "write" /\ fetcher'[r] = "fetch"
        /\ got'[r] = x /\ pipe'[r] = <<>> /\ want' = want /\ list' = list
    BY <1>5, CopyDoes
  <2>2. Right(r)
    BY <1>0, <2>1
  <2>3. Left(r)' = Left(r) /\ Asked(r)' = Asked(r)
    BY <1>a, <2>1 DEF Left
  <2>4. x \o <<>> = x
    <3>1. x \in Seq(Bytes)
      BY <1>t, ConcatProperties
    <3> HIDE DEF x
    <3> QED
      BY <3>1, ConcatEmptySeq
  <2>5. (got'[r] \o pipe'[r]) \o Left(r)' = Asked(r)'
    <3>1. x \o Left(r) = Asked(r)
      BY <2>2
    <3> HIDE DEF x
    <3> QED
      BY <2>1, <2>3, <2>4, <3>1
  <2>6. Pieces(list'[r], want'[r][1], want'[r][2]) \in Seq(Seq(Bytes))
    BY <2>1, <2>2
  <2> QED
    BY <2>1, <2>5, <2>6
<1>6. CASE CloseWriter(r)
  <2>1. /\ at[r] = "copy" /\ fetcher[r] = "fetch" /\ fetcher'[r] = "ended"
        /\ want' = want /\ list' = list /\ pipe' = pipe /\ got' = got
    BY <1>6, CloseDoes
  <2>2. Left(r)' = Left(r) /\ Asked(r)' = Asked(r)
    BY <1>a, <2>1 DEF Left
  <2>3. Right(r)
    BY <1>0, <2>1
  <2> QED
    BY <2>1, <2>2, <2>3
<1>7. CASE EndCopy(r) \/ Leave(r)
  BY <1>7, EndDoes, LeaveDoes
<1>8. CASE /\ at'[r] = at[r] /\ want'[r] = want[r] /\ list'[r] = list[r]
           /\ fetcher'[r] = fetcher[r] /\ pipe'[r] = pipe[r] /\ got'[r] = got[r]
  <2>1. Right(r)
    BY <1>0, <1>8
  <2>2. Left(r)' = Left(r) /\ Asked(r)' = Asked(r)
    BY <1>8, <1>a DEF Left
  <2> QED
    BY <1>8, <2>1, <2>2
<1> QED
  BY <1>1, <1>2, <1>3, <1>4, <1>5, <1>6, <1>7, <1>8, RequestStep DEF Serve

-----------------------------------------------------------------------------
(* The list of names.                                                      *)

LEMMA FilledStep ==
  ASSUME TypeOK, ListIsFilled, NEW c \in Callers, Call(c)
  PROVE  ListIsFilled'
<1> DEFINE Filled ==
             ~raced =>
               /\ \A a, b \in Callers : call[a] = "fill" /\ call[b] = "fill" => a = b
               /\ \A a \in Callers : call[a] = "fill" => filled \subseteq instanceNames \cup found[a]
               /\ (\A a \in Callers : call[a] # "fill") => filled \subseteq instanceNames
           Kept == \A a \in Callers : call[a] = "returned" => promised[a] \subseteq result[a]
<1>1. Filled /\ Kept
  BY DEF ListIsFilled
<1>t. /\ call \in [Callers -> CallLabels]
      /\ found \in [Callers -> SUBSET Names] /\ result \in [Callers -> SUBSET Names]
      /\ promised \in [Callers -> SUBSET Names]
      /\ raced \in BOOLEAN
  BY DEF TypeOK
<1> SUFFICES Filled' /\ Kept'
  BY DEF ListIsFilled
<1> USE DEF Goto
<1>2. CASE GetInstanceNames(c) \/ QueryNames(c) \/ QueryFails(c)
  <2>1. call[c] # "fill" /\ call[c] # "returned" /\ call'[c] # "fill" /\ call'[c] # "returned"
    BY <1>2, <1>t DEF GetInstanceNames, QueryNames, QueryFails
  <2>2. \A a \in Callers : a # c => call'[a] = call[a] /\ found'[a] = found[a]
    BY <1>2, <1>t DEF GetInstanceNames, QueryNames, QueryFails
  <2>3. UNCHANGED <<instanceNames, filled, raced, promised, result>>
    BY <1>2 DEF GetInstanceNames, QueryNames, QueryFails
  <2>4. Filled'
    BY <1>1, <2>1, <2>2, <2>3
  <2>5. Kept'
    BY <1>1, <2>1, <2>2, <2>3
  <2> QED
    BY <2>4, <2>5
<1>3. CASE Reset(c)
  <2>1. /\ call[c] = "reset" /\ call' = [call EXCEPT ![c] = "fill"]
        /\ filled' = found[c] /\ raced' = OthersFill(c)
        /\ UNCHANGED <<found, result, promised>>
    BY <1>3 DEF Reset
  <2>2. call'[c] = "fill" /\ \A a \in Callers : a # c => call'[a] = call[a]
    BY <1>t, <2>1
  <2>3. ~raced' => \A a \in Callers : call'[a] = "fill" => a = c
    BY <2>1, <2>2 DEF OthersFill
  <2>4. Filled'
    BY <2>1, <2>2, <2>3
  <2>5. Kept'
    BY <1>1, <2>1, <2>2
  <2> QED
    BY <2>4, <2>5
<1>4. CASE AppendName(c)
  <2>1. call[c] = "fill" /\ UNCHANGED <<call, result, filled, raced, promised>>
    BY <1>4 DEF AppendName
  <2>2. PICK n \in found[c] :
          /\ found' = [found EXCEPT ![c] = @ \ {n}]
          /\ ~OthersFill(c) => instanceNames' = instanceNames \cup {n}
    BY <1>4 DEF AppendName
  <2>3. ~raced => ~OthersFill(c) /\ \A a \in Callers : call[a] = "fill" => a = c
    BY <1>1, <2>1 DEF OthersFill
  <2>4. found'[c] = found[c] \ {n}
    BY <1>t, <2>2
  <2>5. ~raced => filled \subseteq instanceNames \cup found[c]
    BY <1>1, <2>1
  <2>6. ~raced => filled \subseteq (instanceNames \cup {n}) \cup (found[c] \ {n})
    BY <2>5
  <2>7. Filled'
    BY <2>1, <2>2, <2>3, <2>4, <2>6
  <2>8. Kept'
    BY <1>1, <2>1
  <2> QED
    BY <2>7, <2>8
<1>5. CASE SetLastUpdated(c)
  <2>1. /\ call[c] = "fill" /\ found[c] = {} /\ call' = [call EXCEPT ![c] = "return"]
        /\ UNCHANGED <<instanceNames, found, result, filled, raced, promised>>
    BY <1>5 DEF SetLastUpdated
  <2>2. call'[c] = "return" /\ \A a \in Callers : a # c => call'[a] = call[a]
    BY <1>t, <2>1
  <2>3. ~raced => \A a \in Callers : call'[a] # "fill"
    BY <1>1, <2>1, <2>2
  <2>4. ~raced => filled \subseteq instanceNames
    BY <1>1, <2>1
  <2>5. Filled'
    BY <2>1, <2>3, <2>4
  <2>6. Kept'
    BY <1>1, <2>1, <2>2
  <2> QED
    BY <2>5, <2>6
<1>6. CASE Return(c)
  <2>1. /\ call[c] = "return" /\ call' = [call EXCEPT ![c] = "returned"]
        /\ promised' = [promised EXCEPT ![c] = IF raced \/ OthersFill(c) THEN {} ELSE filled]
        /\ UNCHANGED <<instanceNames, found, filled, raced>>
    BY <1>6 DEF Return
  <2>2. call'[c] = "returned" /\ \A a \in Callers : a # c => call'[a] = call[a]
    BY <1>t, <2>1
  <2>3. PICK S : /\ result' = [result EXCEPT ![c] = S]
                 /\ ~OthersFill(c) => S = instanceNames
    BY <1>6 DEF Return
  <2>4. result'[c] = S /\ promised'[c] = (IF raced \/ OthersFill(c) THEN {} ELSE filled)
        /\ \A a \in Callers : a # c => result'[a] = result[a] /\ promised'[a] = promised[a]
    BY <1>t, <2>1, <2>3
  <2>5. ~raced /\ ~OthersFill(c) => filled \subseteq instanceNames
    <3>1. ~OthersFill(c) => \A a \in Callers : call[a] # "fill"
      BY <2>1 DEF OthersFill
    <3> QED
      BY <1>1, <3>1
  <2>6. promised'[c] \subseteq result'[c]
    BY <2>3, <2>4, <2>5
  <2>7. Kept'
    BY <1>1, <2>2, <2>4, <2>6
  <2>8. Filled'
    BY <1>1, <2>1, <2>2
  <2> QED
    BY <2>7, <2>8
<1> QED
  BY <1>2, <1>3, <1>4, <1>5, <1>6 DEF Call

LEMMA FilledIsKept ==
  ASSUME TypeOK, ListIsFilled, [Next]_vars
  PROVE  ListIsFilled'
<1>1. CASE \E c \in Callers : Authorize(c)
  BY <1>1, FilledStep DEF Authorize
<1>2. CASE ~ \E c \in Callers : Authorize(c)
  <2>1. UNCHANGED <<instanceNames, call, found, result, filled, raced, promised>>
    <3>1. CASE WriteEvents \/ Compact \/ DeleteSnippets \/ RemoveInvocation
      BY <3>1 DEF WriteEvents, Compact, DeleteSnippets, RemoveInvocation, authVars
    <3>2. CASE Environment
      BY <3>2 DEF Environment, StoreName, Expire
    <3>3. CASE \E r \in Readers : Serve(r) \/ Leave(r)
      BY <3>3 DEF Serve, Exists, ListChunks, ReadSnippets, FetchChunk, CopyChunk, CloseWriter,
                  EndCopy, Leave, authVars
    <3>4. CASE UNCHANGED vars
      BY <3>4 DEF vars, authVars
    <3> QED
      BY <1>2, <3>1, <3>2, <3>3, <3>4 DEF Next
  <2> QED
    BY <2>1 DEF ListIsFilled
<1> QED
  BY <1>1, <1>2

-----------------------------------------------------------------------------
(* The answers.                                                            *)

\* What is deleted and removed stays so, and so does the promise to a call that has
\* returned.
LEMMA GoneIsGone ==
  ASSUME TypeOK, LogIsWritten, [Next]_vars
  PROVE  /\ removed => removed'
         /\ deleted # {} => deleted' # {}
         /\ chunks # <<>> \/ removed => chunks' # <<>> \/ removed'
         /\ \A c \in Callers : call[c] = "returned" => promised'[c] = promised[c]
<1> USE DEF rowVars, requestVars
<1>1. CASE WriteEvents
  BY <1>1 DEF WriteEvents, authVars
<1>2. CASE Compact
  <2>1. chunks = <<>> /\ ~removed /\ UNCHANGED <<promised, deleted, removed>>
    BY <1>2 DEF Compact, authVars
  <2> QED
    BY <2>1
<1>3. CASE DeleteSnippets
  BY <1>3 DEF DeleteSnippets, authVars
<1>4. CASE RemoveInvocation
  <2>1. removed' = TRUE /\ deleted' = Parts /\ promised' = promised
    BY <1>4 DEF RemoveInvocation, authVars
  <2>2. deleted' # {}
    BY <2>1 DEF Parts
  <2> QED
    BY <2>1, <2>2
<1>5. CASE Environment
  BY <1>5 DEF Environment, StoreName, Expire
<1>6. ASSUME NEW c \in Callers, Authorize(c)
      PROVE  /\ UNCHANGED rowVars
             /\ \A d \in Callers : call[d] = "returned" => promised'[d] = promised[d]
  <2>1. Call(c) /\ UNCHANGED rowVars
    BY <1>6 DEF Authorize
  <2> QED
    BY <2>1, CallStep
<1>7. ASSUME NEW r \in Readers, Serve(r) \/ Leave(r)
      PROVE  UNCHANGED <<rowVars, promised>>
  <2>1. UNCHANGED <<authVars, rowVars>>
    BY <1>7, ExistsDoes, ListDoes, ReadDoes, FetchDoes, CopyDoes, CloseDoes, EndDoes, LeaveDoes
       DEF Serve
  <2> QED
    BY <2>1 DEF authVars
<1>8. CASE UNCHANGED vars
  BY <1>8 DEF vars, authVars
<1> QED
  BY <1>1, <1>2, <1>3, <1>4, <1>5, <1>6, <1>7, <1>8 DEF Next

LEMMA AnswersStep ==
  ASSUME TypeOK, LogIsWritten, ChunksAreOfLog, FetcherIsRight, CopyIsRight, ListIsFilled,
         AnswersAreRight, [Next]_vars
  PROVE  AnswersAreRight'
<1> DEFINE Answer(r) == IF IsEmpty(want[r]) THEN <<>>
                        ELSE RangeOfLines(Normalize(log), want[r][1], want[r][2])
<1> SUFFICES ASSUME NEW r \in Readers
             PROVE  /\ at'[r] = "done" => got'[r] = Answer(r)' \/ CameTooLate(r)'
                    /\ at'[r] = "notFound" => Ours \notin promised'[r] \/ removed'
  BY DEF AnswersAreRight
<1>0. /\ at[r] = "done" => got[r] = Answer(r) \/ CameTooLate(r)
      /\ at[r] = "notFound" => Ours \notin promised[r] \/ removed
  BY DEF AnswersAreRight
<1>1. CASE Exists(r)
  <2>1. /\ at[r] = "off" /\ call[r] = "returned"
        /\ at'[r] = IF Ours \notin result[r] \/ removed THEN "notFound"
                    ELSE IF IsEmpty(want[r]) THEN "done" ELSE "list"
        /\ UNCHANGED <<log, authVars, rowVars, want, list, fetcher, pipe, got>>
    BY <1>1, ExistsDoes
  <2>2. got[r] = <<>> /\ promised[r] \subseteq result[r]
    BY <2>1, ServeAssumption DEF FetcherIsRight, ListIsFilled
  <2>3. promised' = promised /\ removed' = removed
    BY <2>1 DEF authVars, rowVars
  <2>4. at'[r] = "done" => got'[r] = Answer(r)'
    BY <2>1, <2>2
  <2> QED
    BY <2>1, <2>2, <2>3, <2>4
<1>2. CASE ListChunks(r) \/ FetchChunk(r) \/ CopyChunk(r) \/ CloseWriter(r) \/ Leave(r)
  <2>1. at'[r] # "notFound" \/ at'[r] = at[r]
    BY <1>2, ListDoes, FetchDoes, CopyDoes, CloseDoes, LeaveDoes
  <2>2. /\ at'[r] = "done" => at[r] = "done" /\ got'[r] = got[r] /\ fetcher[r] # "none"
    BY <1>2, ListDoes, FetchDoes, CopyDoes, CloseDoes, LeaveDoes
  <2>3. at'[r] = "done" => Answer(r)' = Answer(r)
    BY <2>2, AskedStep
  <2>4. at'[r] = "notFound" => at[r] = "notFound" /\ call[r] = "returned" /\ r \in Callers
    BY <2>1, ServeAssumption DEF LogIsWritten
  <2> QED
    BY <1>0, <2>2, <2>3, <2>4, GoneIsGone DEF CameTooLate
<1>3. CASE ReadSnippets(r)
  <2>1. /\ at[r] = "snippets" /\ at'[r] = "done"
        /\ got'[r] = Subslice(Normalize(SnippetsOf(Parts \ deleted)), want[r][1], want[r][2])
        /\ UNCHANGED <<log, authVars, rowVars, want, list, fetcher, pipe>>
    BY <1>3, ReadDoes
  <2>2. fetcher[r] = "none" /\ ~IsEmpty(want[r])
    BY <2>1 DEF FetcherIsRight
  <2>3. CASE deleted = {}
    <3>1. SnippetsOf(Parts \ deleted) = log
      <4>1. Parts \ deleted = Parts
        BY <2>3
      <4>2. SnippetsOf(Parts) = log
        BY SnippetsAreTheLog DEF TypeOK
      <4> QED
        BY <4>1, <4>2
    <3>2. got'[r] = Asked(r) /\ Answer(r) = Asked(r)
      BY <2>1, <2>2, <3>1, AskedFor
    <3>3. Answer(r)' = Answer(r)
      BY <2>1
    <3> QED
      BY <2>1, <3>2, <3>3
  <2>4. CASE deleted # {}
    <3>1. chunks # <<>> \/ removed
      BY <2>4 DEF LogIsWritten
    <3>2. CameTooLate(r)'
      BY <2>1, <2>2, <2>4, <3>1 DEF CameTooLate, rowVars
    <3> QED
      BY <2>1, <3>2
  <2> QED
    BY <2>3, <2>4
<1>4. CASE EndCopy(r)
  <2>1. /\ at[r] = "copy" /\ fetcher[r] \in {"ended", "failed"}
        /\ at'[r] = IF fetcher[r] = "ended" THEN "done" ELSE "failed"
        /\ UNCHANGED <<log, authVars, rowVars, want, list, fetcher, pipe, got>>
    BY <1>4, EndDoes
  <2>2. CASE fetcher[r] = "ended"
    <3>1. /\ list[r] = <<>> /\ pipe[r] = <<>> /\ ~IsEmpty(want[r])
          /\ (got[r] \o pipe[r]) \o Left(r) = Asked(r)
      BY <2>1, <2>2 DEF FetcherIsRight, CopyIsRight
    <3>2. Left(r) = <<>>
      <4>1. Pieces(<<>>, want[r][1], want[r][2]) = <<>>
        BY DEF Pieces
      <4>2. <<>> \in Seq(Seq(Bytes))
        OBVIOUS
      <4>3. FlattenSeq(<<>>) = <<>>
        BY <4>2, FlattenFacts
      <4> QED
        BY <3>1, <4>1, <4>3 DEF Left
    <3>3. got[r] = Asked(r)
      <4> DEFINE x == got[r]
      <4>1. x \in Seq(Bytes) /\ (x \o <<>>) \o <<>> = Asked(r)
        BY <3>1, <3>2 DEF TypeOK
      <4> HIDE DEF x
      <4>2. x \o <<>> = x
        BY <4>1, ConcatEmptySeq
      <4> QED
        BY <4>1, <4>2 DEF x
    <3>4. Answer(r) = Asked(r)
      BY <3>1, AskedFor
    <3>5. Answer(r)' = Answer(r)
      BY <2>1
    <3> QED
      BY <2>1, <2>2, <3>3, <3>4, <3>5
  <2>3. CASE fetcher[r] # "ended"
    BY <2>1, <2>3
  <2> QED
    BY <2>2, <2>3
<1>5. CASE /\ at'[r] = at[r] /\ want'[r] = want[r] /\ list'[r] = list[r]
           /\ fetcher'[r] = fetcher[r] /\ pipe'[r] = pipe[r] /\ got'[r] = got[r]
  <2>1. at[r] = "done" => Answer(r)' = Answer(r)
    BY <1>5, AskedStep
  <2>2. CameTooLate(r) => CameTooLate(r)'
    BY <1>5, GoneIsGone DEF CameTooLate
  <2>3. at[r] = "notFound" => call[r] = "returned" /\ r \in Callers
    BY ServeAssumption DEF LogIsWritten
  <2>4. at'[r] = "notFound" => Ours \notin promised'[r] \/ removed'
    BY <1>0, <1>5, <2>3, GoneIsGone
  <2> QED
    BY <1>0, <1>5, <2>1, <2>2, <2>4
<1> QED
  BY <1>1, <1>2, <1>3, <1>4, <1>5, RequestStep DEF Serve

-----------------------------------------------------------------------------
(* The theorems.                                                           *)

LEMMA Initially == Init => IInv
<1> SUFFICES ASSUME Init
             PROVE  IInv
  OBVIOUS
<1> USE DEF Init, InitLog, InitAuth
<1>1. TypeOK
  <2>1. <<>> \in Seq(Bytes) /\ <<>> \in Seq(AChunk)
    OBVIOUS
  <2>2. /\ call \in [Callers -> CallLabels] /\ at \in [Readers -> Labels]
        /\ fetcher \in [Readers -> FetcherLabels]
    BY DEF Labels, FetcherLabels, CallLabels
  <2>3. /\ list \in [Readers -> Seq(AChunk)]
        /\ pipe \in [Readers -> Seq(Bytes)] /\ got \in [Readers -> Seq(Bytes)]
    BY <2>1
  <2> QED
    BY <2>1, <2>2, <2>3 DEF TypeOK
<1>2. UpsBeginLines(log) /\ LogIsWritten /\ ChunksAreOfLog
  BY DEF UpsBeginLines, LogIsWritten, ChunksAreOfLog
<1>3. FetcherIsRight /\ CopyIsRight
  BY DEF FetcherIsRight, CopyIsRight
<1>4. ListIsFilled
  BY DEF ListIsFilled
<1>5. AnswersAreRight
  BY DEF AnswersAreRight
<1> QED
  BY <1>1, <1>2, <1>3, <1>4, <1>5 DEF IInv

LEMMA EachStep == IInv /\ [Next]_vars => IInv'
<1> SUFFICES ASSUME IInv, [Next]_vars
             PROVE  IInv'
  OBVIOUS
<1> USE DEF IInv
<1>1. TypeOK'
  BY TypeStep
<1>2. LogIsWritten'
  BY WrittenStep
<1>3. ChunksAreOfLog'
  BY ChunksStep
<1>4. FetcherIsRight'
  BY FetcherStep
<1>5. CopyIsRight'
  BY <1>1, CopyStep
<1>6. ListIsFilled'
  BY FilledIsKept
<1>7. AnswersAreRight'
  BY AnswersStep
<1>8. UpsBeginLines(log)'
  BY UpsStep
<1> QED
  BY <1>1, <1>2, <1>3, <1>4, <1>5, <1>6, <1>7, <1>8

\* The invariant holds in every state of every behaviour.
THEOREM ServeInvariant == Spec => []IInv
<1>1. Init => IInv
  BY Initially
<1>2. IInv /\ [Next]_vars => IInv'
  BY EachStep
<1> QED
  BY <1>1, <1>2, PTL DEF Spec

\* However long a log is, wherever normalizeInvocation cuts it into chunks, and whichever
\* lines are asked for: getLogLineReader copies those lines from the chunks, and
\* subsliceLogBufferByLines cuts the same lines out of the whole text.
THEOREM RangesAreRightAlways == Spec => []RangesAreRight
<1>1. IInv => RangesAreRight
  BY NormalType, ReadsRight DEF IInv, RangesAreRight
<1> QED
  BY <1>1, ServeInvariant, PTL

\* However long a log is: while the build writes it, what GetNormalizedIncompleteBuildLogs
\* makes of it is what a terminal has above its cursor and in the line of its cursor, as
\* long as Bazel goes up from the beginning of a line only.
THEOREM NormalizedIsTheScreenAlways == Spec => []NormalizedIsTheScreen
<1>1. IInv => NormalizedIsTheScreen
  BY NormalizeShows DEF IInv, TypeOK, NormalizedIsTheScreen
<1> QED
  BY <1>1, ServeInvariant, PTL

\* Whatever other requests and the cleanup service do while a request is served: a request
\* that ends without an error has sent the lines that it was asked for, unless it found no
\* chunk of its range and read snippets of which some were gone (CameTooLate); and it has
\* not missed a log whose instance name was there when the list was filled, unless two had
\* filled it at once.
THEOREM AnswersAreRightAlways == Spec => []AnswersAreRight
<1>1. IInv => AnswersAreRight
  BY DEF IInv
<1> QED
  BY <1>1, ServeInvariant, PTL

-----------------------------------------------------------------------------
(* Sequences of numbers in their order, and parts of them.                 *)

Ascending(s) == \A i, j \in 1..Len(s) : i < j => s[i] < s[j]

LEMMA ElementsOf ==
  ASSUME NEW s \in Seq(Nat)
  PROVE  /\ Len(s) \in Nat
         /\ ToSet(s) \subseteq Nat
         /\ \A i \in 1..Len(s) : s[i] \in Nat /\ s[i] \in ToSet(s)
         /\ \A x \in ToSet(s) : \E i \in 1..Len(s) : x = s[i]
         /\ s = <<>> => ToSet(s) = {}
<1> DEFINE n == Len(s)
<1>1. n \in Nat /\ DOMAIN s = 1..n /\ \A i \in 1..n : s[i] \in Nat
  OBVIOUS
<1>2. s = <<>> => 1..n = {}
  OBVIOUS
<1> HIDE DEF n
<1>3. /\ \A i \in 1..n : s[i] \in ToSet(s)
      /\ \A x \in ToSet(s) : \E i \in 1..n : x = s[i]
  BY <1>1 DEF ToSet
<1>4. ToSet(s) \subseteq Nat
  BY <1>1, <1>3
<1>5. s = <<>> => ToSet(s) = {}
  BY <1>2, <1>3
<1> QED
  BY <1>1, <1>3, <1>4, <1>5 DEF n

\* One more element, greater than all before.
LEMMA AppendAscending ==
  ASSUME NEW s \in Seq(Nat), Ascending(s), NEW x \in Nat, \A y \in ToSet(s) : y < x
  PROVE  /\ Append(s, x) \in Seq(Nat)
         /\ Ascending(Append(s, x))
         /\ ToSet(Append(s, x)) = ToSet(s) \cup {x}
<1> DEFINE n == Len(s)
           z == Append(s, x)
<1>1. /\ z \in Seq(Nat) /\ Len(z) = n + 1 /\ n \in Nat /\ z[n + 1] = x
      /\ \A i \in 1..n : z[i] = s[i]
  OBVIOUS
<1>2. \A i \in 1..n : s[i] \in Nat /\ s[i] \in ToSet(s)
  BY ElementsOf
<1> HIDE DEF z, n
<1>3. Ascending(z)
  <2> SUFFICES ASSUME NEW i \in 1..(n + 1), NEW j \in 1..(n + 1), i < j
               PROVE  z[i] < z[j]
    BY <1>1 DEF Ascending
  <2>1. i \in 1..n /\ (j \in 1..n \/ j = n + 1)
    BY <1>1
  <2>2. CASE j \in 1..n
    BY <2>1, <2>2, <1>1 DEF Ascending, n
  <2>3. CASE j = n + 1
    BY <2>1, <2>3, <1>1, <1>2
  <2> QED
    BY <2>1, <2>2, <2>3
<1>4. ToSet(z) = ToSet(s) \cup {x}
  <2>1. DOMAIN z = 1..(n + 1) /\ DOMAIN s = 1..n
    BY <1>1 DEF n
  <2>2. \A i \in 1..(n + 1) : i \in 1..n \/ i = n + 1
    BY <1>1
  <2>3. n + 1 \in 1..(n + 1) /\ \A i \in 1..n : i \in 1..(n + 1)
    BY <1>1
  <2> QED
    BY <2>1, <2>2, <2>3, <1>1 DEF ToSet
<1> QED
  BY <1>1, <1>3, <1>4 DEF z

\* What is taken of an ascending sequence.
LEMMA SelectAscending ==
  ASSUME NEW s \in Seq(Nat), Ascending(s), NEW positions
  PROVE  LET e == ElementsAt(s, positions) IN
         /\ e \in Seq(Nat) /\ Ascending(e)
         /\ \A x : x \in ToSet(e) <=> \E i \in 1..Len(s) : i \in positions /\ x = s[i]
<1> DEFINE n == Len(s)
<1>1. PICK f : Selects(f, s, positions, Nat) /\ ElementsAt(s, positions) = f[n]
  BY ElementsSteps
<1>2. n \in Nat /\ \A i \in 1..n : s[i] \in Nat
  OBVIOUS
<1>3. /\ \A i \in 0..n : f[i] \in Seq(Nat)
      /\ f[0] = <<>>
      /\ \A i \in 1..n : f[i] = IF i \in positions THEN Append(f[i-1], s[i]) ELSE f[i-1]
  BY <1>1 DEF Selects
<1> DEFINE Taken(i, q) == /\ Ascending(q)
                          /\ \A x : x \in ToSet(q) <=> \E j \in 1..i : j \in positions /\ x = s[j]
           T == {i \in 0..n : Taken(i, f[i])}
<1> HIDE DEF n
<1>4. 0 \in T
  <2>1. Ascending(<<>>) /\ ToSet(<<>>) = {}
    BY DEF Ascending, ToSet
  <2> QED
    BY <2>1, <1>2, <1>3
<1>5. ASSUME NEW i \in 0..(n-1), i \in T
      PROVE  i + 1 \in T
  <2> DEFINE q == f[i]
             x == s[i+1]
  <2>1. i + 1 \in 1..n /\ i + 1 \in 0..n /\ (i + 1) - 1 = i /\ i \in 0..n /\ i \in Nat
    BY <1>2
  <2>2. q \in Seq(Nat) /\ x \in Nat /\ Taken(i, q)
    BY <1>2, <1>3, <1>5, <2>1
  <2>3. f[i+1] = IF i + 1 \in positions THEN Append(q, x) ELSE q
    BY <1>3, <2>1
  <2> HIDE DEF q
  <2>4. \A j \in 1..(i+1) : j \in 1..i \/ j = i + 1
    BY <2>1
  <2>5. i + 1 \in 1..(i+1) /\ \A j \in 1..i : j \in 1..(i+1)
    BY <2>1
  <2>6. CASE i + 1 \in positions
    <3>1. \A y \in ToSet(q) : y < x
      <4> SUFFICES ASSUME NEW y \in ToSet(q) PROVE y < x
        OBVIOUS
      <4>1. PICK j \in 1..i : y = s[j]
        BY <2>2
      <4>2. j \in 1..n /\ j < i + 1
        BY <2>1, <1>2
      <4> QED
        BY <4>1, <4>2, <2>1 DEF Ascending, n
    <3>2. Ascending(Append(q, x)) /\ ToSet(Append(q, x)) = ToSet(q) \cup {x}
      BY <2>2, <3>1, AppendAscending
    <3>3. \A y : y \in ToSet(Append(q, x)) <=> \E j \in 1..(i+1) : j \in positions /\ y = s[j]
      BY <3>2, <2>2, <2>4, <2>5, <2>6
    <3>4. Taken(i + 1, f[i+1])
      BY <2>3, <2>6, <3>2, <3>3
    <3> QED
      BY <3>4, <2>1
  <2>7. CASE i + 1 \notin positions
    <3>1. \A y : y \in ToSet(q) <=> \E j \in 1..(i+1) : j \in positions /\ y = s[j]
      BY <2>2, <2>4, <2>5, <2>7
    <3>2. Taken(i + 1, f[i+1])
      BY <2>2, <2>3, <2>7, <3>1
    <3> QED
      BY <3>2, <2>1
  <2> QED
    BY <2>6, <2>7
<1>6. \A i \in 0..n : i \in T
  <2> HIDE DEF T
  <2> QED
    BY <1>2, <1>4, <1>5, Induct
<1>7. Taken(n, f[n]) /\ f[n] \in Seq(Nat)
  <2>1. n \in 0..n
    BY <1>2
  <2>2. n \in T
    BY <2>1, <1>6
  <2> HIDE DEF Taken
  <2> QED
    BY <2>1, <2>2, <1>3
<1> QED
  BY <1>1, <1>7 DEF n

LEMMA MinOf ==
  ASSUME NEW a \in Nat, NEW b \in Nat
  PROVE  Min({a, b}) = IF a <= b THEN a ELSE b
<1> DEFINE m == IF a <= b THEN a ELSE b
<1>1. m \in {a, b} /\ \A y \in {a, b} : m <= y
  OBVIOUS
<1>2. \A x \in {a, b} : (\A y \in {a, b} : x <= y) => x = m
  OBVIOUS
<1> QED
  BY <1>1, <1>2 DEF Min

\* A part of an ascending sequence.
LEMMA PartAscending ==
  ASSUME NEW s \in Seq(Nat), Ascending(s), NEW a \in 0..Len(s), NEW b \in 0..Len(s), a <= b
  PROVE  LET p == SubSeq(s, a + 1, b) IN
         /\ p \in Seq(Nat) /\ Len(p) = b - a /\ Ascending(p)
         /\ \A i \in 1..(b - a) : p[i] = s[a + i]
         /\ \A x : x \in ToSet(p) <=> \E i \in (a + 1)..b : x = s[i]
<1> DEFINE p == SubSeq(s, a + 1, b)
           n == b - a
<1>1. p \in Seq(Nat) /\ Len(p) = n /\ \A i \in 1..n : p[i] = s[a + i]
  BY PieceFacts
<1>2. n \in Nat /\ a \in Nat /\ b \in Nat /\ Len(s) \in Nat /\ a + n = b
  OBVIOUS
<1>3. Ascending(p)
  <2> HIDE DEF p
  <2> SUFFICES ASSUME NEW i \in 1..n, NEW j \in 1..n, i < j
               PROVE  p[i] < p[j]
    BY <1>1 DEF Ascending
  <2>1. a + i \in 1..Len(s) /\ a + j \in 1..Len(s) /\ a + i < a + j
    BY <1>2
  <2> QED
    BY <2>1, <1>1 DEF Ascending
<1>4. \A x : x \in ToSet(p) <=> \E i \in (a + 1)..b : x = s[i]
  <2> HIDE DEF p
  <2>1. \A x : x \in ToSet(p) <=> \E i \in 1..n : x = p[i]
    BY <1>1, ElementsOf
  <2>2. \A i \in 1..n : a + i \in (a + 1)..b
    BY <1>2
  <2>3. \A i \in (a + 1)..b : i - a \in 1..n /\ a + (i - a) = i
    BY <1>2
  <2>4. ASSUME NEW x \in ToSet(p)
        PROVE  \E i \in (a + 1)..b : x = s[i]
    <3>1. PICK i \in 1..n : x = p[i]
      BY <2>1
    <3>2. x = s[a + i] /\ a + i \in (a + 1)..b
      BY <3>1, <1>1, <2>2
    <3> QED
      BY <3>2
  <2>5. ASSUME NEW i \in (a + 1)..b
        PROVE  s[i] \in ToSet(p)
    <3> DEFINE j == i - a
    <3>1. j \in 1..n /\ a + j = i
      BY <2>3
    <3> HIDE DEF j
    <3>2. p[j] = s[i]
      BY <3>1, <1>1
    <3> QED
      BY <3>1, <3>2, <2>1
  <2> QED
    BY <2>4, <2>5
<1> QED
  BY <1>1, <1>3, <1>4

\* Two ascending sequences, one after the other.
LEMMA JoinAscending ==
  ASSUME NEW s \in Seq(Nat), Ascending(s), NEW p \in Seq(Nat), Ascending(p),
         \A x \in ToSet(s) : \A y \in ToSet(p) : x < y
  PROVE  /\ s \o p \in Seq(Nat)
         /\ Ascending(s \o p)
         /\ ToSet(s \o p) = ToSet(s) \cup ToSet(p)
<1> DEFINE m == Len(s)
           n == Len(p)
           z == s \o p
<1>1. m \in Nat /\ n \in Nat /\ z \in Seq(Nat) /\ Len(z) = m + n
  OBVIOUS
<1>2. \A i \in 1..m : z[i] = s[i]
  OBVIOUS
<1>3. \A i \in 1..n : z[m + i] = p[i]
  OBVIOUS
<1>4. \A i \in (m + 1)..(m + n) : i - m \in 1..n /\ z[i] = p[i - m]
  <2> SUFFICES ASSUME NEW i \in (m + 1)..(m + n) PROVE i - m \in 1..n /\ z[i] = p[i - m]
    OBVIOUS
  <2> HIDE DEF z, m, n
  <2>1. i - m \in 1..n /\ m + (i - m) = i
    BY <1>1
  <2> QED
    BY <2>1, <1>3
<1>5. \A i \in 1..m : s[i] \in ToSet(s) /\ s[i] \in Nat
  BY ElementsOf
<1>6. \A i \in 1..n : p[i] \in ToSet(p) /\ p[i] \in Nat
  BY ElementsOf
<1> HIDE DEF z, m, n
<1>7. \A i \in 1..(m + n) : i \in 1..m \/ i \in (m + 1)..(m + n)
  BY <1>1
<1>8. Ascending(z)
  <2> SUFFICES ASSUME NEW i \in 1..(m + n), NEW j \in 1..(m + n), i < j
               PROVE  z[i] < z[j]
    BY <1>1 DEF Ascending
  <2>1. CASE i \in 1..m /\ j \in 1..m
    BY <2>1, <1>2 DEF Ascending, m
  <2>2. CASE i \in 1..m /\ j \in (m + 1)..(m + n)
    BY <2>2, <1>2, <1>4, <1>5, <1>6
  <2>3. CASE i \in (m + 1)..(m + n) /\ j \in (m + 1)..(m + n)
    <3>1. i - m \in 1..n /\ j - m \in 1..n /\ i - m < j - m
      BY <2>3, <1>1, <1>4
    <3> QED
      BY <3>1, <2>3, <1>4 DEF Ascending, n
  <2>4. ~(i \in (m + 1)..(m + n) /\ j \in 1..m)
    BY <1>1
  <2> QED
    BY <2>1, <2>2, <2>3, <2>4, <1>7
<1>9. ToSet(z) = ToSet(s) \cup ToSet(p)
  <2>1. \A x : x \in ToSet(z) <=> \E i \in 1..(m + n) : x = z[i]
    BY <1>1, ElementsOf
  <2>2. \A x : x \in ToSet(s) <=> \E i \in 1..m : x = s[i]
    BY ElementsOf DEF m
  <2>3. \A x : x \in ToSet(p) <=> \E i \in 1..n : x = p[i]
    BY ElementsOf DEF n
  <2>4. (\A i \in 1..m : i \in 1..(m + n)) /\ \A i \in 1..n : m + i \in 1..(m + n)
    BY <1>1
  <2>5. ASSUME NEW x \in ToSet(z)
        PROVE  x \in ToSet(s) \cup ToSet(p)
    <3>1. PICK i \in 1..(m + n) : x = z[i]
      BY <2>1
    <3>2. CASE i \in 1..m
      BY <3>1, <3>2, <2>2, <1>2
    <3>3. CASE i \in (m + 1)..(m + n)
      BY <3>1, <3>3, <2>3, <1>4
    <3> QED
      BY <3>2, <3>3, <1>7
  <2>6. \A x \in ToSet(s) : x \in ToSet(z)
    BY <2>1, <2>2, <2>4, <1>2
  <2>7. \A x \in ToSet(p) : x \in ToSet(z)
    BY <2>1, <2>3, <2>4, <1>3
  <2> QED
    BY <2>5, <2>6, <2>7
<1> QED
  BY <1>1, <1>8, <1>9 DEF z

-----------------------------------------------------------------------------
(* What the scheduler and the proxy make of the operations.                *)

LEMMA SortedIs ==
  ASSUME NEW S \in SUBSET Operations
  PROVE  Sorted(S) \in Seq(Nat) /\ Ascending(Sorted(S)) /\ ToSet(Sorted(S)) = S
<1> DEFINE s == [o \in 1..NumOperations |-> o]
<1>1. s \in Seq(Nat) /\ Len(s) = NumOperations /\ \A o \in 1..NumOperations : s[o] = o
  BY ProxyAssumption
<1>2. Ascending(s)
  <2> HIDE DEF s
  <2> QED
    BY <1>1 DEF Ascending
<1>3. Sorted(S) = ElementsAt(s, S)
  BY DEF Sorted, Operations
<1> HIDE DEF s
<1> DEFINE e == ElementsAt(s, S)
<1>4. e \in Seq(Nat) /\ Ascending(e)
      /\ \A x : x \in ToSet(e) <=> \E i \in 1..Len(s) : i \in S /\ x = s[i]
  BY <1>1, <1>2, SelectAscending
<1> HIDE DEF e
<1>5. \A x : x \in ToSet(e) <=> x \in S
  <2>1. \A i \in S : i \in 1..NumOperations
    BY DEF Operations
  <2>2. \A i \in 1..Len(s) : s[i] = i
    BY <1>1
  <2>3. \A i \in S : i \in 1..Len(s)
    BY <2>1, <1>1
  <2> QED
    BY <2>2, <2>3, <1>4
<1>6. ToSet(e) = S
  BY <1>5
<1> QED
  BY <1>3, <1>4, <1>6 DEF e

\* A page of the scheduler begins after the given operation, and leaves none out before
\* its end.
LEMMA PageIs ==
  ASSUME queue \subseteq Operations, NEW start \in Nat
  PROVE  LET page == PageAfter(start) IN
         /\ page \in Seq(Nat) /\ Ascending(page)
         /\ \A o \in ToSet(page) : o \in queue /\ o > start
         /\ \A o \in queue :
              o > start => \/ o \in ToSet(page)
                           \/ /\ Len(page) = listOperationsPageSize
                              /\ \A p \in ToSet(page) : p < o
<1> DEFINE rest == {o \in queue : o > start}
           s == Sorted(rest)
           l == listOperationsPageSize
           b == IF l <= Len(s) THEN l ELSE Len(s)
           page == SubSeq(s, 1, b)
<1>1. s \in Seq(Nat) /\ Ascending(s) /\ ToSet(s) = rest
  <2>1. rest \in SUBSET Operations
    OBVIOUS
  <2> HIDE DEF rest
  <2> QED
    BY <2>1, SortedIs
<1>2. l \in Nat /\ Len(s) \in Nat /\ b \in 0..Len(s) /\ 0 \in 0..Len(s)
  BY <1>1, ProxyAssumption
<1>3. PageAfter(start) = page
  <2>1. Min({l, Len(s)}) = b
    BY <1>2, MinOf
  <2> QED
    BY <2>1 DEF PageAfter, FirstOf
<1> HIDE DEF s, l
<1>4. /\ page \in Seq(Nat) /\ Len(page) = b /\ Ascending(page)
      /\ \A x : x \in ToSet(page) <=> \E i \in 1..b : x = s[i]
  <2> DEFINE a == 0
             q == SubSeq(s, a + 1, b)
  <2>1. a \in 0..Len(s) /\ a <= b /\ a + 1 = 1 /\ b - a = b
    BY <1>2
  <2> HIDE DEF a, b
  <2>2. /\ q \in Seq(Nat) /\ Len(q) = b - a /\ Ascending(q)
        /\ \A x : x \in ToSet(q) <=> \E i \in (a + 1)..b : x = s[i]
    BY <1>1, <1>2, <2>1, PartAscending
  <2> QED
    BY <2>1, <2>2
<1> HIDE DEF page
<1>5. \A i \in 1..Len(s) : s[i] \in rest /\ s[i] \in Nat
  BY <1>1, ElementsOf
<1>6. ASSUME NEW o \in ToSet(page)
      PROVE  o \in queue /\ o > start
  <2>1. PICK i \in 1..b : o = s[i]
    BY <1>4
  <2>2. i \in 1..Len(s)
    BY <1>2
  <2> QED
    BY <2>1, <2>2, <1>5
<1>7. ASSUME NEW o \in queue, o > start, o \notin ToSet(page)
      PROVE  Len(page) = l /\ \A p \in ToSet(page) : p < o
  <2>1. PICK k \in 1..Len(s) : o = s[k]
    <3>1. o \in ToSet(s)
      BY <1>1, <1>7
    <3> QED
      BY <3>1, <1>1, ElementsOf
  <2>2. k > b
    BY <2>1, <1>2, <1>4, <1>7
  <2>3. b = l
    BY <2>2, <1>2
  <2>4. ASSUME NEW p \in ToSet(page)
        PROVE  p < o
    <3>1. PICK i \in 1..b : p = s[i]
      BY <1>4
    <3>2. i \in 1..Len(s) /\ i < k
      BY <2>2, <1>2
    <3> QED
      BY <3>1, <3>2, <2>1, <1>1 DEF Ascending
  <2> QED
    BY <2>3, <2>4, <1>4
<1> QED
  BY <1>3, <1>4, <1>6, <1>7 DEF l

\* Those that the user may see.
LEMMA AllowedIs ==
  ASSUME NEW all \in Seq(Nat), Ascending(all)
  PROVE  /\ Allowed(all) \in Seq(Nat) /\ Ascending(Allowed(all))
         /\ ToSet(Allowed(all)) = ToSet(all) \cap Readable
<1> DEFINE P == {i \in DOMAIN all : all[i] \in Readable}
           e == ElementsAt(all, P)
<1>1. e = Allowed(all)
  BY DEF Allowed
<1>2. DOMAIN all = 1..Len(all)
  OBVIOUS
<1>3. \A i \in 1..Len(all) : i \in P <=> all[i] \in Readable
  BY <1>2
<1> HIDE DEF P
<1>4. e \in Seq(Nat) /\ Ascending(e)
      /\ \A x : x \in ToSet(e) <=> \E i \in 1..Len(all) : i \in P /\ x = all[i]
  BY SelectAscending
<1> HIDE DEF e
<1>5. \A x : x \in ToSet(all) <=> \E i \in 1..Len(all) : x = all[i]
  BY ElementsOf
<1>6. \A x : x \in ToSet(e) <=> x \in ToSet(all) \cap Readable
  BY <1>3, <1>4, <1>5
<1>7. ToSet(e) = ToSet(all) \cap Readable
  BY <1>6
<1> QED
  BY <1>1, <1>4, <1>7

-----------------------------------------------------------------------------
(***************************************************************************)
(* The inductive invariant of the proxy.  What has been fetched is in      *)
(* order (InOrderInv), none of it comes again when it is gone (GoneInv),   *)
(* and it has every operation that stays, up to its last one while it is   *)
(* fetched, and without a limit when the loop has ended, unless one of     *)
(* those that were fetched is gone (StayedInv).                            *)
(***************************************************************************)

\* What the variables of the proxy may be.
ProxyTypeOK ==
  /\ unborn \subseteq Operations /\ queue \subseteq Operations
  /\ stayed \subseteq queue
  /\ listing \in {"off", "fetch", "done", "failed"}
  /\ pageSize \in Nat /\ after \in Nat
  /\ operations \in Seq(Nat) /\ answer \in Seq(Nat)

\* What is fetched is in the order of the names, which the binary search needs.
InOrderInv == Ascending(operations)

\* A new operation is none that has been there before.
GoneInv == \A o \in unborn : o \notin queue /\ o \notin ToSet(operations)

\* What stays has been fetched or comes after all that was; in the end it is fetched,
\* unless something that was fetched is gone.
StayedInv ==
  /\ listing = "fetch" =>
       \A o \in stayed : o \in ToSet(operations) \/ \A p \in ToSet(operations) : p < o
  /\ listing = "done" => FetchedIsGone \/ \A o \in stayed : o \in ToSet(operations)

\* The answer is cut out of what was fetched.
AnswerInv == listing = "done" => answer \in Response(operations)

ProxyInv == ProxyTypeOK /\ InOrderInv /\ GoneInv /\ StayedInv /\ AnswerInv

LEMMA ProxyInitially == InitProxy => ProxyInv
<1> SUFFICES ASSUME InitProxy
             PROVE  ProxyInv
  OBVIOUS
<1>1. ToSet(<<>>) = {} /\ Ascending(<<>>) /\ <<>> \in Seq(Nat)
  BY DEF ToSet, Ascending
<1> QED
  BY <1>1 DEF InitProxy, ProxyInv, ProxyTypeOK, InOrderInv, GoneInv, StayedInv, AnswerInv

\* A page of what the user may see: its operations are those, in their order, from the
\* first one that is wanted to the last one that has a place.
LEMMA ResponseIs ==
  ASSUME NEW all \in Seq(Nat), Ascending(all), after \in Nat, pageSize \in Nat,
         NEW page \in Response(all)
  PROVE  /\ page \in Seq(Nat) /\ Ascending(page)
         /\ \A o \in ToSet(page) : o \in ToSet(all) \cap Readable /\ o > after
         /\ \A o \in ToSet(all) \cap Readable :
              \/ o <= after \/ o \in ToSet(page)
              \/ Len(page) = pageSize /\ \A p \in ToSet(page) : p < o
<1> DEFINE s == Allowed(all)
           n == Len(s)
<1>1. s \in Seq(Nat) /\ Ascending(s) /\ ToSet(s) = ToSet(all) \cap Readable
  BY AllowedIs
<1>2. PICK i \in StartIndexes(s) : page = SubSeq(s, i + 1, Min({i + pageSize, n}))
  BY DEF Response, PagesOf
<1> HIDE DEF s
<1>3. n \in Nat /\ i \in 0..n /\ (i > 0 => s[i] <= after) /\ (i < n => s[i+1] > after)
  BY <1>1, <1>2 DEF StartIndexes
<1> DEFINE b == IF i + pageSize <= n THEN i + pageSize ELSE n
<1>4. Min({i + pageSize, n}) = b /\ b \in 0..n /\ i <= b
  <2>1. i + pageSize \in Nat
    BY <1>3
  <2>2. Min({i + pageSize, n}) = b
    BY <2>1, <1>3, MinOf
  <2> QED
    BY <2>2, <1>3
<1>5. /\ page \in Seq(Nat) /\ Len(page) = b - i /\ Ascending(page)
      /\ \A x : x \in ToSet(page) <=> \E k \in (i + 1)..b : x = s[k]
  <2>1. page = SubSeq(s, i + 1, b)
    BY <1>2, <1>4
  <2> HIDE DEF b
  <2> QED
    BY <2>1, <1>1, <1>3, <1>4, PartAscending
<1>6. \A k \in 1..n : s[k] \in ToSet(s) /\ s[k] \in Nat
  BY <1>1, ElementsOf
<1>7. ASSUME NEW o \in ToSet(page)
      PROVE  o \in ToSet(s) /\ o > after
  <2>1. PICK k \in (i + 1)..b : o = s[k]
    BY <1>5
  <2>2. k \in 1..n /\ i + 1 \in 1..n /\ i < n /\ (k = i + 1 \/ i + 1 < k)
    BY <1>3, <1>4
  <2>3. s[i+1] <= s[k] /\ s[k] \in Nat /\ s[i+1] \in Nat
    <3>1. i + 1 < k => s[i+1] < s[k]
      BY <2>2, <1>1 DEF Ascending
    <3> QED
      BY <3>1, <2>2, <1>6
  <2>4. s[i+1] > after
    BY <2>2, <1>3
  <2> QED
    BY <2>1, <2>2, <2>3, <2>4, <1>6
<1>8. ASSUME NEW o \in ToSet(s), ~(o <= after), o \notin ToSet(page)
      PROVE  Len(page) = pageSize /\ \A p \in ToSet(page) : p < o
  <2>1. PICK k \in 1..n : o = s[k]
    BY <1>1, ElementsOf
  <2>2. k > i
    <3>1. CASE k <= i
      <4>1. i \in 1..n /\ i > 0 /\ (k = i \/ k < i)
        BY <3>1, <1>3
      <4>2. k < i => s[k] < s[i]
        BY <4>1, <1>1 DEF Ascending
      <4> QED
        BY <4>1, <4>2, <2>1, <1>3, <1>6, <1>8
    <3> QED
      BY <3>1, <1>3
  <2>3. k > b
    <3>1. k \notin (i + 1)..b
      BY <2>1, <1>5, <1>8
    <3> QED
      BY <3>1, <2>2, <1>3, <1>4
  <2>4. b = i + pageSize /\ b - i = pageSize
    BY <2>3, <1>3
  <2>5. ASSUME NEW p \in ToSet(page)
        PROVE  p < o
    <3>1. PICK j \in (i + 1)..b : p = s[j]
      BY <1>5
    <3>2. j \in 1..n /\ j < k
      BY <2>3, <1>3, <1>4
    <3> QED
      BY <3>1, <3>2, <2>1, <1>1 DEF Ascending
  <2> QED
    BY <2>4, <2>5, <1>5
<1> QED
  BY <1>1, <1>5, <1>7, <1>8

LEMMA SameResponse ==
  ASSUME UNCHANGED <<pageSize, after, operations>>
  PROVE  Response(operations)' = Response(operations)
BY DEF Response, PagesOf, StartIndexes, Allowed

\* An operation comes, or goes.
LEMMA QueueStep ==
  ASSUME ProxyInv, NewOperation \/ FinishOperation \/ KillOperation
  PROVE  ProxyInv'
<1> USE DEF ProxyInv, ProxyTypeOK
<1>1. UNCHANGED <<listing, pageSize, after, operations, answer>>
  BY DEF NewOperation, FinishOperation, KillOperation
<1>2. CASE NewOperation
  <2>1. PICK o \in unborn : unborn' = unborn \ {o} /\ queue' = queue \cup {o} /\ stayed' = stayed
    BY <1>2 DEF NewOperation
  <2>2. ProxyTypeOK' /\ GoneInv'
    BY <1>1, <2>1 DEF GoneInv
  <2>3. FetchedIsGone => FetchedIsGone'
    BY <1>1, <2>1 DEF FetchedIsGone, GoneInv
  <2>4. InOrderInv'
    BY <1>1 DEF InOrderInv
  <2>5. StayedInv'
    BY <1>1, <2>1, <2>3 DEF StayedInv
  <2>6. AnswerInv'
    BY <1>1, SameResponse DEF AnswerInv
  <2> QED
    BY <2>2, <2>4, <2>5, <2>6
<1>3. CASE FinishOperation \/ KillOperation
  <2>1. unborn' = unborn /\ queue' \subseteq queue /\ stayed' \subseteq stayed /\ stayed' \subseteq queue'
    BY <1>3 DEF FinishOperation, KillOperation, LeaveQueue
  <2>2. ProxyTypeOK' /\ GoneInv'
    BY <1>1, <2>1 DEF GoneInv
  <2>3. FetchedIsGone => FetchedIsGone'
    BY <1>1, <2>1 DEF FetchedIsGone
  <2>4. InOrderInv'
    BY <1>1 DEF InOrderInv
  <2>5. StayedInv'
    BY <1>1, <2>1, <2>3 DEF StayedInv
  <2>6. AnswerInv'
    BY <1>1, SameResponse DEF AnswerInv
  <2> QED
    BY <2>2, <2>4, <2>5, <2>6
<1> QED
  BY <1>2, <1>3

LEMMA ProxyElseStep ==
  ASSUME ProxyInv, Request \/ FetchFails \/ CheckKill \/ UNCHANGED proxyVars
  PROVE  ProxyInv'
<1> USE DEF ProxyInv, ProxyTypeOK
<1>1. CASE Request
  <2>1. /\ listing' = "fetch" /\ operations' = <<>> /\ answer' = <<>> /\ stayed' = queue
        /\ UNCHANGED <<unborn, queue>>
        /\ pageSize' \in Nat /\ after' \in Nat
    BY <1>1, ProxyAssumption DEF Request, Operations
  <2>2. ToSet(<<>>) = {} /\ Ascending(<<>>) /\ <<>> \in Seq(Nat)
    BY DEF ToSet, Ascending
  <2> QED
    BY <2>1, <2>2 DEF InOrderInv, GoneInv, StayedInv, AnswerInv
<1>2. CASE FetchFails
  <2>1. listing' = "failed" /\ UNCHANGED <<unborn, queue, pageSize, after, operations, answer, stayed>>
    BY <1>2 DEF FetchFails
  <2> QED
    BY <2>1 DEF InOrderInv, GoneInv, StayedInv, AnswerInv
<1>3. CASE CheckKill \/ UNCHANGED proxyVars
  <2>1. UNCHANGED <<unborn, queue, listing, pageSize, after, operations, answer, stayed>>
    BY <1>3 DEF CheckKill, proxyVars
  <2>2. InOrderInv' /\ GoneInv' /\ StayedInv' /\ ProxyTypeOK'
    BY <2>1 DEF InOrderInv, GoneInv, StayedInv, FetchedIsGone
  <2>3. AnswerInv'
    BY <2>1, SameResponse DEF AnswerInv
  <2> QED
    BY <2>2, <2>3
<1> QED
  BY <1>1, <1>2, <1>3

\* The next page is fetched.
LEMMA FetchStep ==
  ASSUME ProxyInv, FetchPage
  PROVE  ProxyInv'
<1> DEFINE start == IF operations = <<>> THEN 0 ELSE Last(operations)
           page == PageAfter(start)
           all == operations \o page
           l == listOperationsPageSize
<1>1. /\ listing = "fetch" /\ operations' = all
      /\ IF IsLastPage(page, all) THEN listing' = "done" /\ answer' \in Response(all)
         ELSE UNCHANGED <<listing, answer>>
      /\ UNCHANGED <<unborn, queue, pageSize, after, stayed>>
  BY DEF FetchPage
<1>2. /\ unborn \subseteq Operations /\ queue \subseteq Operations /\ stayed \subseteq queue
      /\ pageSize \in Nat /\ after \in Nat /\ operations \in Seq(Nat) /\ answer \in Seq(Nat)
      /\ Ascending(operations)
  BY DEF ProxyInv, ProxyTypeOK, InOrderInv
<1>3. \A o \in Operations : o \in Nat /\ o > 0
  BY DEF Operations
<1>4. start \in Nat /\ \A x \in ToSet(operations) : x <= start /\ x \in Nat
  <2> DEFINE n == Len(operations)
  <2>1. n \in Nat /\ (operations # <<>> => n \in 1..n)
        /\ (operations = <<>> => ToSet(operations) = {})
    BY <1>2, ElementsOf
  <2>2. (\A i \in 1..n : operations[i] \in Nat)
        /\ \A x \in ToSet(operations) : \E i \in 1..n : x = operations[i]
    BY <1>2, ElementsOf
  <2>3. CASE operations = <<>>
    BY <2>1, <2>3
  <2>4. CASE operations # <<>>
    <3>1. start = operations[n]
      BY <2>4 DEF Last
    <3>2. \A i \in 1..n : i = n \/ i < n
      BY <2>1
    <3>3. \A i \in 1..n : operations[i] <= operations[n]
      <4> SUFFICES ASSUME NEW i \in 1..n PROVE operations[i] <= operations[n]
        OBVIOUS
      <4>1. n \in 1..n /\ operations[i] \in Nat /\ operations[n] \in Nat
        BY <2>1, <2>2, <2>4
      <4>2. i < n => operations[i] < operations[n]
        BY <4>1, <1>2 DEF Ascending
      <4> QED
        BY <3>2, <4>1, <4>2
    <3> HIDE DEF n, start
    <3> QED
      BY <2>1, <2>2, <2>4, <3>1, <3>3
  <2> QED
    BY <2>3, <2>4
<1> HIDE DEF start
<1>5. /\ page \in Seq(Nat) /\ Ascending(page)
      /\ \A o \in ToSet(page) : o \in queue /\ o > start
      /\ \A o \in queue :
           o > start => \/ o \in ToSet(page)
                        \/ Len(page) = l /\ \A p \in ToSet(page) : p < o
  BY <1>2, <1>4, PageIs
<1>6. l \in Nat
  BY ProxyAssumption
<1> HIDE DEF page, l
<1>7. all \in Seq(Nat) /\ Ascending(all) /\ ToSet(all) = ToSet(operations) \cup ToSet(page)
  <2>1. \A x \in ToSet(operations) : \A y \in ToSet(page) : x < y
    BY <1>2, <1>3, <1>4, <1>5
  <2> QED
    BY <1>2, <1>5, <2>1, JoinAscending
<1> HIDE DEF all
\* What stays has been fetched, or is later than all of the page.
<1>8. ASSUME NEW o \in stayed
      PROVE  o \in ToSet(all) \/ (Len(page) = l /\ \A p \in ToSet(all) : p < o)
  <2>1. o \in queue /\ o \in Nat /\ o > 0
    BY <1>2, <1>3
  <2>2. CASE o \in ToSet(operations)
    BY <2>2, <1>7
  <2>3. CASE o \notin ToSet(operations)
    <3>1. \A p \in ToSet(operations) : p < o
      BY <2>3, <1>1 DEF ProxyInv, StayedInv
    <3>2. o > start
      <4>1. CASE operations = <<>>
        BY <4>1, <2>1 DEF start
      <4>2. CASE operations # <<>>
        <5>1. Len(operations) \in 1..Len(operations) /\ start = operations[Len(operations)]
          BY <4>2, <1>2 DEF start, Last
        <5>2. start \in ToSet(operations)
          BY <5>1, <1>2, ElementsOf
        <5> QED
          BY <5>2, <3>1, <1>4, <2>1
      <4> QED
        BY <4>1, <4>2
    <3>3. CASE o \in ToSet(page)
      BY <3>3, <1>7
    <3>4. CASE o \notin ToSet(page)
      <4>1. Len(page) = l /\ \A p \in ToSet(page) : p < o
        BY <3>2, <3>4, <2>1, <1>5
      <4> QED
        BY <4>1, <3>1, <1>7
    <3> QED
      BY <3>3, <3>4
  <2> QED
    BY <2>2, <2>3
<1>9. GoneInv'
  <2>1. \A o \in unborn : o \notin queue /\ o \notin ToSet(operations)
    BY DEF ProxyInv, GoneInv
  <2>2. \A o \in unborn : o \notin ToSet(all)
    BY <2>1, <1>5, <1>7
  <2> QED
    BY <1>1, <2>1, <2>2 DEF GoneInv
<1>10. InOrderInv'
  BY <1>1, <1>7 DEF InOrderInv
<1>11. CASE ~IsLastPage(page, all)
  <2>1. UNCHANGED <<listing, answer>>
    BY <1>1, <1>11
  <2>2. ProxyTypeOK'
    BY <2>1, <1>1, <1>2, <1>7 DEF ProxyTypeOK
  <2>3. StayedInv'
    BY <2>1, <1>1, <1>8 DEF StayedInv
  <2>4. AnswerInv'
    BY <2>1, <1>1 DEF AnswerInv
  <2> QED
    BY <2>2, <2>3, <2>4, <1>9, <1>10 DEF ProxyInv
<1>12. CASE IsLastPage(page, all)
  <2>1. listing' = "done" /\ answer' \in Response(all)
    BY <1>1, <1>12
  <2>2. AnswerInv'
    <3>1. Response(operations)' = Response(all)
      BY <1>1 DEF Response, PagesOf, StartIndexes, Allowed
    <3> QED
      BY <2>1, <3>1 DEF AnswerInv
  <2>3. ProxyTypeOK'
    <3>1. answer' \in Seq(Nat)
      BY <2>1, <1>2, <1>7, ResponseIs
    <3> QED
      BY <2>1, <3>1, <1>1, <1>2, <1>7 DEF ProxyTypeOK
  <2>4. ASSUME ToSet(all) \subseteq queue
        PROVE  \A o \in stayed : o \in ToSet(all)
    <3>1. CASE Len(page) < l
      <4>1. Len(page) # l
        BY <3>1, <1>5, <1>6
      <4> QED
        BY <4>1, <1>8
    <3>2. CASE Cardinality(queue) = Len(all)
      <4> DEFINE n == Len(all)
      <4>1. n \in Nat /\ all \in [1..n -> queue] /\ \A i \in 1..n : all[i] \in ToSet(all) /\ all[i] \in Nat
        <5>1. n \in Nat /\ \A i \in 1..n : all[i] \in ToSet(all) /\ all[i] \in Nat
          BY <1>7, ElementsOf
        <5>2. all \in [1..n -> Nat]
          BY <1>7
        <5> QED
          BY <5>1, <5>2, <2>4
      <4>2. all \in Injection(1..n, queue)
        <5>1. \A i, j \in 1..n : all[i] = all[j] => i = j
          <6> SUFFICES ASSUME NEW i \in 1..n, NEW j \in 1..n, i # j PROVE all[i] # all[j]
            OBVIOUS
          <6>1. i < j \/ j < i
            BY <4>1
          <6>2. all[i] < all[j] \/ all[j] < all[i]
            BY <6>1, <1>7 DEF Ascending
          <6> QED
            BY <6>2, <4>1
        <5> HIDE DEF n
        <5> QED
          BY <4>1, <5>1 DEF Injection, IsInjective
      <4>3. IsFiniteSet(queue)
        <5>1. IsFiniteSet(Operations)
          BY ProxyAssumption, FS_Interval DEF Operations
        <5> QED
          BY <5>1, <1>2, FS_Subset
      <4>4. Cardinality(1..n) = n
        <5> HIDE DEF n
        <5>1. Cardinality(1..n) = IF 1 > n THEN 0 ELSE n - 1 + 1
          BY <4>1, FS_Interval
        <5> QED
          BY <5>1, <4>1
      <4>5. all \in Surjection(1..n, queue)
        BY <4>2, <4>3, <4>4, <3>2, FS_Injection
      <4>6. \A o \in queue : \E i \in 1..n : all[i] = o
        BY <4>5 DEF Surjection
      <4> QED
        BY <4>1, <4>6, <1>2
    <3> QED
      BY <3>1, <3>2, <1>12 DEF IsLastPage, l
  <2>5. StayedInv'
    BY <2>1, <2>4, <1>1 DEF StayedInv, FetchedIsGone
  <2> QED
    BY <2>2, <2>3, <2>5, <1>9, <1>10 DEF ProxyInv
<1> QED
  BY <1>11, <1>12

LEMMA ProxyStep == ProxyInv /\ [NextProxy]_proxyVars => ProxyInv'
<1> SUFFICES ASSUME ProxyInv, [NextProxy]_proxyVars
             PROVE  ProxyInv'
  OBVIOUS
<1>1. CASE NewOperation \/ FinishOperation \/ KillOperation
  BY <1>1, QueueStep
<1>2. CASE Request \/ FetchFails \/ CheckKill \/ UNCHANGED proxyVars
  BY <1>2, ProxyElseStep
<1>3. CASE FetchPage
  BY <1>3, FetchStep
<1> QED
  BY <1>1, <1>2, <1>3 DEF NextProxy

\* What the proxy has fetched is in order and has what stays, in every state.
THEOREM ProxyInvariant == ProxySpec => []ProxyInv
<1>1. InitProxy => ProxyInv
  BY ProxyInitially
<1>2. ProxyInv /\ [NextProxy]_proxyVars => ProxyInv'
  BY ProxyStep
<1> QED
  BY <1>1, <1>2, PTL DEF ProxySpec

\* However many operations there are, come and go while ListOperations fetches them, and
\* whatever the sizes of the pages: the answer has operations that the user may see, in
\* their order, and leaves none out that was there all the time, unless one that had been
\* fetched was gone.
THEOREM PagesAreRightAlways == ProxySpec => []PagesAreRight
<1>1. ProxyInv => PagesAreRight
  <2> SUFFICES ASSUME ProxyInv, listing = "done"
               PROVE  LET listed == ToSet(answer) IN
                      /\ listed \subseteq {o \in Readable : o > after}
                      /\ \A i, j \in DOMAIN answer : i < j => answer[i] < answer[j]
                      /\ \A o \in stayed \cap Readable :
                           \/ o <= after \/ o \in listed \/ FetchedIsGone
                           \/ Len(answer) = pageSize /\ \A l \in listed : l < o
    BY DEF PagesAreRight
  <2>1. /\ operations \in Seq(Nat) /\ after \in Nat /\ pageSize \in Nat
        /\ Ascending(operations) /\ answer \in Response(operations)
        /\ FetchedIsGone \/ \A o \in stayed : o \in ToSet(operations)
    BY DEF ProxyInv, ProxyTypeOK, InOrderInv, AnswerInv, StayedInv
  <2>2. /\ answer \in Seq(Nat) /\ Ascending(answer)
        /\ \A o \in ToSet(answer) : o \in ToSet(operations) \cap Readable /\ o > after
        /\ \A o \in ToSet(operations) \cap Readable :
             \/ o <= after \/ o \in ToSet(answer)
             \/ Len(answer) = pageSize /\ \A p \in ToSet(answer) : p < o
    BY <2>1, ResponseIs
  <2>3. DOMAIN answer = 1..Len(answer)
    BY <2>2
  <2>4. \A i, j \in DOMAIN answer : i < j => answer[i] < answer[j]
    BY <2>2, <2>3 DEF Ascending
  <2> QED
    BY <2>1, <2>2, <2>4
<1> QED
  BY <1>1, ProxyInvariant, PTL
=============================================================================
