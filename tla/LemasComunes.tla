----------------------------- MODULE LemasComunes -----------------------------
(***************************************************************************)
(* Facts on the natural numbers and on finite sets that the proofs of more *)
(* than one component need: least elements, induction, and what            *)
(* MapThenSumSet adds up.                                                  *)
(***************************************************************************)
EXTENDS Integers, FiniteSetTheorems, SequenceTheorems, WellFoundedInduction, TLAPS

(***************************************************************************)
(* Natural numbers                                                         *)
(***************************************************************************)
\* A set of naturals that is not empty has a least element.
LEMMA MinimoOK ==
    ASSUME NEW T, T \subseteq Nat, T # {}
    PROVE  \E k \in T : \A y \in T : k <= y
  <1>1. PICK k \in T : \A y \in T : ~ (<<y, k>> \in OpToRel(<, Nat))
    BY NatLessThanWellFounded, WFMin
  <1>2. \A y \in T : y < k => <<y, k>> \in OpToRel(<, Nat)
    BY DEF OpToRel
  <1>3. \A y \in T : ~ (y < k) /\ y \in Nat /\ k \in Nat
    BY <1>1, <1>2
  <1> QED BY <1>3

\* Induction on the natural numbers.
LEMMA Inductivo ==
    ASSUME NEW T, 0 \in T, \A n \in Nat : n \in T => n + 1 \in T
    PROVE  \A n \in Nat : n \in T
  <1> DEFINE F == {n \in Nat : n \notin T}
  <1>1. SUFFICES ASSUME F # {} PROVE FALSE
    OBVIOUS
  <1>2. F \subseteq Nat
    OBVIOUS
  <1>3. PICK k \in F : \A y \in F : k <= y
    <2> HIDE DEF F
    <2> QED BY <1>1, <1>2, MinimoOK
  <1>4. k # 0 /\ k - 1 \in Nat /\ k - 1 + 1 = k
    OBVIOUS
  <1>5. k - 1 \in T
    BY <1>3, <1>4
  <1> QED BY <1>4, <1>5

\* Division by a positive number: the quotient is the one that leaves less than the divisor.
LEMMA DivOK ==
    ASSUME NEW a \in Nat, NEW b \in Nat \ {0}
    PROVE  /\ a \div b \in Nat /\ (a \div b) * b <= a /\ a < (a \div b) * b + b
           /\ \A q \in Nat : q * b <= a /\ a < q * b + b => a \div b = q
  <1>1. a \div b \in Nat /\ (a \div b) * b <= a /\ a < (a \div b) * b + b
    OBVIOUS
  <1>2. ASSUME NEW q \in Nat, q * b <= a, a < q * b + b PROVE a \div b = q
    <2> DEFINE r == a - q * b
    <2>1. r \in Nat /\ r < b /\ a = q * b + r
      BY <1>2
    <2> HIDE DEF r
    <2> QED BY <2>1
  <1> QED BY <1>1, <1>2

(***************************************************************************)
(* Sequences                                                               *)
(***************************************************************************)
\* A sequence without its i-th element, element by element.
LEMMA SinElementoOK ==
    ASSUME NEW S, NEW q \in Seq(S), NEW i \in DOMAIN q
    PROVE  LET r == SubSeq(q, 1, i - 1) \o SubSeq(q, i + 1, Len(q))
           IN  /\ r \in Seq(S)
               /\ Len(r) = Len(q) - 1
               /\ \A k \in 1 .. Len(q) - 1 : r[k] = IF k < i THEN q[k] ELSE q[k + 1]
  <1> DEFINE a == SubSeq(q, 1, i - 1)
             b == SubSeq(q, i + 1, Len(q))
  <1>1. Len(q) \in Nat /\ DOMAIN q = 1 .. Len(q) /\ i \in 1 .. Len(q)
    BY LenProperties
  <1>2. /\ a \in Seq(S) /\ Len(a) = i - 1
        /\ \A k \in 1 .. i - 1 : a[k] = q[k]
    <2>1. \A k \in 1 .. i - 1 : q[k] \in S
      BY <1>1, ElementOfSeq
    <2> DEFINE m == i - 1
    <2>2. 1 \in Int /\ m \in Int
      BY <1>1
    <2> HIDE DEF m
    <2>3. \A k \in 1 .. m : q[k] \in S
      BY <2>1 DEF m
    <2>4. /\ SubSeq(q, 1, m) \in Seq(S)
          /\ Len(SubSeq(q, 1, m)) = IF 1 <= m THEN m - 1 + 1 ELSE 0
          /\ \A k \in 1 .. m - 1 + 1 : SubSeq(q, 1, m)[k] = q[1 + k - 1]
      BY <2>3, <2>2, SubSeqProperties
    <2>5. Len(SubSeq(q, 1, m)) = m
      BY <2>4, <1>1 DEF m
    <2>6. \A k \in 1 .. m : SubSeq(q, 1, m)[k] = q[k]
      BY <2>4, <2>2
    <2> QED BY <2>4, <2>5, <2>6 DEF m
  <1>3. /\ b \in Seq(S) /\ Len(b) = Len(q) - i
        /\ \A k \in 1 .. Len(q) - i : b[k] = q[i + k]
    <2>1. \A k \in i + 1 .. Len(q) : q[k] \in S
      BY <1>1, ElementOfSeq
    <2> DEFINE m == i + 1
               n == Len(q)
    <2>2. n \in Int /\ m \in Int
      BY <1>1
    <2>3. \A k \in m .. n : q[k] \in S
      BY <2>1
    <2>4. /\ SubSeq(q, m, n) \in Seq(S)
          /\ Len(SubSeq(q, m, n)) = IF m <= n THEN n - m + 1 ELSE 0
          /\ \A k \in 1 .. n - m + 1 : SubSeq(q, m, n)[k] = q[m + k - 1]
      <3> HIDE DEF m, n
      <3> QED BY <2>3, <2>2, SubSeqProperties
    <2>5. n - m + 1 = Len(q) - i /\ (m <= n \/ Len(q) - i = 0)
      BY <1>1
    <2>6. \A k \in 1 .. Len(q) - i : m + k - 1 = i + k
      BY <1>1
    <2> QED BY <2>4, <2>5, <2>6
  <1> HIDE DEF a, b
  <1>4. /\ a \o b \in Seq(S)
        /\ Len(a \o b) = Len(a) + Len(b)
        /\ \A k \in 1 .. Len(a) + Len(b) :
              (a \o b)[k] = IF k <= Len(a) THEN a[k] ELSE b[k - Len(a)]
    BY <1>2, <1>3, ConcatProperties
  <1>5. Len(a) + Len(b) = Len(q) - 1
    BY <1>1, <1>2, <1>3
  <1>6. ASSUME NEW k \in 1 .. Len(q) - 1
        PROVE  (a \o b)[k] = IF k < i THEN q[k] ELSE q[k + 1]
    <2>1. CASE k < i
      BY <2>1, <1>1, <1>2, <1>4, <1>5
    <2>2. CASE ~(k < i)
      <3>1. k - (i - 1) \in 1 .. Len(q) - i /\ i + (k - (i - 1)) = k + 1
        BY <2>2, <1>1
      <3>2. (a \o b)[k] = b[k - (i - 1)]
        BY <2>2, <1>1, <1>2, <1>4, <1>5
      <3> QED BY <3>1, <3>2, <2>2, <1>3
    <2> QED BY <2>1, <2>2
  <1> QED BY <1>4, <1>5, <1>6 DEF a, b

(***************************************************************************)
(* Sums over a finite set: what MapThenSumSet adds up, whatever the order  *)
(* it goes in                                                              *)
(***************************************************************************)

\* Some element of s, the one that MapThenSumSet takes first.
Alguno(s) == CHOOSE x \in s : TRUE

\* The subsets of S with at most n elements.
Hasta(S, n) == {s \in SUBSET S : Cardinality(s) <= n}

\* f gives each of these subsets the sum of the weights w of its elements.
Suman(f, S, w, n) ==
    /\ f \in [Hasta(S, n) -> Int]
    /\ f[{}] = 0
    /\ \A s \in Hasta(S, n) : \A x \in s : f[s] = w[x] + f[s \ {x}]

\* The subsets by their size.
LEMMA HastaOK ==
    ASSUME NEW S, IsFiniteSet(S), NEW n \in Nat
    PROVE  /\ {} \in Hasta(S, n)
           /\ \A s \in Hasta(S, n) : Cardinality(s) \in Nat /\ s \subseteq S
           /\ \A s \in Hasta(S, n) : s \in Hasta(S, n + 1)
           /\ Hasta(S, Cardinality(S)) = SUBSET S
           /\ Hasta(S, 0) = {{}}
  <1>1. \A s \in SUBSET S : IsFiniteSet(s) /\ Cardinality(s) \in Nat /\ Cardinality(s) <= Cardinality(S)
    BY FS_Subset, FS_CardinalityType
  <1>3. Cardinality({}) = 0 /\ \A s \in SUBSET S : Cardinality(s) = 0 <=> s = {}
    BY <1>1, FS_EmptySet
  <1>4. Hasta(S, 0) = {{}}
    BY <1>1, <1>3 DEF Hasta
  <1>5. Hasta(S, Cardinality(S)) = SUBSET S
    BY <1>1 DEF Hasta
  <1> QED BY <1>1, <1>3, <1>4, <1>5 DEF Hasta

\* One element less is one size less.
LEMMA SinUno ==
    ASSUME NEW S, IsFiniteSet(S), NEW n \in Nat, NEW s \in Hasta(S, n + 1), NEW x \in s
    PROVE  s \ {x} \in Hasta(S, n)
  <1>1. s \in SUBSET S /\ Cardinality(s) <= n + 1 /\ s \ {x} \in SUBSET S
    BY DEF Hasta
  <1>2. Cardinality(s \ {x}) = Cardinality(s) - 1 /\ Cardinality(s) \in Nat
    BY <1>1, FS_Subset, FS_CardinalityType, FS_RemoveElement
  <1>3. Cardinality(s \ {x}) <= n
    BY <1>1, <1>2
  <1> QED BY <1>1, <1>3 DEF Hasta

\* There is a sum, one element more at a time, and whichever element goes first it is the same.
LEMMA HaySuma ==
    ASSUME NEW S, IsFiniteSet(S), NEW w, \A x \in S : w[x] \in Int
    PROVE  \A n \in Nat : \E f : Suman(f, S, w, n)
  <1> DEFINE T == {n \in Nat : \E f : Suman(f, S, w, n)}
  <1>1. 0 \in T
    <2>1. Suman([s \in {{}} |-> 0], S, w, 0)
      BY HastaOK DEF Suman
    <2> QED BY <2>1
  <1>2. ASSUME NEW n \in Nat, n \in T PROVE n + 1 \in T
    <2>1. PICK f : Suman(f, S, w, n)
      BY <1>2
    <2> DEFINE g == [s \in Hasta(S, n + 1) |->
                       IF s \in Hasta(S, n) THEN f[s] ELSE w[Alguno(s)] + f[s \ {Alguno(s)}]]
    <2>0. n + 1 \in Nat
      OBVIOUS
    <2>2. \A s \in Hasta(S, n) : f[s] \in Int /\ s \in Hasta(S, n + 1) /\ g[s] = f[s]
      BY <2>1, HastaOK DEF Suman
    <2>3. ASSUME NEW s \in Hasta(S, n + 1), s \notin Hasta(S, n)
          PROVE  /\ Alguno(s) \in s /\ s \subseteq S /\ s \ {Alguno(s)} \in Hasta(S, n)
                 /\ g[s] = w[Alguno(s)] + f[s \ {Alguno(s)}] /\ g[s] \in Int
      <3>1. s # {} /\ s \subseteq S
        <4>1. {} \in Hasta(S, n)
          BY HastaOK
        <4> QED BY <2>3, <4>1 DEF Hasta
      <3>2. Alguno(s) \in s
        BY <3>1 DEF Alguno
      <3>3. s \ {Alguno(s)} \in Hasta(S, n)
        BY <3>2, SinUno
      <3>4. w[Alguno(s)] \in Int
        BY <3>1, <3>2
      <3>5. g[s] = w[Alguno(s)] + f[s \ {Alguno(s)}]
        BY <2>3
      <3>6. f[s \ {Alguno(s)}] \in Int
        BY <2>2, <3>3
      <3> HIDE DEF g
      <3> QED BY <3>1, <3>2, <3>3, <3>4, <3>5, <3>6
    <2>4. g \in [Hasta(S, n + 1) -> Int]
      BY <2>2, <2>3
    <2> HIDE DEF g
    <2>5. g[{}] = 0
      BY <2>1, <2>2, HastaOK DEF Suman
    <2>6. ASSUME NEW s \in Hasta(S, n + 1), NEW x \in s PROVE g[s] = w[x] + g[s \ {x}]
      <3>1. s \ {x} \in Hasta(S, n) /\ g[s \ {x}] = f[s \ {x}]
        BY <2>2, SinUno
      <3>2. CASE s \in Hasta(S, n)
        BY <2>1, <2>2, <3>1, <3>2 DEF Suman
      <3>3. CASE s \notin Hasta(S, n)
        <4> DEFINE c == Alguno(s)
        <4>1. c \in s /\ s \subseteq S /\ s \ {c} \in Hasta(S, n) /\ g[s] = w[c] + f[s \ {c}]
          BY <2>3, <3>3
        <4> HIDE DEF c
        <4>2. CASE c = x
          BY <3>1, <4>1, <4>2
        <4>3. CASE c # x
          <5>1. x \in s \ {c} /\ c \in s \ {x}
            BY <4>1, <4>3
          <5>2. f[s \ {c}] = w[x] + f[(s \ {c}) \ {x}] /\ f[s \ {x}] = w[c] + f[(s \ {x}) \ {c}]
            BY <2>1, <3>1, <4>1, <5>1 DEF Suman
          <5>3. (s \ {c}) \ {x} = (s \ {x}) \ {c}
            OBVIOUS
          <5>4. (s \ {c}) \ {x} \in Hasta(S, n)
            <6>1. s \ {c} \in Hasta(S, n + 1)
              BY <4>1, HastaOK
            <6> DEFINE t == s \ {c}
            <6>2. t \in Hasta(S, n + 1) /\ x \in t
              BY <5>1, <6>1
            <6> HIDE DEF t
            <6>3. t \ {x} \in Hasta(S, n)
              BY <6>2, SinUno
            <6> QED BY <6>3 DEF t
          <5> DEFINE r == f[(s \ {c}) \ {x}]
          <5>5. r \in Int /\ w[x] \in Int /\ w[c] \in Int
            BY <2>2, <4>1, <5>4
          <5>6. f[s \ {c}] = w[x] + r /\ f[s \ {x}] = w[c] + r
            BY <5>2, <5>3
          <5> HIDE DEF r
          <5> QED BY <3>1, <4>1, <5>5, <5>6
        <4> QED BY <4>2, <4>3
      <3> QED BY <3>2, <3>3
    <2>7. Suman(g, S, w, n + 1)
      BY <2>4, <2>5, <2>6 DEF Suman
    <2> QED BY <2>7
  <1> HIDE DEF T
  <1>3. \A n \in Nat : n \in T
    BY <1>1, <1>2, Inductivo
  <1> QED BY <1>3 DEF T

\* f sums the subsets of S.
EsSuma(f, S, w) ==
    /\ f \in [SUBSET S -> Int]
    /\ f[{}] = 0
    /\ \A s \in SUBSET S : \A x \in s : f[s] = w[x] + f[s \ {x}]

\* Two functions that add one element at a time, whichever they take, agree.
SumanIgual(f, g, A, w) ==
    /\ f[{}] = 0 /\ g[{}] = 0
    /\ \A s \in SUBSET A : s # {} => \E x \in s : /\ f[s] = w[x] + f[s \ {x}]
                                                 /\ g[s] = w[x] + g[s \ {x}]

LEMMA UnaSuma ==
    ASSUME NEW A, IsFiniteSet(A), NEW w, NEW f, NEW g, SumanIgual(f, g, A, w)
    PROVE  f[A] = g[A]
  <1> DEFINE F == {s \in SUBSET A : f[s] # g[s]}
             D == {Cardinality(s) : s \in F}
  <1>1. SUFFICES ASSUME F # {} PROVE FALSE
    OBVIOUS
  <1>2. \A s \in SUBSET A : IsFiniteSet(s) /\ Cardinality(s) \in Nat
    BY FS_Subset, FS_CardinalityType
  <1>3. D \subseteq Nat /\ D # {}
    BY <1>1, <1>2
  <1>4. PICK n \in D : \A m \in D : n <= m
    <2> HIDE DEF D
    <2> QED BY <1>3, MinimoOK
  <1>5. PICK s \in F : n = Cardinality(s)
    OBVIOUS
  <1>6. s # {} /\ s \in SUBSET A
    BY DEF SumanIgual
  <1>7. PICK x \in s : f[s] = w[x] + f[s \ {x}] /\ g[s] = w[x] + g[s \ {x}]
    BY <1>6 DEF SumanIgual
  <1>8. s \ {x} \in SUBSET A /\ Cardinality(s \ {x}) = Cardinality(s) - 1
    BY <1>2, <1>6, FS_RemoveElement
  <1>9. s \ {x} \in F
    BY <1>5, <1>7, <1>8
  <1>10. Cardinality(s \ {x}) \in D /\ Cardinality(s) \in Nat
    BY <1>2, <1>6, <1>9
  <1> HIDE DEF D, F
  <1> QED BY <1>4, <1>5, <1>8, <1>10

\* Every finite set has its sums.
LEMMA SumaOK ==
    ASSUME NEW S, IsFiniteSet(S), NEW w, \A x \in S : w[x] \in Int
    PROVE  \E f : EsSuma(f, S, w)
  <1> DEFINE n == Cardinality(S)
  <1>1. n \in Nat
    BY FS_CardinalityType
  <1>2. Hasta(S, n) = SUBSET S
    BY HastaOK
  <1> HIDE DEF n
  <1>3. PICK f : Suman(f, S, w, n)
    BY <1>1, HaySuma
  <1>4. /\ f \in [SUBSET S -> Int] /\ f[{}] = 0
        /\ \A s \in SUBSET S : \A x \in s : f[s] = w[x] + f[s \ {x}]
    <2>1. /\ f \in [Hasta(S, n) -> Int] /\ f[{}] = 0
          /\ \A s \in Hasta(S, n) : \A x \in s : f[s] = w[x] + f[s \ {x}]
      BY <1>3 DEF Suman
    <2> QED BY <1>2, <2>1
  <1>5. EsSuma(f, S, w)
    BY <1>4 DEF EsSuma
  <1> QED BY <1>5

\* The recursive function of MapThenSumSet.
EsRec(f, S, w) ==
    f = [s \in SUBSET S |-> IF s = {} THEN 0 ELSE w[Alguno(s)] + f[s \ {Alguno(s)}]]

\* It is the sum, and there is one.
LEMMA RecSuma ==
    ASSUME NEW S, IsFiniteSet(S), NEW w, NEW f, EsSuma(f, S, w)
    PROVE  /\ EsRec(f, S, w)
           /\ \A g : EsRec(g, S, w) => g = f
  <1>1. \A s \in SUBSET S : s # {} => Alguno(s) \in s
    BY DEF Alguno
  <1>2. EsRec(f, S, w)
    <2>1. \A s \in SUBSET S :
             f[s] = IF s = {} THEN 0 ELSE w[Alguno(s)] + f[s \ {Alguno(s)}]
      BY <1>1 DEF EsSuma
    <2>2. f = [s \in SUBSET S |-> f[s]]
      BY DEF EsSuma
    <2> QED BY <2>1, <2>2 DEF EsRec
  <1>3. ASSUME NEW g, EsRec(g, S, w) PROVE g = f
    <2>1. \A s \in SUBSET S : g[s] = IF s = {} THEN 0 ELSE w[Alguno(s)] + g[s \ {Alguno(s)}]
      BY <1>3 DEF EsRec
    <2>2. g = [s \in SUBSET S |-> g[s]]
      BY <1>3 DEF EsRec
    <2>3. ASSUME NEW A \in SUBSET S PROVE f[A] = g[A]
      <3>1. IsFiniteSet(A) /\ \A s \in SUBSET A : s \in SUBSET S
        BY FS_Subset
      <3>2. f[{}] = 0 /\ g[{}] = 0
        BY <2>1 DEF EsSuma
      <3>3. \A s \in SUBSET A : s # {} => \E x \in s : /\ f[s] = w[x] + f[s \ {x}]
                                                       /\ g[s] = w[x] + g[s \ {x}]
        BY <1>1, <2>1, <3>1 DEF EsSuma
      <3>4. SumanIgual(f, g, A, w)
        BY <3>2, <3>3 DEF SumanIgual
      <3> QED BY <3>1, <3>4, UnaSuma
    <2>4. f = [s \in SUBSET S |-> f[s]]
      BY DEF EsSuma
    <2> QED BY <2>2, <2>3, <2>4
  <1> QED BY <1>2, <1>3

\* An element more adds its weight.
LEMMA SumaMas ==
    ASSUME NEW S, IsFiniteSet(S), NEW x, x \notin S, NEW w, NEW v,
           \A y \in S \cup {x} : w[y] \in Int, \A y \in S : v[y] = w[y],
           NEW f, EsSuma(f, S \cup {x}, w), NEW g, EsSuma(g, S, v)
    PROVE  f[S \cup {x}] = w[x] + g[S] /\ g[S] \in Int
  <1> DEFINE T == S \cup {x}
  <1>1. x \in T /\ T \ {x} = S /\ T \in SUBSET T /\ \A s \in SUBSET S : s \in SUBSET T
    OBVIOUS
  <1>2. \A y \in S : v[y] = w[y]
    OBVIOUS
  <1>3. EsSuma(f, T, w)
    OBVIOUS
  <1> HIDE DEF T
  <1>4. f[T] = w[x] + f[S]
    BY <1>1, <1>3 DEF EsSuma
  <1>5. SumanIgual(f, g, S, w)
    <2>1. f[{}] = 0 /\ g[{}] = 0
      BY <1>3 DEF EsSuma
    <2>2. ASSUME NEW s \in SUBSET S, NEW y \in s
          PROVE  f[s] = w[y] + f[s \ {y}] /\ g[s] = w[y] + g[s \ {y}]
      <3>1. f[s] = w[y] + f[s \ {y}]
        BY <1>1, <1>3 DEF EsSuma
      <3>2. g[s] = v[y] + g[s \ {y}]
        BY DEF EsSuma
      <3> QED BY <1>2, <3>1, <3>2
    <2> QED BY <2>1, <2>2 DEF SumanIgual
  <1>6. f[S] = g[S]
    BY <1>5, UnaSuma
  <1>7. g[S] \in Int
    BY DEF EsSuma
  <1> QED BY <1>4, <1>6, <1>7 DEF T
=============================================================================
