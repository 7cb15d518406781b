--------------------------- MODULE BrokerBuddyProofs ---------------------------
(***************************************************************************)
(* Proofs about BrokerBuddy, for every memory, size of block, algorithm    *)
(* and set of messages: the queues and the cache hold the same messages,   *)
(* and, in a memory that is a number of the largest blocks, bitmaps,       *)
(* counts and table say the same of every block, no two messages share a   *)
(* byte, and evictions always make room.                                   *)
(*                                                                         *)
(* The bitmaps are kept by arithmetic on indices, so most of this module   *)
(* is about indices: which blocks share bytes with which (Toca), and that  *)
(* the loops over the orders set and clear the bits of those.              *)
(***************************************************************************)
EXTENDS BrokerBuddy, LemasComunes

(***************************************************************************)
(* Powers of two, and the indices of the blocks                            *)
(***************************************************************************)

\* f is pow2 up to n.
EsPow2(f, n) == f \in [0 .. n -> Nat] /\ f[0] = 1 /\ \A i \in 1 .. n : f[i] = 2 * f[i - 1]

\* The recursion of pow2 has a solution up to each number, and it is one.
LEMMA HayPow2 == \A n \in Nat : \E f : EsPow2(f, n)
  <1> DEFINE T == {n \in Nat : \E f : EsPow2(f, n)}
  <1>1. 0 \in T
    <2>1. EsPow2([i \in 0 .. 0 |-> 1], 0)
      BY DEF EsPow2
    <2> QED BY <2>1
  <1>2. ASSUME NEW n \in Nat, n \in T PROVE n + 1 \in T
    <2>1. PICK f : EsPow2(f, n)
      BY <1>2
    <2> DEFINE g == [i \in 0 .. n + 1 |-> IF i = n + 1 THEN 2 * f[n] ELSE f[i]]
    <2>2. g \in [0 .. n + 1 -> Nat] /\ g[0] = 1
      BY <2>1 DEF EsPow2
    <2>3. ASSUME NEW i \in 1 .. n + 1 PROVE g[i] = 2 * g[i - 1]
      <3>1. g[i - 1] = f[i - 1]
        OBVIOUS
      <3>2. CASE i = n + 1
        BY <3>1, <3>2
      <3>3. CASE i # n + 1
        BY <2>1, <3>1, <3>3 DEF EsPow2
      <3> QED BY <3>2, <3>3
    <2> HIDE DEF g
    <2>4. EsPow2(g, n + 1)
      BY <2>2, <2>3 DEF EsPow2
    <2> QED BY <2>4
  <1> HIDE DEF T
  <1>3. \A n \in Nat : n \in T
    BY <1>1, <1>2, Inductivo
  <1> QED BY <1>3 DEF T

LEMMA UnaPow2 ==
    ASSUME NEW n \in Nat, NEW m \in Nat, NEW f, NEW g, EsPow2(f, n), EsPow2(g, m)
    PROVE  \A i \in Nat : i <= n /\ i <= m => f[i] = g[i]
  <1> DEFINE T == {i \in Nat : i <= n /\ i <= m => f[i] = g[i]}
  <1>1. 0 \in T
    BY DEF EsPow2
  <1>2. ASSUME NEW i \in Nat, i \in T PROVE i + 1 \in T
    <2>1. CASE i + 1 <= n /\ i + 1 <= m
      <3>1. f[i + 1] = 2 * f[i] /\ g[i + 1] = 2 * g[i]
        BY <2>1 DEF EsPow2
      <3> QED BY <1>2, <2>1, <3>1
    <2> QED BY <2>1
  <1> HIDE DEF T
  <1>3. \A i \in Nat : i \in T
    BY <1>1, <1>2, Inductivo
  <1> QED BY <1>3 DEF T

\* pow2 doubles.
LEMMA Pow2OK ==
    /\ pow2[0] = 1
    /\ \A n \in Nat : pow2[n] \in Nat \ {0} /\ pow2[n + 1] = 2 * pow2[n]
  <1> DEFINE F(n) == CHOOSE f : EsPow2(f, n)
             p == [n \in Nat |-> F(n)[n]]
  <1>1. \A n \in Nat : EsPow2(F(n), n)
    BY HayPow2
  <1> HIDE DEF F
  <1>2. p[0] = 1 /\ \A n \in Nat : p[n] \in Nat
    BY <1>1 DEF EsPow2
  <1>3. ASSUME NEW n \in Nat PROVE p[n + 1] = 2 * p[n]
    <2>1. EsPow2(F(n), n) /\ EsPow2(F(n + 1), n + 1)
      BY <1>1
    <2>2. F(n)[n] = F(n + 1)[n]
      BY <2>1, UnaPow2
    <2>3. F(n + 1)[n + 1] = 2 * F(n + 1)[n]
      BY <2>1 DEF EsPow2
    <2> QED BY <2>2, <2>3
  <1>4. p = [n \in Nat |-> IF n = 0 THEN 1 ELSE 2 * p[n - 1]]
    <2>1. ASSUME NEW n \in Nat PROVE p[n] = IF n = 0 THEN 1 ELSE 2 * p[n - 1]
      <3>1. CASE n = 0
        BY <1>2, <3>1
      <3>2. CASE n # 0
        <4>1. n - 1 \in Nat /\ n - 1 + 1 = n
          BY <3>2
        <4> HIDE DEF p
        <4>2. p[n - 1 + 1] = 2 * p[n - 1]
          BY <1>3, <4>1
        <4> QED BY <3>2, <4>1, <4>2
      <3> QED BY <3>1, <3>2
    <2>2. p = [n \in Nat |-> p[n]]
      OBVIOUS
    <2> HIDE DEF p
    <2> QED BY <2>1, <2>2
  <1> HIDE DEF p
  <1>5. pow2 = [n \in Nat |-> IF n = 0 THEN 1 ELSE 2 * pow2[n - 1]]
    BY <1>4 DEF pow2
  <1>6. pow2[0] = 1 /\ \A n \in Nat : pow2[n + 1] = 2 * pow2[n]
    <2>1. ASSUME NEW n \in Nat PROVE pow2[n + 1] = 2 * pow2[n]
      <3>1. n + 1 \in Nat /\ n + 1 # 0 /\ n + 1 - 1 = n
        OBVIOUS
      <3> QED BY <1>5, <3>1
    <2>2. pow2[0] = 1
      BY <1>5
    <2> QED BY <2>1, <2>2
  <1> DEFINE T == {n \in Nat : pow2[n] \in Nat \ {0}}
  <1>7. 0 \in T /\ \A n \in Nat : n \in T => n + 1 \in T
    BY <1>6
  <1> HIDE DEF T
  <1>8. \A n \in Nat : n \in T
    BY <1>7, Inductivo
  <1> QED BY <1>6, <1>8 DEF T

\* pow2 grows, and past its argument.
LEMMA Pow2Crece ==
    /\ \A n \in Nat : n < pow2[n]
    /\ \A n, d \in Nat : pow2[n] <= pow2[n + d]
  <1> DEFINE T == {n \in Nat : n < pow2[n]}
  <1>1. 0 \in T
    BY Pow2OK
  <1>2. ASSUME NEW n \in Nat, n \in T PROVE n + 1 \in T
    BY <1>2, Pow2OK
  <1>3. \A n \in Nat : n \in T
    <2> HIDE DEF T
    <2> QED BY <1>1, <1>2, Inductivo
  <1>4. ASSUME NEW n \in Nat PROVE \A d \in Nat : pow2[n] <= pow2[n + d]
    <2> DEFINE D == {d \in Nat : pow2[n] <= pow2[n + d]}
    <2>1. 0 \in D
      BY Pow2OK
    <2>2. ASSUME NEW d \in Nat, d \in D PROVE d + 1 \in D
      <3>1. pow2[n + d + 1] = 2 * pow2[n + d] /\ pow2[n + d] \in Nat /\ pow2[n] \in Nat
        BY Pow2OK
      <3> QED BY <2>2, <3>1
    <2> HIDE DEF D
    <2>3. \A d \in Nat : d \in D
      BY <2>1, <2>2, Inductivo
    <2> QED BY <2>3 DEF D
  <1> QED BY <1>3, <1>4

\* pow2[a + b] is the product of both.
LEMMA Pow2Suma ==
    ASSUME NEW a \in Nat
    PROVE  \A b \in Nat : pow2[a + b] = pow2[a] * pow2[b]
  <1> DEFINE T == {b \in Nat : pow2[a + b] = pow2[a] * pow2[b]}
  <1>1. 0 \in T
    BY Pow2OK
  <1>2. ASSUME NEW b \in Nat, b \in T PROVE b + 1 \in T
    <2>1. pow2[a + b + 1] = 2 * pow2[a + b] /\ pow2[b + 1] = 2 * pow2[b]
          /\ pow2[a] \in Nat /\ pow2[b] \in Nat
      BY Pow2OK
    <2>2. pow2[a + b] = pow2[a] * pow2[b] /\ a + (b + 1) = a + b + 1
      BY <1>2
    <2>3. \A x, y \in Nat : 2 * (x * y) = x * (2 * y)
      OBVIOUS
    <2> QED BY <2>1, <2>2, <2>3
  <1> HIDE DEF T
  <1>3. \A b \in Nat : b \in T
    BY <1>1, <1>2, Inductivo
  <1> QED BY <1>3 DEF T

\* Division by two positive numbers, one after the other, and of a multiple.
LEMMA DivPor ==
    ASSUME NEW a \in Nat, NEW b \in Nat \ {0}, NEW c \in Nat \ {0}
    PROVE  (a \div b) \div c = a \div (b * c)
  OBVIOUS

LEMMA DivExacta ==
    ASSUME NEW q \in Nat, NEW b \in Nat \ {0}
    PROVE  (q * b) \div b = q
  <1>1. q * b \in Nat /\ q * b <= q * b /\ q * b < q * b + b
    OBVIOUS
  <1> QED BY <1>1, DivOK

(***************************************************************************)
(* Orders and their blocks                                                 *)
(***************************************************************************)

\* The CHOOSE of Exponente finds one: the smallest block is no larger than TamanoMinimo.
LEMMA ExponenteOK ==
    Exponente \in Nat /\ pow2[Exponente] <= TamanoMinimo
  <1> DEFINE T == {n \in Nat : TamanoMinimo < pow2[n]}
  <1>0. TamanoMinimo \in Nat \ {0}
    BY BuddyAssumption
  <1>1. T \subseteq Nat /\ T # {}
    BY <1>0, Pow2Crece
  <1>2. PICK m \in T : \A n \in T : m <= n
    <2> HIDE DEF T
    <2> QED BY <1>1, MinimoOK
  <1>3. m # 0
    BY <1>0, Pow2OK
  <1> DEFINE e == m - 1
  <1>4. e \in Nat /\ e \notin T /\ e + 1 = m
    BY <1>2, <1>3
  <1>5. pow2[e] <= TamanoMinimo /\ TamanoMinimo < pow2[e + 1]
    BY <1>0, <1>2, <1>4, Pow2OK
  <1>6. e \in 0 .. TamanoMinimo
    BY <1>0, <1>4, <1>5, Pow2Crece, Pow2OK
  <1> HIDE DEF e
  <1>7. \E x \in 0 .. TamanoMinimo : pow2[x] <= TamanoMinimo /\ TamanoMinimo < pow2[x + 1]
    BY <1>5, <1>6
  <1>8. Exponente \in 0 .. TamanoMinimo /\ pow2[Exponente] <= TamanoMinimo
    BY <1>7 DEF Exponente
  <1> QED BY <1>0, <1>8

\* The block of each order is twice that of the order before.
LEMMA TamanoOK ==
    /\ \A o \in Nat : buddy_size(o) \in Nat \ {0} /\ buddy_size(o + 1) = 2 * buddy_size(o)
    /\ \A o, d \in Nat : /\ buddy_size(o) <= buddy_size(o + d)
                         /\ buddy_size(o + d) = buddy_size(o) * pow2[d]
  <1>0. Exponente \in Nat
    BY ExponenteOK
  <1>1. ASSUME NEW o \in Nat
        PROVE  buddy_size(o) \in Nat \ {0} /\ buddy_size(o + 1) = 2 * buddy_size(o)
    <2>1. Exponente + o \in Nat /\ Exponente + (o + 1) = Exponente + o + 1
      BY <1>0
    <2> QED BY <2>1, Pow2OK DEF buddy_size
  <1>2. ASSUME NEW o \in Nat, NEW d \in Nat
        PROVE  /\ buddy_size(o) <= buddy_size(o + d)
               /\ buddy_size(o + d) = buddy_size(o) * pow2[d]
    <2>1. Exponente + o \in Nat /\ Exponente + (o + d) = Exponente + o + d
      BY <1>0
    <2> QED BY <2>1, Pow2Crece, Pow2Suma DEF buddy_size
  <1> QED BY <1>1, <1>2

\* The orders are those from 0 to UltimoOrden, without a gap.
LEMMA OrdenesOK ==
    UltimoOrden \in Nat /\ Ordenes = 0 .. UltimoOrden /\ buddy_size(UltimoOrden) <= TamanoMemoria
  <1> DEFINE T == {n \in Nat : n \notin Ordenes}
  <1>0. TamanoMemoria \in Nat /\ MaxBitarrays \in Nat \ {0} /\ TamanoMinimo <= TamanoMemoria
        /\ TamanoMinimo \in Nat
    BY BuddyAssumption
  <1>1. Ordenes \subseteq Nat /\ MaxBitarrays \in T
    BY <1>0 DEF Ordenes
  <1>2. PICK m \in T : \A n \in T : m <= n
    <2>1. T \subseteq Nat
      OBVIOUS
    <2> HIDE DEF T
    <2> QED BY <1>1, <2>1, MinimoOK
  <1>3. 0 \in Ordenes
    <2>1. buddy_size(0) = pow2[Exponente]
      BY ExponenteOK DEF buddy_size
    <2>2. pow2[Exponente] \in Nat
      BY ExponenteOK, Pow2OK
    <2> QED BY <1>0, <2>1, <2>2, ExponenteOK DEF Ordenes
  <1> DEFINE u == m - 1
  <1>4. u \in Nat /\ u + 1 = m /\ m \in Nat
    BY <1>3
  <1>5. \A n \in 0 .. u : n \in Ordenes
    BY <1>2, <1>4
  <1>6. ASSUME NEW n \in Ordenes PROVE n <= u
    <2>1. SUFFICES ASSUME n >= m PROVE FALSE
      BY <1>1, <1>4
    <2>2. n - m \in Nat /\ m + (n - m) = n
      BY <1>1, <1>4, <2>1
    <2>3. buddy_size(m) <= buddy_size(n) /\ buddy_size(m) \in Nat /\ buddy_size(n) \in Nat
      BY <1>1, <1>4, <2>2, TamanoOK
    <2>4. n \in 0 .. MaxBitarrays - 1 /\ buddy_size(n) <= TamanoMemoria
      BY DEF Ordenes
    <2>5. m \in Ordenes
      BY <1>0, <1>4, <2>1, <2>3, <2>4 DEF Ordenes
    <2> QED BY <2>5
  <1> HIDE DEF u, T
  <1>7. Ordenes = 0 .. u /\ u \in Ordenes
    <2>1. Ordenes \subseteq 0 .. u
      BY <1>1, <1>4, <1>6
    <2>2. 0 .. u \subseteq Ordenes
      BY <1>5
    <2>3. u \in 0 .. u
      BY <1>4
    <2> QED BY <2>1, <2>2, <2>3
  <1>8. UltimoOrden = u
    <2>1. \A n \in Ordenes : u >= n
      BY <1>4, <1>7
    <2>2. UltimoOrden \in Ordenes /\ \A n \in Ordenes : UltimoOrden >= n
      BY <1>7, <2>1 DEF UltimoOrden, Max
    <2> QED BY <1>4, <1>7, <2>1, <2>2
  <1>9. buddy_size(u) <= TamanoMemoria
    BY <1>7 DEF Ordenes
  <1> QED BY <1>4, <1>7, <1>8, <1>9

\* The memory is a number of the largest blocks.
MemoriaJusta == TamanoMemoria % buddy_size(UltimoOrden) = 0

\* The blocks of each order fill the memory, and a block of order k holds pow2[k - o] of o.
LEMMA CantidadOK ==
    ASSUME MemoriaJusta, NEW o \in Ordenes
    PROVE  /\ cant_buddys(o) \in Nat \ {0} /\ TamanoMemoria = cant_buddys(o) * buddy_size(o)
           /\ \A k \in Ordenes : o <= k => cant_buddys(o) = cant_buddys(k) * pow2[k - o]
  <1> DEFINE u == UltimoOrden
             q == TamanoMemoria \div buddy_size(u)
  <1>0. /\ u \in Nat /\ Ordenes = 0 .. u /\ buddy_size(u) <= TamanoMemoria
        /\ buddy_size(u) \in Nat \ {0} /\ TamanoMemoria \in Nat
    BY OrdenesOK, TamanoOK, BuddyAssumption
  <1>1. q \in Nat /\ TamanoMemoria = q * buddy_size(u)
    <2>1. TamanoMemoria % buddy_size(u) = 0
      BY DEF MemoriaJusta
    <2> HIDE DEF u
    <2> QED BY <1>0, <2>1
  <1>2. q # 0
    BY <1>0, <1>1
  <1> HIDE DEF q, u
  <1>3. ASSUME NEW k \in Ordenes
        PROVE  cant_buddys(k) = q * pow2[u - k] /\ TamanoMemoria = (q * pow2[u - k]) * buddy_size(k)
               /\ q * pow2[u - k] \in Nat \ {0}
    <2>1. k \in Nat /\ u - k \in Nat /\ k + (u - k) = u
      BY <1>0
    <2>2. buddy_size(u) = buddy_size(k) * pow2[u - k] /\ buddy_size(k) \in Nat \ {0}
          /\ pow2[u - k] \in Nat \ {0}
      BY <2>1, TamanoOK, Pow2OK
    <2>3. \A s, p \in Nat \ {0} : q * (s * p) = (q * p) * s /\ q * p \in Nat \ {0}
      BY <1>1, <1>2
    <2>4. TamanoMemoria = (q * pow2[u - k]) * buddy_size(k) /\ q * pow2[u - k] \in Nat \ {0}
      BY <1>1, <2>2, <2>3
    <2>5. TamanoMemoria \div buddy_size(k) = q * pow2[u - k]
      BY <2>2, <2>4, DivExacta
    <2> QED BY <2>4, <2>5 DEF cant_buddys
  <1>4. ASSUME NEW k \in Ordenes, o <= k
        PROVE  cant_buddys(o) = cant_buddys(k) * pow2[k - o]
    <2>1. u - k \in Nat /\ k - o \in Nat /\ (u - k) + (k - o) = u - o
      BY <1>0, <1>4
    <2>2. pow2[u - o] = pow2[u - k] * pow2[k - o]
      BY <2>1, Pow2Suma
    <2>3. pow2[u - k] \in Nat /\ pow2[k - o] \in Nat
      BY <2>1, Pow2OK
    <2>4. \A a, b \in Nat : q * (a * b) = (q * a) * b
      BY <1>1
    <2>5. q * (pow2[u - k] * pow2[k - o]) = (q * pow2[u - k]) * pow2[k - o]
      BY <2>3, <2>4
    <2>6. cant_buddys(o) = q * pow2[u - o] /\ cant_buddys(k) = q * pow2[u - k]
      BY <1>3
    <2> QED BY <2>2, <2>5, <2>6
  <1> QED BY <1>3, <1>4

(***************************************************************************)
(* Indices: the block of an order that has the block i of a smaller one    *)
(***************************************************************************)

\* Going up in one step or in two arrives at the same block.
LEMMA IndiceOK ==
    ASSUME NEW o \in Nat, NEW k \in Nat, o <= k, NEW i \in Nat
    PROVE  /\ Indice(o, i, k) \in Nat
           /\ Indice(o, i, o) = i
           /\ \A l \in Nat : k <= l => Indice(k, Indice(o, i, k), l) = Indice(o, i, l)
           /\ Indice(o, i, k + 1) = Indice(o, i, k) \div 2
           /\ Indice(o, 0, k) = 0
  <1>1. ASSUME NEW d \in Nat
        PROVE  pow2[d] \in Nat \ {0} /\ i \div pow2[d] \in Nat /\ 0 \div pow2[d] = 0
    <2>1. pow2[d] \in Nat \ {0}
      BY Pow2OK
    <2>2. i \div pow2[d] \in Nat
      BY <2>1, DivOK
    <2>3. 0 * pow2[d] <= 0 /\ 0 < 0 * pow2[d] + pow2[d]
      BY <2>1
    <2> QED BY <2>1, <2>2, <2>3, DivOK
  <1>2. k - o \in Nat /\ o - o = 0 /\ k + 1 - o = k - o + 1
    OBVIOUS
  <1>3. Indice(o, i, o) = i
    BY <1>2, Pow2OK DEF Indice
  <1>4. ASSUME NEW l \in Nat, k <= l PROVE Indice(k, Indice(o, i, k), l) = Indice(o, i, l)
    <2>1. l - k \in Nat /\ l - o = (k - o) + (l - k)
      BY <1>4
    <2>2. pow2[l - o] = pow2[k - o] * pow2[l - k]
      BY <1>2, <2>1, Pow2Suma
    <2>3. (i \div pow2[k - o]) \div pow2[l - k] = i \div (pow2[k - o] * pow2[l - k])
      <3>1. pow2[k - o] \in Nat \ {0} /\ pow2[l - k] \in Nat \ {0}
        BY <1>1, <1>2, <2>1
      <3> QED BY <3>1, DivPor
    <2> QED BY <2>2, <2>3 DEF Indice
  <1>5. Indice(o, i, k + 1) = Indice(o, i, k) \div 2
    <2>1. pow2[k + 1 - o] = 2 * pow2[k - o]
      BY <1>2, Pow2OK
    <2>2. pow2[k - o] * 2 = 2 * pow2[k - o]
      BY <1>1, <1>2
    <2>3. (i \div pow2[k - o]) \div 2 = i \div (pow2[k - o] * 2)
      BY <1>1, <1>2, DivPor
    <2> QED BY <2>1, <2>2, <2>3 DEF Indice
  <1> QED BY <1>1, <1>2, <1>3, <1>4, <1>5 DEF Indice

\* One order up is half the index.
LEMMA IndiceSube ==
    ASSUME NEW o \in Nat, NEW k \in Nat, o <= k, NEW i \in Nat
    PROVE  Indice(o, i, k) \in Nat /\ Indice(o, i, k + 1) = Indice(o, i, k) \div 2
  BY IndiceOK

\* The blocks inside another one are those whose index it is.
LEMMA InterioresOK ==
    ASSUME NEW o \in Nat, NEW k \in Nat, k <= o, NEW i \in Nat, NEW x \in Nat
    PROVE  x \in Interiores(o, i, k) <=> Indice(k, x, o) = i
  <1> DEFINE p == pow2[o - k]
  <1>1. p \in Nat \ {0}
    BY Pow2OK
  <1>2. Interiores(o, i, k) = i * p .. (i + 1) * p - 1 /\ Indice(k, x, o) = x \div p
    BY DEF Interiores, Indice
  <1> HIDE DEF p
  <1>3. i * p \in Int /\ (i + 1) * p = i * p + p
    BY <1>1
  <1>4. x \in i * p .. (i + 1) * p - 1 <=> i * p <= x /\ x < i * p + p
    BY <1>1, <1>3
  <1>5. i * p <= x /\ x < i * p + p <=> x \div p = i
    BY <1>1, DivOK
  <1> QED BY <1>2, <1>4, <1>5

\* An index in the range of an order has its block in the range of any other.
LEMMA IndiceEnRango ==
    ASSUME MemoriaJusta, NEW o \in Ordenes, NEW k \in Ordenes, o <= k, NEW i \in Nat
    PROVE  i < cant_buddys(o) <=> Indice(o, i, k) < cant_buddys(k)
  <1> DEFINE p == pow2[k - o]
             c == cant_buddys(k)
             q == i \div p
  <1>1. o \in Nat /\ k \in Nat /\ p \in Nat \ {0}
    BY OrdenesOK, Pow2OK
  <1>2. cant_buddys(o) = c * p /\ c \in Nat
    BY CantidadOK
  <1>3. Indice(o, i, k) = q
    BY DEF Indice
  <1>4. q \in Nat /\ q * p <= i /\ i < q * p + p
    BY <1>1, DivOK
  <1> HIDE DEF p, c, q
  <1>5. q < c => i < c * p
    <2> SUFFICES ASSUME q + 1 <= c PROVE i < c * p
      BY <1>2, <1>4
    <2>1. (q + 1) * p <= c * p
      BY <1>1, <1>2, <1>4
    <2>2. (q + 1) * p = q * p + p /\ q * p \in Nat
      BY <1>1, <1>4
    <2> QED BY <1>1, <1>2, <1>4, <2>1, <2>2
  <1>6. c <= q => c * p <= i
    <2> SUFFICES ASSUME c <= q PROVE c * p <= i
      OBVIOUS
    <2>1. c * p <= q * p
      BY <1>1, <1>2, <1>4
    <2> QED BY <1>1, <1>2, <1>4, <2>1
  <1>7. c * p \in Nat
    BY <1>1, <1>2
  <1>8. i < c * p <=> q < c
    BY <1>2, <1>4, <1>5, <1>6, <1>7
  <1> QED BY <1>2, <1>3, <1>8 DEF c

\* Two blocks that make a larger one are neighbours.
LEMMA VecinoOK ==
    ASSUME NEW i \in Nat
    PROVE  /\ Vecino(i) \in Nat /\ Vecino(i) # i /\ Vecino(i) \div 2 = i \div 2
           /\ \A j \in Nat : j # i /\ j \div 2 = i \div 2 => j = Vecino(i)
           /\ \A c \in Nat : i < 2 * c => Vecino(i) < 2 * c
  BY DEF Vecino

(***************************************************************************)
(* Blocks that share bytes: one is inside the other                        *)
(***************************************************************************)

\* The bytes of a block are those whose quotient is its index.
LEMMA ByteOK ==
    ASSUME NEW o \in Nat, NEW i \in Nat
    PROVE  /\ \A y : y \in Bloque(o, i) <=> y \in Nat /\ y \div buddy_size(o) = i
           /\ i * buddy_size(o) \in Bloque(o, i)
  <1> DEFINE s == buddy_size(o)
  <1>1. s \in Nat \ {0}
    BY TamanoOK
  <1>2. Bloque(o, i) = i * s .. (i + 1) * s - 1
    BY DEF Bloque
  <1>3. \A y \in Nat : y \in Bloque(o, i) <=> y \div s = i
    <2> HIDE DEF s
    <2> TAKE y \in Nat
    <2>1. (i + 1) * s = i * s + s /\ i * s \in Nat
      BY <1>1
    <2>2. y \in Bloque(o, i) <=> i * s <= y /\ y < i * s + s
      BY <1>1, <1>2, <2>1
    <2>3. i * s <= y /\ y < i * s + s <=> y \div s = i
      BY <1>1, DivOK
    <2> QED BY <2>2, <2>3
  <1>4. \A y : y \in Bloque(o, i) => y \in Nat
    <2> HIDE DEF s
    <2>1. i * s \in Nat
      BY <1>1
    <2> QED BY <1>2, <2>1
  <1>5. i * s \in Bloque(o, i)
    <2> HIDE DEF s
    <2>1. (i + 1) * s = i * s + s /\ i * s \in Nat
      BY <1>1
    <2> QED BY <1>1, <1>2, <2>1
  <1> QED BY <1>3, <1>4, <1>5

\* The block x of order l and the block i of order o share bytes: one is inside the other.
Toca(l, x, o, i) == IF l <= o THEN Indice(l, x, o) = i ELSE Indice(o, i, l) = x

\* Two blocks share a byte exactly when the larger one has the smaller one.
LEMMA CompartenSiContiene ==
    ASSUME NEW o \in Nat, NEW k \in Nat, o <= k, NEW i \in Nat, NEW x \in Nat
    PROVE  Bloque(o, i) \cap Bloque(k, x) # {} <=> Indice(o, i, k) = x
  <1> DEFINE s == buddy_size(o)
             t == buddy_size(k)
             p == pow2[k - o]
  <1>1. s \in Nat \ {0} /\ t \in Nat \ {0} /\ p \in Nat \ {0} /\ t = s * p
    <2>1. k - o \in Nat /\ o + (k - o) = k
      OBVIOUS
    <2>2. p \in Nat \ {0}
      BY <2>1, Pow2OK
    <2>3. s \in Nat \ {0} /\ t \in Nat \ {0}
      BY TamanoOK
    <2>4. buddy_size(o + (k - o)) = s * p
      BY <2>1, TamanoOK
    <2> QED BY <2>1, <2>2, <2>3, <2>4
  <1>2. Indice(o, i, k) = i \div p
    BY DEF Indice
  <1>3. /\ \A y : y \in Bloque(o, i) <=> y \in Nat /\ y \div s = i
        /\ \A y : y \in Bloque(k, x) <=> y \in Nat /\ y \div t = x
        /\ i * s \in Bloque(o, i)
    BY ByteOK
  <1> HIDE DEF s, t, p
  <1>4. \A y \in Nat : y \div t = (y \div s) \div p
    <2> TAKE y \in Nat
    <2>1. (y \div s) \div p = y \div (s * p)
      BY <1>1, DivPor
    <2> QED BY <1>1, <2>1
  <1> QED BY <1>2, <1>3, <1>4

\* Toca, an arithmetic of indices, says when two blocks share a byte.
LEMMA TocaBytes ==
    ASSUME NEW l \in Nat, NEW x \in Nat, NEW o \in Nat, NEW i \in Nat
    PROVE  Toca(l, x, o, i) <=> Bloque(l, x) \cap Bloque(o, i) # {}
  <1>1. CASE l <= o
    BY <1>1, CompartenSiContiene DEF Toca
  <1>2. CASE ~(l <= o)
    <2>1. o <= l
      BY <1>2
    <2>2. Bloque(o, i) \cap Bloque(l, x) # {} <=> Indice(o, i, l) = x
      BY <2>1, CompartenSiContiene
    <2> QED BY <1>2, <2>2 DEF Toca
  <1> QED BY <1>1, <1>2

LEMMA TocaSimetrica ==
    ASSUME NEW l \in Nat, NEW x \in Nat, NEW o \in Nat, NEW i \in Nat
    PROVE  Toca(l, x, o, i) <=> Toca(o, i, l, x)
  <1>1. Bloque(l, x) \cap Bloque(o, i) = Bloque(o, i) \cap Bloque(l, x)
    OBVIOUS
  <1> QED BY <1>1, TocaBytes

\* What shares bytes with a block shares them with those that have it.
LEMMA TocaSube ==
    ASSUME NEW l \in Nat, NEW x \in Nat, NEW o \in Nat, NEW i \in Nat, NEW k \in Nat,
           o <= k, Toca(l, x, o, i)
    PROVE  Toca(l, x, k, Indice(o, i, k))
  <1>1. Indice(o, i, k) \in Nat
    BY IndiceOK
  <1>2. CASE l <= o
    <2>1. Indice(l, x, o) = i /\ l <= k
      BY <1>2 DEF Toca
    <2>2. Indice(o, Indice(l, x, o), k) = Indice(l, x, k)
      BY <1>2, IndiceOK
    <2> QED BY <2>1, <2>2 DEF Toca
  <1>3. CASE ~(l <= o) /\ l <= k
    <2>1. Indice(o, i, l) = x /\ o <= l
      BY <1>3 DEF Toca
    <2>2. Indice(l, Indice(o, i, l), k) = Indice(o, i, k)
      BY <1>3, <2>1, IndiceOK
    <2> QED BY <1>3, <2>1, <2>2 DEF Toca
  <1>4. CASE ~(l <= o) /\ ~(l <= k)
    <2>1. Indice(o, i, l) = x /\ k <= l
      BY <1>4 DEF Toca
    <2>2. Indice(k, Indice(o, i, k), l) = Indice(o, i, l)
      BY <2>1, IndiceOK
    <2> QED BY <1>4, <2>1, <2>2 DEF Toca
  <1> QED BY <1>2, <1>3, <1>4

\* Two blocks that share nothing, below one that has the first and shares bytes with the
\* second: on the way up from the first, the neighbour of some block shares bytes with the
\* second.
LEMMA HayVecino ==
    ASSUME NEW l \in Nat, NEW x \in Nat, NEW o \in Nat, NEW i \in Nat, NEW k \in Nat,
           o <= k, ~Toca(l, x, o, i), Toca(l, x, k, Indice(o, i, k))
    PROVE  \E j \in o .. k - 1 : Toca(l, x, j, Vecino(Indice(o, i, j)))
  <1>1. l < k
    <2>1. SUFFICES ASSUME k <= l PROVE Toca(l, x, o, i)
      OBVIOUS
    <2>2. Indice(k, Indice(o, i, k), l) = Indice(o, i, l)
      BY <2>1, IndiceOK
    <2>3. Indice(k, Indice(o, i, k), l) = x
      <3>1. CASE k = l
        <4>1. Indice(l, x, l) = x /\ Indice(l, Indice(o, i, l), l) = Indice(o, i, l)
          BY <2>1, <3>1, IndiceOK
        <4>2. Indice(l, x, l) = Indice(o, i, l)
          BY <3>1 DEF Toca
        <4> QED BY <3>1, <4>1, <4>2
      <3>2. CASE k # l
        <4>1. ~(l <= k)
          BY <2>1, <3>2
        <4> QED BY <4>1 DEF Toca
      <3> QED BY <3>1, <3>2
    <2>4. Indice(o, i, l) = x
      BY <2>2, <2>3
    <2>5. CASE l <= o
      <3>1. l = o
        BY <2>1, <2>5
      <3> QED BY <2>4, <3>1, IndiceOK DEF Toca
    <2> QED BY <2>4, <2>5 DEF Toca
  <1> DEFINE T == {j \in o .. k : l <= j /\ Indice(l, x, j) = Indice(o, i, j)}
  <1>2. k \in T
    BY <1>1 DEF Toca
  <1>3. PICK m \in T : \A j \in T : m <= j
    <2>1. T \subseteq Nat /\ T # {}
      BY <1>2
    <2> HIDE DEF T
    <2> QED BY <2>1, MinimoOK
  <1>4. m # o
    <2>1. SUFFICES ASSUME m = o PROVE Toca(l, x, o, i)
      OBVIOUS
    <2>2. l <= o /\ Indice(l, x, o) = i
      BY <2>1, IndiceOK
    <2> QED BY <2>2 DEF Toca
  <1>5. m # l
    <2>1. SUFFICES ASSUME m = l PROVE Toca(l, x, o, i)
      OBVIOUS
    <2>2. o < l /\ Indice(o, i, l) = x
      BY <1>4, <2>1, IndiceOK
    <2> QED BY <2>2 DEF Toca
  <1> DEFINE n == m - 1
  <1>6. n \in o .. k - 1 /\ l <= n /\ n \in Nat /\ n + 1 = m /\ o <= n
    BY <1>4, <1>5
  <1>7. Indice(l, x, n) # Indice(o, i, n)
    BY <1>3, <1>6
  <1>8. Indice(l, x, m) = Indice(o, i, m)
    BY <1>3
  <1> HIDE DEF n, T
  <1>9. /\ Indice(l, x, n) \in Nat /\ Indice(o, i, n) \in Nat
        /\ Indice(l, x, n) \div 2 = Indice(o, i, n) \div 2
    <2>1. Indice(l, x, n) \in Nat /\ Indice(l, x, n + 1) = Indice(l, x, n) \div 2
      BY <1>6, IndiceSube
    <2>2. Indice(o, i, n) \in Nat /\ Indice(o, i, n + 1) = Indice(o, i, n) \div 2
      BY <1>6, IndiceSube
    <2>3. Indice(l, x, n + 1) = Indice(o, i, n + 1)
      BY <1>6, <1>8
    <2> QED BY <2>1, <2>2, <2>3
  <1>10. Indice(l, x, n) = Vecino(Indice(o, i, n))
    BY <1>7, <1>9, VecinoOK
  <1> QED BY <1>6, <1>10 DEF Toca

(***************************************************************************)
(* Table and bitmaps                                                       *)
(***************************************************************************)

\* Index of a buddy in its order.
Sitio(b) == b.posicion \div buddy_size(b.orden)

\* The place of a buddy in the memory.
EnSuBloque(b) ==
    /\ b.orden \in Ordenes
    /\ Sitio(b) \in 0 .. cant_buddys(b.orden) - 1
    /\ b.posicion = Sitio(b) * buddy_size(b.orden)

Tocan(b, c) == Toca(b.orden, Sitio(b), c.orden, Sitio(c))

\* Every buddy is a block of its order, and no two share bytes.
TablaOK(tabla) ==
    /\ \A b \in tabla : EnSuBloque(b)
    /\ \A b, c \in tabla : b # c => ~Tocan(b, c)

\* Some buddy shares bytes with the block i of order o.
Ocupado(tabla, o, i) == \E b \in tabla : Toca(b.orden, Sitio(b), o, i)

\* Indices of the blocks of an order.
Indices(o) == 0 .. cant_buddys(o) - 1

\* The bitmaps a table calls for.
BitsDe(tabla) == [o \in Ordenes |-> {i \in Indices(o) : Ocupado(tabla, o, i)}]

\* The facts on the orders the lemmas below need.
LEMMA RangosOK ==
    ASSUME MemoriaJusta, NEW o \in Ordenes
    PROVE  /\ o \in Nat /\ cant_buddys(o) \in Nat \ {0} /\ Indices(o) \subseteq Nat
           /\ \A i \in Nat : i \in Indices(o) <=> i < cant_buddys(o)
           /\ \A k \in Ordenes, i \in Nat : o <= k =>
                 /\ Indice(o, i, k) \in Nat
                 /\ i \in Indices(o) <=> Indice(o, i, k) \in Indices(k)
  <1>1. o \in Nat /\ Ordenes = 0 .. UltimoOrden /\ UltimoOrden \in Nat
    BY OrdenesOK
  <1>2. \A k \in Ordenes : cant_buddys(k) \in Nat \ {0}
    BY CantidadOK
  <1>3. \A k \in Ordenes : \A i \in Nat : i \in Indices(k) <=> i < cant_buddys(k)
    BY <1>2 DEF Indices
  <1>4. ASSUME NEW k \in Ordenes, NEW i \in Nat, o <= k
        PROVE  /\ Indice(o, i, k) \in Nat
               /\ i \in Indices(o) <=> Indice(o, i, k) \in Indices(k)
    <2>1. Indice(o, i, k) \in Nat /\ (i < cant_buddys(o) <=> Indice(o, i, k) < cant_buddys(k))
      <3>1. k \in Nat
        BY <1>1
      <3>2. Indice(o, i, k) \in Nat
        BY <1>1, <1>4, <3>1, IndiceSube
      <3> QED BY <1>4, <3>2, IndiceEnRango
    <2> QED BY <1>3, <2>1
  <1>5. Indices(o) \subseteq Nat
    BY DEF Indices
  <1> QED BY <1>1, <1>2, <1>3, <1>4, <1>5

\* Setting the bits of the first clear block, above it and inside it.  The loop upwards may
\* stop early, at an index 1: then the block 0 of the order shares bytes with a buddy, or it
\* would be the first clear one, and what the loop does not reach is set already.
LEMMA PonerBitsOK ==
    ASSUME MemoriaJusta, NEW tabla, TablaOK(tabla), NEW o \in Ordenes, NEW i \in Indices(o),
           ~Ocupado(tabla, o, i), \A j \in Indices(o) : j < i => Ocupado(tabla, o, j),
           NEW b, b.orden = o, Sitio(b) = i
    PROVE  set_bits_bitmaps_buddy_system(BitsDe(tabla), o, i) = BitsDe(tabla \cup {b})
  <1> DEFINE bits == BitsDe(tabla)
             T == tabla \cup {b}
  <1>0. /\ o \in Nat /\ i \in Nat /\ Ordenes \subseteq Nat
        /\ \A k \in Ordenes : Indices(k) \subseteq Nat
    BY RangosOK
  <1>1. \A k, x : Ocupado(T, k, x) <=> Ocupado(tabla, k, x) \/ Toca(o, i, k, x)
    BY DEF Ocupado
  <1>2. \A c \in tabla : c.orden \in Nat /\ Sitio(c) \in Nat
    BY RangosOK DEF TablaOK, EnSuBloque, Indices
  <1>3. \A k \in Ordenes : bits[k] = {x \in Indices(k) : Ocupado(tabla, k, x)}
    BY DEF BitsDe
  <1> HIDE DEF bits, T
  <1>4. ASSUME NEW k \in Ordenes, k > o, k \notin set_bits_bitmaps_superiores(o, i)
        PROVE  Ocupado(tabla, k, Indice(o, i, k))
    <2>1. PICK j \in o + 1 .. k - 1 : Indice(o, i, j) = 1
      BY <1>4 DEF set_bits_bitmaps_superiores
    <2>2. j \in Nat /\ o <= j /\ j + 1 <= k /\ k \in Nat
      BY <1>0, <2>1
    <2>3. Indice(o, i, k) = 0
      <3>1. Indice(o, i, j + 1) = 1 \div 2
        BY <1>0, <2>1, <2>2, IndiceOK
      <3>2. Indice(o, i, j + 1) = 0
        BY <3>1
      <3>3. Indice(j + 1, Indice(o, i, j + 1), k) = Indice(o, i, k)
        BY <1>0, <2>2, IndiceOK
      <3>4. Indice(j + 1, 0, k) = 0
        BY <1>0, <2>2, IndiceOK
      <3> QED BY <3>2, <3>3, <3>4
    <2>4. i # 0
      BY <1>0, <2>1, <2>2, IndiceOK
    <2>5. 0 \in Indices(o) /\ 0 < i
      BY <1>0, <2>4, RangosOK
    <2>6. PICK c \in tabla : Toca(c.orden, Sitio(c), o, 0)
      BY <2>5 DEF Ocupado
    <2>7. Toca(c.orden, Sitio(c), k, Indice(o, 0, k))
      BY <1>0, <1>2, <2>2, <2>6, TocaSube
    <2>8. Indice(o, 0, k) = 0
      BY <1>0, <2>2, IndiceOK
    <2> QED BY <2>3, <2>7, <2>8 DEF Ocupado
  <1>5. ASSUME NEW k \in Ordenes
        PROVE  set_bits_bitmaps_buddy_system(bits, o, i)[k] = {x \in Indices(k) : Ocupado(T, k, x)}
    <2>1. k \in Nat
      BY <1>0
    <2>2. CASE k = o
      <3>1. set_bits_bitmaps_buddy_system(bits, o, i)[k] = bits[o] \cup {i}
        <4>1. o \notin set_bits_bitmaps_superiores(o, i)
          BY <1>0 DEF set_bits_bitmaps_superiores
        <4> QED BY <1>0, <2>2, <4>1 DEF set_bits_bitmaps_buddy_system
      <3>2. \A x \in Nat : Toca(o, i, o, x) <=> x = i
        <4>1. Indice(o, i, o) = i
          BY <1>0, IndiceOK
        <4> QED BY <1>0, <4>1 DEF Toca
      <3> QED BY <1>0, <1>1, <1>3, <2>2, <3>1, <3>2
    <2>3. CASE k > o
      <3>1. \A x \in Indices(k) : Toca(o, i, k, x) <=> x = Indice(o, i, k)
        BY <1>0, <2>3 DEF Toca
      <3>2. Indice(o, i, k) \in Indices(k)
        BY <1>0, <2>3, RangosOK
      <3>3. CASE k \in set_bits_bitmaps_superiores(o, i)
        <4>1. set_bits_bitmaps_buddy_system(bits, o, i)[k] = bits[k] \cup {Indice(o, i, k)}
          BY <1>0, <2>3, <3>3 DEF set_bits_bitmaps_buddy_system
        <4> QED BY <1>1, <1>3, <3>1, <3>2, <4>1
      <3>4. CASE k \notin set_bits_bitmaps_superiores(o, i)
        <4>1. set_bits_bitmaps_buddy_system(bits, o, i)[k] = bits[k]
          BY <1>0, <2>3, <3>4 DEF set_bits_bitmaps_buddy_system
        <4>2. Ocupado(tabla, k, Indice(o, i, k))
          BY <1>4, <2>3, <3>4
        <4> QED BY <1>1, <1>3, <3>1, <4>1, <4>2
      <3> QED BY <3>3, <3>4
    <2>4. CASE k < o
      <3>1. k \notin set_bits_bitmaps_superiores(o, i)
        BY <1>0, <2>4 DEF set_bits_bitmaps_superiores
      <3>2. set_bits_bitmaps_buddy_system(bits, o, i)[k] = bits[k] \cup Interiores(o, i, k)
        BY <1>0, <2>4, <3>1 DEF set_bits_bitmaps_buddy_system
      <3>3. \A x \in Nat : x \in Interiores(o, i, k) <=> Toca(o, i, k, x)
        BY <1>0, <2>1, <2>4, InterioresOK DEF Toca
      <3>4. Interiores(o, i, k) \subseteq Nat
        <4>1. pow2[o - k] \in Nat
          BY <1>0, <2>4, Pow2OK
        <4>2. i * pow2[o - k] \in Nat
          BY <1>0, <4>1
        <4> QED BY <1>0, <4>1, <4>2 DEF Interiores
      <3>5. Interiores(o, i, k) \subseteq Indices(k)
        <4> SUFFICES ASSUME NEW x \in Interiores(o, i, k) PROVE x \in Indices(k)
          OBVIOUS
        <4>0. x \in Nat /\ k <= o
          BY <1>0, <2>1, <2>4, <3>4
        <4>1. x \in Nat /\ Indice(k, x, o) = i
          BY <1>0, <2>1, <4>0, InterioresOK
        <4> QED BY <1>0, <2>4, <4>1, RangosOK
      <3> QED BY <1>0, <1>1, <1>3, <3>2, <3>3, <3>5
    <2> QED BY <1>0, <2>1, <2>2, <2>3, <2>4
  <1>6. set_bits_bitmaps_buddy_system(bits, o, i)
          = [k \in Ordenes |-> set_bits_bitmaps_buddy_system(bits, o, i)[k]]
    BY DEF set_bits_bitmaps_buddy_system
  <1>7. BitsDe(T) = [k \in Ordenes |-> {x \in Indices(k) : Ocupado(T, k, x)}]
    BY DEF BitsDe
  <1>8. set_bits_bitmaps_buddy_system(bits, o, i) = BitsDe(T)
    BY <1>5, <1>6, <1>7
  <1> QED BY <1>8 DEF bits, T

\* The other half of a block that is not of the largest, as tiene_su_propio_buddy_ocupado
\* looks for it.
LEMMA SuBuddyOK ==
    ASSUME MemoriaJusta, NEW o \in Ordenes, o < UltimoOrden, NEW i \in Indices(o), NEW bits
    PROVE  /\ tiene_su_propio_buddy_ocupado(bits, o, i) <=> Vecino(i) \in bits[o]
           /\ Vecino(i) \in Indices(o)
  <1> DEFINE c == cant_buddys(o + 1)
  <1>1. o + 1 \in Ordenes /\ o \in Nat
    BY OrdenesOK
  <1>2. c \in Nat \ {0} /\ cant_buddys(o) = 2 * c
    <2>1. cant_buddys(o) = c * pow2[o + 1 - o] /\ c \in Nat \ {0}
      BY <1>1, CantidadOK
    <2>2. o + 1 - o = 1 /\ 0 + 1 = 1
      BY <1>1
    <2>3. pow2[0 + 1] = 2
      BY Pow2OK
    <2> HIDE DEF c
    <2> QED BY <2>1, <2>2, <2>3
  <1> HIDE DEF c
  <1>3. i \in Nat /\ i < 2 * c
    BY <1>2, RangosOK
  <1>4. Vecino(i) \in Indices(o)
    BY <1>1, <1>2, <1>3, VecinoOK, RangosOK
  <1>5. CASE i = 0
    <2>1. Vecino(i) = 1
      BY <1>5 DEF Vecino
    <2> QED BY <1>2, <1>4, <1>5, <2>1 DEF tiene_su_propio_buddy_ocupado
  <1>6. CASE i # 0 /\ i = 2 * c - 1
    <2>1. Vecino(i) = 2 * c - 2
      BY <1>2, <1>6 DEF Vecino
    <2> QED BY <1>2, <1>4, <1>6, <2>1 DEF tiene_su_propio_buddy_ocupado
  <1>7. CASE i # 0 /\ i # 2 * c - 1
    BY <1>2, <1>4, <1>7 DEF tiene_su_propio_buddy_ocupado
  <1> QED BY <1>5, <1>6, <1>7

\* The loop of clean_bits_bitmaps_superiores reaches the orders in which the block is free
\* once b leaves.
LEMMA AlcanzaOK ==
    ASSUME MemoriaJusta, NEW tabla, TablaOK(tabla), NEW b \in tabla, NEW bits,
           bits = [BitsDe(tabla) EXCEPT ![b.orden] = @ \ {Sitio(b)}],
           NEW k \in Ordenes, k > b.orden
    PROVE  k \in clean_bits_bitmaps_superiores(bits, b.orden, Sitio(b))
             <=> ~Ocupado(tabla \ {b}, k, Indice(b.orden, Sitio(b), k))
  <1> DEFINE o == b.orden
             i == Sitio(b)
             resto == tabla \ {b}
             vec(j) == Vecino(Indice(o, i, j))
  <1>0. /\ o \in Ordenes /\ i \in Indices(o) /\ o \in Nat /\ i \in Nat
        /\ k \in Nat /\ o < k /\ o <= k /\ k <= UltimoOrden /\ UltimoOrden \in Nat
        /\ Ordenes = 0 .. UltimoOrden
    <2>1. o \in Ordenes /\ i \in Indices(o)
      BY DEF TablaOK, EnSuBloque, Indices
    <2>2. Ordenes = 0 .. UltimoOrden /\ UltimoOrden \in Nat
      BY OrdenesOK
    <2>3. i \in Nat
      BY <2>1, RangosOK
    <2> HIDE DEF o, i
    <2>4. k > o
      BY DEF o
    <2> QED BY <2>1, <2>2, <2>3, <2>4
  <1>1. \A c \in resto : /\ c.orden \in Nat /\ Sitio(c) \in Nat
                         /\ ~Toca(c.orden, Sitio(c), o, i)
    BY RangosOK DEF TablaOK, EnSuBloque, Indices, Tocan
  <1>2. bits[o] = BitsDe(tabla)[o] \ {i} /\ \A j \in Ordenes : j # o => bits[j] = BitsDe(tabla)[j]
    BY <1>0 DEF BitsDe
  <1>3. \A j \in Ordenes : BitsDe(tabla)[j] = {x \in Indices(j) : Ocupado(tabla, j, x)}
    BY DEF BitsDe
  <1>4. \A j, x : Ocupado(tabla, j, x) <=> Ocupado(resto, j, x) \/ Toca(o, i, j, x)
    BY DEF Ocupado
  <1> HIDE DEF resto, o, i
  <1>5. ASSUME NEW j \in o .. k - 1
        PROVE  /\ j \in Ordenes /\ j \in Nat /\ o <= j /\ j < UltimoOrden
               /\ Indice(o, i, j) \in Indices(j) /\ Indice(o, i, j) \in Nat
               /\ vec(j) \in Indices(j) /\ vec(j) \in Nat /\ vec(j) # Indice(o, i, j)
               /\ vec(j) \in bits[j] <=> Ocupado(resto, j, vec(j))
    <2>1. j \in Ordenes /\ j \in Nat /\ o <= j /\ j < UltimoOrden
      BY <1>0
    <2>2. Indice(o, i, j) \in Indices(j) /\ Indice(o, i, j) \in Nat
      BY <1>0, <2>1, RangosOK
    <2>3. vec(j) \in Indices(j)
      BY <2>1, <2>2, SuBuddyOK
    <2>4. vec(j) \in Nat /\ vec(j) # Indice(o, i, j)
      BY <2>2, VecinoOK
    <2>5. ~Toca(o, i, j, vec(j))
      BY <2>1, <2>4 DEF Toca
    <2> HIDE DEF vec
    <2>6. vec(j) \in BitsDe(tabla)[j] <=> Ocupado(resto, j, vec(j))
      BY <1>3, <1>4, <2>1, <2>3, <2>5
    <2>7. CASE j = o
      <3>1. vec(j) # i
        BY <1>0, <2>4, <2>7, IndiceOK
      <3> QED BY <1>2, <2>1, <2>2, <2>3, <2>4, <2>6, <2>7, <3>1
    <2>8. CASE j # o
      BY <1>2, <2>1, <2>2, <2>3, <2>4, <2>6, <2>8
    <2> QED BY <2>7, <2>8
  <1>6. k \in clean_bits_bitmaps_superiores(bits, o, i) <=> \A j \in o .. k - 1 : vec(j) \notin bits[j]
    <2>1. o \in o .. k - 1 /\ o < UltimoOrden
      BY <1>0
    <2>2. vec(o) = Vecino(i)
      BY <1>0, IndiceOK
    <2>3. tiene_su_propio_buddy_ocupado(bits, o, i) <=> vec(o) \in bits[o]
      BY <1>0, <2>1, <2>2, SuBuddyOK
    <2>4. \A j \in o .. k - 1 : j = o \/ j \in o + 1 .. k - 1
      BY <1>0
    <2>5. \A j \in o + 1 .. k - 1 : j \in o .. k - 1
      BY <1>0
    <2>6. k \in clean_bits_bitmaps_superiores(bits, o, i) <=>
            ~tiene_su_propio_buddy_ocupado(bits, o, i)
              /\ \A j \in o + 1 .. k - 1 : Vecino(Indice(o, i, j)) \notin bits[j]
      BY <1>0 DEF clean_bits_bitmaps_superiores, o
    <2> QED BY <2>1, <2>3, <2>4, <2>5, <2>6
  <1>7. ASSUME Ocupado(resto, k, Indice(o, i, k)) PROVE \E j \in o .. k - 1 : vec(j) \in bits[j]
    <2>1. PICK c \in resto : Toca(c.orden, Sitio(c), k, Indice(o, i, k))
      BY <1>7 DEF Ocupado
    <2>2. \E j \in o .. k - 1 : Toca(c.orden, Sitio(c), j, Vecino(Indice(o, i, j)))
      BY <1>0, <1>1, <2>1, HayVecino
    <2>3. PICK j \in o .. k - 1 : Toca(c.orden, Sitio(c), j, vec(j))
      BY <2>2
    <2>4. Ocupado(resto, j, vec(j))
      BY <2>3 DEF Ocupado
    <2> QED BY <1>5, <2>4
  <1>8. ASSUME NEW j \in o .. k - 1, vec(j) \in bits[j] PROVE Ocupado(resto, k, Indice(o, i, k))
    <2>1. PICK c \in resto : Toca(c.orden, Sitio(c), j, vec(j))
      BY <1>5, <1>8 DEF Ocupado
    <2>2. /\ j \in Nat /\ o <= j /\ j + 1 <= k /\ vec(j) \in Nat /\ j <= k
          /\ Indice(o, i, j) \in Nat
      BY <1>0, <1>5
    <2>3. Toca(c.orden, Sitio(c), k, Indice(j, vec(j), k))
      BY <1>0, <1>1, <2>1, <2>2, TocaSube
    <2>4. Indice(j, vec(j), k) = Indice(o, i, k)
      <3>1. Indice(j, vec(j), j + 1) = Indice(j, Indice(o, i, j), j + 1)
        <4>1. Indice(j, vec(j), j + 1) = vec(j) \div 2
          BY <2>2, IndiceOK
        <4>2. Indice(j, Indice(o, i, j), j + 1) = Indice(o, i, j) \div 2
          BY <2>2, IndiceOK
        <4> QED BY <2>2, <4>1, <4>2, VecinoOK
      <3>2. Indice(j + 1, Indice(j, vec(j), j + 1), k) = Indice(j, vec(j), k)
        BY <1>0, <2>2, IndiceOK
      <3>3. Indice(j + 1, Indice(j, Indice(o, i, j), j + 1), k) = Indice(j, Indice(o, i, j), k)
        BY <1>0, <2>2, IndiceOK
      <3>4. Indice(j, Indice(o, i, j), k) = Indice(o, i, k)
        BY <1>0, <2>2, IndiceOK
      <3> QED BY <3>1, <3>2, <3>3, <3>4
    <2> QED BY <2>3, <2>4 DEF Ocupado
  <1>9. k \in clean_bits_bitmaps_superiores(bits, o, i) <=> ~Ocupado(resto, k, Indice(o, i, k))
    BY <1>6, <1>7, <1>8
  <1> QED BY <1>9 DEF o, i, resto

\* Clearing the bits of a buddy that leaves: those that no other buddy needs, and only those.
LEMMA SacarBitsOK ==
    ASSUME MemoriaJusta, NEW tabla, TablaOK(tabla), NEW b \in tabla
    PROVE  liberar_posicion_buddy_ocupada(BitsDe(tabla), b.orden, Sitio(b)) = BitsDe(tabla \ {b})
  <1> DEFINE o == b.orden
             i == Sitio(b)
             resto == tabla \ {b}
             antes == BitsDe(tabla)
             bits == [antes EXCEPT ![o] = @ \ {i}]
             final == clean_bits_bitmaps_buddy_system(bits, o, i)
  <1>0. /\ o \in Ordenes /\ i \in Indices(o) /\ o \in Nat /\ i \in Nat /\ Ordenes \subseteq Nat
        /\ \A k \in Ordenes : Indices(k) \subseteq Nat
    <2>1. o \in Ordenes /\ i \in Indices(o)
      BY DEF TablaOK, EnSuBloque, Indices
    <2> QED BY <2>1, RangosOK
  <1>1. \A c \in resto : /\ c.orden \in Nat /\ Sitio(c) \in Nat
                         /\ ~Toca(c.orden, Sitio(c), o, i)
    BY RangosOK DEF TablaOK, EnSuBloque, Indices, Tocan
  <1>2. \A k \in Ordenes : antes[k] = {x \in Indices(k) : Ocupado(tabla, k, x)}
    BY DEF BitsDe
  <1>3. \A k, x : Ocupado(tabla, k, x) <=> Ocupado(resto, k, x) \/ Toca(o, i, k, x)
    BY DEF Ocupado
  <1>4. bits[o] = antes[o] \ {i} /\ \A k \in Ordenes : k # o => bits[k] = antes[k]
    BY <1>0 DEF BitsDe
  <1>5. \A k \in Ordenes : k > o =>
           (k \in clean_bits_bitmaps_superiores(bits, o, i) <=> ~Ocupado(resto, k, Indice(o, i, k)))
    BY AlcanzaOK
  <1>6. liberar_posicion_buddy_ocupada(BitsDe(tabla), o, i) = final
    BY DEF liberar_posicion_buddy_ocupada
  <1>7. final = [k \in Ordenes |-> final[k]]
    BY DEF clean_bits_bitmaps_buddy_system
  <1>8. \A k \in clean_bits_bitmaps_superiores(bits, o, i) : k > o
    BY DEF clean_bits_bitmaps_superiores
  <1>9. ~Ocupado(resto, o, i)
    BY <1>1 DEF Ocupado
  <1>10. ASSUME NEW k \in Ordenes
         PROVE  /\ k \in clean_bits_bitmaps_superiores(bits, o, i) => final[k] = bits[k] \ {Indice(o, i, k)}
                /\ k < o => final[k] = bits[k] \ Interiores(o, i, k)
                /\ k \notin clean_bits_bitmaps_superiores(bits, o, i) /\ ~(k < o) => final[k] = bits[k]
    <2>1. final[k] = CASE k \in clean_bits_bitmaps_superiores(bits, o, i) -> bits[k] \ {Indice(o, i, k)}
                       [] k < o -> bits[k] \ Interiores(o, i, k)
                       [] OTHER -> bits[k]
      BY DEF clean_bits_bitmaps_buddy_system
    <2>2. k \in clean_bits_bitmaps_superiores(bits, o, i) => ~(k < o)
      BY <1>0, <1>8
    <2> HIDE DEF final, bits, o, i
    <2> QED BY <2>1, <2>2
  <1> HIDE DEF o, i, resto, antes, bits, final
  <1>11. ASSUME NEW k \in Ordenes
         PROVE  final[k] = {x \in Indices(k) : Ocupado(resto, k, x)}
    <2>1. k \in Nat
      BY <1>0
    <2>2. CASE k = o
      <3>1. final[k] = bits[k]
        BY <1>0, <1>8, <1>10, <2>2
      <3>2. \A x \in Nat : Toca(o, i, o, x) <=> x = i
        <4>1. Indice(o, i, o) = i
          BY <1>0, IndiceOK
        <4> QED BY <1>0, <4>1 DEF Toca
      <3> QED BY <1>0, <1>2, <1>3, <1>4, <1>9, <2>2, <3>1, <3>2
    <2>3. CASE k > o
      <3>1. \A x \in Indices(k) : Toca(o, i, k, x) <=> x = Indice(o, i, k)
        BY <1>0, <2>3 DEF Toca
      <3>2. bits[k] = antes[k]
        BY <1>0, <1>4, <2>3
      <3>3. CASE k \in clean_bits_bitmaps_superiores(bits, o, i)
        <4>1. final[k] = bits[k] \ {Indice(o, i, k)}
          BY <1>0, <1>10, <2>1, <2>3, <3>3
        <4>2. ~Ocupado(resto, k, Indice(o, i, k))
          BY <1>5, <2>3, <3>3
        <4> QED BY <1>2, <1>3, <3>1, <3>2, <4>1, <4>2
      <3>4. CASE k \notin clean_bits_bitmaps_superiores(bits, o, i)
        <4>1. final[k] = bits[k]
          BY <1>0, <1>10, <2>1, <2>3, <3>4
        <4>2. Ocupado(resto, k, Indice(o, i, k))
          BY <1>5, <2>3, <3>4
        <4> QED BY <1>2, <1>3, <3>1, <3>2, <4>1, <4>2
      <3> QED BY <3>3, <3>4
    <2>4. CASE k < o
      <3>1. final[k] = bits[k] \ Interiores(o, i, k)
        BY <1>0, <1>8, <1>10, <2>1, <2>4
      <3>2. bits[k] = antes[k]
        BY <1>0, <1>4, <2>4
      <3>3. \A x \in Nat : x \in Interiores(o, i, k) <=> Toca(o, i, k, x)
        BY <1>0, <2>1, <2>4, InterioresOK DEF Toca
      <3>4. ASSUME NEW x \in Indices(k), Toca(o, i, k, x) PROVE ~Ocupado(resto, k, x)
        <4>1. x \in Nat /\ k <= o
          BY <1>0, <2>1, <2>4
        <4>2. Indice(k, x, o) = i
          BY <1>0, <2>1, <2>4, <3>4 DEF Toca
        <4>3. \A c \in resto : Toca(c.orden, Sitio(c), k, x) => Toca(c.orden, Sitio(c), o, i)
          BY <1>0, <1>1, <2>1, <4>1, <4>2, TocaSube
        <4> QED BY <1>1, <4>3 DEF Ocupado
      <3> QED BY <1>0, <1>2, <1>3, <3>1, <3>2, <3>3, <3>4
    <2> QED BY <1>0, <2>1, <2>2, <2>3, <2>4
  <1>12. BitsDe(resto) = [k \in Ordenes |-> {x \in Indices(k) : Ocupado(resto, k, x)}]
    BY DEF BitsDe
  <1>13. final = BitsDe(resto)
    BY <1>7, <1>11, <1>12
  <1> QED BY <1>6, <1>13 DEF o, i, resto

(***************************************************************************)
(* The counts                                                              *)
(***************************************************************************)

\* Clear bits of each order.
LibresDe(bits) == [o \in Ordenes |-> Cardinality(Indices(o) \ bits[o])]

\* What a set lacks, counted from what another one lacks and from how they differ.
LEMMA DiferenciaOK ==
    ASSUME NEW I, IsFiniteSet(I), NEW a \in SUBSET I, NEW b \in SUBSET I
    PROVE  /\ Cardinality(I \ b) = Cardinality(I \ a) + Cardinality(a \ b) - Cardinality(b \ a)
           /\ Cardinality(I \ a) \in Nat
  <1>1. IsFiniteSet(I \ a) /\ IsFiniteSet(I \ b) /\ IsFiniteSet(a \ b) /\ IsFiniteSet(b \ a)
    <2>1. I \ a \in SUBSET I /\ I \ b \in SUBSET I /\ a \ b \in SUBSET I /\ b \ a \in SUBSET I
      OBVIOUS
    <2> QED BY <2>1, FS_Subset
  <1>2. /\ Cardinality(I \ a) \in Nat /\ Cardinality(I \ b) \in Nat
        /\ Cardinality(a \ b) \in Nat /\ Cardinality(b \ a) \in Nat
    BY <1>1, FS_CardinalityType
  <1>3. (I \ a) \cap (a \ b) = {} /\ (I \ b) \cap (b \ a) = {}
    OBVIOUS
  <1>4. (I \ a) \cup (a \ b) = (I \ b) \cup (b \ a)
    OBVIOUS
  <1>5. Cardinality((I \ a) \cup (a \ b)) = Cardinality(I \ a) + Cardinality(a \ b)
    <2>1. Cardinality((I \ a) \cap (a \ b)) = 0
      BY <1>3, FS_EmptySet
    <2>2. Cardinality((I \ a) \cup (a \ b))
            = Cardinality(I \ a) + Cardinality(a \ b) - Cardinality((I \ a) \cap (a \ b))
      BY <1>1, FS_Union
    <2> QED BY <1>2, <2>1, <2>2
  <1>6. Cardinality((I \ b) \cup (b \ a)) = Cardinality(I \ b) + Cardinality(b \ a)
    <2>1. Cardinality((I \ b) \cap (b \ a)) = 0
      BY <1>3, FS_EmptySet
    <2>2. Cardinality((I \ b) \cup (b \ a))
            = Cardinality(I \ b) + Cardinality(b \ a) - Cardinality((I \ b) \cap (b \ a))
      BY <1>1, FS_Union
    <2> QED BY <1>2, <2>1, <2>2
  <1>7. Cardinality(I \ a) + Cardinality(a \ b) = Cardinality(I \ b) + Cardinality(b \ a)
    BY <1>4, <1>5, <1>6
  <1> QED BY <1>2, <1>7

\* The counts of an empty table, and what each one counts.
LEMMA LibresOK ==
    ASSUME MemoriaJusta, NEW o \in Ordenes
    PROVE  /\ IsFiniteSet(Indices(o)) /\ Cardinality(Indices(o)) = cant_buddys(o)
           /\ \A bits : IsFiniteSet(Indices(o) \ bits[o])
           /\ \A bits : LibresDe(bits)[o] = Cardinality(Indices(o) \ bits[o])
           /\ \A bits : LibresDe(bits)[o] \in Nat
  <1>1. cant_buddys(o) \in Nat \ {0}
    BY RangosOK
  <1>2. IsFiniteSet(Indices(o)) /\ Cardinality(Indices(o)) = cant_buddys(o)
    <2> DEFINE u == cant_buddys(o) - 1
    <2>1. 0 \in Int /\ u \in Int /\ 0 <= u /\ u - 0 + 1 = cant_buddys(o)
      BY <1>1
    <2> HIDE DEF u
    <2>2. IsFiniteSet(0 .. u) /\ Cardinality(0 .. u) = u - 0 + 1
      BY <2>1, FS_Interval
    <2> QED BY <2>1, <2>2 DEF Indices, u
  <1>3. ASSUME NEW bits PROVE IsFiniteSet(Indices(o) \ bits[o]) /\ Cardinality(Indices(o) \ bits[o]) \in Nat
    <2>1. Indices(o) \ bits[o] \in SUBSET Indices(o)
      OBVIOUS
    <2> QED BY <1>2, <2>1, FS_Subset, FS_CardinalityType
  <1> QED BY <1>2, <1>3 DEF LibresDe

\* Cuenta keeps the count of the clear bits, whatever bits of the order it is told of.
LEMMA CuentaOK ==
    ASSUME MemoriaJusta, NEW antes, NEW despues,
           \A o \in Ordenes : antes[o] \subseteq Indices(o) /\ despues[o] \subseteq Indices(o)
    PROVE  Cuenta(LibresDe(antes), antes, despues) = LibresDe(despues)
  <1>1. ASSUME NEW o \in Ordenes
        PROVE  Cuenta(LibresDe(antes), antes, despues)[o] = LibresDe(despues)[o]
    <2>1. IsFiniteSet(Indices(o)) /\ antes[o] \in SUBSET Indices(o) /\ despues[o] \in SUBSET Indices(o)
      BY LibresOK
    <2>2. Cardinality(Indices(o) \ despues[o]) =
            Cardinality(Indices(o) \ antes[o]) + Cardinality(antes[o] \ despues[o])
              - Cardinality(despues[o] \ antes[o])
      BY <2>1, DiferenciaOK
    <2> QED BY <2>2 DEF Cuenta, LibresDe
  <1>2. /\ Cuenta(LibresDe(antes), antes, despues)
             = [o \in Ordenes |-> Cuenta(LibresDe(antes), antes, despues)[o]]
        /\ LibresDe(despues) = [o \in Ordenes |-> LibresDe(despues)[o]]
    BY DEF Cuenta, LibresDe
  <1> QED BY <1>1, <1>2

(***************************************************************************)
(* The bytes in use                                                        *)
(***************************************************************************)
\* The bytes of the buddies of a table.
Usado(tabla) == MapThenSumSet(LAMBDA b : buddy_size(b.orden), tabla)

Pesos(tabla) == [b \in tabla |-> buddy_size(b.orden)]

\* MapThenSumSet's recursion is that sum.
LEMMA UsadoEs ==
    ASSUME NEW tabla, IsFiniteSet(tabla), NEW f, EsSuma(f, tabla, Pesos(tabla))
    PROVE  Usado(tabla) = f[tabla]
  <1>1. \A s \in SUBSET tabla : s # {} => Pesos(tabla)[Alguno(s)] = buddy_size(Alguno(s).orden)
    BY DEF Alguno, Pesos
  <1>2. \A g : EsRec(g, tabla, Pesos(tabla)) <=>
            g = [s \in SUBSET tabla |-> IF s = {} THEN 0
                    ELSE buddy_size(Alguno(s).orden) + g[s \ {Alguno(s)}]]
    <2> TAKE g
    <2>1. [s \in SUBSET tabla |-> IF s = {} THEN 0
                                  ELSE Pesos(tabla)[Alguno(s)] + g[s \ {Alguno(s)}]]
            = [s \in SUBSET tabla |-> IF s = {} THEN 0
                                      ELSE buddy_size(Alguno(s).orden) + g[s \ {Alguno(s)}]]
      BY <1>1
    <2> QED BY <2>1 DEF EsRec
  <1>3. EsRec(f, tabla, Pesos(tabla)) /\ \A g : EsRec(g, tabla, Pesos(tabla)) => g = f
    BY RecSuma
  <1>4. f = [s \in SUBSET tabla |-> IF s = {} THEN 0
                 ELSE buddy_size(Alguno(s).orden) + f[s \ {Alguno(s)}]]
    BY <1>2, <1>3
  <1>5. \A g : g = [s \in SUBSET tabla |-> IF s = {} THEN 0
                    ELSE buddy_size(Alguno(s).orden) + g[s \ {Alguno(s)}]] => g = f
    BY <1>2, <1>3
  <1> QED BY <1>4, <1>5 DEF Usado, MapThenSumSet, MapThenFoldSet, Alguno

\* A buddy more adds its bytes.
LEMMA UsadoMas ==
    ASSUME NEW tabla, IsFiniteSet(tabla), NEW b, b \notin tabla,
           \A c \in tabla \cup {b} : buddy_size(c.orden) \in Int
    PROVE  Usado(tabla \cup {b}) = buddy_size(b.orden) + Usado(tabla) /\ Usado(tabla) \in Int
  <1> DEFINE T == tabla \cup {b}
             w == Pesos(T)
             v == Pesos(tabla)
  <1>1. IsFiniteSet(T)
    BY FS_AddElement
  <1>2. /\ w[b] = buddy_size(b.orden) /\ \A c \in T : w[c] \in Int
        /\ \A c \in tabla : v[c] = w[c] /\ v[c] \in Int
    BY DEF Pesos
  <1> HIDE DEF w, v
  <1>3. PICK f : EsSuma(f, T, w)
    BY <1>1, <1>2, SumaOK
  <1>4. PICK g : EsSuma(g, tabla, v)
    BY <1>2, SumaOK
  <1>5. f[T] = w[b] + g[tabla] /\ g[tabla] \in Int
    BY <1>2, <1>3, <1>4, SumaMas
  <1>6. Usado(T) = f[T]
    <2> HIDE DEF T
    <2> QED BY <1>1, <1>3, UsadoEs DEF w
  <1>7. Usado(tabla) = g[tabla]
    BY <1>4, UsadoEs DEF v
  <1> QED BY <1>2, <1>5, <1>6, <1>7

\* An empty table uses nothing.
LEMMA UsadoVacia == Usado({}) = 0
  <1>1. IsFiniteSet({})
    BY FS_EmptySet
  <1>2. PICK f : EsSuma(f, {}, Pesos({}))
    BY <1>1, SumaOK
  <1> QED BY <1>1, <1>2, UsadoEs DEF EsSuma

(***************************************************************************)
(* The memory: table, bitmaps, counts and bytes in use say the same        *)
(***************************************************************************)

MemoriaOK(bits, cuenta, tabla, usado) ==
    /\ tabla \subseteq Particion /\ IsFiniteSet(tabla)
    /\ TablaOK(tabla)
    /\ bits = BitsDe(tabla)
    /\ cuenta = LibresDe(bits)
    /\ usado = Usado(tabla)

\* What the broker accepts has an order of its own.
LEMMA OrdenOK ==
    ASSUME NEW size \in Nat \ {0}, cache_espacio_suficiente(size)
    PROVE  obtengo_tamano_buddy(size) \in Ordenes
  <1> DEFINE T == {o \in Ordenes : buddy_size(o) >= Espacio(size)}
  <1>1. UltimoOrden \in T /\ T \subseteq Nat /\ T \subseteq Ordenes
    BY OrdenesOK DEF cache_espacio_suficiente
  <1>2. obtengo_tamano_buddy(size) = Min(T)
    BY DEF obtengo_tamano_buddy
  <1> HIDE DEF T
  <1>3. \E x \in T : \A y \in T : x <= y
    BY <1>1, MinimoOK
  <1>4. Min(T) \in T
    BY <1>3 DEF Min
  <1> QED BY <1>1, <1>2, <1>4

\* The block a message is given: the first of its order that no buddy touches.
LEMMA LibreOK ==
    ASSUME MemoriaJusta, NEW tabla, NEW o \in Ordenes, HayLugar(LibresDe(BitsDe(tabla)), o),
           NEW i, i = obtengo_posicion_buddy_libre(BitsDe(tabla), o)
    PROVE  /\ i \in Indices(o) /\ ~Ocupado(tabla, o, i)
           /\ \A j \in Indices(o) : j < i => Ocupado(tabla, o, j)
  <1> DEFINE bits == BitsDe(tabla)
             C == Claros(bits, o)
  <1>1. C = Indices(o) \ bits[o]
    BY DEF Claros, Indices
  <1>2. Cardinality(Indices(o) \ bits[o]) > 0
    BY LibresOK DEF HayLugar
  <1>3. C # {}
    BY <1>1, <1>2, FS_EmptySet
  <1>4. bits[o] = {j \in Indices(o) : Ocupado(tabla, o, j)}
    BY DEF BitsDe
  <1>5. C \subseteq Nat
    BY <1>1, RangosOK
  <1>6. i = Min(C)
    BY <1>3 DEF obtengo_posicion_buddy_libre
  <1> HIDE DEF bits, C
  <1>7. \E x \in C : \A y \in C : x <= y
    BY <1>3, <1>5, MinimoOK
  <1>8. i \in C /\ \A y \in C : i <= y
    BY <1>6, <1>7 DEF Min
  <1>9. Indices(o) \subseteq Nat
    BY RangosOK
  <1> QED BY <1>1, <1>4, <1>8, <1>9

\* A table that is empty has a place for every order.
LEMMA VaciaOK ==
    ASSUME MemoriaJusta, NEW o \in Ordenes
    PROVE  /\ TablaOK({}) /\ BitsDe({}) = [k \in Ordenes |-> {}]
           /\ LibresDe(BitsDe({})) = [k \in Ordenes |-> cant_buddys(k)]
           /\ HayLugar(LibresDe(BitsDe({})), o)
  <1>1. TablaOK({}) /\ BitsDe({}) = [k \in Ordenes |-> {}]
    BY DEF TablaOK, BitsDe, Ocupado
  <1>2. \A k \in Ordenes : Indices(k) \ BitsDe({})[k] = Indices(k)
    BY <1>1
  <1>3. LibresDe(BitsDe({})) = [k \in Ordenes |-> cant_buddys(k)]
    <2>1. \A k \in Ordenes : Cardinality(Indices(k)) = cant_buddys(k)
      BY LibresOK
    <2> QED BY <1>2, <2>1 DEF LibresDe
  <1> QED BY <1>1, <1>3, RangosOK DEF HayLugar

\* No bit past the last block of an order.
LEMMA BitsRango ==
    ASSUME NEW tabla
    PROVE  \A o \in Ordenes : BitsDe(tabla)[o] \subseteq Indices(o)
  BY DEF BitsDe

\* What is known of a buddy of the table by its type.
LEMMA PesoOK ==
    \A b \in Particion : b.orden \in Ordenes /\ b.posicion \in Nat /\ buddy_size(b.orden) \in Nat \ {0}
  <1> TAKE b \in Particion
  <1>1. b.orden \in Ordenes /\ b.posicion \in Nat
    BY DEF Particion
  <1>2. b.orden \in Nat
    BY <1>1, OrdenesOK
  <1> QED BY <1>1, <1>2, TamanoOK

\* A message is stored: its block shares nothing with any other.
LEMMA GuardarMemoriaOK ==
    ASSUME MemoriaJusta, NEW bits, NEW cuenta, NEW tabla, NEW usado, NEW cola,
           MemoriaOK(bits, cuenta, tabla, usado), NEW m \in Mensaje,
           cnt_order_fifo \in Nat, cnt_order_lru \in Nat, cache_espacio_suficiente(m.size),
           HayLugar(cuenta, obtengo_tamano_buddy(m.size)),
           Guardar(bits, cuenta, tabla, m, usado, cola)
    PROVE  /\ MemoriaOK(bitmap_buddy', free_buddys', buddy_table', used_space')
           /\ cnt_order_fifo' \in Nat /\ cnt_order_lru' \in Nat
  <1> DEFINE o == obtengo_tamano_buddy(m.size)
             i == obtengo_posicion_buddy_libre(bits, o)
             b == [posicion |-> i * buddy_size(o), orden |-> o, data_size |-> m.size,
                   id_mensaje |-> m.id, id_cola |-> m.cola,
                   orden_fifo |-> cnt_order_fifo, last_used |-> cnt_order_lru]
             T == tabla \cup {b}
  <1>0. m.size \in Nat \ {0} /\ m.id \in Nat /\ m.cola \in Colas
    BY DEF Mensaje
  <1>1. o \in Ordenes /\ o \in Nat /\ buddy_size(o) \in Nat \ {0}
    BY <1>0, OrdenOK, RangosOK, TamanoOK
  <1>2. /\ bitmap_buddy' = set_bits_bitmaps_buddy_system(bits, o, i)
        /\ free_buddys' = Cuenta(cuenta, bits, bitmap_buddy')
        /\ buddy_table' = T
        /\ used_space' = usado + buddy_size(o)
        /\ cnt_order_fifo' = cnt_order_fifo + 1 /\ cnt_order_lru' = cnt_order_lru + 1
    BY DEF Guardar
  <1>3. /\ tabla \subseteq Particion /\ IsFiniteSet(tabla) /\ TablaOK(tabla)
        /\ bits = BitsDe(tabla) /\ cuenta = LibresDe(bits) /\ usado = Usado(tabla)
    BY DEF MemoriaOK
  <1>4. HayLugar(LibresDe(BitsDe(tabla)), o)
    BY <1>3
  <1> HIDE DEF o
  <1>5. /\ i \in Indices(o) /\ ~Ocupado(tabla, o, i)
        /\ \A j \in Indices(o) : j < i => Ocupado(tabla, o, j)
    BY <1>1, <1>3, <1>4, LibreOK
  <1>6. i \in Nat
    BY <1>1, <1>5, RangosOK
  <1> HIDE DEF i
  <1>7. b.posicion = i * buddy_size(o) /\ b.orden = o
    OBVIOUS
  <1>8. b \in Particion
    <2>1. i * buddy_size(o) \in Nat
      BY <1>1, <1>6
    <2> QED BY <1>0, <1>1, <2>1 DEF Particion
  <1> HIDE DEF b
  <1>9. Sitio(b) = i
    BY <1>1, <1>6, <1>7, DivExacta DEF Sitio
  <1>10. BitsDe(T) = bitmap_buddy'
    BY <1>1, <1>2, <1>3, <1>5, <1>7, <1>9, PonerBitsOK
  <1>11. b \notin tabla
    <2>1. SUFFICES ASSUME b \in tabla PROVE Ocupado(tabla, o, i)
      BY <1>5
    <2>2. Toca(o, i, o, i)
      BY <1>1, <1>6, IndiceOK DEF Toca
    <2> QED BY <1>7, <1>9, <2>1, <2>2 DEF Ocupado
  <1>12. TablaOK(T)
    <2>1. EnSuBloque(b)
      BY <1>1, <1>5, <1>7, <1>9 DEF EnSuBloque, Indices
    <2>2. ASSUME NEW c \in tabla PROVE ~Tocan(c, b) /\ ~Tocan(b, c)
      <3>1. ~Toca(c.orden, Sitio(c), o, i)
        BY <1>5 DEF Ocupado
      <3>2. c.orden \in Nat /\ Sitio(c) \in Nat
        BY <1>3, RangosOK DEF TablaOK, EnSuBloque, Indices
      <3>3. ~Toca(o, i, c.orden, Sitio(c))
        BY <1>1, <1>6, <3>1, <3>2, TocaSimetrica
      <3> QED BY <1>7, <1>9, <3>1, <3>3 DEF Tocan
    <2> QED BY <1>3, <2>1, <2>2 DEF TablaOK
  <1>13. free_buddys' = LibresDe(BitsDe(T))
    <2>1. \A k \in Ordenes : BitsDe(tabla)[k] \subseteq Indices(k) /\ BitsDe(T)[k] \subseteq Indices(k)
      BY BitsRango
    <2>2. Cuenta(LibresDe(BitsDe(tabla)), BitsDe(tabla), BitsDe(T)) = LibresDe(BitsDe(T))
      BY <2>1, CuentaOK
    <2> QED BY <1>2, <1>3, <1>10, <2>2
  <1>14. T \subseteq Particion /\ IsFiniteSet(T)
    BY <1>3, <1>8, FS_AddElement
  <1>15. used_space' = Usado(T)
    <2>1. \A c \in T : buddy_size(c.orden) \in Int
      BY <1>14, PesoOK
    <2>2. Usado(T) = buddy_size(b.orden) + Usado(tabla) /\ Usado(tabla) \in Int
      BY <1>3, <1>11, <2>1, UsadoMas
    <2> QED BY <1>1, <1>2, <1>3, <1>7, <2>2
  <1>16. MemoriaOK(bitmap_buddy', free_buddys', T, used_space')
    BY <1>10, <1>12, <1>13, <1>14, <1>15 DEF MemoriaOK
  <1> QED BY <1>2, <1>16

\* A buddy is evicted: what only it used is free again.
LEMMA DesalojoMemoriaOK ==
    ASSUME MemoriaJusta, MemoriaOK(bitmap_buddy, free_buddys, buddy_table, used_space),
           NEW b \in buddy_table, NEW d, d = Desalojo(b)
    PROVE  MemoriaOK(d.bits, d.cuenta, d.tabla, d.usado)
  <1> DEFINE T == buddy_table \ {b}
  <1>1. /\ buddy_table \subseteq Particion /\ IsFiniteSet(buddy_table) /\ TablaOK(buddy_table)
        /\ bitmap_buddy = BitsDe(buddy_table) /\ free_buddys = LibresDe(bitmap_buddy)
        /\ used_space = Usado(buddy_table)
    BY DEF MemoriaOK
  <1>2. /\ d.bits = liberar_posicion_buddy_ocupada(bitmap_buddy, b.orden, Sitio(b))
        /\ d.cuenta = Cuenta(free_buddys, bitmap_buddy, d.bits)
        /\ d.tabla = T /\ d.usado = used_space - buddy_size(b.orden)
    BY DEF Desalojo, Sitio
  <1>3. d.bits = BitsDe(T)
    BY <1>1, <1>2, SacarBitsOK
  <1>4. TablaOK(T)
    BY <1>1 DEF TablaOK
  <1>5. d.cuenta = LibresDe(BitsDe(T))
    <2>1. \A k \in Ordenes : BitsDe(buddy_table)[k] \subseteq Indices(k) /\ BitsDe(T)[k] \subseteq Indices(k)
      BY BitsRango
    <2> HIDE DEF T
    <2>2. Cuenta(LibresDe(BitsDe(buddy_table)), BitsDe(buddy_table), BitsDe(T)) = LibresDe(BitsDe(T))
      BY <2>1, CuentaOK
    <2> QED BY <1>1, <1>2, <1>3, <2>2
  <1>6. T \subseteq Particion /\ IsFiniteSet(T)
    BY <1>1, FS_RemoveElement
  <1>7. d.usado = Usado(T)
    <2>1. T \cup {b} = buddy_table /\ b \notin T
      OBVIOUS
    <2>2. \A c \in T \cup {b} : buddy_size(c.orden) \in Int
      BY <1>1, <2>1, PesoOK
    <2> HIDE DEF T
    <2>3. Usado(T \cup {b}) = buddy_size(b.orden) + Usado(T) /\ Usado(T) \in Int
      BY <1>6, <2>1, <2>2, UsadoMas
    <2>4. buddy_size(b.orden) \in Int
      BY <2>2
    <2>5. used_space = buddy_size(b.orden) + Usado(T)
      BY <1>1, <2>1, <2>3
    <2>6. d.usado = used_space - buddy_size(b.orden)
      BY <1>2
    <2> QED BY <2>3, <2>4, <2>5, <2>6
  <1> QED BY <1>2, <1>3, <1>4, <1>5, <1>6, <1>7 DEF MemoriaOK

\* A read changes no place.
LEMMA LeerMemoriaOK ==
    ASSUME NEW tabla, NEW bits, NEW cuenta, NEW usado, MemoriaOK(bits, cuenta, tabla, usado),
           NEW b \in tabla, NEW c, c = [b EXCEPT !.last_used = cnt_order_lru], cnt_order_lru \in Nat
    PROVE  MemoriaOK(bits, cuenta, (tabla \ {b}) \cup {c}, usado)
  <1> DEFINE R == tabla \ {b}
             T == R \cup {c}
  <1>1. /\ tabla \subseteq Particion /\ IsFiniteSet(tabla) /\ TablaOK(tabla)
        /\ bits = BitsDe(tabla) /\ cuenta = LibresDe(bits) /\ usado = Usado(tabla)
    BY DEF MemoriaOK
  <1>2. c \in Particion /\ c.orden = b.orden /\ c.posicion = b.posicion
    BY <1>1 DEF Particion
  <1>3. Sitio(c) = Sitio(b)
    BY <1>2 DEF Sitio
  <1>4. \A o, i : Ocupado(T, o, i) <=> Ocupado(tabla, o, i)
    BY <1>2, <1>3 DEF Ocupado
  <1>5. BitsDe(T) = BitsDe(tabla)
    BY <1>4 DEF BitsDe
  <1>6. TablaOK(T)
    <2>1. EnSuBloque(c)
      BY <1>1, <1>2, <1>3 DEF TablaOK, EnSuBloque
    <2>2. \A e \in R : ~Tocan(c, e) /\ ~Tocan(e, c)
      BY <1>1, <1>2, <1>3 DEF TablaOK, Tocan
    <2> QED BY <1>1, <2>1, <2>2 DEF TablaOK
  <1>7. T \subseteq Particion /\ IsFiniteSet(R) /\ IsFiniteSet(T)
    BY <1>1, <1>2, FS_AddElement, FS_RemoveElement
  <1>8. c \notin R
    <2>1. b.orden \in Nat /\ Sitio(b) \in Nat
      <3>1. EnSuBloque(b) /\ b \in Particion
        BY <1>1 DEF TablaOK
      <3>2. b.orden \in Nat
        BY <3>1, PesoOK, OrdenesOK
      <3> QED BY <3>1, <3>2 DEF EnSuBloque
    <2>2. Tocan(c, b)
      BY <1>2, <1>3, <2>1, IndiceOK DEF Tocan, Toca
    <2> QED BY <1>1, <2>2 DEF TablaOK
  <1>9. Usado(T) = Usado(tabla)
    <2>1. R \cup {b} = tabla /\ b \notin R
      OBVIOUS
    <2>2. \A e \in tabla : buddy_size(e.orden) \in Int
      BY <1>1, PesoOK
    <2>3. \A e \in T : buddy_size(e.orden) \in Int
      BY <1>7, PesoOK
    <2> HIDE DEF R
    <2>4. Usado(R \cup {b}) = buddy_size(b.orden) + Usado(R)
      BY <1>7, <2>1, <2>2, UsadoMas
    <2>5. Usado(R \cup {c}) = buddy_size(c.orden) + Usado(R)
      BY <1>7, <1>8, <2>3, UsadoMas
    <2> QED BY <1>2, <2>1, <2>4, <2>5
  <1> HIDE DEF T
  <1>10. MemoriaOK(bits, cuenta, T, usado)
    BY <1>1, <1>5, <1>6, <1>7, <1>9 DEF MemoriaOK
  <1> QED BY <1>10 DEF T

(***************************************************************************)
(* The invariant of the messages                                           *)
(***************************************************************************)
\* The message a buddy holds.
MensajeDe(b) == [id |-> b.id_mensaje, cola |-> b.id_cola, size |-> b.data_size]

\* Table and queues name the same messages, one buddy for each, all older than cnt.
Guardados(tabla, cola, cnt) ==
    /\ IsFiniteSet(tabla) /\ IsFiniteSet(cola)
    /\ Cardinality(tabla) = Cardinality(cola)
    /\ \A b \in tabla : {"id_mensaje", "id_cola", "data_size"} \subseteq DOMAIN b
    /\ \A b, c \in tabla : b.id_mensaje = c.id_mensaje => b = c
    /\ \A b \in tabla : MensajeDe(b) \in cola
    /\ \A m \in cola : m \in Mensaje /\ m.id < cnt /\ \E b \in tabla : m = MensajeDe(b)

IInv ==
    /\ g_msg_counter \in Nat \ {0}
    /\ pc \in {"libre", "reemplazar", "caido"}
    /\ pc = "reemplazar" => msg \in Mensaje /\ msg.id = g_msg_counter
    /\ Guardados(buddy_table, mensajes_cola, g_msg_counter)

(***************************************************************************)
(* What each operation does to table and queues                            *)
(***************************************************************************)
\* A new message takes a new buddy: it is the only one with its id.
LEMMA GuardarOK ==
    ASSUME NEW bits, NEW cuenta, NEW tabla, NEW m \in Mensaje, NEW usado, NEW cola,
           NEW cnt \in Nat, Guardados(tabla, cola, cnt), m.id = cnt,
           Guardar(bits, cuenta, tabla, m, usado, cola)
    PROVE  Guardados(buddy_table', mensajes_cola', cnt + 1) /\ g_msg_counter' = cnt + 1
  <1> DEFINE o == obtengo_tamano_buddy(m.size)
             b == [posicion |-> obtengo_posicion_buddy_libre(bits, o) * buddy_size(o),
                   orden |-> o, data_size |-> m.size, id_mensaje |-> m.id, id_cola |-> m.cola,
                   orden_fifo |-> cnt_order_fifo, last_used |-> cnt_order_lru]
  <1>1. /\ buddy_table' = tabla \cup {b}
        /\ {"id_mensaje", "id_cola", "data_size"} \subseteq DOMAIN b
        /\ b.id_mensaje = m.id /\ b.id_cola = m.cola /\ b.data_size = m.size
    <2>1. buddy_table' = tabla \cup {b}
      BY DEF Guardar
    <2> QED BY <2>1
  <1> HIDE DEF b
  <1>2. mensajes_cola' = cola \cup {m} /\ g_msg_counter' = cnt + 1
    BY DEF Guardar
  <1>3. MensajeDe(b) = m
    BY <1>1 DEF MensajeDe, Mensaje
  <1>4. m \notin cola
    BY DEF Guardados, Mensaje
  <1>5. \A c \in tabla : c.id_mensaje \in Nat /\ c.id_mensaje < cnt
    BY DEF Guardados, MensajeDe, Mensaje
  <1>6. b \notin tabla
    BY <1>1, <1>5
  <1>7. /\ IsFiniteSet(buddy_table') /\ IsFiniteSet(mensajes_cola')
        /\ Cardinality(buddy_table') = Cardinality(mensajes_cola')
    <2>1. /\ IsFiniteSet(tabla \cup {b}) /\ Cardinality(tabla \cup {b}) = Cardinality(tabla) + 1
          /\ IsFiniteSet(cola \cup {m}) /\ Cardinality(cola \cup {m}) = Cardinality(cola) + 1
      BY <1>4, <1>6, FS_AddElement DEF Guardados
    <2> QED BY <1>1, <1>2, <2>1 DEF Guardados
  <1>8. \A c, d \in buddy_table' : c.id_mensaje = d.id_mensaje => c = d
    BY <1>1, <1>5 DEF Guardados
  <1>9. \A c \in buddy_table' : MensajeDe(c) \in mensajes_cola'
    BY <1>1, <1>2, <1>3 DEF Guardados
  <1>10. \A n \in mensajes_cola' :
            n \in Mensaje /\ n.id < cnt + 1 /\ \E c \in buddy_table' : n = MensajeDe(c)
    BY <1>1, <1>2, <1>3 DEF Guardados, Mensaje
  <1>11. \A c \in buddy_table' : {"id_mensaje", "id_cola", "data_size"} \subseteq DOMAIN c
    BY <1>1 DEF Guardados
  <1> QED BY <1>2, <1>7, <1>8, <1>9, <1>10, <1>11 DEF Guardados

\* An eviction takes a buddy and its message, and no other.
LEMMA DesalojoOK ==
    ASSUME IInv, NEW b \in buddy_table
    PROVE  Guardados(Desalojo(b).tabla, Desalojo(b).cola, g_msg_counter)
  <1> DEFINE tabla == buddy_table \ {b}
             cola == mensajes_cola \ {MensajeDe(b)}
  <1>0. Guardados(buddy_table, mensajes_cola, g_msg_counter)
    BY DEF IInv
  <1>1. Desalojo(b).tabla = tabla
    BY DEF Desalojo
  <1>2. \A m \in mensajes_cola : m.id = b.id_mensaje <=> m = MensajeDe(b)
    BY <1>0 DEF Guardados, MensajeDe
  <1>3. \A m \in mensajes_cola : m = MensajeDe(b) => m.cola = b.id_cola
    BY DEF MensajeDe
  <1>4. Desalojo(b).cola = {m \in mensajes_cola : m.id # b.id_mensaje \/ m.cola # b.id_cola}
    BY DEF Desalojo
  <1>5. Desalojo(b).cola = cola
    BY <1>2, <1>3, <1>4
  <1>6. MensajeDe(b) \in mensajes_cola
    BY <1>0 DEF Guardados
  <1>7. /\ IsFiniteSet(tabla) /\ IsFiniteSet(cola) /\ Cardinality(tabla) = Cardinality(cola)
    <2>1. /\ IsFiniteSet(buddy_table) /\ IsFiniteSet(mensajes_cola)
          /\ Cardinality(buddy_table) = Cardinality(mensajes_cola)
      BY <1>0 DEF Guardados
    <2>2. IsFiniteSet(tabla) /\ Cardinality(tabla) = Cardinality(buddy_table) - 1
      BY <2>1, FS_RemoveElement
    <2>3. IsFiniteSet(cola) /\ Cardinality(cola) = Cardinality(mensajes_cola) - 1
      BY <1>6, <2>1, FS_RemoveElement
    <2> QED BY <2>1, <2>2, <2>3
  <1>8. \A c \in tabla : MensajeDe(c) \in cola
    <2>1. \A c \in tabla : c.id_mensaje # b.id_mensaje
      BY <1>0 DEF Guardados
    <2> QED BY <1>0, <2>1 DEF Guardados, MensajeDe
  <1>9. \A m \in cola : m \in Mensaje /\ m.id < g_msg_counter /\ \E c \in tabla : m = MensajeDe(c)
    BY <1>0 DEF Guardados
  <1>10. Guardados(tabla, cola, g_msg_counter)
    BY <1>0, <1>7, <1>8, <1>9 DEF Guardados
  <1> QED BY <1>1, <1>5, <1>10

\* A read changes the stamp of one buddy, and nothing of its message.
LEMMA LeerOK == ASSUME IInv, NEW m \in mensajes_cola, Leer(m) PROVE IInv'
  <1>0. Guardados(buddy_table, mensajes_cola, g_msg_counter)
    BY DEF IInv
  <1>1. PICK b \in buddy_table :
          buddy_table' = (buddy_table \ {b}) \cup {[b EXCEPT !.last_used = cnt_order_lru]}
    BY DEF Leer
  <1> DEFINE c == [b EXCEPT !.last_used = cnt_order_lru]
             resto == buddy_table \ {b}
  <1>2. /\ DOMAIN c = DOMAIN b
        /\ c.id_mensaje = b.id_mensaje /\ c.id_cola = b.id_cola /\ c.data_size = b.data_size
    BY <1>0 DEF Guardados
  <1>3. MensajeDe(c) = MensajeDe(b)
    BY <1>2 DEF MensajeDe
  <1> HIDE DEF c
  <1>4. \A d \in resto : d.id_mensaje # c.id_mensaje
    BY <1>0, <1>2 DEF Guardados
  <1>5. c \notin resto
    BY <1>4
  <1>6. IsFiniteSet(buddy_table') /\ Cardinality(buddy_table') = Cardinality(buddy_table)
    <2>1. IsFiniteSet(resto) /\ Cardinality(resto) = Cardinality(buddy_table) - 1
      BY <1>0, FS_RemoveElement DEF Guardados
    <2>2. IsFiniteSet(resto \cup {c}) /\ Cardinality(resto \cup {c}) = Cardinality(resto) + 1
      BY <1>5, <2>1, FS_AddElement
    <2>3. Cardinality(buddy_table) \in Nat
      BY <1>0, FS_CardinalityType DEF Guardados
    <2> QED BY <1>1, <2>1, <2>2, <2>3 DEF c
  <1>7. buddy_table' = resto \cup {c}
    BY <1>1 DEF c
  <1>8. Guardados(buddy_table', mensajes_cola, g_msg_counter)
    <2>1. \A d, e \in buddy_table' : d.id_mensaje = e.id_mensaje => d = e
      BY <1>0, <1>4, <1>7 DEF Guardados
    <2>2. \A d \in buddy_table' : MensajeDe(d) \in mensajes_cola
      BY <1>0, <1>3, <1>7 DEF Guardados
    <2>3. \A n \in mensajes_cola : \E d \in buddy_table' : n = MensajeDe(d)
      BY <1>0, <1>3, <1>7 DEF Guardados
    <2>4. \A d \in buddy_table' : {"id_mensaje", "id_cola", "data_size"} \subseteq DOMAIN d
      BY <1>0, <1>2, <1>7 DEF Guardados
    <2> QED BY <1>0, <1>6, <2>1, <2>2, <2>3, <2>4 DEF Guardados
  <1> QED BY <1>8 DEF IInv, Leer

(***************************************************************************)
(* Every step keeps it                                                     *)
(***************************************************************************)
LEMMA Inicio == Init => IInv
  BY FS_EmptySet DEF Init, IInv, Guardados

\* A publication keeps the invariant of the messages, with a place or without.
LEMMA PublicarOK ==
    ASSUME IInv, NEW cola \in Colas, NEW size \in Tamanos, NEW m,
           m = [id |-> g_msg_counter, cola |-> cola, size |-> size],
           Publicar(m) \/ PublicarSinLugar(m)
    PROVE  IInv'
  <1>1. m \in Mensaje /\ m.id = g_msg_counter
    BY BuddyAssumption DEF IInv, Mensaje
  <1>2. CASE Publicar(m)
    <2>1. Guardar(bitmap_buddy, free_buddys, buddy_table, m, used_space, mensajes_cola)
          /\ pc = "libre" /\ pc' = pc
      BY <1>2 DEF Publicar, Admisible
    <2>2. Guardados(buddy_table', mensajes_cola', g_msg_counter + 1)
          /\ g_msg_counter' = g_msg_counter + 1
      BY <1>1, <2>1, GuardarOK DEF IInv
    <2> QED BY <2>1, <2>2 DEF IInv
  <1>3. CASE PublicarSinLugar(m)
    BY <1>1, <1>3 DEF PublicarSinLugar, BuscarVictima, IInv
  <1> QED BY <1>2, <1>3

\* So does a turn of reemplazar_particion_buddy.
LEMMA ReemplazarOK ==
    ASSUME IInv, NEW b \in buddy_table, ReemplazarYGuardar(b) \/ ReemplazarOtra(b)
    PROVE  IInv'
  <1> DEFINE d == Desalojo(b)
  <1>1. Guardados(d.tabla, d.cola, g_msg_counter) /\ g_msg_counter \in Nat \ {0}
        /\ msg \in Mensaje /\ msg.id = g_msg_counter
    BY DesalojoOK DEF IInv, ReemplazarYGuardar, ReemplazarOtra
  <1>2. CASE ReemplazarYGuardar(b)
    <2>1. Guardar(d.bits, d.cuenta, d.tabla, msg, d.usado, d.cola) /\ pc' = "libre"
      BY <1>2 DEF ReemplazarYGuardar
    <2> HIDE DEF d
    <2>2. Guardados(buddy_table', mensajes_cola', g_msg_counter + 1)
          /\ g_msg_counter' = g_msg_counter + 1
      BY <1>1, <2>1, GuardarOK
    <2> QED BY <1>1, <2>1, <2>2 DEF IInv
  <1>3. CASE ReemplazarOtra(b)
    <2>1. buddy_table' = d.tabla /\ mensajes_cola' = d.cola
          /\ pc' \in {"reemplazar", "caido"} /\ UNCHANGED <<g_msg_counter, msg>>
      BY <1>3 DEF ReemplazarOtra, BuscarVictima
    <2> QED BY <1>1, <2>1 DEF IInv
  <1> QED BY <1>2, <1>3

LEMMA Paso == IInv /\ [Next]_vars => IInv'
  <1> SUFFICES ASSUME IInv, [Next]_vars PROVE IInv'
    OBVIOUS
  <1>1. ASSUME NEW cola \in Colas, NEW size \in Tamanos,
               LET m == [id |-> g_msg_counter, cola |-> cola, size |-> size]
               IN  Publicar(m) \/ PublicarSinLugar(m)
        PROVE  IInv'
    BY <1>1, PublicarOK
  <1>2. CASE UNCHANGED vars
    BY <1>2 DEF vars, IInv
  <1>3. CASE Fin
    BY <1>2, <1>3 DEF Fin
  <1> QED BY <1>1, <1>2, <1>3, ReemplazarOK, LeerOK DEF Next

\* Under the buddy system too, every queued message is in exactly one buddy, with its
\* queue and its size, and every buddy holds a queued message, whatever the sizes, the
\* evictions and the reads (eliminar_mensaje_por_id,
\* obtener_datos_msj_de_particion_cache).
THEOREM ColasConBuddys == Spec => []ColasYCache
  <1>1. IInv => ColasYCache
    BY DEF IInv, Guardados, ColasYCache, MensajeDe
  <1> QED BY <1>1, Inicio, Paso, PTL DEF Spec

(***************************************************************************)
(* The invariant of the memory                                             *)
(***************************************************************************)
\* While a thread evicts, the message it stores is one the cache can hold.
MemInv ==
    /\ IInv
    /\ MemoriaOK(bitmap_buddy, free_buddys, buddy_table, used_space)
    /\ cnt_order_fifo \in Nat /\ cnt_order_lru \in Nat /\ lecturas \in Nat
    /\ msg \in Mensaje \cup {SinMensaje}
    /\ pc = "reemplazar" => cache_espacio_suficiente(msg.size)
    /\ pc # "caido"

\* The cache starts empty, with every block free.
LEMMA InicioMemoria == ASSUME MemoriaJusta, Init PROVE MemInv
  <1>1. 0 \in Ordenes
    BY OrdenesOK
  <1>2. /\ TablaOK({}) /\ BitsDe({}) = [k \in Ordenes |-> {}]
        /\ LibresDe(BitsDe({})) = [k \in Ordenes |-> cant_buddys(k)]
    BY <1>1, VaciaOK
  <1>3. MemoriaOK(bitmap_buddy, free_buddys, buddy_table, used_space)
    <2>1. IsFiniteSet({}) /\ {} \subseteq Particion
      BY FS_EmptySet
    <2> QED BY <1>2, <2>1, UsadoVacia DEF Init, MemoriaOK
  <1> QED BY <1>3, Inicio DEF Init, MemInv

\* A publication that finds a place keeps the memory in order.
LEMMA PublicarMemoria ==
    ASSUME MemoriaJusta, MemInv, IInv', NEW m \in Mensaje, Publicar(m)
    PROVE  MemInv'
  <1>1. /\ cache_espacio_suficiente(m.size) /\ HayLugar(free_buddys, obtengo_tamano_buddy(m.size))
        /\ Guardar(bitmap_buddy, free_buddys, buddy_table, m, used_space, mensajes_cola)
        /\ pc = "libre" /\ UNCHANGED <<pc, msg, lecturas>>
    BY DEF Publicar, Admisible
  <1>2. /\ MemoriaOK(bitmap_buddy', free_buddys', buddy_table', used_space')
        /\ cnt_order_fifo' \in Nat /\ cnt_order_lru' \in Nat
    BY <1>1, GuardarMemoriaOK DEF MemInv
  <1>3. lecturas' \in Nat /\ msg' \in Mensaje \cup {SinMensaje} /\ pc' = "libre"
    BY <1>1 DEF MemInv
  <1>4. MemoriaOK(bitmap_buddy, free_buddys, buddy_table, used_space)'
    BY <1>2 DEF MemoriaOK
  <1> QED BY <1>2, <1>3, <1>4 DEF MemInv

\* With no place for it there is a victim: an empty table has a place for every order.
LEMMA HayVictima ==
    ASSUME MemoriaJusta, NEW bits, NEW cuenta, NEW tabla, NEW usado,
           MemoriaOK(bits, cuenta, tabla, usado), NEW m \in Mensaje,
           cache_espacio_suficiente(m.size), ~HayLugar(cuenta, obtengo_tamano_buddy(m.size))
    PROVE  BuscarVictima(tabla) = "reemplazar"
  <1>1. m.size \in Nat \ {0}
    BY DEF Mensaje
  <1>2. obtengo_tamano_buddy(m.size) \in Ordenes
    BY <1>1, OrdenOK
  <1>3. HayLugar(LibresDe(BitsDe({})), obtengo_tamano_buddy(m.size))
    BY <1>2, VaciaOK
  <1>4. bits = BitsDe(tabla) /\ cuenta = LibresDe(bits)
    BY DEF MemoriaOK
  <1>5. tabla # {}
    BY <1>3, <1>4
  <1> QED BY <1>5 DEF BuscarVictima

\* One that finds none starts to evict, and there is a victim.
LEMMA PublicarSinLugarMemoria ==
    ASSUME MemoriaJusta, MemInv, IInv', NEW m \in Mensaje, PublicarSinLugar(m)
    PROVE  MemInv'
  <1>1. /\ cache_espacio_suficiente(m.size) /\ ~HayLugar(free_buddys, obtengo_tamano_buddy(m.size))
        /\ msg' = m /\ pc' = BuscarVictima(buddy_table)
        /\ UNCHANGED <<bitmap_buddy, free_buddys, buddy_table, used_space,
                       cnt_order_fifo, cnt_order_lru, lecturas>>
    BY DEF PublicarSinLugar, Admisible, bitmaps
  <1>2. pc' = "reemplazar"
    BY <1>1, HayVictima DEF MemInv
  <1>3. MemoriaOK(bitmap_buddy, free_buddys, buddy_table, used_space)'
    BY <1>1 DEF MemInv, MemoriaOK
  <1>4. cache_espacio_suficiente(msg.size)'
    BY <1>1 DEF cache_espacio_suficiente
  <1> QED BY <1>1, <1>2, <1>3, <1>4 DEF MemInv

\* An eviction keeps the memory in order, and finds a place or leaves a victim.
LEMMA ReemplazarMemoria ==
    ASSUME MemoriaJusta, MemInv, IInv', NEW b \in buddy_table,
           ReemplazarYGuardar(b) \/ ReemplazarOtra(b)
    PROVE  MemInv'
  <1> DEFINE d == Desalojo(b)
  <1>1. pc = "reemplazar"
    BY DEF ReemplazarYGuardar, ReemplazarOtra
  <1>2. msg \in Mensaje /\ cache_espacio_suficiente(msg.size)
    BY <1>1 DEF MemInv, IInv
  <1>3. MemoriaOK(d.bits, d.cuenta, d.tabla, d.usado)
    BY DesalojoMemoriaOK DEF MemInv
  <1>4. CASE ReemplazarYGuardar(b)
    <2>1. /\ HayLugar(d.cuenta, obtengo_tamano_buddy(msg.size))
          /\ Guardar(d.bits, d.cuenta, d.tabla, msg, d.usado, d.cola)
          /\ pc' = "libre" /\ msg' = SinMensaje /\ UNCHANGED lecturas
      BY <1>4 DEF ReemplazarYGuardar
    <2> HIDE DEF d
    <2>2. /\ MemoriaOK(bitmap_buddy', free_buddys', buddy_table', used_space')
          /\ cnt_order_fifo' \in Nat /\ cnt_order_lru' \in Nat
      BY <1>2, <1>3, <2>1, GuardarMemoriaOK DEF MemInv
    <2>3. MemoriaOK(bitmap_buddy, free_buddys, buddy_table, used_space)'
      BY <2>2 DEF MemoriaOK
    <2> QED BY <2>1, <2>2, <2>3 DEF MemInv
  <1>5. CASE ReemplazarOtra(b)
    <2>1. /\ ~HayLugar(d.cuenta, obtengo_tamano_buddy(msg.size))
          /\ bitmap_buddy' = d.bits /\ free_buddys' = d.cuenta /\ buddy_table' = d.tabla
          /\ used_space' = d.usado /\ pc' = BuscarVictima(d.tabla)
          /\ UNCHANGED <<cnt_order_fifo, cnt_order_lru, msg, lecturas>>
      BY <1>5 DEF ReemplazarOtra
    <2> HIDE DEF d
    <2>2. pc' = "reemplazar"
      BY <1>2, <1>3, <2>1, HayVictima
    <2>3. MemoriaOK(bitmap_buddy, free_buddys, buddy_table, used_space)'
      BY <1>3, <2>1 DEF MemoriaOK
    <2>4. cache_espacio_suficiente(msg.size)'
      BY <1>2, <2>1 DEF cache_espacio_suficiente
    <2> QED BY <2>1, <2>2, <2>3, <2>4 DEF MemInv
  <1> QED BY <1>4, <1>5

\* A read keeps the memory in order.
LEMMA LeerMemoria ==
    ASSUME MemInv, IInv', NEW m \in mensajes_cola, Leer(m)
    PROVE  MemInv'
  <1>1. PICK b \in buddy_table :
          buddy_table' = (buddy_table \ {b}) \cup {[b EXCEPT !.last_used = cnt_order_lru]}
    BY DEF Leer
  <1>2. /\ cnt_order_lru' = cnt_order_lru + 1 /\ lecturas' = lecturas + 1
        /\ UNCHANGED <<bitmap_buddy, free_buddys, used_space, cnt_order_fifo, pc, msg>>
    BY DEF Leer, bitmaps
  <1>3. MemoriaOK(bitmap_buddy, free_buddys, buddy_table', used_space)
    BY <1>1, LeerMemoriaOK DEF MemInv
  <1>4. MemoriaOK(bitmap_buddy, free_buddys, buddy_table, used_space)'
    BY <1>2, <1>3 DEF MemoriaOK
  <1>5. pc' = "reemplazar" => cache_espacio_suficiente(msg.size)'
    BY <1>2 DEF MemInv, cache_espacio_suficiente
  <1> QED BY <1>2, <1>4, <1>5 DEF MemInv

\* Every step does.
LEMMA PasoMemoria == ASSUME MemoriaJusta, MemInv, [Next]_vars PROVE MemInv'
  <1>0. IInv'
    BY Paso DEF MemInv
  <1>1. ASSUME NEW cola \in Colas, NEW size \in Tamanos,
               LET m == [id |-> g_msg_counter, cola |-> cola, size |-> size]
               IN  Publicar(m) \/ PublicarSinLugar(m)
        PROVE  MemInv'
    <2> DEFINE m == [id |-> g_msg_counter, cola |-> cola, size |-> size]
    <2>1. m \in Mensaje
      BY BuddyAssumption DEF MemInv, IInv, Mensaje
    <2>2. Publicar(m) \/ PublicarSinLugar(m)
      BY <1>1
    <2> HIDE DEF m
    <2> QED BY <1>0, <2>1, <2>2, PublicarMemoria, PublicarSinLugarMemoria
  <1>2. CASE UNCHANGED vars
    <2>1. /\ UNCHANGED <<bitmap_buddy, free_buddys, buddy_table, used_space>>
          /\ UNCHANGED <<cnt_order_fifo, cnt_order_lru, pc, msg, lecturas>>
      BY <1>2 DEF vars, bitmaps
    <2>2. MemoriaOK(bitmap_buddy, free_buddys, buddy_table, used_space)'
      BY <2>1 DEF MemInv, MemoriaOK
    <2>3. pc' = "reemplazar" => cache_espacio_suficiente(msg.size)'
      BY <2>1 DEF MemInv, cache_espacio_suficiente
    <2> QED BY <1>0, <2>1, <2>2, <2>3 DEF MemInv
  <1>3. CASE Fin
    BY <1>2, <1>3 DEF Fin
  <1> QED BY <1>0, <1>1, <1>2, <1>3, ReemplazarMemoria, LeerMemoria DEF Next

(***************************************************************************)
(* What the invariant says                                                 *)
(***************************************************************************)
\* The bytes of a buddy are those of its block, all in the memory.
LEMMA BytesOK ==
    ASSUME MemoriaJusta, MemInv, NEW b \in buddy_table
    PROVE  /\ b.orden \in Ordenes /\ b.orden \in Nat /\ Sitio(b) \in Nat
           /\ Bytes(b) = Bloque(b.orden, Sitio(b))
           /\ b.posicion + buddy_size(b.orden) <= TamanoMemoria
  <1> DEFINE s == buddy_size(b.orden)
             i == Sitio(b)
             c == cant_buddys(b.orden)
  <1>1. b \in Particion /\ EnSuBloque(b)
    BY DEF MemInv, MemoriaOK, TablaOK
  <1>2. b.orden \in Ordenes /\ b.orden \in Nat /\ s \in Nat \ {0}
    BY <1>1, OrdenesOK, PesoOK
  <1>3. c \in Nat \ {0} /\ TamanoMemoria = c * s
    BY <1>2, CantidadOK
  <1>4. i \in 0 .. c - 1 /\ b.posicion = i * s
    BY <1>1 DEF EnSuBloque
  <1>5. Bytes(b) = b.posicion .. b.posicion + s - 1 /\ Bloque(b.orden, i) = i * s .. (i + 1) * s - 1
    BY DEF Bytes, Bloque
  <1> HIDE DEF s, i, c
  <1>6. (i + 1) * s = i * s + s /\ i * s \in Nat /\ i \in Nat
    BY <1>2, <1>3, <1>4
  <1>7. (i + 1) * s <= c * s
    <2>1. i + 1 \in Nat /\ i + 1 <= c
      BY <1>3, <1>4
    <2>2. \A x, y, z \in Nat : x <= y => x * z <= y * z
      OBVIOUS
    <2> QED BY <1>2, <1>3, <2>1, <2>2
  <1>8. Bytes(b) = Bloque(b.orden, i)
    <2>1. b.posicion + s - 1 = (i + 1) * s - 1
      BY <1>2, <1>4, <1>6
    <2> QED BY <1>4, <1>5, <2>1
  <1>9. b.posicion + s <= TamanoMemoria
    BY <1>3, <1>4, <1>6, <1>7
  <1> QED BY <1>2, <1>6, <1>8, <1>9 DEF i, s

\* A block is touched, in bytes, exactly while a buddy reaches it, by indices, and its bit is set.
LEMMA TocadoOK ==
    ASSUME MemoriaJusta, MemInv, NEW o \in Ordenes, NEW i \in Indices(o)
    PROVE  /\ Tocado(o, i) <=> Ocupado(buddy_table, o, i)
           /\ i \in bitmap_buddy[o] <=> Tocado(o, i)
  <1>1. o \in Nat /\ i \in Nat
    BY RangosOK
  <1>2. \A b \in buddy_table :
           Toca(b.orden, Sitio(b), o, i) <=> Bytes(b) \cap Bloque(o, i) # {}
    BY <1>1, BytesOK, TocaBytes
  <1>3. Tocado(o, i) <=> Ocupado(buddy_table, o, i)
    BY <1>2 DEF Tocado, Ocupado
  <1>4. bitmap_buddy[o] = {x \in Indices(o) : Ocupado(buddy_table, o, x)}
    BY DEF MemInv, MemoriaOK, BitsDe
  <1> QED BY <1>3, <1>4

\* Under the hypothesis on the memory, all of the above holds always.
THEOREM InvarianteMemoria == ASSUME MemoriaJusta PROVE Spec => []MemInv
  <1>1. Init => MemInv
    BY InicioMemoria
  <1>2. MemInv /\ [Next]_vars => MemInv'
    BY PasoMemoria
  <1> QED BY <1>1, <1>2, PTL DEF Spec

\* Types, under the same hypothesis: the search of a clear block never comes back with
\* none (obtengo_posicion_buddy_libre).
THEOREM TiposBuddy == ASSUME MemoriaJusta PROVE Spec => []TypeOK
  <1>1. MemInv => TypeOK
    <2> SUFFICES ASSUME MemInv PROVE TypeOK
      OBVIOUS
    <2>1. buddy_table \subseteq Particion /\ bitmap_buddy = BitsDe(buddy_table)
          /\ free_buddys = LibresDe(bitmap_buddy) /\ used_space = Usado(buddy_table)
          /\ IsFiniteSet(buddy_table)
      BY DEF MemInv, MemoriaOK
    <2>2. bitmap_buddy \in [Ordenes -> SUBSET Nat]
      <3>1. \A o \in Ordenes : BitsDe(buddy_table)[o] \in SUBSET Nat
        BY BitsRango, RangosOK
      <3>2. BitsDe(buddy_table) = [o \in Ordenes |-> BitsDe(buddy_table)[o]]
        BY DEF BitsDe
      <3> QED BY <2>1, <3>1, <3>2
    <2>3. free_buddys \in [Ordenes -> Int]
      <3>1. \A o \in Ordenes : LibresDe(bitmap_buddy)[o] \in Int
        BY LibresOK
      <3>2. LibresDe(bitmap_buddy) = [o \in Ordenes |-> LibresDe(bitmap_buddy)[o]]
        BY DEF LibresDe
      <3> QED BY <2>1, <3>1, <3>2
    <2>4. used_space \in Int
      <3>1. \A b \in buddy_table : Pesos(buddy_table)[b] \in Int
        BY <2>1, PesoOK DEF Pesos
      <3>2. PICK f : EsSuma(f, buddy_table, Pesos(buddy_table))
        BY <2>1, <3>1, SumaOK
      <3>3. f[buddy_table] \in Int
        BY <3>2 DEF EsSuma
      <3>4. Usado(buddy_table) = f[buddy_table]
        BY <2>1, <3>2, UsadoEs
      <3> QED BY <2>1, <3>3, <3>4
    <2>5. mensajes_cola \subseteq Mensaje /\ g_msg_counter \in Nat \ {0}
          /\ pc \in {"libre", "reemplazar", "caido"}
      BY DEF MemInv, IInv, Guardados
    <2> QED BY <2>1, <2>2, <2>3, <2>4, <2>5 DEF MemInv, TypeOK
  <1> QED BY <1>1, InvarianteMemoria, PTL

\* No two stored messages share a byte of the cache and none reaches past its end, for
\* every memory that is a number of the largest blocks, whatever was stored and evicted
\* before (set_bits_bitmaps_buddy_system, clean_bits_bitmaps_buddy_system).
THEOREM NuncaSeSolapan == ASSUME MemoriaJusta PROVE Spec => []SinSolapar
  <1>1. MemInv => SinSolapar
    <2> SUFFICES ASSUME MemInv PROVE SinSolapar
      OBVIOUS
    <2>1. ASSUME NEW b \in buddy_table, NEW c \in buddy_table, b # c
          PROVE  Bytes(b) \cap Bytes(c) = {}
      <3>1. ~Toca(b.orden, Sitio(b), c.orden, Sitio(c))
        BY <2>1 DEF MemInv, MemoriaOK, TablaOK, Tocan
      <3> QED BY <3>1, BytesOK, TocaBytes
    <2> QED BY <2>1, BytesOK DEF SinSolapar
  <1> QED BY <1>1, InvarianteMemoria, PTL

\* A bit is set exactly while its block shares a byte with an occupied buddy, in every
\* order: the two loops over the orders, which look at indices and at one neighbour in
\* each, set and clear neither more nor less.
THEOREM BitmapsSiempreExactos == ASSUME MemoriaJusta PROVE Spec => []BitmapsExactos
  <1>1. MemInv => BitmapsExactos
    BY TocadoOK DEF BitmapsExactos, Indices
  <1> QED BY <1>1, InvarianteMemoria, PTL

\* The counts of clear blocks and of bytes in use never drift (free_buddys, used_space).
THEOREM CuentasSiempreExactas == ASSUME MemoriaJusta PROVE Spec => []CuentasExactas
  <1>1. MemInv => CuentasExactas
    <2> SUFFICES ASSUME MemInv PROVE CuentasExactas
      OBVIOUS
    <2>1. ASSUME NEW o \in Ordenes
          PROVE  free_buddys[o] = Cardinality({i \in Indices(o) : ~Tocado(o, i)})
      <3>1. {i \in Indices(o) : ~Tocado(o, i)} = Indices(o) \ bitmap_buddy[o]
        BY TocadoOK
      <3>2. free_buddys[o] = Cardinality(Indices(o) \ bitmap_buddy[o])
        BY LibresOK DEF MemInv, MemoriaOK
      <3> QED BY <3>1, <3>2
    <2>2. used_space = MapThenSumSet(LAMBDA b : buddy_size(b.orden), buddy_table)
      BY DEF MemInv, MemoriaOK, Usado
    <2> QED BY <2>1, <2>2 DEF CuentasExactas, Indices
  <1> QED BY <1>1, InvarianteMemoria, PTL

\* Evictions make room for every message the broker accepts: the table is never empty
\* when reemplazar_particion_buddy looks for a victim (buddy_proxima_victima).
THEOREM SiempreSeGuarda == ASSUME MemoriaJusta PROVE Spec => []SeGuarda
  <1>1. MemInv => SeGuarda
    BY DEF MemInv, SeGuarda
  <1> QED BY <1>1, InvarianteMemoria, PTL

=============================================================================
