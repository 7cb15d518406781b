------------------------------ MODULE TeamPasos ------------------------------
(***************************************************************************)
(* The inductive invariant of Team, and that the steps of its planners and *)
(* of the threads of its trainers keep it; first, what the operators they  *)
(* use on READY, BLOCKED, EXIT and the maps keep and change.  TeamProofs   *)
(* has the threads that receive messages and the theorems.                 *)
(*                                                                         *)
(* IInv says of each trainer where it is, whose turn it is, whether it has *)
(* a reservation and at what stage its CATCH is.  Four protocols are told  *)
(* apart: Turnos (the semaphores of the two planners and of the trainers), *)
(* Medio (what the medium term planner read of BLOCKED and relies on),     *)
(* Reservas and Captura.  They hold while the Team runs; the queues stay   *)
(* right even after a fall.                                                *)
(***************************************************************************)
EXTENDS Team, LemasComunes

\* The elements of a list, and that none is in it twice.
En(q) == {q[i] : i \in DOMAIN q}
SinRepetir(q) == \A i, j \in DOMAIN q : q[i] = q[j] => i = j
-----------------------------------------------------------------------------
(* Lists. *)

\* Primera is the least of a set of positions (list_find).
LEMMA PrimeraOK ==
    ASSUME NEW I, I \subseteq Nat, I # {}
    PROVE  Primera(I) \in I /\ \A j \in I : Primera(I) <= j
  BY MinimoOK DEF Primera

\* A set of positions of a list that is not empty has a greatest element.
LEMMA MaximoOK ==
    ASSUME NEW I, NEW n \in Nat, I \subseteq 1 .. n, I # {}
    PROVE  \E i \in I : \A j \in I : j <= i
  <1> DEFINE D == {n - i : i \in I}
  <1>1. D \subseteq Nat /\ D # {}
    <2>1. \A i \in I : n - i \in Nat
      OBVIOUS
    <2> QED BY <2>1
  <1>2. PICK d \in D : \A x \in D : d <= x
    <2> HIDE DEF D
    <2> QED BY <1>1, MinimoOK
  <1>3. PICK i \in I : d = n - i
    BY <1>2
  <1>4. \A j \in I : n - i <= n - j
    BY <1>2, <1>3
  <1>5. \A j \in I : j <= i
    BY <1>4
  <1> QED BY <1>5

\* queue_push: the list has one element more, and repeats none if it was not there.
LEMMA ConAgregado ==
    ASSUME NEW S, NEW q \in Seq(S), NEW e \in S
    PROVE  /\ Append(q, e) \in Seq(S)
           /\ Len(Append(q, e)) = Len(q) + 1
           /\ En(Append(q, e)) = En(q) \cup {e}
           /\ SinRepetir(q) /\ e \notin En(q) => SinRepetir(Append(q, e))
  <1>1. /\ Append(q, e) \in Seq(S)
        /\ Len(Append(q, e)) = Len(q) + 1
        /\ \A i \in 1 .. Len(q) : Append(q, e)[i] = q[i]
        /\ Append(q, e)[Len(q) + 1] = e
    BY AppendProperties
  <1>2. DOMAIN q = 1 .. Len(q) /\ DOMAIN Append(q, e) = 1 .. Len(q) + 1 /\ Len(q) \in Nat
    BY <1>1, LenProperties
  <1> DEFINE a == Append(q, e)
  <1> HIDE DEF a
  <1>3. En(a) = En(q) \cup {e}
    <2>1. \A i \in 1 .. Len(q) + 1 : i \in 1 .. Len(q) \/ i = Len(q) + 1
      BY <1>2
    <2>2. \A i \in 1 .. Len(q) : i \in 1 .. Len(q) + 1
      BY <1>2
    <2>3. Len(q) + 1 \in 1 .. Len(q) + 1
      BY <1>2
    <2> QED BY <1>1, <1>2, <2>1, <2>2, <2>3 DEF En, a
  <1>4. SinRepetir(q) /\ e \notin En(q) => SinRepetir(a)
    <2> SUFFICES ASSUME SinRepetir(q), e \notin En(q),
                        NEW i \in 1 .. Len(q) + 1, NEW j \in 1 .. Len(q) + 1, a[i] = a[j]
                 PROVE  i = j
      BY <1>2 DEF SinRepetir, a
    <2>1. CASE i \in 1 .. Len(q) /\ j \in 1 .. Len(q)
      BY <2>1, <1>1, <1>2 DEF SinRepetir, a
    <2>2. CASE i = Len(q) + 1 /\ j \in 1 .. Len(q)
      BY <2>2, <1>1, <1>2 DEF En, a
    <2>3. CASE j = Len(q) + 1 /\ i \in 1 .. Len(q)
      BY <2>3, <1>1, <1>2 DEF En, a
    <2>4. CASE i = Len(q) + 1 /\ j = Len(q) + 1
      BY <2>4
    <2> QED BY <2>1, <2>2, <2>3, <2>4, <1>2
  <1> QED BY <1>1, <1>3, <1>4 DEF a

\* queue_pop: the list loses its first element, and only that one.
LEMMA SinPrimero ==
    ASSUME NEW S, NEW q \in Seq(S), q # <<>>
    PROVE  /\ Head(q) \in S /\ Head(q) \in En(q)
           /\ Tail(q) \in Seq(S)
           /\ Len(Tail(q)) = Len(q) - 1
           /\ En(q) = En(Tail(q)) \cup {Head(q)}
           /\ SinRepetir(q) => SinRepetir(Tail(q)) /\ Head(q) \notin En(Tail(q))
  <1>1. /\ Head(q) = q[1] /\ Tail(q) \in Seq(S)
        /\ Len(Tail(q)) = Len(q) - 1
        /\ \A i \in 1 .. Len(Tail(q)) : Tail(q)[i] = q[i + 1]
    BY HeadTailProperties
  <1>2. DOMAIN q = 1 .. Len(q) /\ Len(q) \in Nat \ {0}
    BY EmptySeq, LenProperties
  <1> DEFINE t == Tail(q)
  <1>3. DOMAIN t = 1 .. Len(q) - 1
    BY <1>1, LenProperties
  <1>4. \A i \in 1 .. Len(q) - 1 : i + 1 \in 1 .. Len(q) /\ t[i] = q[i + 1] /\ i + 1 # 1
    BY <1>1, <1>2
  <1>5. \A i \in 1 .. Len(q) : i = 1 \/ (i - 1 \in 1 .. Len(q) - 1 /\ q[i] = t[i - 1])
    <2>1. \A i \in 1 .. Len(q) : i = 1 \/ (i - 1 \in 1 .. Len(q) - 1 /\ (i - 1) + 1 = i)
      BY <1>2
    <2> QED BY <2>1, <1>4
  <1>6. 1 \in 1 .. Len(q)
    BY <1>2
  <1> HIDE DEF t
  <1>7. En(q) = En(t) \cup {q[1]}
    <2>1. \A x \in En(q) : x \in En(t) \cup {q[1]}
      BY <1>5, <1>2, <1>3 DEF En
    <2>2. \A x \in En(t) \cup {q[1]} : x \in En(q)
      BY <1>4, <1>6, <1>2, <1>3 DEF En
    <2> QED BY <2>1, <2>2
  <1>8. SinRepetir(q) => SinRepetir(t) /\ q[1] \notin En(t)
    <2> SUFFICES ASSUME SinRepetir(q) PROVE SinRepetir(t) /\ q[1] \notin En(t)
      OBVIOUS
    <2>1. ASSUME NEW i \in DOMAIN t, NEW j \in DOMAIN t, t[i] = t[j] PROVE i = j
      <3>1. i + 1 \in DOMAIN q /\ j + 1 \in DOMAIN q /\ t[i] = q[i + 1] /\ t[j] = q[j + 1]
        BY <1>2, <1>3, <1>4
      <3>2. i + 1 = j + 1
        BY <2>1, <3>1 DEF SinRepetir
      <3> QED BY <3>2, <1>3, <1>2
    <2>2. \A i \in DOMAIN t : t[i] # q[1]
      <3> TAKE i \in DOMAIN t
      <3>1. i + 1 \in DOMAIN q /\ 1 \in DOMAIN q /\ t[i] = q[i + 1] /\ i + 1 # 1
        BY <1>2, <1>3, <1>4
      <3> QED BY <3>1 DEF SinRepetir
    <2>3. q[1] \notin En(t)
      BY <2>2 DEF En
    <2> QED BY <2>1, <2>3 DEF SinRepetir
  <1>9. q[1] \in S /\ q[1] \in En(q)
    BY <1>2, <1>6, ElementOfSeq DEF En
  <1> QED BY <1>1, <1>7, <1>8, <1>9 DEF t

\* Popping the first element and pushing it again changes the order alone.
LEMMA RotadaOK ==
    ASSUME NEW S, NEW q \in Seq(S)
    PROVE  /\ Rotada(q) \in Seq(S)
           /\ Len(Rotada(q)) = Len(q)
           /\ En(Rotada(q)) = En(q)
           /\ SinRepetir(q) => SinRepetir(Rotada(q))
  <1>1. CASE q = <<>>
    BY <1>1 DEF Rotada
  <1>2. CASE q # <<>>
    <2>1. /\ Head(q) \in S /\ Tail(q) \in Seq(S) /\ Len(Tail(q)) = Len(q) - 1
          /\ En(q) = En(Tail(q)) \cup {Head(q)}
          /\ SinRepetir(q) => SinRepetir(Tail(q)) /\ Head(q) \notin En(Tail(q))
      BY <1>2, SinPrimero
    <2>2. Rotada(q) = Append(Tail(q), Head(q))
      BY <1>2 DEF Rotada
    <2>3. Len(q) \in Nat
      OBVIOUS
    <2> DEFINE t == Tail(q)
               h == Head(q)
    <2>4. /\ Append(t, h) \in Seq(S)
          /\ Len(Append(t, h)) = Len(t) + 1
          /\ En(Append(t, h)) = En(t) \cup {h}
          /\ SinRepetir(t) /\ h \notin En(t) => SinRepetir(Append(t, h))
      <3> HIDE DEF t, h
      <3>1. t \in Seq(S) /\ h \in S
        BY <2>1 DEF t, h
      <3> QED BY <3>1, ConAgregado
    <2> QED BY <2>1, <2>2, <2>3, <2>4
  <1> QED BY <1>1, <1>2

\* list_remove, element by element.
LEMMA SinPosicionOK ==
    ASSUME NEW S, NEW q \in Seq(S), NEW i \in DOMAIN q
    PROVE  /\ SinPosicion(q, i) \in Seq(S)
           /\ Len(SinPosicion(q, i)) = Len(q) - 1
           /\ \A k \in 1 .. Len(q) - 1 :
                 SinPosicion(q, i)[k] = IF k < i THEN q[k] ELSE q[k + 1]
  BY SinElementoOK DEF SinPosicion

\* list_remove from a list that repeats none takes out that element and no other.
LEMMA SacarOK ==
    ASSUME NEW S, NEW q \in Seq(S), NEW i \in DOMAIN q, SinRepetir(q)
    PROVE  /\ SinPosicion(q, i) \in Seq(S)
           /\ Len(SinPosicion(q, i)) = Len(q) - 1
           /\ SinRepetir(SinPosicion(q, i))
           /\ En(SinPosicion(q, i)) = En(q) \ {q[i]}
  <1> DEFINE s == SinPosicion(q, i)
  <1>1. Len(q) \in Nat /\ DOMAIN q = 1 .. Len(q) /\ i \in 1 .. Len(q)
    BY LenProperties
  <1>2. /\ s \in Seq(S) /\ Len(s) = Len(q) - 1
        /\ \A k \in 1 .. Len(q) - 1 : s[k] = IF k < i THEN q[k] ELSE q[k + 1]
    BY SinPosicionOK
  <1>3. DOMAIN s = 1 .. Len(q) - 1
    BY <1>2, LenProperties
  <1> HIDE DEF s
  <1> DEFINE v(k) == IF k < i THEN k ELSE k + 1
  <1>4. \A k \in DOMAIN s : v(k) \in DOMAIN q /\ v(k) # i /\ s[k] = q[v(k)]
    BY <1>1, <1>2, <1>3
  <1>5. \A k, l \in DOMAIN s : v(k) = v(l) => k = l
    BY <1>1, <1>3
  <1>6. \A k \in DOMAIN q : k = i \/ \E l \in DOMAIN s : v(l) = k
    <2> TAKE k \in DOMAIN q
    <2>1. CASE k < i
      <3>1. k \in DOMAIN s /\ v(k) = k
        BY <2>1, <1>1, <1>3
      <3> QED BY <3>1
    <2>2. CASE k > i
      <3>1. k - 1 \in DOMAIN s /\ v(k - 1) = k
        BY <2>2, <1>1, <1>3
      <3> QED BY <3>1
    <2> QED BY <2>1, <2>2, <1>1
  <1> HIDE DEF v
  <1>7. SinRepetir(s)
    BY <1>4, <1>5 DEF SinRepetir
  <1>8. En(s) = En(q) \ {q[i]}
    <2>1. \A x \in En(s) : x \in En(q) \ {q[i]}
      BY <1>4 DEF En, SinRepetir
    <2>2. \A x \in En(q) \ {q[i]} : x \in En(s)
      BY <1>4, <1>6 DEF En
    <2> QED BY <2>1, <2>2
  <1> QED BY <1>2, <1>7, <1>8 DEF s

\* Two lists one after another have what both have.
LEMMA ConcatOK ==
    ASSUME NEW S, NEW q \in Seq(S), NEW r \in Seq(S)
    PROVE  /\ q \o r \in Seq(S)
           /\ Len(q \o r) = Len(q) + Len(r)
           /\ En(q \o r) = En(q) \cup En(r)
           /\ SinRepetir(q) /\ SinRepetir(r) /\ En(q) \cap En(r) = {} => SinRepetir(q \o r)
  <1> DEFINE c == q \o r
  <1>1. /\ Len(q) \in Nat /\ DOMAIN q = 1 .. Len(q)
        /\ Len(r) \in Nat /\ DOMAIN r = 1 .. Len(r)
    BY LenProperties
  <1>2. /\ c \in Seq(S)
        /\ Len(c) = Len(q) + Len(r)
        /\ \A k \in 1 .. Len(q) + Len(r) : c[k] = IF k <= Len(q) THEN q[k] ELSE r[k - Len(q)]
    BY ConcatProperties
  <1>3. DOMAIN c = 1 .. Len(q) + Len(r)
    BY <1>2, LenProperties
  <1> HIDE DEF c
  <1>4. \A k \in DOMAIN c : \/ k \in DOMAIN q /\ c[k] = q[k]
                            \/ k > Len(q) /\ k - Len(q) \in DOMAIN r /\ c[k] = r[k - Len(q)]
    BY <1>1, <1>2, <1>3
  <1>5. \A k \in DOMAIN q : k \in DOMAIN c /\ c[k] = q[k]
    BY <1>1, <1>2, <1>3
  <1>6. \A k \in DOMAIN r : k + Len(q) \in DOMAIN c /\ c[k + Len(q)] = r[k]
    <2> TAKE k \in DOMAIN r
    <2>1. k + Len(q) \in DOMAIN c /\ ~(k + Len(q) <= Len(q)) /\ (k + Len(q)) - Len(q) = k
      BY <1>1, <1>3
    <2> QED BY <2>1, <1>2, <1>3
  <1>7. En(c) = En(q) \cup En(r)
    <2>1. \A x \in En(c) : x \in En(q) \cup En(r)
      BY <1>4 DEF En
    <2>2. \A x \in En(q) \cup En(r) : x \in En(c)
      BY <1>5, <1>6 DEF En
    <2> QED BY <2>1, <2>2
  <1>8. ASSUME SinRepetir(q), SinRepetir(r), En(q) \cap En(r) = {},
               NEW k \in DOMAIN c, NEW l \in DOMAIN c, c[k] = c[l]
        PROVE  k = l
    <2>1. CASE k \in DOMAIN q /\ c[k] = q[k] /\ l \in DOMAIN q /\ c[l] = q[l]
      BY <2>1, <1>8 DEF SinRepetir
    <2>2. CASE k \in DOMAIN q /\ c[k] = q[k] /\ l - Len(q) \in DOMAIN r /\ c[l] = r[l - Len(q)]
      BY <2>2, <1>8 DEF En
    <2>3. CASE l \in DOMAIN q /\ c[l] = q[l] /\ k - Len(q) \in DOMAIN r /\ c[k] = r[k - Len(q)]
      BY <2>3, <1>8 DEF En
    <2>4. CASE /\ l - Len(q) \in DOMAIN r /\ c[l] = r[l - Len(q)]
               /\ k - Len(q) \in DOMAIN r /\ c[k] = r[k - Len(q)]
      <3>1. l - Len(q) = k - Len(q)
        BY <2>4, <1>8 DEF SinRepetir
      <3> QED BY <3>1, <1>1, <1>3
    <2> QED BY <2>1, <2>2, <2>3, <2>4, <1>4
  <1> QED BY <1>2, <1>7, <1>8 DEF c, SinRepetir

\* Ordenados goes through the set once: the rank of an element, the number of those
\* not after it, is an injection into 1 .. Cardinality(S), so it is onto.
LEMMA OrdenadosOK ==
    ASSUME NEW S, IsFiniteSet(S), NEW orden,
           \A i, j \in S : <<i, j>> \in orden \/ <<j, i>> \in orden,
           \A i, j \in S : <<i, j>> \in orden /\ <<j, i>> \in orden => i = j,
           \A i, j, k \in S : <<i, j>> \in orden /\ <<j, k>> \in orden => <<i, k>> \in orden
    PROVE  /\ Ordenados(S, orden) \in [1 .. Cardinality(S) -> S]
           /\ \A k, l \in 1 .. Cardinality(S) :
                 Ordenados(S, orden)[k] = Ordenados(S, orden)[l] => k = l
           /\ \A i \in S : \E k \in 1 .. Cardinality(S) : Ordenados(S, orden)[k] = i
  <1> DEFINE n == Cardinality(S)
             antes(i) == {j \in S : <<j, i>> \in orden}
             f == [i \in S |-> Cardinality(antes(i))]
             o == Ordenados(S, orden)
  <1>1. n \in Nat
    BY FS_CardinalityType
  <1>2. \A i \in S : IsFiniteSet(antes(i)) /\ Cardinality(antes(i)) \in 1 .. n
    <2> TAKE i \in S
    <2>1. antes(i) \in SUBSET S /\ i \in antes(i)
      OBVIOUS
    <2> HIDE DEF antes
    <2>2. IsFiniteSet(antes(i)) /\ Cardinality(antes(i)) <= n
      BY <2>1, FS_Subset
    <2>3. Cardinality(antes(i)) \in Nat /\ Cardinality(antes(i)) # 0
      BY <2>1, <2>2, FS_CardinalityType, FS_EmptySet
    <2> QED BY <1>1, <2>2, <2>3
  <1>3. ASSUME NEW i \in S, NEW j \in S, i # j, <<i, j>> \in orden
        PROVE  Cardinality(antes(i)) # Cardinality(antes(j))
    <2>1. antes(i) \in SUBSET antes(j)
      BY <1>3
    <2>2. j \in antes(j) /\ j \notin antes(i)
      BY <1>3
    <2>3. IsFiniteSet(antes(j))
      BY <1>2
    <2> HIDE DEF antes
    <2> QED BY <2>1, <2>2, <2>3, FS_Subset
  <1>4. \A i, j \in S : Cardinality(antes(i)) = Cardinality(antes(j)) => i = j
    <2> HIDE DEF antes
    <2> TAKE i, j \in S
    <2>1. <<i, j>> \in orden \/ <<j, i>> \in orden
      OBVIOUS
    <2> QED BY <2>1, <1>3
  <1>5. f \in Injection(S, 1 .. n)
    <2> HIDE DEF antes, n
    <2> QED BY <1>2, <1>4 DEF Injection, IsInjective
  <1>6. IsFiniteSet(1 .. n) /\ Cardinality(1 .. n) = n
    BY <1>1, FS_Interval
  <1>7. f \in Surjection(S, 1 .. n)
    <2> HIDE DEF f
    <2> QED BY <1>5, <1>6, FS_Injection
  <1>8. \A k \in 1 .. n : \E i \in S : Cardinality(antes(i)) = k
    <2> HIDE DEF antes, n
    <2> QED BY <1>7 DEF Surjection
  <1>9. o = [k \in 1 .. n |-> CHOOSE i \in S : Cardinality(antes(i)) = k]
    BY DEF Ordenados
  <1> HIDE DEF antes, n, o
  <1>10. \A k \in 1 .. n : o[k] \in S /\ Cardinality(antes(o[k])) = k
    BY <1>8, <1>9
  <1>11. o \in [1 .. n -> S]
    BY <1>9, <1>10
  <1>12. \A k, l \in 1 .. n : o[k] = o[l] => k = l
    BY <1>10
  <1>13. \A i \in S : \E k \in 1 .. n : o[k] = i
    BY <1>2, <1>4, <1>10
  <1> QED BY <1>11, <1>12, <1>13 DEF n, o

\* EnPosiciones has what the list has at those positions, once each.
LEMMA EnPosicionesOK ==
    ASSUME NEW S, NEW q \in Seq(S), NEW I, I \subseteq DOMAIN q
    PROVE  /\ EnPosiciones(q, I) \in Seq(S)
           /\ IsFiniteSet(I)
           /\ Len(EnPosiciones(q, I)) = Cardinality(I)
           /\ En(EnPosiciones(q, I)) = {q[i] : i \in I}
           /\ SinRepetir(q) => SinRepetir(EnPosiciones(q, I))
  <1> DEFINE orden == {r \in I \X I : r[1] <= r[2]}
             o == Ordenados(I, orden)
             n == Cardinality(I)
             s == EnPosiciones(q, I)
  <1>1. Len(q) \in Nat /\ DOMAIN q = 1 .. Len(q) /\ I \subseteq Nat
    BY LenProperties
  <1>2. IsFiniteSet(I)
    <2> DEFINE m == Len(q)
    <2>1. I \in SUBSET (1 .. m) /\ m \in Int /\ 1 \in Int
      BY <1>1
    <2> HIDE DEF m
    <2>2. IsFiniteSet(1 .. m)
      BY <2>1, FS_Interval
    <2> QED BY <2>1, <2>2, FS_Subset
  <1>3. \A i, j \in I : <<i, j>> \in orden <=> i <= j
    OBVIOUS
  <1> HIDE DEF orden
  <1>4. /\ \A i, j \in I : <<i, j>> \in orden \/ <<j, i>> \in orden
        /\ \A i, j \in I : <<i, j>> \in orden /\ <<j, i>> \in orden => i = j
        /\ \A i, j, k \in I : <<i, j>> \in orden /\ <<j, k>> \in orden => <<i, k>> \in orden
    BY <1>1, <1>3
  <1>5. /\ o \in [1 .. n -> I]
        /\ \A k, l \in 1 .. n : o[k] = o[l] => k = l
        /\ \A i \in I : \E k \in 1 .. n : o[k] = i
    BY <1>2, <1>4, OrdenadosOK
  <1>6. s = [k \in 1 .. n |-> q[o[k]]]
    BY DEF EnPosiciones, orden
  <1>7. n \in Nat
    BY <1>2, FS_CardinalityType
  <1> HIDE DEF o, n, s
  <1>8. \A k \in 1 .. n : o[k] \in DOMAIN q /\ q[o[k]] \in S
    BY <1>1, <1>5, ElementOfSeq
  <1>9. s \in [1 .. n -> S]
    BY <1>6, <1>8
  <1>10. s \in Seq(S) /\ Len(s) = n /\ DOMAIN s = 1 .. n
    BY <1>7, <1>9, SeqDef
  <1>11. En(s) = {q[i] : i \in I}
    BY <1>5, <1>6, <1>10 DEF En
  <1>12. SinRepetir(q) => SinRepetir(s)
    BY <1>5, <1>6, <1>8, <1>10 DEF SinRepetir
  <1> QED BY <1>2, <1>10, <1>11, <1>12 DEF n, s

\* In a list that repeats none there are as many elements as positions.
LEMMA CuantosOK ==
    ASSUME NEW S, NEW q \in Seq(S), SinRepetir(q), NEW I, I \subseteq DOMAIN q
    PROVE  /\ IsFiniteSet(I) /\ IsFiniteSet({q[i] : i \in I})
           /\ Cardinality({q[i] : i \in I}) = Cardinality(I)
           /\ Cardinality(I) \in Nat
  <1> DEFINE T == {q[i] : i \in I}
             f == [i \in I |-> q[i]]
  <1>1. IsFiniteSet(I)
    BY EnPosicionesOK
  <1>2. f \in [I -> T] /\ (\A x \in T : \E i \in I : f[i] = x)
    OBVIOUS
  <1>3. \A i, j \in I : f[i] = f[j] => i = j
    BY DEF SinRepetir
  <1> HIDE DEF f, T
  <1>4. f \in Bijection(I, T)
    BY <1>2, <1>3 DEF Bijection, Injection, Surjection, IsInjective
  <1>5. ExistsBijection(I, T)
    BY <1>4 DEF ExistsBijection
  <1>6. IsFiniteSet(T) /\ Cardinality(T) = Cardinality(I)
    BY <1>1, <1>5, FS_Bijection
  <1> QED BY <1>1, <1>6, FS_CardinalityType DEF T

\* ordenar_cola_ready_estimacion changes the order of READY alone.
LEMMA OrdenarOK ==
    ASSUME NEW q \in Seq(Entrenadores), \A e \in Entrenadores : entrenador[e].real \in Int
    PROVE  /\ ordenar_cola_ready_estimacion(q) \in Seq(Entrenadores)
           /\ Len(ordenar_cola_ready_estimacion(q)) = Len(q)
           /\ En(ordenar_cola_ready_estimacion(q)) = En(q)
           /\ SinRepetir(q) => SinRepetir(ordenar_cola_ready_estimacion(q))
  <1> DEFINE real(i) == entrenador[q[i]].real
             D == DOMAIN q
             orden == {r \in D \X D : \/ real(r[1]) < real(r[2])
                                      \/ real(r[1]) = real(r[2]) /\ r[1] <= r[2]}
             o == Ordenados(D, orden)
             n == Cardinality(D)
             s == ordenar_cola_ready_estimacion(q)
  <1>1. Len(q) \in Nat /\ D = 1 .. Len(q)
    BY LenProperties
  <1>2. IsFiniteSet(D) /\ n = Len(q)
    BY <1>1, FS_Interval
  <1>3. \A i \in D : real(i) \in Int /\ i \in Int
    BY <1>1, ElementOfSeq
  <1>4. \A i, j \in D : <<i, j>> \in orden <=>
                         (real(i) < real(j) \/ (real(i) = real(j) /\ i <= j))
    OBVIOUS
  <1>5. s = [k \in D |-> q[o[k]]]
    BY DEF ordenar_cola_ready_estimacion
  <1> HIDE DEF real, D, orden, s
  <1>6. /\ \A i, j \in D : <<i, j>> \in orden \/ <<j, i>> \in orden
        /\ \A i, j \in D : <<i, j>> \in orden /\ <<j, i>> \in orden => i = j
    BY <1>3, <1>4
  <1>7. \A i, j, k \in D : <<i, j>> \in orden /\ <<j, k>> \in orden => <<i, k>> \in orden
    BY <1>3, <1>4
  <1>8. /\ o \in [1 .. n -> D]
        /\ \A k, l \in 1 .. n : o[k] = o[l] => k = l
        /\ \A i \in D : \E k \in 1 .. n : o[k] = i
    BY <1>2, <1>6, <1>7, OrdenadosOK
  <1> HIDE DEF o, n
  <1>9. \A k \in D : o[k] \in D /\ q[o[k]] \in Entrenadores
    BY <1>1, <1>2, <1>8, ElementOfSeq
  <1>10. s \in [1 .. Len(q) -> Entrenadores]
    BY <1>1, <1>5, <1>9
  <1>11. s \in Seq(Entrenadores) /\ Len(s) = Len(q) /\ DOMAIN s = D
    BY <1>1, <1>10, SeqDef
  <1>12. En(s) = En(q)
    <2>1. \A x \in En(s) : x \in En(q)
      BY <1>5, <1>9, <1>11 DEF En, D
    <2>2. \A i \in D : \E k \in D : s[k] = q[i]
      BY <1>1, <1>2, <1>5, <1>8
    <2>3. \A x \in En(q) : x \in En(s)
      BY <2>2, <1>11 DEF En, D
    <2> QED BY <2>1, <2>3
  <1>13. SinRepetir(q) => SinRepetir(s)
    BY <1>1, <1>2, <1>5, <1>8, <1>9, <1>11 DEF SinRepetir, D
  <1> QED BY <1>11, <1>12, <1>13 DEF s

\* However READY is served, by arrival or by estimation, it has the trainers it had.
LEMMA ReadyOrdenadaOK ==
    ASSUME colaReady \in Seq(Entrenadores), \A e \in Entrenadores : entrenador[e].real \in Int
    PROVE  /\ ReadyOrdenada \in Seq(Entrenadores)
           /\ Len(ReadyOrdenada) = Len(colaReady)
           /\ En(ReadyOrdenada) = En(colaReady)
           /\ SinRepetir(colaReady) => SinRepetir(ReadyOrdenada)
  <1> DEFINE q == IF glob.esLAPrimeraVez = 1 THEN Rotada(colaReady) ELSE colaReady
  <1>1. /\ q \in Seq(Entrenadores) /\ Len(q) = Len(colaReady) /\ En(q) = En(colaReady)
        /\ SinRepetir(colaReady) => SinRepetir(q)
    BY RotadaOK
  <1>2. ReadyOrdenada = IF esSJF /\ ~cp.primera THEN ordenar_cola_ready_estimacion(q) ELSE q
    BY DEF ReadyOrdenada
  <1> HIDE DEF q
  <1> QED BY <1>1, <1>2, OrdenarOK

-----------------------------------------------------------------------------
(* Lists of pokemons. *)

\* One record per species, each with one pokemon at least.
Registros(S) == [pokemon : S, cantidad : Nat \ {0}]
Listas(S) == {l \in Seq(Registros(S)) : NombresUnicos(l)}
Lista(l) == \E S : l \in Listas(S)

\* The elements of a list are of its kind.
LEMMA ElementosOK ==
    ASSUME NEW S, NEW q \in Seq(S)
    PROVE  DOMAIN q = 1 .. Len(q) /\ Len(q) \in Nat /\ \A i \in DOMAIN q : q[i] \in S
  BY LenProperties, ElementOfSeq

\* list_buscar gives the count of the record of a species, and 0 when there is none.
LEMMA BuscarOK ==
    ASSUME NEW S, NEW l \in Listas(S), NEW p
    PROVE  /\ list_buscar(l, p) \in Nat
           /\ \A i \in DOMAIN l : l[i].pokemon = p => list_buscar(l, p) = l[i].cantidad
           /\ list_buscar(l, p) = 0 => \A i \in DOMAIN l : l[i].pokemon # p
  <1> DEFINE hay == {i \in DOMAIN l : l[i].pokemon = p}
             k == CHOOSE i \in hay : TRUE
  <1>1. l \in Seq(Registros(S)) /\ NombresUnicos(l)
    BY DEF Listas
  <1>2. \A i \in DOMAIN l : l[i] \in Registros(S)
    BY <1>1, ElementosOK
  <1>3. list_buscar(l, p) = IF hay = {} THEN 0 ELSE l[k].cantidad
    BY DEF list_buscar
  <1>4. hay # {} => k \in hay
    OBVIOUS
  <1>5. hay # {} => k \in DOMAIN l /\ l[k].pokemon = p /\ l[k].cantidad \in Nat \ {0}
    BY <1>2, <1>4 DEF Registros
  <1>6. \A i \in hay : i = k
    BY <1>5 DEF NombresUnicos
  <1> HIDE DEF k
  <1> QED BY <1>3, <1>5, <1>6

\* Adding to the count of a species leaves one record per species.
LEMMA SumarOK ==
    ASSUME NEW S, NEW l \in Listas(S), NEW p, NEW n \in Int,
           \A i \in DOMAIN l : l[i].pokemon = p => l[i].cantidad + n > 0
    PROVE  Sumar(l, p, n) \in Listas(S)
  <1> DEFINE s == Sumar(l, p, n)
  <1>1. l \in Seq(Registros(S)) /\ NombresUnicos(l)
    BY DEF Listas
  <1>2. DOMAIN l = 1 .. Len(l) /\ Len(l) \in Nat /\ \A i \in DOMAIN l : l[i] \in Registros(S)
    BY <1>1, ElementosOK
  <1>3. s = [i \in 1 .. Len(l) |-> IF l[i].pokemon = p THEN [l[i] EXCEPT !.cantidad = @ + n] ELSE l[i]]
    BY <1>2 DEF Sumar
  <1>4. \A i \in 1 .. Len(l) : s[i] \in Registros(S) /\ s[i].pokemon = l[i].pokemon
    <2> TAKE i \in 1 .. Len(l)
    <2> DEFINE c == l[i].cantidad + n
    <2>1. CASE l[i].pokemon = p
      <3>1. c \in Nat \ {0}
        BY <1>2, <2>1 DEF Registros
      <3>2. s[i] = [l[i] EXCEPT !.cantidad = c]
        BY <1>2, <1>3, <2>1
      <3> HIDE DEF c, s
      <3> QED BY <1>2, <3>1, <3>2 DEF Registros
    <2>2. CASE l[i].pokemon # p
      BY <1>2, <1>3, <2>2
    <2> QED BY <2>1, <2>2
  <1> HIDE DEF s
  <1>5. s = [i \in 1 .. Len(l) |-> s[i]]
    BY <1>3
  <1>6. s \in Seq(Registros(S)) /\ DOMAIN s = DOMAIN l
    BY <1>2, <1>4, <1>5
  <1>7. NombresUnicos(s)
    BY <1>1, <1>2, <1>4, <1>6 DEF NombresUnicos
  <1>8. s \in Listas(S)
    BY <1>6, <1>7 DEF Listas
  <1> QED BY <1>8 DEF s

\* A list of some species is one of more.
LEMMA DosEspecies ==
    ASSUME NEW S, NEW T, NEW l
    PROVE  l \in Listas(S) \/ l \in Listas(T) => l \in Listas(S \cup T)
  <1> DEFINE U == S \cup T
  <1> SUFFICES ASSUME NEW R, R \in {S, T}, l \in Listas(R) PROVE l \in Listas(U)
    OBVIOUS
  <1>1. l \in Seq(Registros(R)) /\ NombresUnicos(l) /\ R \subseteq U
    BY DEF Listas
  <1> HIDE DEF U
  <1>2. DOMAIN l = 1 .. Len(l) /\ Len(l) \in Nat /\ \A i \in DOMAIN l : l[i] \in Registros(R)
    BY <1>1, ElementosOK
  <1>3. \A i \in 1 .. Len(l) : l[i] \in Registros(U)
    BY <1>1, <1>2 DEF Registros
  <1>4. l = [i \in 1 .. Len(l) |-> l[i]]
    BY <1>1, LenProperties
  <1>5. l \in Seq(Registros(U))
    BY <1>2, <1>3, <1>4
  <1> QED BY <1>1, <1>5 DEF Listas

LEMMA MasEspecies ==
    ASSUME NEW S, NEW l \in Listas(S), NEW p
    PROVE  l \in Listas(S \cup {p})
  <1> DEFINE T == {p}
  <1> HIDE DEF T
  <1>1. l \in Listas(S \cup T)
    BY DosEspecies
  <1> QED BY <1>1 DEF T

\* agregarPokemon never leaves two records of a species.
LEMMA AgregarOK ==
    ASSUME NEW S, NEW l \in Listas(S), NEW p
    PROVE  agregarPokemon(l, p) \in Listas(S \cup {p})
  <1> DEFINE r == Especie(p, 1)
  <1>1. l \in Seq(Registros(S)) /\ NombresUnicos(l)
    BY DEF Listas
  <1>2. DOMAIN l = 1 .. Len(l) /\ Len(l) \in Nat /\ \A i \in DOMAIN l : l[i] \in Registros(S)
    BY <1>1, ElementosOK
  <1>3. CASE list_buscar(l, p) > 0
    <2>1. \A i \in DOMAIN l : l[i].pokemon = p => l[i].cantidad + 1 > 0
      BY <1>2 DEF Registros
    <2>2. Sumar(l, p, 1) \in Listas(S)
      BY <2>1, SumarOK
    <2>3. agregarPokemon(l, p) \in Listas(S)
      BY <1>3, <2>2 DEF agregarPokemon
    <2> QED BY <2>3, MasEspecies
  <1>4. CASE ~(list_buscar(l, p) > 0)
    <2>1. \A i \in DOMAIN l : l[i].pokemon # p
      BY <1>4, BuscarOK
    <2> DEFINE T == S \cup {p}
    <2>2. r \in Registros(T) /\ r.pokemon = p
      BY DEF Especie, Registros
    <2>3. l \in Seq(Registros(T))
      BY MasEspecies DEF Listas
    <2> HIDE DEF r, T
    <2>4. /\ Append(l, r) \in Seq(Registros(T)) /\ Len(Append(l, r)) = Len(l) + 1
          /\ Append(l, r)[Len(l) + 1] = r
          /\ \A i \in 1 .. Len(l) : Append(l, r)[i] = l[i]
      BY <2>2, <2>3, AppendProperties
    <2>5. DOMAIN Append(l, r) = 1 .. Len(l) + 1
      BY <2>4, LenProperties
    <2>6. NombresUnicos(Append(l, r))
      BY <1>1, <1>2, <2>1, <2>2, <2>4, <2>5 DEF NombresUnicos
    <2>7. Append(l, r) \in Listas(T)
      BY <2>4, <2>6 DEF Listas
    <2> QED BY <1>4, <2>7 DEF agregarPokemon, r, T
  <1> QED BY <1>3, <1>4

\* quitarPokemon neither leaves a record with no pokemons nor two of a species.
LEMMA QuitarOK ==
    ASSUME NEW S, NEW l \in Listas(S), NEW p
    PROVE  quitarPokemon(l, p) \in Listas(S)
  <1> DEFINE k == CHOOSE i \in DOMAIN l : l[i].pokemon = p
             s == SinPosicion(l, k)
  <1>1. l \in Seq(Registros(S)) /\ NombresUnicos(l)
    BY DEF Listas
  <1>2. DOMAIN l = 1 .. Len(l) /\ Len(l) \in Nat /\ \A i \in DOMAIN l : l[i] \in Registros(S)
    BY <1>1, ElementosOK
  <1>3. list_buscar(l, p) \in Nat
    BY BuscarOK
  <1>4. CASE list_buscar(l, p) > 1
    <2>1. \A i \in DOMAIN l : l[i].pokemon = p => l[i].cantidad + (-1) > 0
      BY <1>2, <1>4, BuscarOK DEF Registros
    <2>2. Sumar(l, p, -1) \in Listas(S)
      BY <2>1, SumarOK
    <2> QED BY <1>4, <2>2 DEF quitarPokemon
  <1>5. CASE list_buscar(l, p) = 1
    <2>1. \E i \in DOMAIN l : l[i].pokemon = p
      BY <1>5 DEF list_buscar
    <2>2. k \in DOMAIN l
      BY <2>1
    <2>3. quitarPokemon(l, p) = s
      BY <1>5 DEF quitarPokemon
    <2> HIDE DEF k
    <2>4. /\ s \in Seq(Registros(S)) /\ Len(s) = Len(l) - 1
          /\ \A j \in 1 .. Len(l) - 1 : s[j] = IF j < k THEN l[j] ELSE l[j + 1]
      BY <1>1, <2>2, SinPosicionOK
    <2> HIDE DEF s
    <2>5. DOMAIN s = 1 .. Len(l) - 1
      BY <2>4, LenProperties
    <2> DEFINE v(j) == IF j < k THEN j ELSE j + 1
    <2>6. \A j \in DOMAIN s : v(j) \in DOMAIN l /\ s[j] = l[v(j)]
      BY <1>2, <2>2, <2>4, <2>5
    <2>7. \A i, j \in DOMAIN s : v(i) = v(j) => i = j
      BY <1>2, <2>2, <2>5
    <2> HIDE DEF v
    <2>8. NombresUnicos(s)
      BY <1>1, <2>6, <2>7 DEF NombresUnicos
    <2> QED BY <2>3, <2>4, <2>8 DEF Listas
  <1>6. CASE list_buscar(l, p) = 0
    BY <1>6 DEF quitarPokemon
  <1> QED BY <1>3, <1>4, <1>5, <1>6

\* What the steps of a recursion keep from its first value it keeps to the last.
LEMMA Conserva ==
    ASSUME NEW n \in Nat, NEW X, NEW f, f[0] \in X,
           \A i \in 1 .. n : f[i - 1] \in X => f[i] \in X
    PROVE  f[n] \in X
  <1> DEFINE T == {k \in 0 .. n : f[k] \notin X}
  <1>1. SUFFICES ASSUME T # {} PROVE FALSE
    OBVIOUS
  <1>2. T \subseteq Nat
    OBVIOUS
  <1>3. PICK k \in T : \A y \in T : k <= y
    <2> HIDE DEF T
    <2> QED BY <1>1, <1>2, MinimoOK
  <1>4. k \in 1 .. n /\ k - 1 \in 0 .. n /\ ~ (k <= k - 1)
    OBVIOUS
  <1>5. f[k - 1] \in X
    BY <1>3, <1>4
  <1> QED BY <1>4, <1>5

\* f goes from a through the steps g, one for each position of a list.
Recorre(f, n, X, a, g) ==
    f \in [0 .. n -> X] /\ f[0] = a /\ \A i \in 1 .. n : f[i] = g[i][f[i - 1]]

\* A recursion whose steps go from a set to itself has a value at each position.
LEMMA Recursion ==
    ASSUME NEW n \in Nat, NEW X, NEW a \in X, NEW g \in [1 .. n -> [X -> X]]
    PROVE  \E f : Recorre(f, n, X, a, g)
  <1> DEFINE T == {k \in 0 .. n : ~ \E f : Recorre(f, k, X, a, g)}
  <1>1. SUFFICES ASSUME T # {} PROVE FALSE
    <2>1. n \notin T => \E f : Recorre(f, n, X, a, g)
      OBVIOUS
    <2> QED BY <2>1
  <1>2. T \subseteq Nat
    OBVIOUS
  <1>3. PICK k \in T : \A y \in T : k <= y
    <2> HIDE DEF T
    <2> QED BY <1>1, <1>2, MinimoOK
  <1>4. k # 0
    <2>1. Recorre([i \in 0 .. 0 |-> a], 0, X, a, g)
      BY DEF Recorre
    <2> QED BY <2>1
  <1>5. k \in 1 .. n /\ k - 1 \in 0 .. n /\ ~ (k <= k - 1)
    BY <1>4
  <1>6. PICK f : Recorre(f, k - 1, X, a, g)
    BY <1>3, <1>5
  <1> DEFINE h == [i \in 0 .. k |-> IF i = k THEN g[k][f[k - 1]] ELSE f[i]]
  <1>7. f[k - 1] \in X /\ g[k] \in [X -> X]
    BY <1>5, <1>6 DEF Recorre
  <1>8. h \in [0 .. k -> X]
    BY <1>5, <1>6, <1>7 DEF Recorre
  <1>9. h[0] = a
    BY <1>5, <1>6 DEF Recorre
  <1>10. ASSUME NEW i \in 1 .. k PROVE h[i] = g[i][h[i - 1]]
    <2>1. CASE i = k
      <3>1. h[i - 1] = f[k - 1]
        BY <1>5, <2>1
      <3> QED BY <1>5, <2>1, <3>1
    <2>2. CASE i # k
      <3>1. i \in 1 .. k - 1 /\ i - 1 \in 0 .. k /\ i - 1 # k
        BY <1>5, <2>2
      <3>2. h[i] = f[i] /\ h[i - 1] = f[i - 1]
        BY <1>5, <2>2, <3>1
      <3> QED BY <1>6, <3>1, <3>2 DEF Recorre
    <2> QED BY <2>1, <2>2
  <1> HIDE DEF h
  <1>11. Recorre(h, k, X, a, g)
    BY <1>8, <1>9, <1>10 DEF Recorre
  <1> QED BY <1>11

\* The list of the names of a trainer has one record per species.
LEMMA ExtraerOK ==
    ASSUME NEW S, NEW nombres \in Seq(S)
    PROVE  extraer_pokemones_entrenadores(nombres) \in Listas(S)
  <1> DEFINE n == Len(nombres)
             X == Listas(S)
             hasta[i \in 0 .. Len(nombres)] ==
                IF i = 0 THEN <<>> ELSE agregarPokemon(hasta[i - 1], nombres[i])
             g == [i \in 1 .. n |-> [l \in X |-> agregarPokemon(l, nombres[i])]]
  <1>1. n \in Nat /\ \A i \in 1 .. n : nombres[i] \in S
    BY ElementosOK
  <1>2. \A i \in 1 .. n, l \in X : agregarPokemon(l, nombres[i]) \in X
    <2> TAKE i \in 1 .. n, l \in X
    <2>1. agregarPokemon(l, nombres[i]) \in Listas(S \cup {nombres[i]})
      BY AgregarOK
    <2>2. S \cup {nombres[i]} = S
      BY <1>1
    <2> QED BY <2>1, <2>2
  <1>3. <<>> \in X
    BY DEF Listas, NombresUnicos
  <1>4. g \in [1 .. n -> [X -> X]]
    BY <1>2
  <1> HIDE DEF X, n
  <1>5. PICK f : Recorre(f, n, X, <<>>, g)
    <2> HIDE DEF g
    <2> QED BY <1>1, <1>3, <1>4, Recursion
  <1>6. \A i \in 1 .. n : f[i] = agregarPokemon(f[i - 1], nombres[i])
    <2> TAKE i \in 1 .. n
    <2>1. i - 1 \in 0 .. n
      BY <1>1
    <2> QED BY <1>5, <2>1 DEF Recorre
  <1>7. f = [i \in 0 .. n |-> IF i = 0 THEN <<>> ELSE agregarPokemon(f[i - 1], nombres[i])]
    BY <1>1, <1>5, <1>6 DEF Recorre
  <1>8. hasta = [i \in 0 .. n |-> IF i = 0 THEN <<>> ELSE agregarPokemon(hasta[i - 1], nombres[i])]
    BY <1>7 DEF n
  <1>9. extraer_pokemones_entrenadores(nombres) = hasta[n]
    BY DEF extraer_pokemones_entrenadores, n
  <1> HIDE DEF hasta
  <1>10. hasta[0] \in X
    BY <1>1, <1>3, <1>8
  <1>11. \A i \in 1 .. n : hasta[i - 1] \in X => hasta[i] \in X
    BY <1>1, <1>2, <1>8
  <1>12. hasta[n] \in X
    BY <1>1, <1>10, <1>11, Conserva
  <1> QED BY <1>9, <1>12 DEF X

\* An exchange goes through what the second trainer has, from recibe[0] and entrega[0].
Trueque(recibe, entrega, e1, e2, X) ==
    LET suyos == e2.obtenidos
        n == Len(suyos)
        da == LeSirven(e1, e2)
        sobra == UltimoSobrante(recibe[n], e1.objetivo)
    IN /\ recibe \in [0 .. n -> X] /\ recibe[0] = e1.obtenidos
       /\ \A i \in 1 .. n :
             recibe[i] = IF i \in da THEN agregarPokemon(recibe[i - 1], suyos[i].pokemon)
                         ELSE recibe[i - 1]
       /\ entrega \in [0 .. n -> X] /\ entrega[0] = suyos
       /\ \A i \in 1 .. n :
             entrega[i] = IF i \in da THEN quitarPokemon(entrega[i - 1], suyos[i].pokemon)
                          ELSE entrega[i - 1]
       /\ intercambiarNormalPokemon(e1, e2) =
             [uno |-> quitarPokemon(recibe[n], sobra), otro |-> agregarPokemon(entrega[n], sobra)]

LEMMA TruequeOK ==
    ASSUME NEW S, NEW e1, NEW e2, e1.obtenidos \in Listas(S), e2.obtenidos \in Listas(S)
    PROVE  \E recibe, entrega : Trueque(recibe, entrega, e1, e2, Listas(S))
  <1> DEFINE suyos == e2.obtenidos
             n == Len(suyos)
             X == Listas(S)
             da == LeSirven(e1, e2)
             recibe[i \in 0 .. Len(suyos)] ==
                IF i = 0 THEN e1.obtenidos
                ELSE IF i \in da THEN agregarPokemon(recibe[i - 1], suyos[i].pokemon) ELSE recibe[i - 1]
             entrega[i \in 0 .. Len(suyos)] ==
                IF i = 0 THEN suyos
                ELSE IF i \in da THEN quitarPokemon(entrega[i - 1], suyos[i].pokemon) ELSE entrega[i - 1]
             sobra == UltimoSobrante(recibe[Len(suyos)], e1.objetivo)
             mas == [i \in 1 .. n |-> [l \in X |->
                        IF i \in da THEN agregarPokemon(l, suyos[i].pokemon) ELSE l]]
             menos == [i \in 1 .. n |-> [l \in X |->
                        IF i \in da THEN quitarPokemon(l, suyos[i].pokemon) ELSE l]]
  <1>1. suyos \in Seq(Registros(S))
    BY DEF Listas
  <1>2. n \in Nat /\ \A i \in 1 .. n : suyos[i].pokemon \in S
    <2> HIDE DEF suyos
    <2>1. \A i \in 1 .. n : suyos[i] \in Registros(S)
      BY <1>1, ElementosOK
    <2> QED BY <1>1, <2>1 DEF Registros
  <1>3. \A i \in 1 .. n, l \in X : agregarPokemon(l, suyos[i].pokemon) \in X
    <2> TAKE i \in 1 .. n, l \in X
    <2> DEFINE p == suyos[i].pokemon
    <2>1. p \in S
      BY <1>2
    <2> HIDE DEF p
    <2>2. agregarPokemon(l, p) \in Listas(S \cup {p})
      BY AgregarOK
    <2>3. S \cup {p} = S
      BY <2>1
    <2>4. agregarPokemon(l, p) \in X
      BY <2>2, <2>3
    <2> QED BY <2>4 DEF p
  <1>4. \A i \in 1 .. n, l \in X : quitarPokemon(l, suyos[i].pokemon) \in X
    <2> TAKE i \in 1 .. n, l \in X
    <2> DEFINE p == suyos[i].pokemon
    <2> HIDE DEF p
    <2>1. quitarPokemon(l, p) \in Listas(S)
      BY QuitarOK
    <2> QED BY <2>1 DEF p
  <1>5. mas \in [1 .. n -> [X -> X]] /\ menos \in [1 .. n -> [X -> X]]
    <2> HIDE DEF suyos, n, X, da
    <2> QED BY <1>3, <1>4
  <1>6. e1.obtenidos \in X /\ suyos \in X
    OBVIOUS
  <1> HIDE DEF X, n, suyos, da
  <1>7. /\ recibe \in [0 .. n -> X] /\ recibe[0] = e1.obtenidos
        /\ \A i \in 1 .. n : recibe[i] = IF i \in da THEN agregarPokemon(recibe[i - 1], suyos[i].pokemon)
                                       ELSE recibe[i - 1]
    <2>1. PICK f : Recorre(f, n, X, e1.obtenidos, mas)
      <3> HIDE DEF mas
      <3> QED BY <1>2, <1>5, <1>6, Recursion
    <2>2. \A i \in 1 .. n : f[i] = IF i \in da THEN agregarPokemon(f[i - 1], suyos[i].pokemon) ELSE f[i - 1]
      <3> TAKE i \in 1 .. n
      <3>1. i - 1 \in 0 .. n
        BY <1>2
      <3> QED BY <2>1, <3>1 DEF Recorre
    <2>3. f = [i \in 0 .. n |->
                  IF i = 0 THEN e1.obtenidos
                  ELSE IF i \in da THEN agregarPokemon(f[i - 1], suyos[i].pokemon) ELSE f[i - 1]]
      BY <1>2, <2>1, <2>2 DEF Recorre
    <2>4. recibe = [i \in 0 .. n |->
                       IF i = 0 THEN e1.obtenidos
                       ELSE IF i \in da THEN agregarPokemon(recibe[i - 1], suyos[i].pokemon)
                       ELSE recibe[i - 1]]
      BY <2>3 DEF n
    <2> HIDE DEF recibe
    <2>5. /\ DOMAIN recibe = 0 .. n /\ recibe[0] = e1.obtenidos
          /\ \A i \in 1 .. n : recibe[i] = IF i \in da THEN agregarPokemon(recibe[i - 1], suyos[i].pokemon)
                                         ELSE recibe[i - 1]
      BY <1>2, <2>4
    <2>6. \A i \in 1 .. n : recibe[i - 1] \in X => recibe[i] \in X
      BY <1>3, <2>5
    <2>7. \A k \in 0 .. n : recibe[k] \in X
      BY <1>2, <1>6, <2>5, <2>6, Conserva
    <2>8. recibe = [i \in 0 .. n |-> recibe[i]]
      BY <2>4
    <2> QED BY <2>5, <2>7, <2>8
  <1>8. /\ entrega \in [0 .. n -> X] /\ entrega[0] = suyos
        /\ \A i \in 1 .. n : entrega[i] = IF i \in da THEN quitarPokemon(entrega[i - 1], suyos[i].pokemon)
                                        ELSE entrega[i - 1]
    <2>1. PICK f : Recorre(f, n, X, suyos, menos)
      <3> HIDE DEF menos
      <3> QED BY <1>2, <1>5, <1>6, Recursion
    <2>2. \A i \in 1 .. n : f[i] = IF i \in da THEN quitarPokemon(f[i - 1], suyos[i].pokemon) ELSE f[i - 1]
      <3> TAKE i \in 1 .. n
      <3>1. i - 1 \in 0 .. n
        BY <1>2
      <3> QED BY <2>1, <3>1 DEF Recorre
    <2>3. f = [i \in 0 .. n |->
                  IF i = 0 THEN suyos
                  ELSE IF i \in da THEN quitarPokemon(f[i - 1], suyos[i].pokemon) ELSE f[i - 1]]
      BY <1>2, <2>1, <2>2 DEF Recorre
    <2>4. entrega = [i \in 0 .. n |->
                       IF i = 0 THEN suyos
                       ELSE IF i \in da THEN quitarPokemon(entrega[i - 1], suyos[i].pokemon)
                       ELSE entrega[i - 1]]
      BY <2>3 DEF n
    <2> HIDE DEF entrega
    <2>5. /\ DOMAIN entrega = 0 .. n /\ entrega[0] = suyos
          /\ \A i \in 1 .. n : entrega[i] = IF i \in da THEN quitarPokemon(entrega[i - 1], suyos[i].pokemon)
                                         ELSE entrega[i - 1]
      BY <1>2, <2>4
    <2>6. \A i \in 1 .. n : entrega[i - 1] \in X => entrega[i] \in X
      BY <1>4, <2>5
    <2>7. \A k \in 0 .. n : entrega[k] \in X
      BY <1>2, <1>6, <2>5, <2>6, Conserva
    <2>8. entrega = [i \in 0 .. n |-> entrega[i]]
      BY <2>4
    <2> QED BY <2>5, <2>7, <2>8
  <1>9. intercambiarNormalPokemon(e1, e2) =
            [uno |-> quitarPokemon(recibe[n], sobra), otro |-> agregarPokemon(entrega[n], sobra)]
    BY DEF intercambiarNormalPokemon, n, suyos, da
  <1>10. sobra = UltimoSobrante(recibe[n], e1.objetivo)
    BY DEF n
  <1> HIDE DEF recibe, entrega, sobra
  <1>11. Trueque(recibe, entrega, e1, e2, X)
    BY <1>7, <1>8, <1>9, <1>10 DEF Trueque, n, suyos, da
  <1> QED BY <1>11 DEF X

\* An exchange leaves both trainers with one record per species.
LEMMA IntercambioOK ==
    ASSUME NEW S, NEW e1, NEW e2, e1.obtenidos \in Listas(S), e2.obtenidos \in Listas(S)
    PROVE  /\ Lista(intercambiarNormalPokemon(e1, e2).uno)
           /\ Lista(intercambiarNormalPokemon(e1, e2).otro)
  <1> DEFINE n == Len(e2.obtenidos)
  <1>1. PICK recibe, entrega : Trueque(recibe, entrega, e1, e2, Listas(S))
    BY TruequeOK
  <1>2. n \in 0 .. n
    BY ElementosOK DEF Listas
  <1> DEFINE sobra == UltimoSobrante(recibe[n], e1.objetivo)
  <1>3. /\ recibe[n] \in Listas(S) /\ entrega[n] \in Listas(S)
        /\ intercambiarNormalPokemon(e1, e2) =
              [uno |-> quitarPokemon(recibe[n], sobra), otro |-> agregarPokemon(entrega[n], sobra)]
    BY <1>1, <1>2 DEF Trueque
  <1> HIDE DEF sobra, n
  <1>4. quitarPokemon(recibe[n], sobra) \in Listas(S)
    BY <1>3, QuitarOK
  <1>5. agregarPokemon(entrega[n], sobra) \in Listas(S \cup {sobra})
    BY <1>3, AgregarOK
  <1> QED BY <1>3, <1>4, <1>5 DEF Lista
-----------------------------------------------------------------------------
(* The invariant of the Team. *)

\* No CATCH of another Team waits for its answer.
SinAjenos == Ajenos = {}

\* Kinds of values.  The lists of pokemons of a trainer have no kind here.
Lugar == Int \X Int

Ficha(t) ==
    /\ DOMAIN t = {"posicion", "objetivo", "obtenidos", "estado", "quantum",
                   "hayQueDesalojar", "actual", "real", "instruccion"}
    /\ t.posicion \in Lugar
    /\ t.estado \in Estados
    /\ t.quantum \in 0 .. QUANTUM
    /\ t.hayQueDesalojar \in BOOLEAN
    /\ t.actual \in Int /\ t.real \in Int /\ t.instruccion \in Int

Libre == [pokemon : Especies, posicion : Lugar, de : Ids]
Reserva == [id : Entrenadores, pokemon : Especies, posicion : Lugar]
Semaforos == [cplazoReady : Nat, cplazoEntrenador : Nat, mplazo : Nat, hay : Nat,
              activacion : Nat, terminar : Nat, esperar_caught : Nat, mutex_catch : Nat]
PcMp == {"inicio", "espera", "revisa", "pokemon", "asigna", "otro", "detecta", "deadlock", "fin"}
PcMensaje == {"fuera", "mapa", "evalua", "avisa", "agrega", "activa", "fin"}
PcConectar == {"conecta", "conectado", "cortado"}
TipoEnvio == [entrenador : Entrenadores, pc : PcConectar \cup {"anota"}, id : Int]
TipoBroker == [inicial : BOOLEAN, vivo : BOOLEAN, id : Nat, pendientes : SUBSET Nat,
               perdidos : SUBSET Nat, cambios : Nat]
TipoCaught == [id : Int, resultado : {"OK", "FAIL"}, pc : {"busca", "entrenador", "aplica"},
               reserva : Entrenadores \cup {Nadie}, para : Entrenadores \cup {Nadie}]

TipoEntrenador ==
    /\ entrenador = [e \in Entrenadores |-> entrenador[e]]
    /\ \A e \in Entrenadores : Ficha(entrenador[e])

TipoHilo == hilo \in [Entrenadores -> [pc : {"espera", "mueve", "envia", "caught", "fin"},
                                       meta : Lugar, pasos : Int]]

TipoColas == /\ colaReady \in Seq(Entrenadores)
             /\ colaBlocked \in Seq(Entrenadores)
             /\ colaExit \in Seq(Entrenadores)

TipoSem == sem \in Semaforos /\ semEntrenador \in [Entrenadores -> {0, 1}]

TipoPlanificadores ==
    /\ algoritmo \in Algoritmos
    /\ cp \in [pc : {"espera", "turno", "fin"}, entrenador : Entrenadores \cup {Nadie},
               primera : BOOLEAN]
    /\ mp \in [pc : PcMp, cola : Nat, entrenadores : Nat, pokemones : Nat, encontre : Nat]

TipoGlob == glob \in [esLAPrimeraVez : 0 .. 2, noEstimar : {0, 1}, entroUnoAReady : Int,
                      finalizarProceso : BOOLEAN, rta_catch : Int,
                      enEjecucion : Entrenadores \cup {Nadie}]

TipoMapa == libres \in Seq(Libre) /\ reservados \in Seq(Reserva) /\ envios \subseteq TipoEnvio

TiposPlan == /\ TipoEntrenador /\ TipoHilo /\ TipoColas /\ TipoSem /\ TipoPlanificadores
             /\ TipoGlob /\ TipoMapa

TiposRecep ==
    /\ broker \in TipoBroker
    /\ mutex_idCorrelativos \in Nat
    /\ idCorrelativosCatch \in Seq([id : Int, entrenador : Entrenadores])
    /\ mensaje \in [Ids -> [pc : PcMensaje, i : Nat \ {0}]]
    /\ \A m \in Ids : mensaje[m].i \in DOMAIN Llega(m).posiciones
    /\ caughts \subseteq TipoCaught

\* No queue repeats a trainer, none is in two, and one in none has the CPU.
Lugares ==
    /\ SinRepetir(colaReady) /\ SinRepetir(colaBlocked) /\ SinRepetir(colaExit)
    /\ En(colaReady) \cap En(colaBlocked) = {}
    /\ En(colaReady) \cap En(colaExit) = {}
    /\ En(colaBlocked) \cap En(colaExit) = {}
    /\ \A e \in Entrenadores :
          EnCpu(e) <=> e \notin En(colaReady) \cup En(colaBlocked) \cup En(colaExit)

\* A trainer has the turn, executes, or has returned the turn: one of the three, and only
\* with the CPU.  One that does not execute has its thread asleep.
Activo(e) == hilo[e].pc \in {"mueve", "envia", "caught"}

Turnos ==
    /\ \A e \in Entrenadores :
          /\ EnCpu(e) => /\ hilo[e].pc # "fin"
                         /\ semEntrenador[e] + (IF Activo(e) THEN 1 ELSE 0)
                              + sem.cplazoEntrenador = 1
                         /\ glob.enEjecucion = e
          /\ ~EnCpu(e) => ~Activo(e)
          /\ ~EnCpu(e) /\ e \notin En(colaExit) => semEntrenador[e] = 0 /\ hilo[e].pc = "espera"
          /\ Estado(e) = "EXIT" <=> e \in En(colaExit)
    /\ cp.pc = "turno" => cp.entrenador \in Entrenadores
    /\ cp.pc # "turno" => sem.cplazoEntrenador = 0

\* What the medium term planner counted: of BLOCKED and of the free pokemons, it is the
\* only one that takes.
Moviles == {e \in En(colaBlocked) : Estado(e) = "MOVERSE_A_POKEMON"}

Medio ==
    /\ mp.pc = "revisa" => mp.cola <= Len(colaBlocked)
    /\ trabada <=> mp.pc \in {"pokemon", "asigna", "otro"}
    /\ mp.pc \in {"pokemon", "asigna"} => mp.entrenadores = Cardinality(Moviles)
    /\ mp.pc = "asigna" => mp.pokemones <= Len(libres)

\* Who has a reservation: from READY until it is caught or lost, one reservation each.
TieneReserva(e) == \E i \in DOMAIN reservados : reservados[i].id = e
EnCaptura(e) == EnCpu(e) /\ hilo[e].pc \in {"envia", "caught"}

Reservas ==
    /\ \A i, j \in DOMAIN reservados : reservados[i].id = reservados[j].id => i = j
    /\ \A e \in Entrenadores :
          /\ e \in En(colaReady) \/ (EnCpu(e) /\ semEntrenador[e] = 1) =>
                (TieneReserva(e) <=> Estado(e) \in {"MOVERSE_A_POKEMON", "SEGUIR_MOVIENDOSE", "ATRAPAR"})
          /\ EnCpu(e) /\ hilo[e].pc = "mueve" =>
                /\ Estado(e) \in {"MOVERSE_A_POKEMON", "SEGUIR_MOVIENDOSE", "MOVERSE_A_ENTRENADOR"}
                /\ TieneReserva(e) <=> Estado(e) # "MOVERSE_A_ENTRENADOR"
          /\ e \in En(colaBlocked) \/ (EnCpu(e) /\ sem.cplazoEntrenador = 1) =>
                (TieneReserva(e) <=> Estado(e) \in {"SEGUIR_MOVIENDOSE", "ATRAPAR"})

\* The stages of a CATCH: about to be sent; sent, with its answer to come, lost, arrived or
\* applied; or not sent, with no id.  Its id is added to the list in the meantime, by a
\* thread of its own.  While all CATCH got an id, the mutex of the list is free when nobody
\* adds to it; while none got one, there is no answer.  With some of each nothing of this
\* is so, and Captura is lost (Mezcla).
Falta(e) == TieneReserva(e) /\ Estado(e) = "ATRAPAR"
Aplicado(e) == ~TieneReserva(e) /\ Estado(e) \in {"RECIBIO_RESPUESTA_OK", "MOVERSE_A_POKEMON"}

PorConectar == {en \in envios : en.pc \in PcConectar}
Anotando == {en \in envios : en.pc = "anota"}

SinRespuesta == broker.pendientes = {} /\ caughts = {} /\ sem.esperar_caught = 0

Anotado(e) ==
    /\ idCorrelativosCatch # <<>>
    /\ idCorrelativosCatch[Len(idCorrelativosCatch)] = [id |-> glob.rta_catch, entrenador |-> e]

EnRespuesta(e) ==
    /\ glob.rta_catch # -1
    /\ \A en \in envios : en = [entrenador |-> e, pc |-> "anota", id |-> glob.rta_catch]
    /\ envios = {} => Anotado(e)
    /\ \/ /\ broker.pendientes = {glob.rta_catch}
          /\ caughts = {}
          /\ sem.esperar_caught = 0
          /\ Falta(e)
       \/ SinRespuesta /\ Falta(e)
       \/ /\ broker.pendientes = {}
          /\ sem.esperar_caught = 0
          /\ Falta(e)
          /\ \E c \in caughts : 
                /\ caughts = {c}
                /\ c.id = glob.rta_catch
                /\ c.pc # "busca" => envios = {} /\ c.reserva = e
                /\ c.pc = "aplica" => c.para = e
       \/ /\ broker.pendientes = {}
          /\ caughts = {}
          /\ sem.esperar_caught = 1
          /\ envios = {}
          /\ Aplicado(e)

Captura ==
    /\ broker.id > 0
    /\ ~FalloConexion => mutex_idCorrelativos = (IF Anotando = {} THEN 1 ELSE 0)
    /\ glob.rta_catch = -1 => SinRespuesta
    /\ (\A e \in Entrenadores : ~EnCaptura(e)) =>
          /\ PorConectar = {} /\ sem.mutex_catch = 0 /\ SinRespuesta
          /\ ~FalloConexion => envios = {}
    /\ \A e \in Entrenadores : EnCaptura(e) =>
          \/ /\ \E pc \in PcConectar : PorConectar = {[entrenador |-> e, pc |-> pc, id |-> -1]}
             /\ ~FalloConexion => Anotando = {}
             /\ sem.mutex_catch = 0 /\ hilo[e].pc = "envia"
             /\ SinRespuesta /\ Falta(e)
          \/ /\ PorConectar = {}
             /\ sem.mutex_catch = (IF hilo[e].pc = "envia" THEN 1 ELSE 0)
             /\ IF glob.rta_catch # -1 THEN EnRespuesta(e)
                ELSE FalloConexion /\ Falta(e) /\ hilo[e].pc = "envia"

\* The inductive invariant.
Protocolo == vivo => Turnos /\ Medio /\ Reservas /\ Captura

IInv == TiposPlan /\ TiposRecep /\ Lugares /\ SaleCompleto /\ Protocolo
-----------------------------------------------------------------------------
(* What a step leaves alone. *)

MismoEstado == \A e \in Entrenadores : entrenador'[e].estado = entrenador[e].estado
MismosHilos == \A e \in Entrenadores : hilo'[e].pc = hilo[e].pc
MismosPlazos == sem'.cplazoEntrenador = sem.cplazoEntrenador

NombresSem == {"cplazoReady", "cplazoEntrenador", "mplazo", "hay", "activacion", "terminar",
               "esperar_caught", "mutex_catch"}

\* sem_post and sem_wait change one semaphore and keep it a natural.
LEMMA PostOK ==
    ASSUME sem \in Semaforos, NEW s \in NombresSem, NEW n \in Int, sem[s] + n >= 0
    PROVE  /\ Post(s, n) \in Semaforos
           /\ Post(s, n)[s] = sem[s] + n
           /\ \A r \in NombresSem \ {s} : Post(s, n)[r] = sem[r]
  BY DEF Semaforos, NombresSem, Post

\* A signal can always be given.
LEMMA SignalOK ==
    ASSUME TipoSem, NEW s \in NombresSem
    PROVE  /\ Post(s, 1) \in Semaforos
           /\ Post(s, 1)[s] = sem[s] + 1
           /\ \A r \in NombresSem \ {s} : Post(s, 1)[r] = sem[r]
  <1>1. sem \in Semaforos /\ sem[s] \in Nat
    BY DEF TipoSem, Semaforos, NombresSem
  <1> QED BY <1>1, PostOK

\* The places depend on the queues and on the turn alone.
LEMMA MarcoLugares ==
    ASSUME Lugares, UNCHANGED <<colaReady, colaBlocked, colaExit, cp>>
    PROVE  Lugares'
  BY DEF Lugares, EnCpu

\* SaleCompleto depends on EXIT and on the lists of the trainers in it.
LEMMA MarcoSale ==
    ASSUME SaleCompleto, UNCHANGED colaExit,
           \A e \in En(colaExit) : /\ entrenador'[e].obtenidos = entrenador[e].obtenidos
                                   /\ entrenador'[e].objetivo = entrenador[e].objetivo
    PROVE  SaleCompleto'
  BY DEF SaleCompleto, En

\* The protocol of the turns depends on the semaphores, the states and the threads of the trainers.
LEMMA MarcoTurnos ==
    ASSUME Turnos, UNCHANGED <<colaExit, cp, semEntrenador>>, MismoEstado, MismosHilos,
           MismosPlazos, glob'.enEjecucion = glob.enEjecucion
    PROVE  Turnos'
  BY DEF Turnos, EnCpu, Activo, Estado, MismoEstado, MismosHilos, MismosPlazos

\* What the medium term planner read of BLOCKED stays true while nobody changes it.
LEMMA MarcoMedio ==
    ASSUME Medio, UNCHANGED <<colaBlocked, mp, trabada>>, TiposPlan, TiposPlan',
           \A e \in En(colaBlocked) : entrenador'[e].estado = entrenador[e].estado,
           Len(libres') >= Len(libres)
    PROVE  Medio'
  <1>1. Moviles' = Moviles
    BY DEF Moviles, Estado
  <1>2. mp.pokemones \in Nat /\ Len(libres) \in Nat /\ Len(libres') \in Nat
    BY LenProperties DEF TiposPlan, TipoPlanificadores, TipoMapa
  <1> QED BY <1>1, <1>2 DEF Medio

\* The protocol of the reservations depends on who is where and in which state.
LEMMA MarcoReservas ==
    ASSUME Reservas, UNCHANGED <<colaReady, colaBlocked, cp, semEntrenador, reservados>>,
           MismoEstado, MismosHilos, MismosPlazos
    PROVE  Reservas'
  BY DEF Reservas, TieneReserva, EnCpu, Estado, MismoEstado, MismosHilos, MismosPlazos

\* What a CATCH depends on, besides its trainer.
MismaCaptura ==
    /\ UNCHANGED <<broker, mutex_idCorrelativos, idCorrelativosCatch, envios, caughts>>
    /\ glob'.rta_catch = glob.rta_catch
    /\ sem'.mutex_catch = sem.mutex_catch
    /\ sem'.esperar_caught = sem.esperar_caught

\* The protocol of a CATCH depends on the trainer that catches, and not on the others.
LEMMA MarcoCapturaReservas ==
    ASSUME Captura, MismaCaptura,
           \A e \in Entrenadores : EnCaptura(e)' <=> EnCaptura(e),
           \A e \in Entrenadores : EnCaptura(e) =>
              /\ hilo'[e].pc = hilo[e].pc /\ entrenador'[e].estado = entrenador[e].estado
              /\ TieneReserva(e)' <=> TieneReserva(e)
    PROVE  Captura'
  BY DEF Captura, MismaCaptura, SinRespuesta, EnRespuesta, PorConectar, Anotando, Anotado,
         Falta, Aplicado, Estado, FalloConexion

\* The same, when no reservation changes.
LEMMA MarcoCaptura ==
    ASSUME Captura, MismaCaptura, UNCHANGED reservados,
           \A e \in Entrenadores : EnCaptura(e)' <=> EnCaptura(e),
           \A e \in Entrenadores : EnCaptura(e) =>
              hilo'[e].pc = hilo[e].pc /\ entrenador'[e].estado = entrenador[e].estado
    PROVE  Captura'
  BY MarcoCapturaReservas DEF TieneReserva

\* The positions of the trainers of BLOCKED in some states are as many as those trainers.
LEMMA QuierenOK ==
    ASSUME NEW estados, colaBlocked \in Seq(Entrenadores), SinRepetir(colaBlocked)
    PROVE  /\ Quieren(estados) \subseteq DOMAIN colaBlocked
           /\ Quieren(estados) \subseteq Nat
           /\ \A i \in Quieren(estados) : /\ colaBlocked[i] \in Entrenadores
                                          /\ colaBlocked[i] \in En(colaBlocked)
                                          /\ entrenador[colaBlocked[i]].estado \in estados
           /\ Cardinality(Quieren(estados)) \in Nat
           /\ Cardinality(Quieren(estados))
                 = Cardinality({e \in En(colaBlocked) : Estado(e) \in estados})
           /\ IsFiniteSet({e \in En(colaBlocked) : Estado(e) \in estados})
  <1>1. Quieren(estados) \subseteq DOMAIN colaBlocked
    BY DEF Quieren
  <1>2. DOMAIN colaBlocked = 1 .. Len(colaBlocked) /\ Len(colaBlocked) \in Nat
    BY LenProperties
  <1>3. Quieren(estados) \subseteq Nat
    BY <1>1, <1>2
  <1>4. \A i \in DOMAIN colaBlocked : colaBlocked[i] \in Entrenadores
    BY <1>2, ElementOfSeq
  <1>5. {colaBlocked[i] : i \in Quieren(estados)} = {e \in En(colaBlocked) : Estado(e) \in estados}
    BY DEF Quieren, En
  <1>6. /\ Cardinality(Quieren(estados)) \in Nat
        /\ IsFiniteSet({colaBlocked[i] : i \in Quieren(estados)})
        /\ Cardinality({colaBlocked[i] : i \in Quieren(estados)}) = Cardinality(Quieren(estados))
    BY <1>1, CuantosOK
  <1> QED BY <1>1, <1>3, <1>4, <1>5, <1>6 DEF Quieren, En, Estado

-----------------------------------------------------------------------------
(* The short term planner. *)

\* CpTermina: the short term planner ends.
LEMMA CpTerminaOK ==
    ASSUME IInv, vivo, CpTermina, UNCHANGED recepVars
    PROVE  IInv'
  <1>0. /\ sem' \in Semaforos
        /\ sem'["terminar"] = sem["terminar"] + (1)
        /\ \A r \in NombresSem \ {"terminar"} : sem'[r] = sem[r]
    BY PostOK DEF CpTermina, IInv, TiposPlan, TipoSem, TipoPlanificadores, Semaforos, NombresSem
  <1>1. TiposPlan'
    <2>1. TipoEntrenador' /\ TipoHilo' /\ TipoColas' /\ TipoGlob' /\ TipoMapa'
      BY DEF CpTermina, colas, mapa, IInv, TiposPlan, TipoEntrenador, TipoHilo, TipoColas, TipoGlob, TipoMapa
    <2>2. TipoSem'
      BY <1>0 DEF CpTermina, colas, mapa, IInv, TiposPlan, TipoSem, NombresSem
    <2>3. TipoPlanificadores'
      BY <1>0 DEF CpTermina, colas, mapa, IInv, TiposPlan, TipoPlanificadores, NombresSem
    <2> QED BY <2>1, <2>2, <2>3 DEF TiposPlan
  <1>2. TiposRecep'
    BY DEF CpTermina, recepVars, IInv, TiposRecep, Llega
  <1>3. Lugares'
    BY DEF CpTermina, colas, IInv, Lugares, EnCpu
  <1>4. SaleCompleto'
    BY MarcoSale DEF CpTermina, colas, IInv
  <1>5. Turnos'
    BY <1>0 DEF CpTermina, colas, IInv, Protocolo, Turnos, EnCpu, Activo, Estado, NombresSem
  <1>6. Medio'
    BY MarcoMedio, <1>1 DEF CpTermina, colas, mapa, IInv, Protocolo
  <1>7. Reservas'
    BY <1>0 DEF CpTermina, colas, mapa, IInv, Protocolo, Reservas, TieneReserva, EnCpu, Estado, NombresSem
  <1>8. Captura'
    BY <1>0, MarcoCaptura DEF CpTermina, colas, mapa, recepVars, IInv, Protocolo, MismaCaptura, EnCaptura, EnCpu, NombresSem, TiposPlan, TipoPlanificadores
  <1> QED BY <1>1, <1>2, <1>3, <1>4, <1>5, <1>6, <1>7, <1>8 DEF IInv, Protocolo

\* CpElige: the first trainer of READY, however READY is served, gets the turn.
LEMMA CpEligeOK ==
    ASSUME IInv, vivo, CpElige, UNCHANGED recepVars
    PROVE  IInv'
  <1> USE DEF IInv
  <1>a. /\ ReadyOrdenada \in Seq(Entrenadores) /\ Len(ReadyOrdenada) = Len(colaReady)
        /\ En(ReadyOrdenada) = En(colaReady) /\ SinRepetir(ReadyOrdenada)
    BY ReadyOrdenadaOK DEF TiposPlan, TipoColas, TipoEntrenador, Ficha, Lugares
  <1>b. /\ Len(colaReady) \in Nat /\ Len(ReadyOrdenada) \in Nat
        /\ colaReady = <<>> <=> Len(colaReady) = 0
        /\ ReadyOrdenada = <<>> <=> Len(ReadyOrdenada) = 0
    BY <1>a, LenProperties, EmptySeq DEF TiposPlan, TipoColas
  <1>c. CASE colaReady = <<>>
    <2>1. vivo' = FALSE
      BY <1>c DEF CpElige, Caerse
    <2>2. /\ sem' \in Semaforos
      BY PostOK DEF CpElige, TiposPlan, TipoSem, Semaforos, NombresSem
    <2>3. TiposPlan'
      BY <1>c, <2>2 DEF CpElige, colas, mapa, TiposPlan, TipoEntrenador, TipoHilo, TipoColas,
            TipoSem, TipoPlanificadores, TipoGlob, TipoMapa
    <2>4. TiposRecep'
      BY DEF CpElige, recepVars, TiposRecep, Llega
    <2>5. Lugares' /\ SaleCompleto'
      BY <1>c, MarcoLugares, MarcoSale DEF CpElige
    <2> QED BY <2>1, <2>3, <2>4, <2>5 DEF Protocolo
  <1>d. CASE colaReady # <<>>
    <2> DEFINE q == ReadyOrdenada
               h == Head(q)
    <2>1. /\ q \in Seq(Entrenadores) /\ Len(q) \in Nat /\ q # <<>>
      BY <1>a, <1>b, <1>d
    <2>2. /\ h \in Entrenadores /\ h \in En(colaReady) /\ Tail(q) \in Seq(Entrenadores)
          /\ En(colaReady) = En(Tail(q)) \cup {h}
          /\ SinRepetir(Tail(q)) /\ h \notin En(Tail(q))
      <3> HIDE DEF q
      <3> QED BY <2>1, <1>a, SinPrimero DEF q
    <2>3. /\ colaReady' = Tail(q)
          /\ semEntrenador' = [semEntrenador EXCEPT ![h] = @ + 1]
          /\ cp' = [pc |-> "turno", entrenador |-> h, primera |-> cp.primera /\ ~esSJF]
          /\ glob' = [glob EXCEPT !.esLAPrimeraVez = IF @ = 1 THEN 0 ELSE @,
                                  !.entroUnoAReady = Len(q) - 1,
                                  !.enEjecucion = h]
          /\ UNCHANGED <<vivo, algoritmo, entrenador, hilo, colaBlocked, colaExit, trabada, mp,
                         libres, reservados, atrapados, envios>>
          /\ sem' = Post("cplazoReady", -1) /\ sem.cplazoReady > 0
          /\ cp.pc = "espera"
      BY <1>d DEF CpElige, mapa
    <2> HIDE DEF h, q
    <2>4. /\ sem' \in Semaforos
          /\ \A r \in NombresSem \ {"cplazoReady"} : sem'[r] = sem[r]
      <3>1. sem \in Semaforos /\ "cplazoReady" \in NombresSem /\ sem["cplazoReady"] + (-1) >= 0
        BY <2>3 DEF TiposPlan, TipoSem, Semaforos, NombresSem
      <3> QED BY <2>3, <3>1, PostOK
    <2>5. /\ h \notin En(colaBlocked) /\ h \notin En(colaExit) /\ semEntrenador[h] = 0
          /\ hilo[h].pc = "espera" /\ entrenador[h].estado # "EXIT"
      BY <2>2, <2>3 DEF Lugares, Protocolo, Turnos, Estado, EnCpu
    <2>6. TiposPlan'
      <3>1. TipoEntrenador' /\ TipoHilo' /\ TipoColas' /\ TipoMapa'
        BY <2>2, <2>3 DEF TiposPlan, TipoEntrenador, TipoHilo, TipoColas, TipoMapa
      <3>2. TipoSem'
        BY <2>2, <2>3, <2>4, <2>5 DEF TiposPlan, TipoSem
      <3>3. TipoPlanificadores'
        BY <2>2, <2>3 DEF TiposPlan, TipoPlanificadores
      <3>4. TipoGlob'
        <4> DEFINE v == IF glob.esLAPrimeraVez = 1 THEN 0 ELSE glob.esLAPrimeraVez
                   n == Len(q) - 1
        <4>1. v \in 0 .. 2 /\ n \in Int
          BY <2>1 DEF TiposPlan, TipoGlob
        <4>2. glob' = [glob EXCEPT !.esLAPrimeraVez = v, !.entroUnoAReady = n,
                                   !.enEjecucion = h]
          BY <2>3 DEF TiposPlan, TipoGlob
        <4> HIDE DEF v, n
        <4> QED BY <4>1, <4>2, <2>2 DEF TiposPlan, TipoGlob
      <3> QED BY <3>1, <3>2, <3>3, <3>4 DEF TiposPlan
    <2>7. TiposRecep'
      BY DEF recepVars, TiposRecep, Llega
    <2>8. Lugares'
      BY <2>2, <2>3 DEF Lugares, EnCpu
    <2>9. SaleCompleto'
      BY <2>3, MarcoSale
    <2>10. Turnos'
      <3>1. sem'.cplazoEntrenador = 0 /\ cp'.pc = "turno" /\ cp'.entrenador = h
            /\ glob'.enEjecucion = h
        BY <2>3, <2>4 DEF Protocolo, Turnos, NombresSem, TiposPlan, TipoGlob
      <3>2. semEntrenador'[h] = 1 /\ \A x \in Entrenadores \ {h} : semEntrenador'[x] = semEntrenador[x]
        BY <2>2, <2>3, <2>5 DEF TiposPlan, TipoSem
      <3> QED BY <2>2, <2>3, <2>5, <3>1, <3>2 DEF Protocolo, Turnos, EnCpu, Activo, Estado
    <2>11. Medio'
      BY <2>3, <2>6, MarcoMedio, LenProperties DEF Protocolo, TiposPlan, TipoMapa
    <2>12. Reservas'
      <3>1. \A x \in Entrenadores \ {h} : semEntrenador'[x] = semEntrenador[x]
        BY <2>2, <2>3 DEF TiposPlan, TipoSem
      <3>2. sem'.cplazoEntrenador = 0
        BY <2>3, <2>4 DEF Protocolo, Turnos, NombresSem
      <3> QED BY <2>2, <2>3, <2>5, <3>1, <3>2 DEF Protocolo, Reservas, TieneReserva, EnCpu, Estado
    <2>13. Captura'
      <3>1. MismaCaptura
        BY <2>3, <2>4 DEF MismaCaptura, recepVars, NombresSem, TiposPlan, TipoGlob
      <3>2. \A x \in Entrenadores : ~EnCaptura(x) /\ ~EnCaptura(x)'
        BY <2>3, <2>5 DEF EnCaptura, EnCpu
      <3> QED BY <2>3, <3>1, <3>2, MarcoCaptura DEF Protocolo
    <2> QED BY <2>6, <2>7, <2>8, <2>9, <2>10, <2>11, <2>12, <2>13 DEF Protocolo
  <1> QED BY <1>c, <1>d

\* CpDevuelve: the trainer that ended its turn goes to BLOCKED.
LEMMA CpDevuelveOK ==
    ASSUME IInv, vivo, CpDevuelve, UNCHANGED recepVars
    PROVE  IInv'
  <1> DEFINE h == cp.entrenador
  <1> USE DEF IInv
  <1>a. /\ cp.pc = "turno" /\ h \in Entrenadores /\ sem.cplazoEntrenador \in Nat /\ ~trabada
        /\ cp.entrenador = h /\ sem.cplazoEntrenador > 0 /\ EnCpu(h)
    BY DEF CpDevuelve, Protocolo, Turnos, TiposPlan, TipoSem, Semaforos, EnCpu
  <1> HIDE DEF h
  <1>b. /\ semEntrenador[h] = 0 /\ sem.cplazoEntrenador = 1 /\ hilo[h].pc = "espera"
        /\ h \notin En(colaReady) /\ h \notin En(colaBlocked) /\ h \notin En(colaExit)
    <2>1. hilo[h].pc \in {"espera", "mueve", "envia", "caught", "fin"} /\ semEntrenador[h] \in {0, 1}
      BY <1>a DEF TiposPlan, TipoHilo, TipoSem
    <2> QED BY <1>a, <2>1 DEF Protocolo, Turnos, Lugares, Activo
  <1>c. /\ colaBlocked' = Append(colaBlocked, h)
        /\ colaBlocked' \in Seq(Entrenadores) /\ Len(colaBlocked') = Len(colaBlocked) + 1
        /\ En(colaBlocked') = En(colaBlocked) \cup {h} /\ SinRepetir(colaBlocked')
    BY <1>a, <1>b, ConAgregado DEF CpDevuelve, TiposPlan, TipoColas, Lugares, h
  <1>0. /\ sem' \in Semaforos /\ sem'.cplazoEntrenador = 0
        /\ sem'.mutex_catch = sem.mutex_catch /\ sem'.esperar_caught = sem.esperar_caught
    <2> DEFINE a == sem.cplazoEntrenador - 1
               b == sem.mplazo + 1
    <2>1. a = 0 /\ a \in Nat /\ b \in Nat
      BY <1>b DEF TiposPlan, TipoSem, Semaforos
    <2>2. sem' = [sem EXCEPT !.cplazoEntrenador = a, !.mplazo = b]
      BY DEF CpDevuelve
    <2> HIDE DEF a, b
    <2> QED BY <2>1, <2>2 DEF TiposPlan, TipoSem, Semaforos
  <1>d. cp'.pc = "espera"
    BY DEF CpDevuelve, TiposPlan, TipoPlanificadores
  <1>1. TiposPlan'
    <2>1. TipoEntrenador' /\ TipoHilo' /\ TipoGlob' /\ TipoMapa'
      BY DEF CpDevuelve, colas, mapa, IInv, TiposPlan, TipoEntrenador, TipoHilo, TipoGlob, TipoMapa
    <2>2. TipoColas'
      BY <1>c DEF CpDevuelve, TiposPlan, TipoColas
    <2>3. TipoSem'
      BY <1>0 DEF CpDevuelve, TiposPlan, TipoSem
    <2>4. TipoPlanificadores'
      BY DEF CpDevuelve, colas, mapa, IInv, TiposPlan, TipoPlanificadores
    <2> QED BY <2>1, <2>2, <2>3, <2>4 DEF TiposPlan
  <1>2. TiposRecep'
    BY DEF CpDevuelve, recepVars, IInv, TiposRecep, Llega
  <1>3. Lugares'
    BY <1>a, <1>b, <1>c, <1>d DEF CpDevuelve, Lugares, EnCpu
  <1>4. SaleCompleto'
    BY MarcoSale DEF CpDevuelve, colas, IInv
  <1>5. Turnos'
    BY <1>0, <1>a, <1>b, <1>d DEF CpDevuelve, Protocolo, Turnos, EnCpu, Activo, Estado, Lugares
  <1>6. Medio'
    BY <1>a, <1>c, LenProperties DEF CpDevuelve, Protocolo, Medio, TiposPlan, TipoPlanificadores, TipoColas
  <1>7. Reservas'
    BY <1>0, <1>a, <1>b, <1>c, <1>d DEF CpDevuelve, mapa, Protocolo, Reservas, TieneReserva, EnCpu, Estado
  <1>8. Captura'
    BY <1>0, <1>a, <1>b, <1>d, MarcoCaptura DEF CpDevuelve, mapa, recepVars, Protocolo, MismaCaptura, EnCaptura, EnCpu
  <1> QED BY <1>1, <1>2, <1>3, <1>4, <1>5, <1>6, <1>7, <1>8 DEF IInv, Protocolo

-----------------------------------------------------------------------------
(* The medium term planner. *)

\* MpActiva: the medium term planner starts.
LEMMA MpActivaOK ==
    ASSUME IInv, vivo, MpActiva, UNCHANGED recepVars
    PROVE  IInv'
  <1>0. /\ sem' \in Semaforos
        /\ sem'["activacion"] = sem["activacion"] + (-1)
        /\ \A r \in NombresSem \ {"activacion"} : sem'[r] = sem[r]
    BY PostOK DEF MpActiva, IInv, TiposPlan, TipoSem, TipoPlanificadores, Semaforos, NombresSem
  <1>1. TiposPlan'
    <2>1. TipoEntrenador' /\ TipoHilo' /\ TipoColas' /\ TipoGlob' /\ TipoMapa'
      BY DEF MpActiva, colas, mapa, IInv, TiposPlan, TipoEntrenador, TipoHilo, TipoColas, TipoGlob, TipoMapa
    <2>2. TipoSem'
      BY <1>0 DEF MpActiva, colas, mapa, IInv, TiposPlan, TipoSem, NombresSem
    <2>3. TipoPlanificadores'
      BY <1>0 DEF MpActiva, colas, mapa, IInv, TiposPlan, TipoPlanificadores, NombresSem, PcMp
    <2> QED BY <2>1, <2>2, <2>3 DEF TiposPlan
  <1>2. TiposRecep'
    BY DEF MpActiva, recepVars, IInv, TiposRecep, Llega
  <1>3. Lugares'
    BY MarcoLugares DEF MpActiva, colas, IInv
  <1>4. SaleCompleto'
    BY MarcoSale DEF MpActiva, colas, IInv
  <1>5. Turnos'
    BY <1>0, MarcoTurnos DEF MpActiva, colas, IInv, Protocolo, MismoEstado, MismosHilos, MismosPlazos, NombresSem
  <1>6. Medio'
    BY <1>1 DEF MpActiva, colas, mapa, IInv, Protocolo, TiposPlan, TipoPlanificadores, Medio, Moviles, Estado, PcMp
  <1>7. Reservas'
    BY <1>0, MarcoReservas DEF MpActiva, colas, mapa, IInv, Protocolo, MismoEstado, MismosHilos, MismosPlazos, NombresSem
  <1>8. Captura'
    BY <1>0, MarcoCaptura DEF MpActiva, colas, mapa, recepVars, IInv, Protocolo, MismaCaptura, EnCaptura, EnCpu, NombresSem
  <1> QED BY <1>1, <1>2, <1>3, <1>4, <1>5, <1>6, <1>7, <1>8 DEF IInv, Protocolo

\* MpEspera: the medium term planner wakes up and reads the length of BLOCKED.
LEMMA MpEsperaOK ==
    ASSUME IInv, vivo, MpEspera, UNCHANGED recepVars
    PROVE  IInv'
  <1>0. /\ sem' \in Semaforos
        /\ sem'["mplazo"] = sem["mplazo"] + (-1)
        /\ \A r \in NombresSem \ {"mplazo"} : sem'[r] = sem[r]
    BY PostOK DEF MpEspera, IInv, TiposPlan, TipoSem, TipoPlanificadores, Semaforos, NombresSem
  <1>1. TiposPlan'
    <2>1. TipoEntrenador' /\ TipoHilo' /\ TipoColas' /\ TipoGlob' /\ TipoMapa'
      BY DEF MpEspera, colas, mapa, IInv, TiposPlan, TipoEntrenador, TipoHilo, TipoColas, TipoGlob, TipoMapa
    <2>2. TipoSem'
      BY <1>0 DEF MpEspera, colas, mapa, IInv, TiposPlan, TipoSem, NombresSem
    <2>3. TipoPlanificadores'
      BY LenProperties DEF MpEspera, IInv, TiposPlan, TipoPlanificadores, PcMp, TipoColas
    <2> QED BY <2>1, <2>2, <2>3 DEF TiposPlan
  <1>2. TiposRecep'
    BY DEF MpEspera, recepVars, IInv, TiposRecep, Llega
  <1>3. Lugares'
    BY MarcoLugares DEF MpEspera, colas, IInv
  <1>4. SaleCompleto'
    BY MarcoSale DEF MpEspera, colas, IInv
  <1>5. Turnos'
    BY <1>0, MarcoTurnos DEF MpEspera, colas, IInv, Protocolo, MismoEstado, MismosHilos, MismosPlazos, NombresSem
  <1>6. Medio'
    BY <1>1 DEF MpEspera, colas, mapa, IInv, Protocolo, TiposPlan, TipoPlanificadores, Medio, Moviles, Estado, PcMp
  <1>7. Reservas'
    BY <1>0, MarcoReservas DEF MpEspera, colas, mapa, IInv, Protocolo, MismoEstado, MismosHilos, MismosPlazos, NombresSem
  <1>8. Captura'
    BY <1>0, MarcoCaptura DEF MpEspera, colas, mapa, recepVars, IInv, Protocolo, MismaCaptura, EnCaptura, EnCpu, NombresSem
  <1> QED BY <1>1, <1>2, <1>3, <1>4, <1>5, <1>6, <1>7, <1>8 DEF IInv, Protocolo

\* MpPokemon: there is a pokemon, and the free ones are counted.
LEMMA MpPokemonOK ==
    ASSUME IInv, vivo, MpPokemon, UNCHANGED recepVars
    PROVE  IInv'
  <1>0. /\ sem' \in Semaforos
        /\ sem'["hay"] = sem["hay"] + (-1)
        /\ \A r \in NombresSem \ {"hay"} : sem'[r] = sem[r]
    BY PostOK DEF MpPokemon, IInv, TiposPlan, TipoSem, TipoPlanificadores, Semaforos, NombresSem
  <1>1. TiposPlan'
    <2>1. TipoEntrenador' /\ TipoHilo' /\ TipoColas' /\ TipoGlob' /\ TipoMapa'
      BY DEF MpPokemon, colas, mapa, IInv, TiposPlan, TipoEntrenador, TipoHilo, TipoColas, TipoGlob, TipoMapa
    <2>2. TipoSem'
      BY <1>0 DEF MpPokemon, colas, mapa, IInv, TiposPlan, TipoSem, NombresSem
    <2>3. TipoPlanificadores'
      BY LenProperties DEF MpPokemon, IInv, TiposPlan, TipoPlanificadores, PcMp, TipoMapa
    <2> QED BY <2>1, <2>2, <2>3 DEF TiposPlan
  <1>2. TiposRecep'
    BY DEF MpPokemon, recepVars, IInv, TiposRecep, Llega
  <1>3. Lugares'
    BY MarcoLugares DEF MpPokemon, colas, IInv
  <1>4. SaleCompleto'
    BY MarcoSale DEF MpPokemon, colas, IInv
  <1>5. Turnos'
    BY <1>0, MarcoTurnos DEF MpPokemon, colas, IInv, Protocolo, MismoEstado, MismosHilos, MismosPlazos, NombresSem
  <1>6. Medio'
    BY <1>1 DEF MpPokemon, colas, mapa, IInv, Protocolo, TiposPlan, TipoPlanificadores, Medio, Moviles, Estado, PcMp
  <1>7. Reservas'
    BY <1>0, MarcoReservas DEF MpPokemon, colas, mapa, IInv, Protocolo, MismoEstado, MismosHilos, MismosPlazos, NombresSem
  <1>8. Captura'
    BY <1>0, MarcoCaptura DEF MpPokemon, colas, mapa, recepVars, IInv, Protocolo, MismaCaptura, EnCaptura, EnCpu, NombresSem
  <1> QED BY <1>1, <1>2, <1>3, <1>4, <1>5, <1>6, <1>7, <1>8 DEF IInv, Protocolo

\* MpDetecta: the question whether all are in deadlock changes nothing else.
LEMMA MpDetectaOK ==
    ASSUME IInv, vivo, MpDetecta, UNCHANGED recepVars
    PROVE  IInv'
  <1>1. TiposPlan'
    <2>1. TipoEntrenador' /\ TipoHilo' /\ TipoColas' /\ TipoSem' /\ TipoGlob' /\ TipoMapa'
      BY DEF MpDetecta, colas, mapa, IInv, TiposPlan, TipoEntrenador, TipoHilo, TipoColas, TipoSem, TipoGlob, TipoMapa
    <2>2. TipoPlanificadores'
      BY DEF MpDetecta, colas, mapa, IInv, TiposPlan, TipoPlanificadores, PcMp
    <2> QED BY <2>1, <2>2 DEF TiposPlan
  <1>2. TiposRecep'
    BY DEF MpDetecta, recepVars, IInv, TiposRecep, Llega
  <1>3. Lugares'
    BY MarcoLugares DEF MpDetecta, colas, IInv
  <1>4. SaleCompleto'
    BY MarcoSale DEF MpDetecta, colas, IInv
  <1>5. Turnos'
    BY MarcoTurnos DEF MpDetecta, colas, IInv, Protocolo, MismoEstado, MismosHilos, MismosPlazos
  <1>6. Medio'
    BY <1>1 DEF MpDetecta, colas, mapa, IInv, Protocolo, TiposPlan, TipoPlanificadores, Medio, Moviles, Estado, PcMp
  <1>7. Reservas'
    BY MarcoReservas DEF MpDetecta, colas, mapa, IInv, Protocolo, MismoEstado, MismosHilos, MismosPlazos
  <1>8. Captura'
    BY MarcoCaptura DEF MpDetecta, colas, mapa, recepVars, IInv, Protocolo, MismaCaptura, EnCaptura, EnCpu
  <1> QED BY <1>1, <1>2, <1>3, <1>4, <1>5, <1>6, <1>7, <1>8 DEF IInv, Protocolo

\* MpTodosEnExit: the end is announced.
LEMMA MpTodosEnExitOK ==
    ASSUME IInv, vivo, MpTodosEnExit, UNCHANGED recepVars
    PROVE  IInv'
  <1>0. /\ sem' \in Semaforos
        /\ sem'["cplazoReady"] = sem["cplazoReady"] + (1)
        /\ \A r \in NombresSem \ {"cplazoReady"} : sem'[r] = sem[r]
    <2>1. sem' = Post("cplazoReady", 1)
      BY DEF MpTodosEnExit
    <2> QED BY <2>1, SignalOK DEF IInv, TiposPlan, NombresSem
  <1>1. TiposPlan'
    <2>1. TipoEntrenador' /\ TipoHilo' /\ TipoColas' /\ TipoMapa'
      BY DEF MpTodosEnExit, colas, mapa, IInv, TiposPlan, TipoEntrenador, TipoHilo, TipoColas, TipoMapa
    <2>2. TipoSem'
      BY <1>0 DEF MpTodosEnExit, colas, mapa, IInv, TiposPlan, TipoSem, NombresSem
    <2>3. TipoPlanificadores'
      BY <1>0 DEF MpTodosEnExit, colas, mapa, IInv, TiposPlan, TipoPlanificadores, NombresSem, PcMp
    <2>4. TipoGlob'
      BY <1>0 DEF MpTodosEnExit, colas, mapa, IInv, TiposPlan, TipoGlob, NombresSem
    <2> QED BY <2>1, <2>2, <2>3, <2>4 DEF TiposPlan
  <1>2. TiposRecep'
    BY DEF MpTodosEnExit, recepVars, IInv, TiposRecep, Llega
  <1>3. Lugares'
    BY MarcoLugares DEF MpTodosEnExit, colas, IInv
  <1>4. SaleCompleto'
    BY MarcoSale DEF MpTodosEnExit, colas, IInv
  <1>5. Turnos'
    BY <1>0, MarcoTurnos DEF MpTodosEnExit, colas, IInv, Protocolo, MismoEstado, MismosHilos, MismosPlazos, NombresSem, TiposPlan, TipoGlob
  <1>6. Medio'
    BY <1>1 DEF MpTodosEnExit, colas, mapa, IInv, Protocolo, TiposPlan, TipoPlanificadores, Medio, Moviles, Estado, PcMp
  <1>7. Reservas'
    BY <1>0, MarcoReservas DEF MpTodosEnExit, colas, mapa, IInv, Protocolo, MismoEstado, MismosHilos, MismosPlazos, NombresSem
  <1>8. Captura'
    BY <1>0, MarcoCaptura DEF MpTodosEnExit, colas, mapa, recepVars, IInv, Protocolo, MismaCaptura, EnCaptura, EnCpu, NombresSem, TiposPlan, TipoGlob
  <1> QED BY <1>1, <1>2, <1>3, <1>4, <1>5, <1>6, <1>7, <1>8 DEF IInv, Protocolo

\* MpTermina: everything is freed.
LEMMA MpTerminaOK ==
    ASSUME IInv, vivo, MpTermina, UNCHANGED recepVars
    PROVE  IInv'
  <1>0. /\ sem' \in Semaforos
        /\ sem'["terminar"] = sem["terminar"] + (-1)
        /\ \A r \in NombresSem \ {"terminar"} : sem'[r] = sem[r]
    BY PostOK DEF MpTermina, IInv, TiposPlan, TipoSem, TipoPlanificadores, Semaforos, NombresSem
  <1>1. TiposPlan'
    <2>1. TipoEntrenador' /\ TipoHilo' /\ TipoColas' /\ TipoGlob' /\ TipoMapa'
      BY DEF MpTermina, colas, mapa, IInv, TiposPlan, TipoEntrenador, TipoHilo, TipoColas, TipoGlob, TipoMapa
    <2>2. TipoSem'
      BY <1>0 DEF MpTermina, colas, mapa, IInv, TiposPlan, TipoSem, NombresSem
    <2>3. TipoPlanificadores'
      BY <1>0 DEF MpTermina, colas, mapa, IInv, TiposPlan, TipoPlanificadores, NombresSem, PcMp, liberar_variables_globales
    <2> QED BY <2>1, <2>2, <2>3 DEF TiposPlan
  <1>2. TiposRecep'
    BY DEF MpTermina, recepVars, IInv, TiposRecep, Llega
  <1>3. Lugares'
    BY MarcoLugares DEF MpTermina, colas, IInv
  <1>4. SaleCompleto'
    BY MarcoSale DEF MpTermina, colas, IInv
  <1>5. Turnos'
    BY <1>0, MarcoTurnos DEF MpTermina, colas, IInv, Protocolo, MismoEstado, MismosHilos, MismosPlazos, NombresSem
  <1>6. Medio'
    BY <1>1 DEF MpTermina, liberar_variables_globales, colas, mapa, IInv, Protocolo, TiposPlan, TipoPlanificadores, Medio, Moviles, Estado, PcMp
  <1>7. Reservas'
    BY <1>0, MarcoReservas DEF MpTermina, colas, mapa, IInv, Protocolo, MismoEstado, MismosHilos, MismosPlazos, NombresSem
  <1>8. Captura'
    BY <1>0, MarcoCaptura DEF MpTermina, colas, mapa, recepVars, IInv, Protocolo, MismaCaptura, EnCaptura, EnCpu, NombresSem
  <1> QED BY <1>1, <1>2, <1>3, <1>4, <1>5, <1>6, <1>7, <1>8 DEF IInv, Protocolo

\* MpAvisa: the short term planner gets its signals.
LEMMA MpAvisaOK ==
    ASSUME IInv, vivo, MpAvisa, UNCHANGED recepVars
    PROVE  IInv'
  <1>0. /\ sem' \in Semaforos
        /\ sem'["cplazoReady"] = sem["cplazoReady"] + (mp.encontre + (IF glob.esLAPrimeraVez = 1 THEN 1 ELSE 0))
        /\ \A r \in NombresSem \ {"cplazoReady"} : sem'[r] = sem[r]
    BY PostOK DEF MpAvisa, IInv, TiposPlan, TipoSem, TipoPlanificadores, Semaforos, NombresSem
  <1>1. TiposPlan'
    <2>1. TipoEntrenador' /\ TipoHilo' /\ TipoColas' /\ TipoGlob' /\ TipoMapa'
      BY DEF MpAvisa, colas, mapa, IInv, TiposPlan, TipoEntrenador, TipoHilo, TipoColas, TipoGlob, TipoMapa
    <2>2. TipoSem'
      BY <1>0 DEF MpAvisa, colas, mapa, IInv, TiposPlan, TipoSem, NombresSem
    <2>3. TipoPlanificadores'
      BY <1>0 DEF MpAvisa, colas, mapa, IInv, TiposPlan, TipoPlanificadores, NombresSem, PcMp
    <2> QED BY <2>1, <2>2, <2>3 DEF TiposPlan
  <1>2. TiposRecep'
    BY DEF MpAvisa, recepVars, IInv, TiposRecep, Llega
  <1>3. Lugares'
    BY MarcoLugares DEF MpAvisa, colas, IInv
  <1>4. SaleCompleto'
    BY MarcoSale DEF MpAvisa, colas, IInv
  <1>5. Turnos'
    BY <1>0, MarcoTurnos DEF MpAvisa, colas, IInv, Protocolo, MismoEstado, MismosHilos, MismosPlazos, NombresSem
  <1>6. Medio'
    BY <1>1 DEF MpAvisa, colas, mapa, IInv, Protocolo, TiposPlan, TipoPlanificadores, Medio, Moviles, Estado, PcMp
  <1>7. Reservas'
    BY <1>0, MarcoReservas DEF MpAvisa, colas, mapa, IInv, Protocolo, MismoEstado, MismosHilos, MismosPlazos, NombresSem
  <1>8. Captura'
    BY <1>0, MarcoCaptura DEF MpAvisa, colas, mapa, recepVars, IInv, Protocolo, MismaCaptura, EnCaptura, EnCpu, NombresSem
  <1> QED BY <1>1, <1>2, <1>3, <1>4, <1>5, <1>6, <1>7, <1>8 DEF IInv, Protocolo

\* MpMira: sem_cola_blocked is taken and those that want to move are counted.
LEMMA MpMiraOK ==
    ASSUME IInv, vivo, MpMira, UNCHANGED recepVars
    PROVE  IInv'
  <1>a. /\ Cardinality(Quieren({"MOVERSE_A_POKEMON"})) \in Nat
        /\ Cardinality(Quieren({"MOVERSE_A_POKEMON"})) = Cardinality(Moviles)
    <2>1. {e \in En(colaBlocked) : Estado(e) \in {"MOVERSE_A_POKEMON"}} = Moviles
      BY DEF Moviles
    <2> QED BY <2>1, QuierenOK DEF IInv, TiposPlan, TipoColas, Lugares
  <1>b. Moviles' = Moviles
    BY DEF MpMira, colas, Moviles, Estado
  <1>1. TiposPlan'
    <2>1. TipoEntrenador' /\ TipoHilo' /\ TipoColas' /\ TipoSem' /\ TipoGlob' /\ TipoMapa'
      BY DEF MpMira, colas, mapa, IInv, TiposPlan, TipoEntrenador, TipoHilo, TipoColas, TipoSem, TipoGlob, TipoMapa
    <2>2. TipoPlanificadores'
      BY <1>a DEF MpMira, IInv, TiposPlan, TipoPlanificadores, PcMp
    <2> QED BY <2>1, <2>2 DEF TiposPlan
  <1>2. TiposRecep'
    BY DEF MpMira, recepVars, IInv, TiposRecep, Llega
  <1>3. Lugares'
    BY MarcoLugares DEF MpMira, colas, IInv
  <1>4. SaleCompleto'
    BY MarcoSale DEF MpMira, colas, IInv
  <1>5. Turnos'
    BY MarcoTurnos DEF MpMira, colas, IInv, Protocolo, MismoEstado, MismosHilos, MismosPlazos
  <1>6. Medio'
    BY <1>a, <1>b DEF MpMira, IInv, Protocolo, TiposPlan, TipoPlanificadores, Medio
  <1>7. Reservas'
    BY MarcoReservas DEF MpMira, colas, mapa, IInv, Protocolo, MismoEstado, MismosHilos, MismosPlazos
  <1>8. Captura'
    BY MarcoCaptura DEF MpMira, colas, mapa, recepVars, IInv, Protocolo, MismaCaptura, EnCaptura, EnCpu
  <1> QED BY <1>1, <1>2, <1>3, <1>4, <1>5, <1>6, <1>7, <1>8 DEF IInv, Protocolo

\* The estimation of SJF changes numbers of a trainer: not its state and not its lists.
LEMMA EstimadoOK ==
    ASSUME NEW e \in Entrenadores, TiposPlan
    PROVE  /\ Ficha(Estimado(e))
           /\ Estimado(e).estado = entrenador[e].estado
           /\ Estimado(e).obtenidos = entrenador[e].obtenidos
           /\ Estimado(e).objetivo = entrenador[e].objetivo
  <1> DEFINE t == entrenador[e]
             n == Estimacion(t)
  <1>1. Ficha(t)
    BY DEF TiposPlan, TipoEntrenador
  <1>2. n \in Int
    <2> DEFINE m == ALPHA * t.instruccion * Escala + (Escala - ALPHA) * t.real
    <2>1. ALPHA \in Int /\ Escala \in Nat \ {0} /\ t.instruccion \in Int /\ t.real \in Int
      BY <1>1, EntrenadorAssumption DEF Ficha
    <2>2. ALPHA * t.instruccion * Escala \in Int /\ (Escala - ALPHA) * t.real \in Int
      BY <2>1
    <2>3. m \in Int
      BY <2>2
    <2> HIDE DEF m
    <2>4. m \div Escala \in Int
      BY <2>1, <2>3
    <2> QED BY <2>4 DEF Estimacion, m
  <1> HIDE DEF t, n
  <1>3. \/ Estimado(e) = t
        \/ Estimado(e) = [t EXCEPT !.hayQueDesalojar = FALSE]
        \/ Estimado(e) = [t EXCEPT !.real = n, !.actual = n, !.instruccion = 0]
    BY DEF Estimado, t, n
  <1>4. CASE Estimado(e) = t
    BY <1>1, <1>4 DEF t
  <1>5. CASE Estimado(e) = [t EXCEPT !.hayQueDesalojar = FALSE]
    BY <1>1, <1>5 DEF Ficha, t
  <1>6. CASE Estimado(e) = [t EXCEPT !.real = n, !.actual = n, !.instruccion = 0]
    <2>1. DOMAIN Estimado(e) = DOMAIN t
      BY <1>6
    <2>2. /\ \A k \in DOMAIN t \ {"real", "actual", "instruccion"} : Estimado(e)[k] = t[k]
          /\ Estimado(e).real = n /\ Estimado(e).actual = n /\ Estimado(e).instruccion = 0
      BY <1>1, <1>6 DEF Ficha
    <2>3. Ficha(Estimado(e))
      BY <1>1, <1>2, <2>1, <2>2 DEF Ficha
    <2> QED BY <1>1, <2>2, <2>3 DEF Ficha, t
  <1> QED BY <1>3, <1>4, <1>5, <1>6

\* estimar_entrenador leaves every state and every list of pokemons alone.
LEMMA EstimarOK ==
    ASSUME NEW e \in Entrenadores, TiposPlan, estimar_entrenador(e)
    PROVE  /\ TipoEntrenador' /\ TipoGlob' /\ MismoEstado
           /\ \A x \in Entrenadores : /\ entrenador'[x].obtenidos = entrenador[x].obtenidos
                                      /\ entrenador'[x].objetivo = entrenador[x].objetivo
           /\ glob'.enEjecucion = glob.enEjecucion /\ glob'.rta_catch = glob.rta_catch
           /\ glob'.esLAPrimeraVez = glob.esLAPrimeraVez
  <1>1. /\ Ficha(Estimado(e)) /\ Estimado(e).estado = entrenador[e].estado
        /\ Estimado(e).obtenidos = entrenador[e].obtenidos
        /\ Estimado(e).objetivo = entrenador[e].objetivo
    BY EstimadoOK
  <1>2. /\ entrenador' = [entrenador EXCEPT ![e] = Estimado(e)]
        /\ glob' = glob \/ glob' = [glob EXCEPT !.noEstimar = 0]
    BY DEF estimar_entrenador
  <1>3. \A x \in Entrenadores : entrenador'[x] = IF x = e THEN Estimado(e) ELSE entrenador[x]
    BY <1>2 DEF TiposPlan, TipoEntrenador
  <1>4. TipoEntrenador'
    BY <1>1, <1>2, <1>3 DEF TiposPlan, TipoEntrenador
  <1>5. TipoGlob'
    BY <1>2 DEF TiposPlan, TipoGlob
  <1> QED BY <1>1, <1>2, <1>3, <1>4, <1>5 DEF MismoEstado, TiposPlan, TipoGlob

\* buscarEntrenadorMasConvenienteEnColaRancio finds a trainer that wants to move, when
\* there is one: the distances to a place have a least value.
LEMMA MasConvenienteOK ==
    ASSUME NEW lugar \in Lugar, TiposPlan, SinRepetir(colaBlocked),
           Quieren({"MOVERSE_A_POKEMON"}) # {}
    PROVE  buscarEntrenadorMasConvenienteEnColaRancio(lugar) \in Quieren({"MOVERSE_A_POKEMON"})
  <1> DEFINE hay == Quieren({"MOVERSE_A_POKEMON"})
             lejos(i) == calcularDistancia(entrenador[colaBlocked[i]].posicion, lugar)
             D == {lejos(i) : i \in hay}
  <1>1. /\ hay \subseteq Nat
        /\ \A i \in hay : colaBlocked[i] \in Entrenadores
    BY QuierenOK DEF TiposPlan, TipoColas
  <1>2. \A i \in hay : lejos(i) \in Nat
    <2> TAKE i \in hay
    <2> DEFINE p == entrenador[colaBlocked[i]].posicion
    <2>1. p \in Int \X Int /\ lugar \in Int \X Int
      BY <1>1 DEF TiposPlan, TipoEntrenador, Ficha, Lugar
    <2> HIDE DEF p
    <2>2. /\ p[1] \in Int /\ p[2] \in Int /\ lugar[1] \in Int /\ lugar[2] \in Int
      BY <2>1
    <2>3. calcularDistancia(p, lugar) \in Nat
      BY <2>2 DEF calcularDistancia, Modulo
    <2> QED BY <2>3 DEF p
  <1> HIDE DEF hay, lejos
  <1>3. D \subseteq Nat /\ D # {}
    BY <1>2 DEF hay
  <1>4. PICK m \in D : \A d \in D : m <= d
    <2> HIDE DEF D
    <2> QED BY <1>3, MinimoOK
  <1> DEFINE M == {i \in hay : lejos(i) = m}
  <1>5. M \subseteq Nat /\ M # {}
    BY <1>1, <1>4
  <1>6. PICK k \in M : \A i \in M : k <= i
    <2> HIDE DEF M
    <2> QED BY <1>5, MinimoOK
  <1>7. \A j \in hay : lejos(k) < lejos(j) \/ (lejos(k) = lejos(j) /\ k <= j)
    <2> TAKE j \in hay
    <2>1. lejos(k) = m /\ m <= lejos(j) /\ lejos(j) \in Nat /\ m \in Nat
      BY <1>2, <1>3, <1>4, <1>6
    <2>2. lejos(j) = m => k <= j
      BY <1>6
    <2> QED BY <2>1, <2>2
  <1>8. k \in hay
    BY <1>6
  <1>9. buscarEntrenadorMasConvenienteEnColaRancio(lugar)
          = CHOOSE i \in hay : \A j \in hay : lejos(i) < lejos(j) \/ (lejos(i) = lejos(j) /\ i <= j)
    BY DEF buscarEntrenadorMasConvenienteEnColaRancio, hay, lejos
  <1> QED BY <1>7, <1>8, <1>9 DEF hay

\* MpRevisa: the head of BLOCKED gets its new state, and goes to EXIT or to the end of it.
LEMMA MpRevisaOK ==
    ASSUME IInv, vivo, MpRevisa, UNCHANGED recepVars
    PROVE  IInv'
  <1> USE DEF IInv
  <1> DEFINE e == Head(colaBlocked)
             cambia == Estado(e) \in {"ACABO_INTERCAMBIO", "RECIBIO_RESPUESTA_OK"}
             nuevo == IF cambia THEN verificarYCambiarEstadoEntrenador(entrenador[e]) ELSE Estado(e)
             sale == cambia /\ nuevo = "EXIT"
  <1>a. /\ entrenador' = [entrenador EXCEPT ![e].estado = nuevo]
        /\ colaBlocked' = IF sale THEN Tail(colaBlocked) ELSE Rotada(colaBlocked)
        /\ colaExit' = IF sale THEN Append(colaExit, e) ELSE colaExit
        /\ semEntrenador' = IF sale THEN [semEntrenador EXCEPT ![e] = @ + 1] ELSE semEntrenador
        /\ mp' = [mp EXCEPT !.cola = @ - 1]
        /\ mp.pc = "revisa" /\ mp.cola > 0
        /\ UNCHANGED <<algoritmo, hilo, colaReady, sem, trabada, cp, glob, libres, reservados,
                       atrapados, envios, vivo>>
    BY DEF MpRevisa, mapa
  <1>b. /\ colaBlocked \in Seq(Entrenadores) /\ colaBlocked # <<>> /\ Len(colaBlocked) \in Nat
        /\ SinRepetir(colaBlocked) /\ mp.cola \in Nat /\ mp.cola <= Len(colaBlocked)
    <2>1. mp.cola \in Nat /\ mp.cola <= Len(colaBlocked) /\ colaBlocked \in Seq(Entrenadores)
      BY <1>a DEF Protocolo, Medio, TiposPlan, TipoPlanificadores, TipoColas
    <2>2. Len(colaBlocked) \in Nat /\ (colaBlocked = <<>> <=> Len(colaBlocked) = 0)
      BY <2>1, LenProperties, EmptySeq
    <2> QED BY <1>a, <2>1, <2>2 DEF Lugares
  <1>c. /\ e \in Entrenadores /\ e \in En(colaBlocked)
        /\ Tail(colaBlocked) \in Seq(Entrenadores) /\ Len(Tail(colaBlocked)) = Len(colaBlocked) - 1
        /\ En(Tail(colaBlocked)) = En(colaBlocked) \ {e} /\ SinRepetir(Tail(colaBlocked))
    BY <1>b, SinPrimero
  <1>d. /\ Rotada(colaBlocked) \in Seq(Entrenadores)
        /\ Len(Rotada(colaBlocked)) = Len(colaBlocked)
        /\ En(Rotada(colaBlocked)) = En(colaBlocked) /\ SinRepetir(Rotada(colaBlocked))
    BY <1>b, RotadaOK
  <1>e. /\ e \notin En(colaExit) /\ e \notin En(colaReady) /\ ~EnCpu(e)
        /\ semEntrenador[e] = 0 /\ hilo[e].pc = "espera" /\ Estado(e) # "EXIT"
    BY <1>c DEF Lugares, Protocolo, Turnos
  <1>f. /\ Append(colaExit, e) \in Seq(Entrenadores)
        /\ En(Append(colaExit, e)) = En(colaExit) \cup {e} /\ SinRepetir(Append(colaExit, e))
    BY <1>c, <1>e, ConAgregado DEF Lugares, TiposPlan, TipoColas
  <1>g. nuevo \in Estados /\ (~sale => nuevo # "EXIT") /\ (sale => nuevo = "EXIT")
        /\ (~cambia => nuevo = Estado(e))
        /\ (cambia => nuevo \in {"EXIT", "DEADLOCK", "MOVERSE_A_POKEMON"})
    BY <1>c, <1>e DEF verificarYCambiarEstadoEntrenador, Estados, TiposPlan, TipoEntrenador,
                      Ficha, Estado
  <1>h. sale => pokemonesPendientes(entrenador[e].obtenidos, entrenador[e].objetivo) = {}
    BY DEF verificarYCambiarEstadoEntrenador
  <1>i. cambia => ~TieneReserva(e)
    BY <1>c DEF Protocolo, Reservas
  <1> HIDE DEF e, nuevo, sale
  <1>j. /\ \A x \in Entrenadores : /\ Ficha(entrenador'[x])
                                   /\ entrenador'[x].estado = IF x = e THEN nuevo ELSE entrenador[x].estado
                                   /\ entrenador'[x].obtenidos = entrenador[x].obtenidos
                                   /\ entrenador'[x].objetivo = entrenador[x].objetivo
        /\ entrenador' = [x \in Entrenadores |-> entrenador'[x]]
    BY <1>a, <1>c, <1>g DEF TiposPlan, TipoEntrenador, Ficha
  <1>1. TiposPlan'
    <2>1. TipoHilo' /\ TipoGlob' /\ TipoMapa'
      BY DEF MpRevisa, colas, mapa, IInv, TiposPlan, TipoHilo, TipoGlob, TipoMapa
    <2>2. TipoEntrenador'
      BY <1>j DEF TipoEntrenador
    <2>3. TipoColas'
      BY <1>a, <1>c, <1>d, <1>f DEF TiposPlan, TipoColas
    <2>4. TipoSem'
      BY <1>a, <1>c, <1>e DEF TiposPlan, TipoSem
    <2>5. TipoPlanificadores'
      BY <1>a DEF TiposPlan, TipoPlanificadores
    <2> QED BY <2>1, <2>2, <2>3, <2>4, <2>5 DEF TiposPlan
  <1>2. TiposRecep'
    BY DEF MpRevisa, recepVars, IInv, TiposRecep, Llega
  <1>3. Lugares'
    BY <1>a, <1>c, <1>d, <1>e, <1>f DEF Lugares, EnCpu
  <1>4. SaleCompleto'
    <2>1. \A x \in En(colaExit) :
             pokemonesPendientes(entrenador[x].obtenidos, entrenador[x].objetivo) = {}
      BY DEF SaleCompleto, En
    <2>2. \A x \in En(colaExit') : x \in Entrenadores /\ (x \in En(colaExit) \/ (sale /\ x = e))
      <3>1. colaExit' \in Seq(Entrenadores)
        BY <1>1 DEF TiposPlan, TipoColas
      <3>2. En(colaExit') \subseteq Entrenadores
        BY <3>1, ElementOfSeq, LenProperties DEF En
      <3> QED BY <1>a, <1>f, <3>2
    <2>3. \A x \in En(colaExit') :
             pokemonesPendientes(entrenador'[x].obtenidos, entrenador'[x].objetivo) = {}
      BY <1>h, <1>j, <2>1, <2>2
    <2> QED BY <2>3 DEF SaleCompleto, En
  <1>5. Turnos'
    <2>1. \A x \in Entrenadores \ {e} : semEntrenador'[x] = semEntrenador[x]
      BY <1>a DEF TiposPlan, TipoSem
    <2>2. En(colaExit') = En(colaExit) \cup (IF sale THEN {e} ELSE {})
      BY <1>a, <1>f
    <2>3. ~sale => semEntrenador' = semEntrenador
      BY <1>a
    <2> QED BY <1>a, <1>c, <1>e, <1>g, <1>j, <2>1, <2>2, <2>3 DEF Protocolo, Turnos, EnCpu, Activo, Estado
  <1>6. Medio'
    <2>1. mp'.pc = "revisa" /\ mp'.cola = mp.cola - 1
      BY <1>a DEF TiposPlan, TipoPlanificadores
    <2>2. Len(colaBlocked') >= Len(colaBlocked) - 1 /\ Len(colaBlocked') \in Nat
      BY <1>a, <1>b, <1>c, <1>d
    <2> QED BY <1>a, <1>b, <2>1, <2>2 DEF Protocolo, Medio
  <1>7. Reservas'
    <2>1. \A x \in Entrenadores \ {e} : semEntrenador'[x] = semEntrenador[x]
      BY <1>a DEF TiposPlan, TipoSem
    <2>2. En(colaBlocked') \subseteq En(colaBlocked)
      BY <1>a, <1>c, <1>d
    <2>3. nuevo \in {"SEGUIR_MOVIENDOSE", "ATRAPAR"} <=> Estado(e) \in {"SEGUIR_MOVIENDOSE", "ATRAPAR"}
      BY <1>g
    <2> QED BY <1>a, <1>c, <1>e, <1>i, <1>j, <2>1, <2>2, <2>3 DEF Protocolo, Reservas, TieneReserva, EnCpu, Estado
  <1>8. Captura'
    BY <1>a, <1>e, <1>j, MarcoCaptura DEF recepVars, Protocolo, MismaCaptura, EnCaptura, EnCpu
  <1> QED BY <1>1, <1>2, <1>3, <1>4, <1>5, <1>6, <1>7, <1>8 DEF IInv, Protocolo

\* What MpAsigna leaves in BLOCKED: every trainer but one that wants to move to a pokemon.
LEMMA SinElAsignado ==
    ASSUME TiposPlan, SinRepetir(colaBlocked), NEW i \in Quieren({"MOVERSE_A_POKEMON"}),
           NEW q, q = EnPosiciones(colaBlocked, Quieren(Estados \ {"MOVERSE_A_POKEMON"}))
                        \o EnPosiciones(colaBlocked, Quieren({"MOVERSE_A_POKEMON"}) \ {i})
    PROVE  /\ q \in Seq(Entrenadores)
           /\ En(q) = En(colaBlocked) \ {colaBlocked[i]}
           /\ SinRepetir(q)
  <1> DEFINE A == Quieren(Estados \ {"MOVERSE_A_POKEMON"})
             B == Quieren({"MOVERSE_A_POKEMON"}) \ {i}
             a == EnPosiciones(colaBlocked, A)
             b == EnPosiciones(colaBlocked, B)
  <1>1. A \subseteq DOMAIN colaBlocked /\ B \subseteq DOMAIN colaBlocked /\ i \in DOMAIN colaBlocked
    BY DEF Quieren
  <1>2. A \cap B = {} /\ i \notin A /\ i \notin B
    BY DEF Quieren, Estados
  <1>3. \A k \in DOMAIN colaBlocked : k = i \/ k \in A \/ k \in B
    <2> TAKE k \in DOMAIN colaBlocked
    <2>1. colaBlocked[k] \in Entrenadores
      BY LenProperties, ElementOfSeq DEF TiposPlan, TipoColas
    <2>2. Estado(colaBlocked[k]) \in Estados
      BY <2>1 DEF TiposPlan, TipoEntrenador, Ficha, Estado
    <2> QED BY <2>2 DEF Quieren
  <1>4. colaBlocked \in Seq(Entrenadores)
    BY DEF TiposPlan, TipoColas
  <1> HIDE DEF A, B
  <1>5. /\ a \in Seq(Entrenadores) /\ SinRepetir(a) /\ En(a) = {colaBlocked[k] : k \in A}
    BY <1>1, <1>4, EnPosicionesOK
  <1>6. /\ b \in Seq(Entrenadores) /\ SinRepetir(b) /\ En(b) = {colaBlocked[k] : k \in B}
    BY <1>1, <1>4, EnPosicionesOK
  <1>7. q = a \o b
    BY DEF A, B
  <1> HIDE DEF a, b
  <1>8. En(a) \cap En(b) = {}
    BY <1>1, <1>2, <1>5, <1>6 DEF SinRepetir
  <1>9. q \in Seq(Entrenadores) /\ En(q) = En(a) \cup En(b) /\ SinRepetir(q)
    <2>1. a \in Seq(Entrenadores) /\ b \in Seq(Entrenadores) /\ SinRepetir(a) /\ SinRepetir(b)
      BY <1>5, <1>6
    <2>2. /\ a \o b \in Seq(Entrenadores) /\ En(a \o b) = En(a) \cup En(b)
          /\ SinRepetir(a) /\ SinRepetir(b) /\ En(a) \cap En(b) = {} => SinRepetir(a \o b)
      BY <2>1, ConcatOK
    <2> QED BY <2>1, <2>2, <1>7, <1>8
  <1>10. En(a) \cup En(b) = En(colaBlocked) \ {colaBlocked[i]}
    <2>1. \A k \in A : k \in DOMAIN colaBlocked /\ colaBlocked[k] # colaBlocked[i]
      BY <1>1, <1>2 DEF SinRepetir
    <2>2. \A k \in B : k \in DOMAIN colaBlocked /\ colaBlocked[k] # colaBlocked[i]
      BY <1>1, <1>2 DEF SinRepetir
    <2>3. \A x \in En(colaBlocked) \ {colaBlocked[i]} : x \in En(a) \/ x \in En(b)
      BY <1>3, <1>5, <1>6 DEF En
    <2>4. \A x \in En(a) \cup En(b) : x \in En(colaBlocked) \ {colaBlocked[i]}
      <3>1. \A k \in A \cup B : colaBlocked[k] \in En(colaBlocked)
        BY <2>1, <2>2 DEF En
      <3> QED BY <3>1, <2>1, <2>2, <1>5, <1>6
    <2> QED BY <2>3, <2>4
  <1> QED BY <1>9, <1>10

\* MpAsigna: the nearest trainer gets the first free pokemon as its reservation and goes to
\* READY: the count read in MpMira says there is such a trainer.
LEMMA MpAsignaOK ==
    ASSUME IInv, vivo, MpAsigna, UNCHANGED recepVars
    PROVE  IInv'
  <1> USE DEF IInv
  <1> DEFINE i == buscarEntrenadorMasConvenienteEnColaRancio(Head(libres).posicion)
             e == colaBlocked[i]
             r == [id |-> e, pokemon |-> Head(libres).pokemon, posicion |-> Head(libres).posicion]
  <1>a. /\ mp.pc = "asigna" /\ mp.entrenadores # 0 /\ mp.pokemones # 0
        /\ libres' = Tail(libres) /\ reservados' = Append(reservados, r)
        /\ colaBlocked' = EnPosiciones(colaBlocked, Quieren(Estados \ {"MOVERSE_A_POKEMON"}))
                            \o EnPosiciones(colaBlocked, Quieren({"MOVERSE_A_POKEMON"}) \ {i})
        /\ estimar_entrenador(e)
        /\ colaReady' = Append(colaReady, e)
        /\ mp' = [mp EXCEPT !.entrenadores = @ - 1, !.pokemones = @ - 1, !.encontre = @ + 1]
        /\ UNCHANGED <<algoritmo, hilo, colaExit, sem, semEntrenador, trabada, cp, atrapados,
                       envios, vivo>>
    BY DEF MpAsigna, moverPokemonAReservados
  <1>l. /\ libres \in Seq(Libre) /\ Len(libres) \in Nat /\ Head(libres) \in Libre
        /\ Tail(libres) \in Seq(Libre) /\ Len(Tail(libres)) = Len(libres) - 1
        /\ mp.pokemones \in Nat /\ mp.entrenadores \in Nat /\ mp.pokemones <= Len(libres)
    <2>1. /\ libres \in Seq(Libre) /\ mp.pokemones \in Nat /\ mp.entrenadores \in Nat
          /\ mp.pokemones <= Len(libres)
      BY <1>a DEF TiposPlan, TipoMapa, TipoPlanificadores, Protocolo, Medio
    <2>2. Len(libres) \in Nat /\ libres # <<>>
      BY <1>a, <2>1, LenProperties, EmptySeq
    <2> QED BY <2>1, <2>2, SinPrimero
  <1>m. /\ mp.entrenadores = Cardinality(Moviles) /\ IsFiniteSet(Moviles)
        /\ Quieren({"MOVERSE_A_POKEMON"}) # {}
    <2>1. Moviles = {x \in En(colaBlocked) : Estado(x) \in {"MOVERSE_A_POKEMON"}}
      BY DEF Moviles
    <2>2. mp.entrenadores = Cardinality(Moviles)
      BY <1>a DEF Protocolo, Medio
    <2>3. /\ Cardinality(Quieren({"MOVERSE_A_POKEMON"})) = Cardinality(Moviles)
          /\ IsFiniteSet(Moviles)
      BY <2>1, QuierenOK DEF TiposPlan, TipoColas, Lugares
    <2>4. Cardinality(Quieren({"MOVERSE_A_POKEMON"})) # 0
      BY <1>a, <2>2, <2>3
    <2> QED BY <2>2, <2>3, <2>4, FS_EmptySet
  <1>i. i \in Quieren({"MOVERSE_A_POKEMON"})
    <2>1. Head(libres).posicion \in Lugar
      BY <1>l DEF Libre
    <2> QED BY <2>1, <1>m, MasConvenienteOK DEF Lugares
  <1> HIDE DEF i
  <1>b. /\ e \in Entrenadores /\ e \in En(colaBlocked)
        /\ Estado(e) = "MOVERSE_A_POKEMON"
    <2>1. colaBlocked \in Seq(Entrenadores) /\ SinRepetir(colaBlocked)
      BY DEF TiposPlan, TipoColas, Lugares
    <2>2. \A k \in Quieren({"MOVERSE_A_POKEMON"}) :
             /\ colaBlocked[k] \in Entrenadores /\ colaBlocked[k] \in En(colaBlocked)
             /\ entrenador[colaBlocked[k]].estado \in {"MOVERSE_A_POKEMON"}
      BY <2>1, QuierenOK
    <2> QED BY <1>i, <2>2 DEF Estado
  <1>c. /\ e \notin En(colaReady) /\ e \notin En(colaExit) /\ ~EnCpu(e) /\ ~TieneReserva(e)
        /\ semEntrenador[e] = 0 /\ hilo[e].pc = "espera"
    BY <1>b DEF Lugares, Protocolo, Turnos, Reservas
  <1>d. /\ colaBlocked' \in Seq(Entrenadores) /\ En(colaBlocked') = En(colaBlocked) \ {e}
        /\ SinRepetir(colaBlocked')
    BY <1>a, <1>i, SinElAsignado DEF Lugares
  <1> HIDE DEF e
  <1>e. /\ colaReady' \in Seq(Entrenadores) /\ En(colaReady') = En(colaReady) \cup {e}
        /\ SinRepetir(colaReady')
    BY <1>a, <1>b, <1>c, ConAgregado DEF TiposPlan, TipoColas, Lugares
  <1>f. /\ TipoEntrenador' /\ TipoGlob' /\ MismoEstado
        /\ \A x \in Entrenadores : /\ entrenador'[x].obtenidos = entrenador[x].obtenidos
                                   /\ entrenador'[x].objetivo = entrenador[x].objetivo
        /\ glob'.enEjecucion = glob.enEjecucion /\ glob'.rta_catch = glob.rta_catch
    BY <1>a, <1>b, EstimarOK
  <1>r. r \in Reserva /\ r.id = e
    BY <1>b, <1>l DEF Libre, Reserva
  <1> HIDE DEF r
  <1>s. /\ reservados' \in Seq(Reserva) /\ Len(reservados) \in Nat
        /\ DOMAIN reservados = 1 .. Len(reservados)
        /\ DOMAIN reservados' = 1 .. Len(reservados) + 1
        /\ \A k \in DOMAIN reservados : reservados'[k] = reservados[k]
        /\ reservados'[Len(reservados) + 1] = r
    BY <1>a, <1>r, AppendProperties, LenProperties DEF TiposPlan, TipoMapa
  <1>t. /\ \A x \in Entrenadores \ {e} : TieneReserva(x)' <=> TieneReserva(x)
        /\ \E k \in DOMAIN reservados' : reservados'[k].id = e
        /\ (\A k, l \in DOMAIN reservados : reservados[k].id = reservados[l].id => k = l)
             => \A k, l \in DOMAIN reservados' : reservados'[k].id = reservados'[l].id => k = l
    <2>1. \A k \in DOMAIN reservados' : k \in DOMAIN reservados \/ k = Len(reservados) + 1
      BY <1>s
    <2>2. Len(reservados) + 1 \in DOMAIN reservados' /\ Len(reservados) + 1 \notin DOMAIN reservados
      BY <1>s
    <2>3. \A k \in DOMAIN reservados : k \in DOMAIN reservados'
      BY <1>s
    <2>4. \A k \in DOMAIN reservados : reservados[k].id # e
      BY <1>c DEF TieneReserva
    <2>5. ASSUME NEW x \in Entrenadores \ {e} PROVE TieneReserva(x)' <=> TieneReserva(x)
      <3>1. TieneReserva(x) => TieneReserva(x)'
        BY <1>s, <2>3 DEF TieneReserva
      <3>2. TieneReserva(x)' => TieneReserva(x)
        BY <1>r, <1>s, <2>1 DEF TieneReserva
      <3> QED BY <3>1, <3>2
    <2>6. \E k \in DOMAIN reservados' : reservados'[k].id = e
      BY <1>r, <1>s, <2>2
    <2>7. ASSUME \A k, l \in DOMAIN reservados : reservados[k].id = reservados[l].id => k = l,
                 NEW k \in DOMAIN reservados', NEW l \in DOMAIN reservados',
                 reservados'[k].id = reservados'[l].id
          PROVE  k = l
      <3>1. CASE k \in DOMAIN reservados /\ l \in DOMAIN reservados
        BY <3>1, <2>7, <1>s
      <3>2. CASE k \in DOMAIN reservados /\ l = Len(reservados) + 1
        BY <3>2, <2>7, <2>4, <1>s, <1>r
      <3>3. CASE l \in DOMAIN reservados /\ k = Len(reservados) + 1
        BY <3>3, <2>7, <2>4, <1>s, <1>r
      <3> QED BY <2>1, <3>1, <3>2, <3>3
    <2> QED BY <2>5, <2>6, <2>7
  <1>1. TiposPlan'
    <2>1. TipoHilo' /\ TipoSem'
      BY DEF MpAsigna, colas, mapa, IInv, TiposPlan, TipoHilo, TipoSem
    <2>2. TipoEntrenador'
      BY <1>f
    <2>3. TipoColas'
      BY <1>a, <1>d, <1>e DEF TiposPlan, TipoColas
    <2>4. TipoPlanificadores'
      <3> DEFINE n == mp.entrenadores - 1
                 k == mp.pokemones - 1
                 m == mp.encontre + 1
      <3>1. n \in Nat /\ k \in Nat /\ m \in Nat
        BY <1>a, <1>l DEF TiposPlan, TipoPlanificadores
      <3>2. mp' = [mp EXCEPT !.entrenadores = n, !.pokemones = k, !.encontre = m]
        BY <1>a DEF TiposPlan, TipoPlanificadores
      <3> HIDE DEF n, k, m
      <3> QED BY <1>a, <3>1, <3>2 DEF TiposPlan, TipoPlanificadores
    <2>5. TipoGlob'
      BY <1>f
    <2>6. TipoMapa'
      BY <1>a, <1>l, <1>s DEF TiposPlan, TipoMapa
    <2> QED BY <2>1, <2>2, <2>3, <2>4, <2>5, <2>6 DEF TiposPlan
  <1>2. TiposRecep'
    BY DEF MpAsigna, recepVars, IInv, TiposRecep, Llega
  <1>3. Lugares'
    <2>1. \A x \in Entrenadores : EnCpu(x)' <=> EnCpu(x)
      BY <1>a DEF EnCpu
    <2>2. colaExit' = colaExit /\ En(colaExit') = En(colaExit)
      BY <1>a
    <2>3. \A x \in Entrenadores : x \in En(colaReady') \cup En(colaBlocked') \cup En(colaExit')
                                 <=> x \in En(colaReady) \cup En(colaBlocked) \cup En(colaExit)
      BY <1>b, <1>d, <1>e, <2>2
    <2>4. \A x \in Entrenadores :
             EnCpu(x)' <=> x \notin En(colaReady') \cup En(colaBlocked') \cup En(colaExit')
      BY <2>1, <2>3 DEF Lugares
    <2> QED BY <1>b, <1>c, <1>d, <1>e, <2>2, <2>4 DEF Lugares
  <1>4. SaleCompleto'
    <2>1. En(colaExit) \subseteq Entrenadores
      BY LenProperties, ElementOfSeq DEF En, TiposPlan, TipoColas
    <2> QED BY <1>a, <1>f, <2>1, MarcoSale
  <1>5. Turnos'
    BY <1>a, <1>f, MarcoTurnos DEF Protocolo, MismosHilos, MismosPlazos
  <1>6. Medio'
    <2>1. Moviles' = Moviles \ {e} /\ e \in Moviles
      <3>1. En(colaBlocked) \subseteq Entrenadores
        BY LenProperties, ElementOfSeq DEF En, TiposPlan, TipoColas
      <3> QED BY <1>b, <1>d, <1>f, <3>1 DEF Moviles, Estado, MismoEstado
    <2>2. Cardinality(Moviles \ {e}) = Cardinality(Moviles) - 1
      BY <1>m, <2>1, FS_RemoveElement
    <2>3. mp'.pc = "asigna" /\ mp'.entrenadores = mp.entrenadores - 1 /\ mp'.pokemones = mp.pokemones - 1
      BY <1>a, <1>l DEF TiposPlan, TipoPlanificadores
    <2>4. mp'.entrenadores = Cardinality(Moviles')
      BY <1>m, <2>1, <2>2, <2>3
    <2>5. mp'.pokemones <= Len(libres')
      BY <1>a, <1>l, <2>3
    <2>6. trabada' <=> mp'.pc \in {"pokemon", "asigna", "otro"}
      BY <1>a, <2>3 DEF Protocolo, Medio
    <2> QED BY <2>3, <2>4, <2>5, <2>6 DEF Medio
  <1>7. Reservas'
    <2>1. Reservas
      BY DEF Protocolo
    <2>2. \A k, l \in DOMAIN reservados' : reservados'[k].id = reservados'[l].id => k = l
      BY <2>1, <1>t DEF Reservas
    <2>3. ASSUME NEW x \in Entrenadores, x # e
          PROVE  /\ x \in En(colaReady') <=> x \in En(colaReady)
                 /\ x \in En(colaBlocked') <=> x \in En(colaBlocked)
                 /\ TieneReserva(x)' <=> TieneReserva(x)
                 /\ entrenador'[x].estado = entrenador[x].estado
      BY <2>3, <1>d, <1>e, <1>f, <1>t DEF MismoEstado
    <2>4. /\ e \in En(colaReady') /\ e \notin En(colaBlocked') /\ ~EnCpu(e)
          /\ \E k \in DOMAIN reservados' : reservados'[k].id = e
          /\ entrenador'[e].estado = "MOVERSE_A_POKEMON"
      BY <1>b, <1>c, <1>d, <1>e, <1>f, <1>t DEF MismoEstado, Estado
    <2>5. ASSUME NEW x \in Entrenadores, x = e
          PROVE  /\ x \in En(colaReady') /\ x \notin En(colaBlocked') /\ ~EnCpu(x)'
                 /\ TieneReserva(x)'
                 /\ entrenador'[x].estado = "MOVERSE_A_POKEMON"
      BY <1>a, <2>4, <2>5 DEF TieneReserva, EnCpu
    <2>6. \A x \in Entrenadores : EnCpu(x)' <=> EnCpu(x)
      BY <1>a DEF EnCpu
    <2> QED BY <1>a, <2>1, <2>2, <2>3, <2>5, <2>6 DEF Reservas, Estado
  <1>8. Captura'
    BY <1>a, <1>c, <1>f, <1>t, MarcoCapturaReservas DEF recepVars, Protocolo, MismaCaptura, EnCaptura, EnCpu, MismoEstado
  <1> QED BY <1>1, <1>2, <1>3, <1>4, <1>5, <1>6, <1>7, <1>8 DEF IInv, Protocolo

\* A trainer goes from BLOCKED to READY.
LEMMA ALaReady ==
    ASSUME TiposPlan, Lugares, Turnos, NEW i \in DOMAIN colaBlocked, NEW e, e = colaBlocked[i],
           colaBlocked' = SinPosicion(colaBlocked, i), colaReady' = Append(colaReady, e),
           UNCHANGED <<colaExit, cp>>
    PROVE  /\ e \in Entrenadores /\ e \in En(colaBlocked)
           /\ e \notin En(colaReady) /\ e \notin En(colaExit) /\ ~EnCpu(e)
           /\ semEntrenador[e] = 0 /\ hilo[e].pc = "espera" /\ Estado(e) # "EXIT"
           /\ En(colaBlocked') = En(colaBlocked) \ {e}
           /\ En(colaReady') = En(colaReady) \cup {e}
           /\ TipoColas' /\ Lugares'
  <1>1. e \in Entrenadores /\ e \in En(colaBlocked)
    BY LenProperties, ElementOfSeq DEF TiposPlan, TipoColas, En
  <1>2. /\ colaBlocked' \in Seq(Entrenadores) /\ SinRepetir(colaBlocked')
        /\ En(colaBlocked') = En(colaBlocked) \ {e}
    BY SacarOK DEF TiposPlan, TipoColas, Lugares
  <1>3. /\ e \notin En(colaReady) /\ e \notin En(colaExit) /\ ~EnCpu(e)
        /\ semEntrenador[e] = 0 /\ hilo[e].pc = "espera" /\ Estado(e) # "EXIT"
    BY <1>1 DEF Lugares, Turnos
  <1>4. /\ colaReady' \in Seq(Entrenadores) /\ SinRepetir(colaReady')
        /\ En(colaReady') = En(colaReady) \cup {e}
    BY <1>1, <1>3, ConAgregado DEF TiposPlan, TipoColas, Lugares
  <1>5. TipoColas'
    BY <1>2, <1>4 DEF TiposPlan, TipoColas
  <1>6. Lugares'
    BY <1>1, <1>2, <1>3, <1>4 DEF Lugares, EnCpu
  <1> QED BY <1>1, <1>2, <1>3, <1>4, <1>5, <1>6

\* The protocol of the reservations, when a trainer with none goes to READY with no
\* pokemon to go for, or one that has it goes back to it.
LEMMA ReservasALaReady ==
    ASSUME Reservas, NEW e \in Entrenadores, e \in En(colaBlocked), ~EnCpu(e),
           En(colaBlocked') = En(colaBlocked) \ {e}, En(colaReady') = En(colaReady) \cup {e},
           e \notin En(colaReady), MismosHilos, MismosPlazos,
           UNCHANGED <<cp, semEntrenador, reservados>>,
           \A x \in Entrenadores \ {e} : entrenador'[x].estado = entrenador[x].estado,
           TieneReserva(e) <=> entrenador'[e].estado \in {"MOVERSE_A_POKEMON", "SEGUIR_MOVIENDOSE", "ATRAPAR"}
    PROVE  Reservas'
  BY DEF Reservas, TieneReserva, EnCpu, Estado, MismosHilos, MismosPlazos

\* MpOtro: a trainer that was interrupted on its way goes back to READY.
LEMMA MpOtroOK ==
    ASSUME IInv, vivo, MpOtro, UNCHANGED recepVars
    PROVE  IInv'
  <1> USE DEF IInv
  <1>a. /\ mp.pc = "otro" /\ trabada' = FALSE
        /\ mp' = [mp EXCEPT !.pc = "detecta"]
        /\ UNCHANGED <<algoritmo, hilo, colaExit, semEntrenador, cp, libres, reservados,
                       atrapados, envios, vivo>>
    BY DEF MpOtro, mapa
  <1>b. TipoPlanificadores' /\ mp'.pc = "detecta"
    BY <1>a DEF TiposPlan, TipoPlanificadores, PcMp
  <1>c. TipoHilo' /\ TipoMapa' /\ TiposRecep'
    BY <1>a DEF TiposPlan, TipoHilo, TipoMapa, TiposRecep, recepVars, Llega
  <1>d. Medio'
    BY <1>a, <1>b DEF Medio
  <1>e. CASE Otros = {}
    <2>1. UNCHANGED <<colaReady, colaBlocked, entrenador, glob, sem>>
      BY <1>e DEF MpOtro
    <2>2. TipoEntrenador' /\ TipoColas' /\ TipoSem' /\ TipoGlob'
      BY <1>a, <2>1 DEF TiposPlan, TipoEntrenador, TipoColas, TipoSem, TipoGlob
    <2>3. Lugares' /\ SaleCompleto'
      BY <1>a, <2>1, MarcoLugares, MarcoSale
    <2>4. Turnos' /\ Reservas'
      BY <1>a, <2>1, MarcoTurnos, MarcoReservas DEF Protocolo, MismoEstado, MismosHilos, MismosPlazos
    <2>5. Captura'
      BY <1>a, <2>1, MarcoCaptura DEF Protocolo, recepVars, MismaCaptura, EnCaptura, EnCpu
    <2> QED BY <1>b, <1>c, <1>d, <2>2, <2>3, <2>4, <2>5 DEF TiposPlan, Protocolo
  <1>f. CASE Otros # {}
    <2> DEFINE i == Primera(Otros)
               e == colaBlocked[i]
               s == IF glob.esLAPrimeraVez = 1 THEN "mplazo" ELSE "cplazoReady"
    <2>1. /\ colaBlocked' = SinPosicion(colaBlocked, i)
          /\ estimar_entrenador(e)
          /\ colaReady' = Append(colaReady, e)
          /\ sem' = Post(s, 1)
      BY <1>f DEF MpOtro
    <2>2. /\ i \in DOMAIN colaBlocked
          /\ Estado(e) \in Estados \ {"DEADLOCK", "ESPERAR_CAUGHT", "MOVERSE_A_POKEMON"}
      <3>1. Otros \subseteq Nat
        BY QuierenOK DEF Otros, TiposPlan, TipoColas, Lugares
      <3>2. i \in Otros
        BY <1>f, <3>1, PrimeraOK
      <3> QED BY <3>2 DEF Otros, Quieren
    <2>3. /\ sem' \in Semaforos
          /\ \A r \in NombresSem \ {"mplazo", "cplazoReady"} : sem'[r] = sem[r]
      <3>1. s \in {"mplazo", "cplazoReady"} /\ s \in NombresSem
        BY DEF NombresSem
      <3> HIDE DEF s
      <3>2. sem \in Semaforos /\ sem[s] + 1 >= 0
        BY <3>1 DEF TiposPlan, TipoSem, Semaforos
      <3> QED BY <2>1, <3>1, <3>2, PostOK
    <2> HIDE DEF i, s
    <2>4. /\ e \in Entrenadores /\ e \in En(colaBlocked)
          /\ e \notin En(colaReady) /\ e \notin En(colaExit) /\ ~EnCpu(e)
          /\ Estado(e) # "EXIT"
          /\ En(colaBlocked') = En(colaBlocked) \ {e}
          /\ En(colaReady') = En(colaReady) \cup {e}
          /\ TipoColas' /\ Lugares'
      BY <1>a, <2>1, <2>2, ALaReady DEF Protocolo
    <2> HIDE DEF e
    <2>5. /\ TipoEntrenador' /\ TipoGlob' /\ MismoEstado
          /\ \A x \in Entrenadores : /\ entrenador'[x].obtenidos = entrenador[x].obtenidos
                                     /\ entrenador'[x].objetivo = entrenador[x].objetivo
          /\ glob'.enEjecucion = glob.enEjecucion /\ glob'.rta_catch = glob.rta_catch
      BY <2>1, <2>4, EstimarOK
    <2>6. TipoSem' /\ MismosPlazos /\ sem'.mutex_catch = sem.mutex_catch
          /\ sem'.esperar_caught = sem.esperar_caught
      BY <1>a, <2>3 DEF TiposPlan, TipoSem, MismosPlazos, NombresSem
    <2>7. SaleCompleto'
      <3>1. En(colaExit) \subseteq Entrenadores
        BY LenProperties, ElementOfSeq DEF En, TiposPlan, TipoColas
      <3> QED BY <1>a, <2>5, <3>1, MarcoSale
    <2>8. Turnos'
      BY <1>a, <2>5, <2>6, MarcoTurnos DEF Protocolo, MismosHilos
    <2>9. Reservas'
      <3>1. TieneReserva(e) <=> entrenador'[e].estado \in {"MOVERSE_A_POKEMON", "SEGUIR_MOVIENDOSE", "ATRAPAR"}
        BY <2>2, <2>4, <2>5 DEF Protocolo, Reservas, MismoEstado, Estado
      <3> QED BY <1>a, <2>4, <2>5, <2>6, <3>1, ReservasALaReady DEF Protocolo, MismosHilos, MismoEstado
    <2>10. Captura'
      BY <1>a, <2>5, <2>6, MarcoCaptura DEF Protocolo, recepVars, MismaCaptura, EnCaptura, EnCpu, MismoEstado
    <2> QED BY <1>b, <1>c, <1>d, <2>4, <2>5, <2>6, <2>7, <2>8, <2>9, <2>10 DEF TiposPlan, Protocolo
  <1> QED BY <1>e, <1>f

\* MpDeadlock: a trainer in DEADLOCK goes to READY to exchange.
LEMMA MpDeadlockOK ==
    ASSUME IInv, vivo, MpDeadlock, UNCHANGED recepVars
    PROVE  IInv'
  <1> USE DEF IInv
  <1>a. /\ mp.pc = "deadlock" /\ mp' = [mp EXCEPT !.pc = "espera"]
        /\ UNCHANGED <<algoritmo, hilo, colaExit, semEntrenador, trabada, cp, glob, libres,
                       reservados, atrapados, envios>>
    BY DEF MpDeadlock, mapa
  <1>b. TipoPlanificadores' /\ mp'.pc = "espera"
    BY <1>a DEF TiposPlan, TipoPlanificadores, PcMp
  <1>c. TipoHilo' /\ TipoMapa' /\ TiposRecep' /\ TipoGlob'
    BY <1>a DEF TiposPlan, TipoHilo, TipoMapa, TipoGlob, TiposRecep, recepVars, Llega
  <1>e. CASE Quieren({"DEADLOCK"}) = {}
    <2>1. vivo' = FALSE /\ UNCHANGED <<entrenador, colaBlocked, colaReady, sem>>
      BY <1>e DEF MpDeadlock, Caerse
    <2>2. TipoEntrenador' /\ TipoColas' /\ TipoSem'
      BY <1>a, <2>1 DEF TiposPlan, TipoEntrenador, TipoColas, TipoSem
    <2>3. Lugares' /\ SaleCompleto'
      BY <1>a, <2>1, MarcoLugares, MarcoSale
    <2> QED BY <1>b, <1>c, <2>1, <2>2, <2>3 DEF TiposPlan, Protocolo
  <1>f. CASE Quieren({"DEADLOCK"}) # {}
    <2> DEFINE i == Primera(Quieren({"DEADLOCK"}))
               e == colaBlocked[i]
    <2>1. /\ colaBlocked' = SinPosicion(colaBlocked, i)
          /\ entrenador' = [entrenador EXCEPT ![e].estado = "MOVERSE_A_ENTRENADOR"]
          /\ colaReady' = Append(colaReady, e)
          /\ sem' = Post("cplazoReady", 1)
          /\ UNCHANGED vivo
      BY <1>f DEF MpDeadlock
    <2>2. i \in DOMAIN colaBlocked /\ Estado(e) = "DEADLOCK"
      <3>1. Quieren({"DEADLOCK"}) \subseteq Nat
        BY QuierenOK DEF TiposPlan, TipoColas, Lugares
      <3>2. i \in Quieren({"DEADLOCK"})
        BY <1>f, <3>1, PrimeraOK
      <3> QED BY <3>2 DEF Quieren
    <2>3. /\ sem' \in Semaforos
          /\ \A r \in NombresSem \ {"cplazoReady"} : sem'[r] = sem[r]
      BY <2>1, SignalOK DEF TiposPlan, NombresSem
    <2> HIDE DEF i
    <2>4. /\ e \in Entrenadores /\ e \in En(colaBlocked)
          /\ e \notin En(colaReady) /\ e \notin En(colaExit) /\ ~EnCpu(e)
          /\ semEntrenador[e] = 0 /\ hilo[e].pc = "espera"
          /\ En(colaBlocked') = En(colaBlocked) \ {e}
          /\ En(colaReady') = En(colaReady) \cup {e}
          /\ TipoColas' /\ Lugares'
      BY <1>a, <2>1, <2>2, ALaReady DEF Protocolo
    <2> HIDE DEF e
    <2>5. /\ \A x \in Entrenadores :
               /\ Ficha(entrenador'[x])
               /\ entrenador'[x].estado = IF x = e THEN "MOVERSE_A_ENTRENADOR" ELSE entrenador[x].estado
               /\ entrenador'[x].obtenidos = entrenador[x].obtenidos
               /\ entrenador'[x].objetivo = entrenador[x].objetivo
          /\ entrenador' = [x \in Entrenadores |-> entrenador'[x]]
      BY <2>1, <2>4 DEF TiposPlan, TipoEntrenador, Ficha, Estados
    <2>6. TipoSem' /\ MismosPlazos /\ sem'.mutex_catch = sem.mutex_catch
          /\ sem'.esperar_caught = sem.esperar_caught
      BY <1>a, <2>3 DEF TiposPlan, TipoSem, MismosPlazos, NombresSem
    <2>7. SaleCompleto'
      <3>1. En(colaExit) \subseteq Entrenadores
        BY LenProperties, ElementOfSeq DEF En, TiposPlan, TipoColas
      <3> QED BY <1>a, <2>5, <3>1, MarcoSale
    <2>8. Turnos'
      BY <1>a, <2>4, <2>5, <2>6 DEF Protocolo, Turnos, EnCpu, Activo, Estado, MismosPlazos
    <2>9. Reservas'
      <3>1. ~TieneReserva(e)
        BY <2>2, <2>4 DEF Protocolo, Reservas
      <3> QED BY <1>a, <2>4, <2>5, <2>6, <3>1, ReservasALaReady DEF Protocolo, MismosHilos
    <2>10. Captura'
      BY <1>a, <2>4, <2>5, <2>6, MarcoCaptura DEF Protocolo, recepVars, MismaCaptura, EnCaptura, EnCpu
    <2>11. Medio'
      BY <1>a, <1>b DEF Medio, Protocolo
    <2>12. TipoEntrenador'
      BY <2>5 DEF TipoEntrenador
    <2> QED BY <1>b, <1>c, <2>4, <2>6, <2>7, <2>8, <2>9, <2>10, <2>11, <2>12 DEF TiposPlan, Protocolo
  <1> QED BY <1>e, <1>f

-----------------------------------------------------------------------------
(* The threads of the trainers. *)

\* A trainer that was given its turn and has not ended has the CPU.
LEMMA EnTurno ==
    ASSUME IInv, vivo, NEW e \in Entrenadores, semEntrenador[e] > 0, Estado(e) # "EXIT"
    PROVE  /\ EnCpu(e) /\ semEntrenador[e] = 1 /\ sem.cplazoEntrenador = 0 /\ ~Activo(e)
           /\ e \notin En(colaReady) /\ e \notin En(colaBlocked) /\ e \notin En(colaExit)
           /\ glob.enEjecucion = e
  <1>1. e \notin En(colaExit)
    BY DEF IInv, Protocolo, Turnos
  <1>2. semEntrenador[e] \in {0, 1} /\ sem.cplazoEntrenador \in Nat
    BY DEF IInv, TiposPlan, TipoSem, Semaforos
  <1>3. EnCpu(e)
    BY <1>1, <1>2 DEF IInv, Protocolo, Turnos
  <1>4. semEntrenador[e] + (IF Activo(e) THEN 1 ELSE 0) + sem.cplazoEntrenador = 1
        /\ glob.enEjecucion = e
    BY <1>3 DEF IInv, Protocolo, Turnos
  <1>5. e \notin En(colaReady) /\ e \notin En(colaBlocked)
    BY <1>3 DEF IInv, Lugares
  <1>6. semEntrenador[e] = 1 /\ sem.cplazoEntrenador = 0 /\ ~Activo(e)
    <2>1. CASE Activo(e)
      BY <2>1, <1>2, <1>4
    <2>2. CASE ~Activo(e)
      BY <2>2, <1>2, <1>4
    <2> QED BY <2>1, <2>2
  <1> QED BY <1>1, <1>3, <1>4, <1>5, <1>6

\* A thread that executes belongs to the trainer that has the CPU.
LEMMA EnActivo ==
    ASSUME IInv, vivo, NEW e \in Entrenadores, hilo[e].pc \in {"mueve", "envia", "caught"}
    PROVE  /\ EnCpu(e) /\ semEntrenador[e] = 0 /\ sem.cplazoEntrenador = 0
           /\ e \notin En(colaReady) /\ e \notin En(colaBlocked) /\ e \notin En(colaExit)
           /\ glob.enEjecucion = e /\ Estado(e) # "EXIT"
  <1>1. Activo(e)
    BY DEF Activo
  <1>2. semEntrenador[e] \in {0, 1} /\ sem.cplazoEntrenador \in Nat
    BY DEF IInv, TiposPlan, TipoSem, Semaforos
  <1>3. EnCpu(e)
    BY <1>1 DEF IInv, Protocolo, Turnos
  <1>4. semEntrenador[e] + 1 + sem.cplazoEntrenador = 1 /\ glob.enEjecucion = e
    BY <1>1, <1>3 DEF IInv, Protocolo, Turnos
  <1>5. e \notin En(colaReady) /\ e \notin En(colaBlocked) /\ e \notin En(colaExit)
    BY <1>3 DEF IInv, Lugares
  <1>6. Estado(e) # "EXIT"
    BY <1>5 DEF IInv, Protocolo, Turnos
  <1> QED BY <1>2, <1>3, <1>4, <1>5, <1>6

\* buscarPokemonReservado finds the reservation of a trainer that has one.
LEMMA BuscarReservaOK ==
    ASSUME NEW e, reservados \in Seq(Reserva)
    PROVE  /\ buscarPokemonReservado(e) # 0 <=> TieneReserva(e)
           /\ TieneReserva(e) => /\ buscarPokemonReservado(e) \in DOMAIN reservados
                                 /\ reservados[buscarPokemonReservado(e)] \in Reserva
                                 /\ reservados[buscarPokemonReservado(e)].id = e
  <1> DEFINE suyos == {i \in DOMAIN reservados : reservados[i].id = e}
  <1>1. DOMAIN reservados = 1 .. Len(reservados) /\ Len(reservados) \in Nat
    BY LenProperties
  <1>2. suyos \subseteq Nat \ {0}
    BY <1>1
  <1>3. suyos # {} <=> TieneReserva(e)
    BY DEF TieneReserva
  <1>4. suyos # {} => Primera(suyos) \in suyos
    <2> HIDE DEF suyos
    <2> QED BY <1>2, PrimeraOK
  <1>5. buscarPokemonReservado(e) = IF suyos = {} THEN 0 ELSE Primera(suyos)
    BY DEF buscarPokemonReservado
  <1>6. \A i \in suyos : i \in DOMAIN reservados /\ reservados[i] \in Reserva /\ reservados[i].id = e
    BY <1>1, ElementOfSeq
  <1> HIDE DEF suyos
  <1> QED BY <1>2, <1>3, <1>4, <1>5, <1>6

\* A distance is a natural.
LEMMA DistanciaOK ==
    ASSUME NEW a \in Lugar, NEW b \in Lugar
    PROVE  calcularDistancia(a, b) \in Nat
  <1>1. a[1] \in Int /\ a[2] \in Int /\ b[1] \in Int /\ b[2] \in Int
    BY DEF Lugar
  <1> QED BY <1>1 DEF calcularDistancia, Modulo

\* A turn that falls leaves a state of the right kinds.
LEMMA CaerOK ==
    ASSUME IInv, vivo' = FALSE, NEW e \in Entrenadores,
           semEntrenador[e] > 0, semEntrenador' = [semEntrenador EXCEPT ![e] = @ - 1],
           UNCHANGED <<algoritmo, entrenador, hilo, colas, sem, trabada, cp, mp, glob, mapa, envios>>,
           UNCHANGED recepVars
    PROVE  IInv'
  <1>1. TiposPlan'
    BY DEF IInv, colas, mapa, TiposPlan, TipoEntrenador, TipoHilo, TipoColas, TipoSem,
           TipoPlanificadores, TipoGlob, TipoMapa
  <1>2. TiposRecep'
    BY DEF IInv, recepVars, TiposRecep, Llega
  <1>3. Lugares' /\ SaleCompleto'
    BY MarcoLugares, MarcoSale DEF IInv, colas
  <1> QED BY <1>1, <1>2, <1>3 DEF IInv, Protocolo

\* TurnoAPokemon: a trainer starts towards its reservation.
LEMMA TurnoAPokemonOK ==
    ASSUME NEW e \in Entrenadores, IInv, vivo, TurnoAPokemon(e), UNCHANGED recepVars
    PROVE  IInv'
  <1> USE DEF IInv
  <1>0. /\ EnCpu(e) /\ semEntrenador[e] = 1 /\ sem.cplazoEntrenador = 0 /\ ~Activo(e)
        /\ e \notin En(colaReady) /\ e \notin En(colaBlocked) /\ e \notin En(colaExit)
        /\ hilo[e].pc = "espera" /\ semEntrenador' = [semEntrenador EXCEPT ![e] = @ - 1]
        /\ semEntrenador[e] > 0 /\ glob.enEjecucion = e
    BY EnTurno DEF TurnoAPokemon, Turno
  <1>1. UNCHANGED <<algoritmo, entrenador, colas, sem, trabada, cp, mp, glob, mapa, envios>>
    BY DEF TurnoAPokemon
  <1>2. CASE buscarPokemonReservado(e) = 0
    <2>1. vivo' = FALSE /\ hilo' = hilo
      BY <1>2 DEF TurnoAPokemon, Caerse
    <2> QED BY <1>0, <1>1, <2>1, CaerOK
  <1>3. CASE ~(buscarPokemonReservado(e) = 0)
    <2> DEFINE l == reservados[buscarPokemonReservado(e)].posicion
    <2>1. vivo' = vivo /\ IrHacia(e, l)
      BY <1>3 DEF TurnoAPokemon
    <2>2. l \in Lugar
      BY <1>3, BuscarReservaOK DEF TiposPlan, TipoMapa, Reserva
    <2>3. entrenador[e].posicion \in Lugar
      BY DEF TiposPlan, TipoEntrenador, Ficha
    <2> DEFINE n == calcularDistancia(entrenador[e].posicion, l)
    <2>4. n \in Int
      <3> HIDE DEF l
      <3> QED BY <2>2, <2>3, DistanciaOK
    <2>5. hilo' = [hilo EXCEPT ![e] = [pc |-> "mueve", meta |-> l, pasos |-> n]]
      BY <2>1 DEF IrHacia
    <2> HIDE DEF l, n
    <2>6. /\ TipoHilo'
          /\ \A x \in Entrenadores : hilo'[x].pc = IF x = e THEN "mueve" ELSE hilo[x].pc
      BY <2>2, <2>4, <2>5 DEF TiposPlan, TipoHilo
    <2>7. /\ semEntrenador' \in [Entrenadores -> {0, 1}]
          /\ \A x \in Entrenadores : semEntrenador'[x] = IF x = e THEN 0 ELSE semEntrenador[x]
      BY <1>0 DEF TiposPlan, TipoSem
    <2>8. TiposPlan'
      BY <1>1, <2>6, <2>7 DEF colas, mapa, TiposPlan, TipoEntrenador, TipoColas, TipoSem,
            TipoPlanificadores, TipoGlob, TipoMapa
    <2>9. TiposRecep'
      BY DEF recepVars, TiposRecep, Llega
    <2>10. Lugares' /\ SaleCompleto'
      BY <1>1, MarcoLugares, MarcoSale DEF colas
    <2>11. Turnos'
      BY <1>0, <1>1, <2>6, <2>7 DEF colas, Protocolo, Turnos, EnCpu, Activo, Estado
    <2>12. Medio'
      BY <1>1, <2>8, MarcoMedio, LenProperties DEF colas, mapa, Protocolo, TiposPlan, TipoMapa
    <2>15. Estado(e) \in {"MOVERSE_A_POKEMON", "SEGUIR_MOVIENDOSE"}
      BY DEF TurnoAPokemon, Turno
    <2>13. Reservas'
      BY <1>0, <1>1, <2>6, <2>7, <2>15 DEF colas, mapa, Protocolo, Reservas, TieneReserva, EnCpu, Estado
    <2>14. Captura'
      BY <1>0, <1>1, <2>6, MarcoCaptura DEF colas, mapa, recepVars, Protocolo, MismaCaptura, EnCaptura, EnCpu
    <2> QED BY <2>1, <2>8, <2>9, <2>10, <2>11, <2>12, <2>13, <2>14 DEF Protocolo
  <1> QED BY <1>2, <1>3

\* TurnoAEntrenador: a trainer starts towards another one.
LEMMA TurnoAEntrenadorOK ==
    ASSUME NEW e \in Entrenadores, IInv, vivo, TurnoAEntrenador(e), UNCHANGED recepVars
    PROVE  IInv'
  <1> USE DEF IInv
  <1>0. /\ EnCpu(e) /\ semEntrenador[e] = 1 /\ sem.cplazoEntrenador = 0 /\ ~Activo(e)
        /\ e \notin En(colaReady) /\ e \notin En(colaBlocked) /\ e \notin En(colaExit)
        /\ hilo[e].pc = "espera" /\ semEntrenador' = [semEntrenador EXCEPT ![e] = @ - 1]
        /\ semEntrenador[e] > 0 /\ glob.enEjecucion = e
    BY EnTurno DEF TurnoAEntrenador, Turno
  <1>1. UNCHANGED <<algoritmo, entrenador, colas, sem, trabada, cp, mp, glob, mapa, envios>>
    BY DEF TurnoAEntrenador
  <1>2. CASE Candidatos(e) = {}
    <2>1. vivo' = FALSE /\ hilo' = hilo
      BY <1>2 DEF TurnoAEntrenador, Caerse
    <2> QED BY <1>0, <1>1, <2>1, CaerOK
  <1>3. CASE ~(Candidatos(e) = {})
    <2> DEFINE l == entrenador[colaBlocked[Primera(Candidatos(e))]].posicion
    <2>1. vivo' = vivo /\ IrHacia(e, l)
      BY <1>3 DEF TurnoAEntrenador
    <2>2. l \in Lugar
      <3> DEFINE i == Primera(Candidatos(e))
      <3>1. i \in DOMAIN colaBlocked /\ colaBlocked[i] \in Entrenadores
        <4>1. Candidatos(e) \subseteq Quieren({"DEADLOCK"})
          BY DEF Candidatos
        <4>2. /\ Quieren({"DEADLOCK"}) \subseteq Nat
              /\ \A k \in Quieren({"DEADLOCK"}) : k \in DOMAIN colaBlocked /\ colaBlocked[k] \in Entrenadores
          BY QuierenOK DEF TiposPlan, TipoColas, Lugares
        <4>3. i \in Candidatos(e)
          BY <1>3, <4>1, <4>2, PrimeraOK
        <4> QED BY <4>1, <4>2, <4>3
      <3> HIDE DEF i
      <3>2. entrenador[colaBlocked[i]].posicion \in Lugar
        BY <3>1 DEF TiposPlan, TipoEntrenador, Ficha
      <3> QED BY <3>2 DEF i
    <2>3. entrenador[e].posicion \in Lugar
      BY DEF TiposPlan, TipoEntrenador, Ficha
    <2> DEFINE n == calcularDistancia(entrenador[e].posicion, l)
    <2>4. n \in Int
      <3> HIDE DEF l
      <3> QED BY <2>2, <2>3, DistanciaOK
    <2>5. hilo' = [hilo EXCEPT ![e] = [pc |-> "mueve", meta |-> l, pasos |-> n]]
      BY <2>1 DEF IrHacia
    <2> HIDE DEF l, n
    <2>6. /\ TipoHilo'
          /\ \A x \in Entrenadores : hilo'[x].pc = IF x = e THEN "mueve" ELSE hilo[x].pc
      BY <2>2, <2>4, <2>5 DEF TiposPlan, TipoHilo
    <2>7. /\ semEntrenador' \in [Entrenadores -> {0, 1}]
          /\ \A x \in Entrenadores : semEntrenador'[x] = IF x = e THEN 0 ELSE semEntrenador[x]
      BY <1>0 DEF TiposPlan, TipoSem
    <2>8. TiposPlan'
      BY <1>1, <2>6, <2>7 DEF colas, mapa, TiposPlan, TipoEntrenador, TipoColas, TipoSem,
            TipoPlanificadores, TipoGlob, TipoMapa
    <2>9. TiposRecep'
      BY DEF recepVars, TiposRecep, Llega
    <2>10. Lugares' /\ SaleCompleto'
      BY <1>1, MarcoLugares, MarcoSale DEF colas
    <2>11. Turnos'
      BY <1>0, <1>1, <2>6, <2>7 DEF colas, Protocolo, Turnos, EnCpu, Activo, Estado
    <2>12. Medio'
      BY <1>1, <2>8, MarcoMedio, LenProperties DEF colas, mapa, Protocolo, TiposPlan, TipoMapa
    <2>15. Estado(e) = "MOVERSE_A_ENTRENADOR"
      BY DEF TurnoAEntrenador, Turno
    <2>13. Reservas'
      BY <1>0, <1>1, <2>6, <2>7, <2>15 DEF colas, mapa, Protocolo, Reservas, TieneReserva, EnCpu, Estado
    <2>14. Captura'
      BY <1>0, <1>1, <2>6, MarcoCaptura DEF colas, mapa, recepVars, Protocolo, MismaCaptura, EnCaptura, EnCpu
    <2> QED BY <2>1, <2>8, <2>9, <2>10, <2>11, <2>12, <2>13, <2>14 DEF Protocolo
  <1> QED BY <1>2, <1>3

\* Mover: one cycle of CPU.
LEMMA MoverOK ==
    ASSUME NEW e \in Entrenadores, IInv, vivo, Mover(e), UNCHANGED recepVars
    PROVE  IInv'
  <1> USE DEF IInv
  <1> DEFINE t == entrenador[e]
             c == Ciclo(e)
             p == moverEntrenador(c.posicion, hilo[e].meta)
  <1>a. /\ entrenador' = [entrenador EXCEPT ![e] = [Ciclo(e) EXCEPT !.posicion = moverEntrenador(@, hilo[e].meta)]]
        /\ hilo' = [hilo EXCEPT ![e].pasos = @ - 1]
        /\ UNCHANGED <<algoritmo, colas, sem, semEntrenador, trabada, cp, mp, glob, mapa, envios, vivo>>
        /\ SigueMoviendose(e) /\ hilo[e].pc = "mueve"
    BY DEF Mover
  <1>z. e \notin En(colaExit)
    BY <1>a, EnActivo
  <1>b. Ficha(t) /\ hilo[e].meta \in Lugar /\ hilo[e].pasos \in Int
    BY DEF TiposPlan, TipoEntrenador, TipoHilo
  <1>c. /\ Ficha(c) /\ c.estado = t.estado /\ c.obtenidos = t.obtenidos /\ c.objetivo = t.objetivo
    <2>1. CASE esSJF
      <3> DEFINE d == t.hayQueDesalojar \/ Desalojado(e)
      <3>1. c = [t EXCEPT !.instruccion = @ + 1, !.actual = @ - Escala, !.hayQueDesalojar = d]
        BY <2>1 DEF Ciclo
      <3>2. Escala \in Int /\ d \in BOOLEAN /\ t.actual \in Int /\ t.instruccion \in Int
        BY <1>b, EntrenadorAssumption DEF Ficha, Desalojado
      <3> HIDE DEF d, c, t
      <3>3. /\ DOMAIN c = DOMAIN t
            /\ \A k \in DOMAIN t \ {"instruccion", "actual", "hayQueDesalojar"} : c[k] = t[k]
            /\ c.instruccion = t.instruccion + 1 /\ c.actual = t.actual - Escala
            /\ c.hayQueDesalojar = d
        BY <1>b, <3>1 DEF Ficha
      <3> QED BY <1>b, <3>2, <3>3 DEF Ficha
    <2>2. CASE ~esSJF /\ algoritmo = "RR"
      <3>1. c = [t EXCEPT !.quantum = @ - 1]
        BY <2>2 DEF Ciclo
      <3>2. t.quantum - 1 \in 0 .. QUANTUM
        BY <1>a, <1>b, <2>2, PlanificadoresAssumption DEF SigueMoviendose, Ficha
      <3> HIDE DEF c, t
      <3> QED BY <1>b, <3>1, <3>2 DEF Ficha
    <2>3. CASE ~esSJF /\ algoritmo # "RR"
      BY <1>b, <2>3 DEF Ciclo
    <2> QED BY <2>1, <2>2, <2>3
  <1>d. p \in Lugar
    <2> DEFINE q == c.posicion
               m == hilo[e].meta
    <2>1. q \in Int \X Int /\ m \in Int \X Int
      BY <1>b, <1>c DEF Ficha, Lugar
    <2> HIDE DEF q, m
    <2>2. q[1] \in Int /\ q[2] \in Int /\ m[1] \in Int /\ m[2] \in Int
      BY <2>1
    <2>3. moverEntrenador(q, m) \in Int \X Int
      BY <2>2 DEF moverEntrenador, HaciaUno
    <2> QED BY <2>3 DEF q, m, Lugar
  <1> HIDE DEF t, c, p
  <1>e. entrenador' = [entrenador EXCEPT ![e] = [c EXCEPT !.posicion = p]]
    BY <1>a DEF c, p
  <1>f. \A x \in Entrenadores : /\ Ficha(entrenador'[x])
                                /\ entrenador'[x].estado = entrenador[x].estado
                                /\ x # e => entrenador'[x] = entrenador[x]
    BY <1>c, <1>d, <1>e DEF t, TiposPlan, TipoEntrenador, Ficha
  <1>g. \A x \in Entrenadores : hilo'[x].pc = hilo[x].pc
    BY <1>a DEF TiposPlan, TipoHilo
  <1>1. TiposPlan'
    <2>1. TipoColas' /\ TipoSem' /\ TipoPlanificadores' /\ TipoGlob' /\ TipoMapa'
      BY DEF Mover, colas, mapa, IInv, TiposPlan, TipoColas, TipoSem, TipoPlanificadores, TipoGlob, TipoMapa
    <2>2. TipoEntrenador'
      BY <1>e, <1>f DEF TiposPlan, TipoEntrenador
    <2>3. TipoHilo'
      BY <1>a, <1>b DEF TiposPlan, TipoHilo
    <2> QED BY <2>1, <2>2, <2>3 DEF TiposPlan
  <1>2. TiposRecep'
    BY DEF Mover, recepVars, IInv, TiposRecep, Llega
  <1>3. Lugares'
    BY MarcoLugares DEF Mover, colas, IInv
  <1>4. SaleCompleto'
    <2>1. En(colaExit) \subseteq Entrenadores
      BY LenProperties, ElementOfSeq DEF En, TiposPlan, TipoColas
    <2> QED BY <1>a, <1>f, <1>z, <2>1, MarcoSale DEF colas
  <1>5. Turnos'
    BY <1>a, <1>f, <1>g, MarcoTurnos DEF colas, Protocolo, MismosHilos, MismosPlazos, MismoEstado
  <1>6. Medio'
    <2>1. En(colaBlocked) \subseteq Entrenadores
      BY LenProperties, ElementOfSeq DEF En, TiposPlan, TipoColas
    <2> QED BY <1>1, <1>a, <1>f, <2>1, MarcoMedio, LenProperties DEF colas, mapa, Protocolo, TiposPlan, TipoMapa
  <1>7. Reservas'
    BY <1>a, <1>f, <1>g, MarcoReservas DEF colas, mapa, Protocolo, MismosHilos, MismosPlazos, MismoEstado
  <1>8. Captura'
    BY <1>a, <1>f, <1>g, MarcoCaptura DEF colas, mapa, recepVars, Protocolo, MismaCaptura, EnCaptura, EnCpu
  <1> QED BY <1>1, <1>2, <1>3, <1>4, <1>5, <1>6, <1>7, <1>8 DEF IInv, Protocolo

\* A trainer gives back its reservation.
LEMMA SinReservaOK ==
    ASSUME NEW e, reservados \in Seq(Reserva), TieneReserva(e),
           \A i, j \in DOMAIN reservados : reservados[i].id = reservados[j].id => i = j,
           reservados' = SinReserva(buscarPokemonReservado(e))
    PROVE  /\ reservados' \in Seq(Reserva)
           /\ \A x : TieneReserva(x)' <=> TieneReserva(x) /\ x # e
           /\ \A i, j \in DOMAIN reservados' : reservados'[i].id = reservados'[j].id => i = j
  <1> DEFINE b == buscarPokemonReservado(e)
             s == SinPosicion(reservados, b)
             v(k) == IF k < b THEN k ELSE k + 1
  <1>1. b \in DOMAIN reservados /\ reservados[b].id = e
    BY BuscarReservaOK
  <1>2. reservados' = s
    BY DEF SinReserva
  <1> HIDE DEF b
  <1>3. Len(reservados) \in Nat /\ DOMAIN reservados = 1 .. Len(reservados) /\ b \in 1 .. Len(reservados)
    BY <1>1, LenProperties
  <1>4. /\ s \in Seq(Reserva) /\ Len(s) = Len(reservados) - 1
        /\ \A k \in 1 .. Len(reservados) - 1 :
              s[k] = IF k < b THEN reservados[k] ELSE reservados[k + 1]
    BY <1>1, SinPosicionOK
  <1>5. DOMAIN s = 1 .. Len(reservados) - 1
    BY <1>4, LenProperties
  <1> HIDE DEF s
  <1>6. \A k \in DOMAIN s : v(k) \in DOMAIN reservados /\ v(k) # b /\ s[k] = reservados[v(k)]
    BY <1>3, <1>4, <1>5
  <1>7. \A k, l \in DOMAIN s : v(k) = v(l) => k = l
    BY <1>3, <1>5
  <1>8. \A k \in DOMAIN reservados : k = b \/ \E l \in DOMAIN s : v(l) = k
    <2> TAKE k \in DOMAIN reservados
    <2>1. CASE k < b
      <3>1. k \in DOMAIN s /\ v(k) = k
        BY <2>1, <1>3, <1>5
      <3> QED BY <3>1
    <2>2. CASE k > b
      <3>1. k - 1 \in DOMAIN s /\ v(k - 1) = k
        BY <2>2, <1>3, <1>5
      <3> QED BY <3>1
    <2> QED BY <2>1, <2>2, <1>3
  <1> HIDE DEF v
  <1>9. \A i, j \in DOMAIN s : s[i].id = s[j].id => i = j
    BY <1>6, <1>7
  <1>10. ASSUME NEW x PROVE (\E k \in DOMAIN s : s[k].id = x) <=> TieneReserva(x) /\ x # e
    <2>1. ASSUME NEW k \in DOMAIN s, s[k].id = x PROVE TieneReserva(x) /\ x # e
      BY <2>1, <1>1, <1>6 DEF TieneReserva
    <2>2. ASSUME NEW k \in DOMAIN reservados, reservados[k].id = x, x # e
          PROVE  \E l \in DOMAIN s : s[l].id = x
      BY <2>2, <1>1, <1>6, <1>8
    <2> QED BY <2>1, <2>2 DEF TieneReserva
  <1>11. \A x : TieneReserva(x)' <=> TieneReserva(x) /\ x # e
    BY <1>2, <1>10 DEF TieneReserva
  <1> QED BY <1>2, <1>4, <1>9, <1>11

\* While a trainer catches, the protocol of its CATCH is in one of two stages.
Lanzado(e) ==
    /\ \E pc \in PcConectar : PorConectar = {[entrenador |-> e, pc |-> pc, id |-> -1]}
    /\ ~FalloConexion => Anotando = {}
    /\ sem.mutex_catch = 0 /\ hilo[e].pc = "envia"
    /\ SinRespuesta /\ Falta(e)

Enviado(e) ==
    /\ PorConectar = {}
    /\ sem.mutex_catch = (IF hilo[e].pc = "envia" THEN 1 ELSE 0)
    /\ IF glob.rta_catch # -1 THEN EnRespuesta(e)
       ELSE FalloConexion /\ Falta(e) /\ hilo[e].pc = "envia"

\* The trainer that catches is one, and its CATCH is to be sent or was sent.
LEMMA DeCaptura ==
    ASSUME IInv, vivo, NEW e \in Entrenadores, EnCaptura(e)
    PROVE  /\ \A x \in Entrenadores : EnCaptura(x) <=> x = e
           /\ broker.id > 0
           /\ ~FalloConexion => mutex_idCorrelativos = (IF Anotando = {} THEN 1 ELSE 0)
           /\ glob.rta_catch = -1 => SinRespuesta
           /\ Lanzado(e) \/ Enviado(e)
  <1>1. \A x \in Entrenadores : EnCaptura(x) <=> x = e
    BY DEF EnCaptura, EnCpu
  <1> QED BY <1>1 DEF IInv, Protocolo, Captura, Lanzado, Enviado

\* The converse, for the state after a step.
LEMMA ACaptura ==
    ASSUME NEW e \in Entrenadores, (\A x \in Entrenadores : EnCaptura(x) <=> x = e)',
           broker'.id > 0,
           ~FalloConexion' => mutex_idCorrelativos' = (IF Anotando' = {} THEN 1 ELSE 0),
           glob'.rta_catch = -1 => SinRespuesta',
           Lanzado(e)' \/ Enviado(e)'
    PROVE  Captura'
  BY DEF Captura, Lanzado, Enviado

\* DejarDeMover: a trainer arrives or is interrupted, and returns the turn.
LEMMA DejarDeMoverOK ==
    ASSUME NEW e \in Entrenadores, IInv, vivo, DejarDeMover(e), UNCHANGED recepVars
    PROVE  IInv'
  <1> USE DEF IInv
  <1>a. /\ EnCpu(e) /\ semEntrenador[e] = 0 /\ sem.cplazoEntrenador = 0 /\ glob.enEjecucion = e
        /\ e \notin En(colaReady) /\ e \notin En(colaBlocked) /\ e \notin En(colaExit)
        /\ Estado(e) # "EXIT" /\ hilo[e].pc = "mueve"
    BY EnActivo DEF DejarDeMover
  <1>b. /\ Estado(e) \in {"MOVERSE_A_POKEMON", "SEGUIR_MOVIENDOSE", "MOVERSE_A_ENTRENADOR"}
        /\ TieneReserva(e) <=> Estado(e) # "MOVERSE_A_ENTRENADOR"
    BY <1>a DEF Protocolo, Reservas
  <1> DEFINE nuevo == TrasMover(e)
             quantum == IF algoritmo = "RR" THEN QUANTUM ELSE entrenador[e].quantum
  <1>c. /\ nuevo \in {"ATRAPAR", "SEGUIR_MOVIENDOSE", "INTERCAMBIAR", "MOVERSE_A_ENTRENADOR"}
        /\ TieneReserva(e) <=> nuevo \in {"ATRAPAR", "SEGUIR_MOVIENDOSE"}
    BY <1>b DEF TrasMover, HaciaPokemon
  <1>d. quantum \in 0 .. QUANTUM /\ nuevo \in Estados
    BY <1>c, PlanificadoresAssumption DEF TiposPlan, TipoEntrenador, Ficha, Estados
  <1>e. entrenador' = [entrenador EXCEPT ![e].estado = nuevo, ![e].quantum = quantum]
    BY DEF DejarDeMover, TiposPlan, TipoEntrenador, Ficha
  <1> HIDE DEF nuevo, quantum
  <1>f. \A x \in Entrenadores : /\ Ficha(entrenador'[x])
                                /\ entrenador'[x].estado = IF x = e THEN nuevo ELSE entrenador[x].estado
                                /\ x # e => entrenador'[x] = entrenador[x]
    BY <1>d, <1>e DEF TiposPlan, TipoEntrenador, Ficha
  <1>g. \A x \in Entrenadores : hilo'[x].pc = IF x = e THEN "espera" ELSE hilo[x].pc
    BY DEF DejarDeMover, TiposPlan, TipoHilo, HiloQuieto
  <1>h. /\ glob'.enEjecucion = glob.enEjecucion /\ glob'.rta_catch = glob.rta_catch /\ TipoGlob'
    BY DEF DejarDeMover, TiposPlan, TipoGlob
  <1>i. /\ UNCHANGED <<algoritmo, colas, semEntrenador, trabada, cp, mp, mapa, envios, vivo>>
    BY DEF DejarDeMover
  <1>0. /\ sem' \in Semaforos
        /\ sem'["cplazoEntrenador"] = sem["cplazoEntrenador"] + (1)
        /\ \A r \in NombresSem \ {"cplazoEntrenador"} : sem'[r] = sem[r]
    BY PostOK DEF DejarDeMover, IInv, TiposPlan, TipoSem, TipoPlanificadores, Semaforos, NombresSem
  <1>1. TiposPlan'
    <2>1. TipoColas' /\ TipoPlanificadores' /\ TipoMapa'
      BY DEF DejarDeMover, colas, mapa, IInv, TiposPlan, TipoColas, TipoPlanificadores, TipoMapa
    <2>2. TipoEntrenador'
      BY <1>e, <1>f DEF TiposPlan, TipoEntrenador
    <2>3. TipoHilo'
      BY DEF DejarDeMover, TiposPlan, TipoHilo, HiloQuieto, Lugar
    <2>4. TipoSem'
      BY <1>0 DEF DejarDeMover, colas, mapa, IInv, TiposPlan, TipoSem, NombresSem
    <2>5. TipoGlob'
      BY <1>h
    <2> QED BY <2>1, <2>2, <2>3, <2>4, <2>5 DEF TiposPlan
  <1>2. TiposRecep'
    BY DEF DejarDeMover, recepVars, IInv, TiposRecep, Llega
  <1>3. Lugares'
    BY MarcoLugares DEF DejarDeMover, colas, IInv
  <1>4. SaleCompleto'
    <2>1. En(colaExit) \subseteq Entrenadores
      BY LenProperties, ElementOfSeq DEF En, TiposPlan, TipoColas
    <2> QED BY <1>a, <1>f, <1>i, <2>1, MarcoSale DEF colas
  <1>5. Turnos'
    <2>1. sem'.cplazoEntrenador = 1
      BY <1>0, <1>a
    <2>2. nuevo # "EXIT"
      BY <1>c
    <2> QED BY <1>a, <1>f, <1>g, <1>h, <1>i, <2>1, <2>2 DEF colas, Protocolo, Turnos, EnCpu, Activo, Estado
  <1>6. Medio'
    <2>1. En(colaBlocked) \subseteq Entrenadores
      BY LenProperties, ElementOfSeq DEF En, TiposPlan, TipoColas
    <2> QED BY <1>1, <1>a, <1>f, <1>i, <2>1, MarcoMedio, LenProperties DEF colas, mapa, Protocolo, TiposPlan, TipoMapa
  <1>7. Reservas'
    <2>1. sem'.cplazoEntrenador = 1
      BY <1>0, <1>a
    <2> QED BY <1>a, <1>c, <1>f, <1>g, <1>i, <2>1 DEF colas, mapa, Protocolo, Reservas, TieneReserva, EnCpu, Estado
  <1>8. Captura'
    BY <1>0, <1>a, <1>f, <1>g, <1>h, <1>i, MarcoCaptura DEF colas, mapa, recepVars, Protocolo, MismaCaptura, EnCaptura, EnCpu, NombresSem
  <1> QED BY <1>1, <1>2, <1>3, <1>4, <1>5, <1>6, <1>7, <1>8 DEF IInv, Protocolo

\* intentarAtraparPokemon: the thread that sends the CATCH starts.
LEMMA intentarAtraparPokemonOK ==
    ASSUME NEW e \in Entrenadores, IInv, vivo, intentarAtraparPokemon(e), UNCHANGED recepVars
    PROVE  IInv'
  <1> USE DEF IInv
  <1>0. /\ EnCpu(e) /\ semEntrenador[e] = 1 /\ sem.cplazoEntrenador = 0 /\ ~Activo(e)
        /\ e \notin En(colaReady) /\ e \notin En(colaBlocked) /\ e \notin En(colaExit)
        /\ hilo[e].pc = "espera" /\ semEntrenador' = [semEntrenador EXCEPT ![e] = @ - 1]
        /\ semEntrenador[e] > 0 /\ glob.enEjecucion = e
    BY EnTurno DEF intentarAtraparPokemon, Turno
  <1>1. /\ UNCHANGED <<algoritmo, entrenador, colas, sem, trabada, cp, mp, glob, mapa>>
        /\ Estado(e) = "ATRAPAR"
    BY DEF intentarAtraparPokemon, Turno
  <1>2. CASE buscarPokemonReservado(e) = 0
    <2>1. vivo' = FALSE /\ hilo' = hilo /\ envios' = envios
      BY <1>2 DEF intentarAtraparPokemon, Caerse
    <2> QED BY <1>0, <1>1, <2>1, CaerOK
  <1>3. CASE buscarPokemonReservado(e) # 0
    <2> DEFINE en == [entrenador |-> e, pc |-> "conecta", id |-> -1]
    <2>1. /\ vivo' = vivo /\ hilo' = [hilo EXCEPT ![e].pc = "envia"]
          /\ envios' = envios \cup {en}
      BY <1>3 DEF intentarAtraparPokemon
    <2>2. TieneReserva(e)
      BY <1>3, BuscarReservaOK DEF TiposPlan, TipoMapa
    <2>3. en \in TipoEnvio
      BY DEF TipoEnvio, PcConectar
    <2>6. /\ TipoHilo'
          /\ \A x \in Entrenadores : hilo'[x].pc = IF x = e THEN "envia" ELSE hilo[x].pc
      BY <2>1 DEF TiposPlan, TipoHilo
    <2>7. /\ semEntrenador' \in [Entrenadores -> {0, 1}]
          /\ \A x \in Entrenadores : semEntrenador'[x] = IF x = e THEN 0 ELSE semEntrenador[x]
      BY <1>0 DEF TiposPlan, TipoSem
    <2>8. TiposPlan'
      BY <1>1, <2>1, <2>3, <2>6, <2>7 DEF colas, mapa, TiposPlan, TipoEntrenador, TipoColas, TipoSem,
            TipoPlanificadores, TipoGlob, TipoMapa
    <2>9. TiposRecep'
      BY DEF recepVars, TiposRecep, Llega
    <2>10. Lugares' /\ SaleCompleto'
      BY <1>1, MarcoLugares, MarcoSale DEF colas
    <2>11. Turnos'
      BY <1>0, <1>1, <2>6, <2>7 DEF colas, Protocolo, Turnos, EnCpu, Activo, Estado
    <2>12. Medio'
      BY <1>1, <2>8, MarcoMedio, LenProperties DEF colas, mapa, Protocolo, TiposPlan, TipoMapa
    <2>13. Reservas'
      BY <1>0, <1>1, <2>6, <2>7 DEF colas, mapa, Protocolo, Reservas, TieneReserva, EnCpu, Estado
    <2>14. Captura'
      <3>1. \A x \in Entrenadores : ~EnCaptura(x)
        BY <1>0 DEF EnCaptura, EnCpu
      <3>2. /\ PorConectar = {} /\ sem.mutex_catch = 0 /\ SinRespuesta
            /\ ~FalloConexion => envios = {}
            /\ broker.id > 0
            /\ ~FalloConexion => mutex_idCorrelativos = (IF Anotando = {} THEN 1 ELSE 0)
            /\ glob.rta_catch = -1 => SinRespuesta
        BY <3>1 DEF Protocolo, Captura
      <3>3. (\A x \in Entrenadores : EnCaptura(x) <=> x = e)'
        BY <1>0, <1>1, <2>6 DEF EnCaptura, EnCpu
      <3>4. /\ PorConectar' = {en} /\ Anotando' = Anotando
            /\ FalloConexion' <=> FalloConexion
        BY <2>1, <3>2 DEF PorConectar, Anotando, PcConectar, FalloConexion, recepVars
      <3>5. SinRespuesta'
        BY <1>1, <3>2 DEF SinRespuesta, recepVars
      <3>6. Falta(e)'
        BY <1>1, <2>2 DEF Falta, TieneReserva, Estado, mapa
      <3>7. ~FalloConexion' => Anotando' = {}
        BY <3>2, <3>4 DEF Anotando, recepVars
      <3>8. Lanzado(e)'
        BY <1>1, <2>6, <3>2, <3>4, <3>5, <3>6, <3>7 DEF Lanzado, PcConectar
      <3> QED BY <1>1, <3>2, <3>3, <3>4, <3>5, <3>8, ACaptura DEF recepVars
    <2> QED BY <2>1, <2>8, <2>9, <2>10, <2>11, <2>12, <2>13, <2>14 DEF Protocolo
  <1> QED BY <1>2, <1>3

\* The cycle of CPU of a CATCH changes numbers of a trainer: not its state and not its lists.
LEMMA CicloDeCatchOK ==
    ASSUME NEW e \in Entrenadores, TiposPlan
    PROVE  /\ Ficha(CicloDeCatch(e))
           /\ CicloDeCatch(e).estado = entrenador[e].estado
           /\ CicloDeCatch(e).obtenidos = entrenador[e].obtenidos
           /\ CicloDeCatch(e).objetivo = entrenador[e].objetivo
  <1> DEFINE t == entrenador[e]
             c == CicloDeCatch(e)
  <1>1. Ficha(t)
    BY DEF TiposPlan, TipoEntrenador
  <1>2. CASE esSJF
    <2>1. c = [t EXCEPT !.instruccion = @ + 1, !.actual = @ - Escala]
      BY <1>2 DEF CicloDeCatch
    <2>2. Escala \in Int /\ t.actual \in Int /\ t.instruccion \in Int
      BY <1>1, EntrenadorAssumption DEF Ficha
    <2> HIDE DEF c, t
    <2>3. /\ DOMAIN c = DOMAIN t
          /\ \A k \in DOMAIN t \ {"instruccion", "actual"} : c[k] = t[k]
          /\ c.instruccion = t.instruccion + 1 /\ c.actual = t.actual - Escala
      BY <1>1, <2>1 DEF Ficha
    <2>4. Ficha(c) /\ c.estado = t.estado /\ c.obtenidos = t.obtenidos /\ c.objetivo = t.objetivo
      BY <1>1, <2>2, <2>3 DEF Ficha
    <2> QED BY <2>4 DEF c, t
  <1>3. CASE ~esSJF
    BY <1>1, <1>3 DEF CicloDeCatch
  <1> QED BY <1>2, <1>3

\* AtraparPorDefecto: with no broker the pokemon is caught.
LEMMA AtraparPorDefectoOK ==
    ASSUME NEW e \in Entrenadores, IInv, vivo, AtraparPorDefecto(e), UNCHANGED recepVars
    PROVE  IInv'
  <1> USE DEF IInv
  <1>a. /\ EnCpu(e) /\ semEntrenador[e] = 0 /\ sem.cplazoEntrenador = 0 /\ glob.enEjecucion = e
        /\ e \notin En(colaReady) /\ e \notin En(colaBlocked) /\ e \notin En(colaExit)
        /\ Estado(e) # "EXIT" /\ hilo[e].pc = "envia" /\ EnCaptura(e)
    BY EnActivo DEF AtraparPorDefecto, EnCaptura
  <1>b. /\ \A x \in Entrenadores : EnCaptura(x) <=> x = e
        /\ broker.id > 0
        /\ ~FalloConexion => mutex_idCorrelativos = (IF Anotando = {} THEN 1 ELSE 0)
        /\ glob.rta_catch = -1 => SinRespuesta
        /\ Lanzado(e) \/ Enviado(e)
    BY <1>a, DeCaptura
  <1>c. /\ sem.mutex_catch > 0 /\ glob.rta_catch = -1
        /\ sem' = [sem EXCEPT !.mutex_catch = @ - 1, !.cplazoEntrenador = @ + 1]
        /\ reservados' = SinReserva(buscarPokemonReservado(e))
        /\ hilo' = [hilo EXCEPT ![e].pc = "espera"]
    BY DEF AtraparPorDefecto
  <1>d. PorConectar = {} /\ sem.mutex_catch = 1 /\ FalloConexion /\ Falta(e) /\ SinRespuesta
    BY <1>a, <1>b, <1>c DEF Lanzado, Enviado
  <1>e. /\ sem' \in Semaforos /\ sem'.cplazoEntrenador = 1 /\ sem'.mutex_catch = 0
        /\ sem'.esperar_caught = sem.esperar_caught
    <2> DEFINE m == sem.mutex_catch - 1
               n == sem.cplazoEntrenador + 1
    <2>1. m = 0 /\ n = 1
      BY <1>a, <1>d
    <2>2. sem' = [sem EXCEPT !.mutex_catch = m, !.cplazoEntrenador = n]
      BY <1>c DEF TiposPlan, TipoSem, Semaforos
    <2> HIDE DEF m, n
    <2> QED BY <1>d, <2>1, <2>2 DEF TiposPlan, TipoSem, Semaforos
  <1> DEFINE p == reservados[buscarPokemonReservado(e)].pokemon
             o == agregarPokemon(CicloDeCatch(e).obtenidos, p)
  <1>j. entrenador' = [entrenador EXCEPT ![e] =
             [CicloDeCatch(e) EXCEPT !.estado = "RECIBIO_RESPUESTA_OK", !.obtenidos = o]]
    BY CicloDeCatchOK DEF AtraparPorDefecto, Ficha
  <1> HIDE DEF p, o
  <1>f. \A x \in Entrenadores :
           /\ Ficha(entrenador'[x])
           /\ entrenador'[x].estado = IF x = e THEN "RECIBIO_RESPUESTA_OK" ELSE entrenador[x].estado
           /\ x # e => entrenador'[x] = entrenador[x]
    BY <1>j, CicloDeCatchOK DEF TiposPlan, TipoEntrenador, Ficha, Estados
  <1>g. \A x \in Entrenadores : hilo'[x].pc = IF x = e THEN "espera" ELSE hilo[x].pc
    BY <1>c DEF TiposPlan, TipoHilo
  <1>h. /\ reservados' \in Seq(Reserva)
        /\ \A x : TieneReserva(x)' <=> TieneReserva(x) /\ x # e
        /\ \A i, j \in DOMAIN reservados' : reservados'[i].id = reservados'[j].id => i = j
    BY <1>c, <1>d, SinReservaOK DEF Protocolo, Reservas, Falta, TiposPlan, TipoMapa
  <1>i. UNCHANGED <<algoritmo, colas, semEntrenador, trabada, cp, mp, glob, libres, envios, vivo>>
    BY DEF AtraparPorDefecto
  <1>1. TiposPlan'
    <2>1. TipoColas' /\ TipoPlanificadores' /\ TipoGlob'
      BY DEF AtraparPorDefecto, colas, mapa, IInv, TiposPlan, TipoColas, TipoPlanificadores, TipoGlob
    <2>2. TipoEntrenador'
      BY <1>j, <1>f DEF TiposPlan, TipoEntrenador
    <2>3. TipoHilo'
      BY <1>c DEF TiposPlan, TipoHilo
    <2>4. TipoSem'
      BY <1>e, <1>i DEF TiposPlan, TipoSem
    <2>5. TipoMapa'
      BY <1>h, <1>i DEF TiposPlan, TipoMapa
    <2> QED BY <2>1, <2>2, <2>3, <2>4, <2>5 DEF TiposPlan
  <1>2. TiposRecep'
    BY DEF AtraparPorDefecto, recepVars, IInv, TiposRecep, Llega
  <1>3. Lugares'
    BY MarcoLugares DEF AtraparPorDefecto, colas, IInv
  <1>4. SaleCompleto'
    <2>1. En(colaExit) \subseteq Entrenadores
      BY LenProperties, ElementOfSeq DEF En, TiposPlan, TipoColas
    <2> QED BY <1>a, <1>f, <1>i, <2>1, MarcoSale DEF colas
  <1>5. Turnos'
    BY <1>a, <1>e, <1>f, <1>g, <1>i DEF colas, Protocolo, Turnos, EnCpu, Activo, Estado
  <1>6. Medio'
    <2>1. En(colaBlocked) \subseteq Entrenadores
      BY LenProperties, ElementOfSeq DEF En, TiposPlan, TipoColas
    <2> QED BY <1>1, <1>a, <1>f, <1>i, <2>1, MarcoMedio, LenProperties DEF colas, mapa, Protocolo, TiposPlan, TipoMapa
  <1>7. Reservas'
    BY <1>a, <1>e, <1>f, <1>g, <1>h, <1>i DEF colas, Protocolo, Reservas, EnCpu, Estado
  <1>8. Captura'
    <2>1. \A x \in Entrenadores : ~EnCaptura(x)'
      BY <1>b, <1>g, <1>i DEF EnCaptura, EnCpu
    <2> QED BY <1>b, <1>d, <1>e, <1>i, <2>1 DEF Captura, SinRespuesta, PorConectar, FalloConexion, recepVars
  <1> QED BY <1>1, <1>2, <1>3, <1>4, <1>5, <1>6, <1>7, <1>8 DEF IInv, Protocolo

\* EsperarCaught: the CATCH was sent and its answer is waited for.
LEMMA EsperarCaughtOK ==
    ASSUME NEW e \in Entrenadores, IInv, vivo, EsperarCaught(e), UNCHANGED recepVars
    PROVE  IInv'
  <1> USE DEF IInv
  <1>a. /\ EnCpu(e) /\ semEntrenador[e] = 0 /\ sem.cplazoEntrenador = 0 /\ glob.enEjecucion = e
        /\ e \notin En(colaReady) /\ e \notin En(colaBlocked) /\ e \notin En(colaExit)
        /\ Estado(e) # "EXIT" /\ hilo[e].pc = "envia" /\ EnCaptura(e)
    BY EnActivo DEF EsperarCaught, EnCaptura
  <1>b. /\ \A x \in Entrenadores : EnCaptura(x) <=> x = e
        /\ broker.id > 0
        /\ ~FalloConexion => mutex_idCorrelativos = (IF Anotando = {} THEN 1 ELSE 0)
        /\ glob.rta_catch = -1 => SinRespuesta
        /\ Lanzado(e) \/ Enviado(e)
    BY <1>a, DeCaptura
  <1>c. /\ sem.mutex_catch > 0 /\ glob.rta_catch # -1
        /\ hilo' = [hilo EXCEPT ![e].pc = "caught"]
        /\ entrenador' = [entrenador EXCEPT ![e] = CicloDeCatch(e)]
    BY DEF EsperarCaught
  <1>d. PorConectar = {} /\ sem.mutex_catch = 1 /\ EnRespuesta(e)
    BY <1>a, <1>b, <1>c DEF Lanzado, Enviado
  <1>f. \A x \in Entrenadores : /\ Ficha(entrenador'[x])
                                /\ entrenador'[x].estado = entrenador[x].estado
                                /\ x # e => entrenador'[x] = entrenador[x]
    BY <1>c, CicloDeCatchOK DEF TiposPlan, TipoEntrenador
  <1>g. \A x \in Entrenadores : hilo'[x].pc = IF x = e THEN "caught" ELSE hilo[x].pc
    BY <1>c DEF TiposPlan, TipoHilo
  <1>i. UNCHANGED <<algoritmo, colas, semEntrenador, trabada, cp, mp, glob, mapa, envios, vivo>>
    BY DEF EsperarCaught
  <1>0. /\ sem' \in Semaforos
        /\ sem'["mutex_catch"] = sem["mutex_catch"] + (-1)
        /\ \A r \in NombresSem \ {"mutex_catch"} : sem'[r] = sem[r]
    BY PostOK DEF EsperarCaught, IInv, TiposPlan, TipoSem, TipoPlanificadores, Semaforos, NombresSem
  <1>1. TiposPlan'
    <2>1. TipoColas' /\ TipoPlanificadores' /\ TipoGlob' /\ TipoMapa'
      BY DEF EsperarCaught, colas, mapa, IInv, TiposPlan, TipoColas, TipoPlanificadores, TipoGlob, TipoMapa
    <2>2. TipoEntrenador'
      BY <1>c, <1>f DEF TiposPlan, TipoEntrenador
    <2>3. TipoHilo'
      BY <1>c DEF TiposPlan, TipoHilo
    <2>4. TipoSem'
      BY <1>0 DEF EsperarCaught, colas, mapa, IInv, TiposPlan, TipoSem, NombresSem
    <2> QED BY <2>1, <2>2, <2>3, <2>4 DEF TiposPlan
  <1>2. TiposRecep'
    BY DEF EsperarCaught, recepVars, IInv, TiposRecep, Llega
  <1>3. Lugares'
    BY MarcoLugares DEF EsperarCaught, colas, IInv
  <1>4. SaleCompleto'
    <2>1. En(colaExit) \subseteq Entrenadores
      BY LenProperties, ElementOfSeq DEF En, TiposPlan, TipoColas
    <2> QED BY <1>a, <1>f, <1>i, <2>1, MarcoSale DEF colas
  <1>5. Turnos'
    BY <1>0, <1>a, <1>f, <1>g, <1>i DEF colas, Protocolo, Turnos, EnCpu, Activo, Estado, NombresSem
  <1>6. Medio'
    <2>1. En(colaBlocked) \subseteq Entrenadores
      BY LenProperties, ElementOfSeq DEF En, TiposPlan, TipoColas
    <2> QED BY <1>1, <1>a, <1>f, <1>i, <2>1, MarcoMedio, LenProperties DEF colas, mapa, Protocolo, TiposPlan, TipoMapa
  <1>7. Reservas'
    BY <1>0, <1>a, <1>f, <1>g, <1>i DEF colas, mapa, Protocolo, Reservas, TieneReserva, EnCpu, Estado, NombresSem
  <1>8. Captura'
    <2>1. (\A x \in Entrenadores : EnCaptura(x) <=> x = e)'
      BY <1>a, <1>b, <1>g, <1>i DEF EnCaptura, EnCpu
    <2>2. sem'.mutex_catch = 0 /\ sem'.esperar_caught = sem.esperar_caught
      BY <1>0, <1>d DEF NombresSem
    <2>3. EnRespuesta(e)'
      BY <1>d, <1>f, <1>i, <2>2 DEF EnRespuesta, Falta, Aplicado, TieneReserva, Estado, Anotado,
                                    SinRespuesta, mapa, recepVars
    <2>4. Enviado(e)'
      BY <1>c, <1>d, <1>g, <1>i, <2>2, <2>3 DEF Enviado, PorConectar, recepVars
    <2> QED BY <1>b, <1>c, <1>i, <2>1, <2>4, ACaptura DEF Anotando, FalloConexion, recepVars
  <1> QED BY <1>1, <1>2, <1>3, <1>4, <1>5, <1>6, <1>7, <1>8 DEF IInv, Protocolo

\* LlegoCaught: the answer was applied and the trainer returns the turn.
LEMMA LlegoCaughtOK ==
    ASSUME NEW e \in Entrenadores, IInv, vivo, LlegoCaught(e), UNCHANGED recepVars
    PROVE  IInv'
  <1> USE DEF IInv
  <1>a. /\ EnCpu(e) /\ semEntrenador[e] = 0 /\ sem.cplazoEntrenador = 0 /\ glob.enEjecucion = e
        /\ e \notin En(colaReady) /\ e \notin En(colaBlocked) /\ e \notin En(colaExit)
        /\ Estado(e) # "EXIT" /\ hilo[e].pc = "caught" /\ EnCaptura(e)
    BY EnActivo DEF LlegoCaught, EnCaptura
  <1>b. /\ \A x \in Entrenadores : EnCaptura(x) <=> x = e
        /\ broker.id > 0
        /\ ~FalloConexion => mutex_idCorrelativos = (IF Anotando = {} THEN 1 ELSE 0)
        /\ glob.rta_catch = -1 => SinRespuesta
        /\ Lanzado(e) \/ Enviado(e)
    BY <1>a, DeCaptura
  <1>c. /\ sem.esperar_caught > 0
        /\ hilo' = [hilo EXCEPT ![e].pc = "espera"]
        /\ sem' = [sem EXCEPT !.esperar_caught = @ - 1, !.cplazoEntrenador = @ + 1]
    BY DEF LlegoCaught
  <1>d. /\ PorConectar = {} /\ sem.mutex_catch = 0 /\ broker.pendientes = {}
        /\ caughts = {} /\ sem.esperar_caught = 1 /\ envios = {} /\ Aplicado(e)
    <2>1. Enviado(e)
      BY <1>a, <1>b DEF Lanzado
    <2>2. EnRespuesta(e) /\ PorConectar = {} /\ sem.mutex_catch = 0
      BY <1>a, <2>1 DEF Enviado
    <2> QED BY <1>c, <2>2 DEF EnRespuesta, SinRespuesta
  <1>e. /\ sem' \in Semaforos /\ sem'.cplazoEntrenador = 1 /\ sem'.mutex_catch = 0
        /\ sem'.esperar_caught = 0
    <2> DEFINE m == sem.esperar_caught - 1
               n == sem.cplazoEntrenador + 1
    <2>1. m = 0 /\ n = 1
      BY <1>a, <1>d
    <2>2. sem' = [sem EXCEPT !.esperar_caught = m, !.cplazoEntrenador = n]
      BY <1>c DEF TiposPlan, TipoSem, Semaforos
    <2> HIDE DEF m, n
    <2> QED BY <1>d, <2>1, <2>2 DEF TiposPlan, TipoSem, Semaforos
  <1>g. \A x \in Entrenadores : hilo'[x].pc = IF x = e THEN "espera" ELSE hilo[x].pc
    BY <1>c DEF TiposPlan, TipoHilo
  <1>i. UNCHANGED <<algoritmo, entrenador, colas, semEntrenador, trabada, cp, mp, glob, mapa, envios, vivo>>
    BY DEF LlegoCaught
  <1>1. TiposPlan'
    <2>1. TipoEntrenador' /\ TipoColas' /\ TipoPlanificadores' /\ TipoGlob' /\ TipoMapa'
      BY DEF LlegoCaught, colas, mapa, IInv, TiposPlan, TipoEntrenador, TipoColas, TipoPlanificadores, TipoGlob, TipoMapa
    <2>2. TipoHilo'
      BY <1>c DEF TiposPlan, TipoHilo
    <2>3. TipoSem'
      BY <1>e, <1>i DEF TiposPlan, TipoSem
    <2> QED BY <2>1, <2>2, <2>3 DEF TiposPlan
  <1>2. TiposRecep'
    BY DEF LlegoCaught, recepVars, IInv, TiposRecep, Llega
  <1>3. Lugares'
    BY MarcoLugares DEF LlegoCaught, colas, IInv
  <1>4. SaleCompleto'
    BY MarcoSale DEF LlegoCaught, colas, IInv
  <1>5. Turnos'
    BY <1>a, <1>e, <1>g, <1>i DEF colas, Protocolo, Turnos, EnCpu, Activo, Estado
  <1>6. Medio'
    BY <1>1, <1>i, MarcoMedio, LenProperties DEF colas, mapa, Protocolo, TiposPlan, TipoMapa
  <1>7. Reservas'
    BY <1>a, <1>d, <1>e, <1>g, <1>i DEF colas, mapa, Protocolo, Reservas, TieneReserva, EnCpu, Estado, Aplicado
  <1>8. Captura'
    <2>1. \A x \in Entrenadores : ~EnCaptura(x)'
      BY <1>b, <1>g, <1>i DEF EnCaptura, EnCpu
    <2> QED BY <1>b, <1>d, <1>e, <1>i, <2>1
            DEF Captura, SinRespuesta, PorConectar, Anotando, FalloConexion, recepVars
  <1> QED BY <1>1, <1>2, <1>3, <1>4, <1>5, <1>6, <1>7, <1>8 DEF IInv, Protocolo

\* TerminarHilo: the thread of a trainer in EXIT ends.
LEMMA TerminarHiloOK ==
    ASSUME NEW e \in Entrenadores, IInv, vivo, TerminarHilo(e), UNCHANGED recepVars
    PROVE  IInv'
  <1> USE DEF IInv
  <1>a. e \in En(colaExit) /\ ~EnCpu(e) /\ hilo[e].pc = "espera"
    BY DEF TerminarHilo, Protocolo, Turnos, Lugares
  <1>g. /\ hilo' = [hilo EXCEPT ![e].pc = "fin"]
        /\ \A x \in Entrenadores : hilo'[x].pc = IF x = e THEN "fin" ELSE hilo[x].pc
    BY DEF TerminarHilo, TiposPlan, TipoHilo
  <1>i. UNCHANGED <<algoritmo, entrenador, colas, sem, semEntrenador, trabada, cp, mp, glob, mapa, envios, vivo>>
    BY DEF TerminarHilo
  <1>1. TiposPlan'
    <2>1. TipoEntrenador' /\ TipoColas' /\ TipoSem' /\ TipoPlanificadores' /\ TipoGlob' /\ TipoMapa'
      BY DEF TerminarHilo, colas, mapa, IInv, TiposPlan, TipoEntrenador, TipoColas, TipoSem, TipoPlanificadores, TipoGlob, TipoMapa
    <2>2. TipoHilo'
      BY <1>g DEF TiposPlan, TipoHilo
    <2> QED BY <2>1, <2>2 DEF TiposPlan
  <1>2. TiposRecep'
    BY DEF TerminarHilo, recepVars, IInv, TiposRecep, Llega
  <1>3. Lugares'
    BY MarcoLugares DEF TerminarHilo, colas, IInv
  <1>4. SaleCompleto'
    BY MarcoSale DEF TerminarHilo, colas, IInv
  <1>5. Turnos'
    BY <1>a, <1>g, <1>i DEF colas, Protocolo, Turnos, EnCpu, Activo, Estado
  <1>6. Medio'
    BY <1>1, <1>i, MarcoMedio, LenProperties DEF colas, mapa, Protocolo, TiposPlan, TipoMapa
  <1>7. Reservas'
    BY <1>a, <1>g, <1>i DEF colas, mapa, Protocolo, Reservas, TieneReserva, EnCpu, Estado
  <1>8. Captura'
    BY <1>a, <1>g, <1>i, MarcoCaptura DEF colas, mapa, recepVars, Protocolo, MismaCaptura, EnCaptura, EnCpu
  <1> QED BY <1>1, <1>2, <1>3, <1>4, <1>5, <1>6, <1>7, <1>8 DEF IInv, Protocolo

\* What an exchange writes in its two trainers.
Intercambiado(e, otro, u, v, n, a) ==
    [entrenador EXCEPT
        ![e].obtenidos = u, ![otro].obtenidos = v,
        ![e].estado = "ACABO_INTERCAMBIO", ![otro].estado = "ACABO_INTERCAMBIO",
        ![e].instruccion = n, ![e].actual = a]

LEMMA TrasIntercambio ==
    ASSUME TipoEntrenador, NEW e \in Entrenadores, NEW otro \in Entrenadores, e # otro,
           NEW u, NEW v, NEW n \in Int, NEW a \in Int,
           entrenador' = Intercambiado(e, otro, u, v, n, a)
    PROVE  /\ \A x \in Entrenadores : /\ Ficha(entrenador'[x])
                                      /\ entrenador'[x].estado = IF x \in {e, otro} THEN "ACABO_INTERCAMBIO"
                                                                 ELSE entrenador[x].estado
                                      /\ x \notin {e, otro} => entrenador'[x] = entrenador[x]
           /\ entrenador' = [x \in Entrenadores |-> entrenador'[x]]
           /\ entrenador'[e].obtenidos = u /\ entrenador'[otro].obtenidos = v
  <1> DEFINE t == [entrenador[e] EXCEPT !.obtenidos = u, !.estado = "ACABO_INTERCAMBIO",
                                        !.instruccion = n, !.actual = a]
             o == [entrenador[otro] EXCEPT !.obtenidos = v, !.estado = "ACABO_INTERCAMBIO"]
  <1>1. /\ entrenador = [x \in Entrenadores |-> entrenador[x]]
        /\ Ficha(entrenador[e]) /\ Ficha(entrenador[otro])
    BY DEF TipoEntrenador
  <1>2. entrenador'[e] = t
    BY <1>1 DEF Ficha, Intercambiado
  <1>3. entrenador'[otro] = o
    BY <1>1 DEF Ficha, Intercambiado
  <1>4. \A x \in Entrenadores : x \notin {e, otro} => entrenador'[x] = entrenador[x]
    BY <1>1 DEF Intercambiado
  <1>5. entrenador' = [x \in Entrenadores |-> entrenador'[x]]
    BY <1>1 DEF Intercambiado
  <1>6. Ficha(t) /\ t.obtenidos = u /\ t.estado = "ACABO_INTERCAMBIO"
    BY <1>1 DEF Ficha, Estados
  <1>7. Ficha(o) /\ o.obtenidos = v /\ o.estado = "ACABO_INTERCAMBIO"
    BY <1>1 DEF Ficha, Estados
  <1> HIDE DEF t, o
  <1>8. \A x \in Entrenadores : Ficha(entrenador[x])
    BY DEF TipoEntrenador
  <1> QED BY <1>2, <1>3, <1>4, <1>5, <1>6, <1>7, <1>8, Zenon

\* Intercambiar: two trainers exchange, one with the CPU and one in BLOCKED, none in EXIT.
LEMMA IntercambiarOK ==
    ASSUME NEW e \in Entrenadores, IInv, vivo, Intercambiar(e), UNCHANGED recepVars
    PROVE  IInv'
  <1> USE DEF IInv
  <1> DEFINE aca == {i \in Candidatos(e) : calcularDistancia(entrenador[e].posicion,
                                              entrenador[colaBlocked[i]].posicion) = 0}
             k == CHOOSE i \in aca : \A j \in aca : j <= i
             otro == colaBlocked[k]
             listas == intercambiarNormalPokemon(entrenador[e], entrenador[otro])
  <1>0. /\ EnCpu(e) /\ semEntrenador[e] = 1 /\ sem.cplazoEntrenador = 0 /\ ~Activo(e)
        /\ e \notin En(colaReady) /\ e \notin En(colaBlocked) /\ e \notin En(colaExit)
        /\ hilo[e].pc = "espera" /\ semEntrenador' = [semEntrenador EXCEPT ![e] = @ - 1]
        /\ semEntrenador[e] > 0 /\ glob.enEjecucion = e
    BY EnTurno DEF Intercambiar, Turno
  <1>1. /\ UNCHANGED <<algoritmo, hilo, colas, trabada, cp, mp, glob, mapa, envios>>
        /\ Estado(e) = "INTERCAMBIAR" /\ ~trabada
    BY DEF Intercambiar, Turno
  <1>2. CASE aca = {}
    <2>1. vivo' = FALSE /\ entrenador' = entrenador /\ sem' = sem
      BY <1>2 DEF Intercambiar, Caerse
    <2> QED BY <1>0, <1>1, <2>1, CaerOK
  <1>3. CASE aca # {}
    <2> DEFINE n == IF esSJF THEN entrenador[e].instruccion + 5 ELSE entrenador[e].instruccion
               a == IF esSJF THEN entrenador[e].actual - 5 * Escala ELSE entrenador[e].actual
               u == listas.uno
               v == listas.otro
    <2>1. k \in aca
      <3>1. /\ aca \subseteq DOMAIN colaBlocked /\ DOMAIN colaBlocked = 1 .. Len(colaBlocked)
            /\ Len(colaBlocked) \in Nat
        BY LenProperties DEF Candidatos, Quieren, TiposPlan, TipoColas
      <3> HIDE DEF aca
      <3>2. \E i \in aca : \A j \in aca : j <= i
        BY <1>3, <3>1, MaximoOK
      <3> QED BY <3>2
    <2>2. otro \in Entrenadores /\ otro \in En(colaBlocked) /\ Estado(otro) = "DEADLOCK"
      <3>1. k \in Quieren({"DEADLOCK"})
        BY <2>1 DEF Candidatos
      <3> HIDE DEF k
      <3>2. colaBlocked \in Seq(Entrenadores) /\ SinRepetir(colaBlocked)
        BY DEF TiposPlan, TipoColas, Lugares
      <3>3. \A i \in Quieren({"DEADLOCK"}) :
               /\ colaBlocked[i] \in Entrenadores /\ colaBlocked[i] \in En(colaBlocked)
               /\ entrenador[colaBlocked[i]].estado \in {"DEADLOCK"}
        BY <3>2, QuierenOK
      <3> QED BY <3>1, <3>3 DEF Estado
    <2>3. /\ entrenador' = Intercambiado(e, otro, u, v, n, a)
          /\ sem' = Post("cplazoEntrenador", 1)
          /\ UNCHANGED vivo
      <3>1. entrenador' = [entrenador EXCEPT
                ![e].obtenidos = u, ![otro].obtenidos = v,
                ![e].estado = "ACABO_INTERCAMBIO", ![otro].estado = "ACABO_INTERCAMBIO",
                ![e].instruccion = IF esSJF THEN @ + 5 ELSE @,
                ![e].actual = IF esSJF THEN @ - 5 * Escala ELSE @]
            /\ sem' = Post("cplazoEntrenador", 1)
            /\ UNCHANGED vivo
        BY <1>3 DEF Intercambiar
      <3>2. entrenador = [x \in Entrenadores |-> entrenador[x]] /\ Ficha(entrenador[e])
            /\ Ficha(entrenador[otro])
        BY <2>2 DEF TiposPlan, TipoEntrenador
      <3>3. e # otro
        BY <1>0, <2>2
      <3> HIDE DEF u, v, otro
      <3> QED BY <2>2, <3>1, <3>2, <3>3 DEF Ficha, Intercambiado
    <2>4. n \in Int /\ a \in Int /\ e # otro
      BY <1>0, <2>2, EntrenadorAssumption DEF TiposPlan, TipoEntrenador, Ficha
    <2> HIDE DEF u, v, n, a, otro, aca
    <2>5. /\ sem' \in Semaforos /\ sem'.cplazoEntrenador = 1
          /\ sem'.mutex_catch = sem.mutex_catch /\ sem'.esperar_caught = sem.esperar_caught
      <3>1. sem \in Semaforos /\ "cplazoEntrenador" \in NombresSem /\ sem["cplazoEntrenador"] + 1 >= 0
        BY <1>0 DEF TiposPlan, TipoSem, NombresSem
      <3>2. /\ sem' \in Semaforos /\ sem'["cplazoEntrenador"] = sem["cplazoEntrenador"] + 1
            /\ \A r \in NombresSem \ {"cplazoEntrenador"} : sem'[r] = sem[r]
        BY <2>3, <3>1, PostOK
      <3> QED BY <1>0, <3>2 DEF NombresSem
    <2>6. /\ \A x \in Entrenadores : /\ Ficha(entrenador'[x])
                                     /\ entrenador'[x].estado = IF x \in {e, otro} THEN "ACABO_INTERCAMBIO"
                                                                ELSE entrenador[x].estado
                                     /\ x \notin {e, otro} => entrenador'[x] = entrenador[x]
          /\ entrenador' = [x \in Entrenadores |-> entrenador'[x]]
      BY <2>2, <2>3, <2>4, TrasIntercambio DEF TiposPlan
    <2>7. /\ semEntrenador' \in [Entrenadores -> {0, 1}]
          /\ \A x \in Entrenadores : semEntrenador'[x] = IF x = e THEN 0 ELSE semEntrenador[x]
      BY <1>0 DEF TiposPlan, TipoSem
    <2>8. TiposPlan'
      BY <1>1, <2>5, <2>6, <2>7 DEF colas, mapa, TiposPlan, TipoEntrenador, TipoHilo, TipoColas,
            TipoSem, TipoPlanificadores, TipoGlob, TipoMapa
    <2>9. TiposRecep'
      BY DEF recepVars, TiposRecep, Llega
    <2>o. /\ otro \notin En(colaReady) /\ otro \notin En(colaExit) /\ ~EnCpu(otro)
      BY <2>2 DEF Lugares
    <2>10. Lugares'
      BY <1>1, MarcoLugares DEF colas
    <2>s. SaleCompleto'
      <3>1. En(colaExit) \subseteq Entrenadores
        BY LenProperties, ElementOfSeq DEF En, TiposPlan, TipoColas
      <3> QED BY <1>0, <1>1, <2>6, <2>o, <3>1, MarcoSale DEF colas
    <2>11. Turnos'
      BY <1>0, <1>1, <2>2, <2>5, <2>6, <2>7, <2>o DEF colas, Protocolo, Turnos, EnCpu, Activo, Estado
    <2>12. Medio'
      BY <1>1 DEF colas, mapa, Protocolo, Medio
    <2>13. Reservas'
      <3>1. ~TieneReserva(e) /\ ~TieneReserva(otro)
        BY <1>0, <1>1, <2>2 DEF Protocolo, Reservas
      <3> QED BY <1>0, <1>1, <2>2, <2>5, <2>6, <2>7, <2>o, <3>1 DEF colas, mapa, Protocolo, Reservas,
            TieneReserva, EnCpu, Estado
    <2>14. Captura'
      BY <1>0, <1>1, <2>5, <2>6, MarcoCaptura DEF colas, mapa, recepVars, Protocolo, MismaCaptura,
            EnCaptura, EnCpu
    <2> QED BY <2>3, <2>8, <2>9, <2>10, <2>s, <2>11, <2>12, <2>13, <2>14 DEF Protocolo
  <1> QED BY <1>2, <1>3
=============================================================================
