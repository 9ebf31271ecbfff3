--------------------------- MODULE SortingProofs ---------------------------
(***************************************************************************)
(* What the sort returns for any relation and any number of elements: all  *)
(* of them, each once, and none directly behind one that it is before.     *)
(*                                                                         *)
(* Proofs by induction are by a least counterexample, since the natural    *)
(* numbers are well-founded; that a recursive function satisfies its       *)
(* equation is proved once, for functions that recur to smaller measures.  *)
(***************************************************************************)
EXTENDS Sorting, FiniteSetTheorems, SequenceTheorems, WellFoundedInduction, TLAPS

LEMMA LeastElement ==
    ASSUME NEW T, T # {}, \A t \in T : t \in Nat
    PROVE  \E x \in T : \A y \in T : x <= y
<1>1. IsWellFoundedOn(OpToRel(<, Nat), Nat)
  BY NatLessThanWellFounded
<1>2. T \in SUBSET Nat
  OBVIOUS
<1>3. PICK x \in T : \A y \in T : ~(<<y, x>> \in OpToRel(<, Nat))
  BY <1>1, <1>2, WFMin
<1>4. ASSUME NEW y \in T PROVE x <= y
  <2>1. x \in Nat /\ y \in Nat
    OBVIOUS
  <2>2. ~(y < x)
    BY <1>3, <2>1 DEF OpToRel
  <2> QED
    BY <2>1, <2>2
<1> QED
  BY <1>3, <1>4

LEMMA GreatestElement ==
    ASSUME NEW n \in Nat, NEW T, T # {}, \A t \in T : t \in 0 .. n
    PROVE  \E x \in T : \A y \in T : y <= x
<1> DEFINE U == {n - t : t \in T}
<1>1. U # {} /\ \A u \in U : u \in Nat
  OBVIOUS
<1>2. \A t \in T : n - t \in U
  OBVIOUS
<1>3. \A u \in U : \E t \in T : u = n - t
  OBVIOUS
<1> HIDE DEF U
<1>4. PICK u \in U : \A w \in U : u <= w
  BY <1>1, LeastElement
<1>5. PICK x \in T : u = n - x
  BY <1>3, <1>4
<1>6. ASSUME NEW y \in T PROVE y <= x
  <2>1. u <= n - y
    BY <1>2, <1>4
  <2>2. x \in 0 .. n /\ y \in 0 .. n
    OBVIOUS
  <2> QED
    BY <1>5, <2>1, <2>2
<1> QED
  BY <1>6

\* What holds of every element whenever it holds of those of smaller measure.
LEMMA MeasureInduction ==
    ASSUME NEW D, NEW measure \in [D -> Nat], NEW P,
           \A x \in D : (\A y \in D : measure[y] < measure[x] => y \in P) => x \in P
    PROVE  \A x \in D : x \in P
<1> DEFINE T == {measure[x] : x \in D \ P}
<1> SUFFICES ASSUME NEW z \in D, z \notin P
             PROVE  FALSE
  OBVIOUS
<1>1. T # {} /\ \A t \in T : t \in Nat
  OBVIOUS
<1>2. PICK m \in T : \A n \in T : m <= n
  BY <1>1, LeastElement
<1>3. PICK x \in D \ P : measure[x] = m
  BY <1>2
<1>4. ASSUME NEW y \in D, measure[y] < measure[x]
      PROVE  y \in P
  <2>1. y \notin P => m <= measure[y]
    BY <1>2
  <2>2. measure[y] \in Nat /\ measure[x] \in Nat
    BY <1>3
  <2> QED
    BY <1>3, <1>4, <2>1, <2>2
<1> QED
  BY <1>3, <1>4

\* A recursive definition on D with values in V, F[<<x, g>>] being the value at x
\* where g has the values at the elements of smaller measure.
RecursTo(D, V, measure, F) ==
    \A x \in D, g \in [D -> V], h \in [D -> V] :
        (\A y \in D : measure[y] < measure[x] => g[y] = h[y]) => F[<<x, g>>] = F[<<x, h>>]

Solves(f, D, V, F) == f \in [D -> V] /\ \A x \in D : f[x] = F[<<x, f>>]

\* A function that recurs to elements of smaller measure exists: one that
\* satisfies the equation for measures below n, for larger and larger n.
LEMMA RecursiveFunctionExists ==
    ASSUME NEW D, NEW V, NEW v, v \in V, NEW N, N \in Nat,
           NEW measure, measure \in [D -> 0 .. N],
           NEW F, F \in [D \X [D -> V] -> V], RecursTo(D, V, measure, F)
    PROVE  \E f : Solves(f, D, V, F)
<1> DEFINE Approximates(g, n) == \A x \in D : measure[x] < n => g[x] = F[<<x, g>>]
           T == {n \in Nat : ~ \E g \in [D -> V] : Approximates(g, n)}
<1>1. \A n \in Nat : n \notin T => \E g \in [D -> V] : Approximates(g, n)
  OBVIOUS
<1>2. \A n \in T : n \in Nat /\ \A g \in [D -> V] : ~Approximates(g, n)
  OBVIOUS
<1>3. \A x \in D : measure[x] \in Nat /\ measure[x] < N + 1
  OBVIOUS
<1> HIDE DEF T
<1>4. T = {}
  <2> SUFFICES ASSUME T # {} PROVE FALSE
    OBVIOUS
  <2>1. PICK n \in T : \A m \in T : n <= m
    BY <1>2, LeastElement
  <2>2. n # 0
    <3> DEFINE g == [x \in D |-> v]
    <3>1. g \in [D -> V]
      OBVIOUS
    <3>2. Approximates(g, 0)
      BY <1>3
    <3> QED
      BY <1>2, <3>1, <3>2
  <2> DEFINE m == n - 1
  <2>3. n \in Nat /\ m \in Nat /\ n = m + 1
    BY <1>2, <2>2
  <2> HIDE DEF m
  <2>4. m \notin T
    BY <2>1, <2>3
  <2>5. PICK g \in [D -> V] : Approximates(g, m)
    BY <1>1, <2>3, <2>4
  <2> DEFINE h == [x \in D |-> IF measure[x] = m THEN F[<<x, g>>] ELSE g[x]]
  <2>6. h \in [D -> V]
    OBVIOUS
  <2>7. \A x \in D : h[x] = IF measure[x] = m THEN F[<<x, g>>] ELSE g[x]
    OBVIOUS
  <2> HIDE DEF h
  <2>8. ASSUME NEW x \in D, measure[x] < n
        PROVE  h[x] = F[<<x, h>>]
    <3>1. measure[x] \in Nat /\ measure[x] <= m
      BY <1>3, <2>3, <2>8
    <3>2. ASSUME NEW y \in D, measure[y] < measure[x]
          PROVE  g[y] = h[y]
      <4>1. measure[y] \in Nat /\ measure[y] # m
        BY <1>3, <2>3, <3>1, <3>2
      <4> QED
        BY <2>7, <4>1
    <3>3. F[<<x, g>>] = F[<<x, h>>]
      BY <2>6, <3>2 DEF RecursTo
    <3>4. CASE measure[x] = m
      BY <2>7, <3>3, <3>4
    <3>5. CASE measure[x] < m
      <4>1. g[x] = F[<<x, g>>]
        BY <2>5, <3>5
      <4>2. measure[x] # m
        BY <2>3, <3>1, <3>5
      <4>3. h[x] = g[x]
        BY <2>7, <4>2
      <4> QED
        BY <3>3, <4>1, <4>3
    <3>6. measure[x] = m \/ measure[x] < m
      BY <2>3, <3>1
    <3> QED
      BY <3>4, <3>5, <3>6
  <2>9. Approximates(h, n)
    BY <2>8
  <2> QED
    BY <1>2, <2>6, <2>9
<1>5. N + 1 \in Nat /\ N + 1 \notin T
  BY <1>4
<1>6. PICK f \in [D -> V] : Approximates(f, N + 1)
  BY <1>1, <1>5
<1> QED
  BY <1>3, <1>6 DEF Solves

-----------------------------------------------------------------------------
\* A sequence of the elements of P, each once; none directly behind one that it
\* is before.
Arranges(s, P) ==
    /\ s \in Seq(P)
    /\ \A j, k \in 1 .. Len(s) : s[j] = s[k] => j = k
    /\ \A p \in P : \E k \in 1 .. Len(s) : s[k] = p

Respects(s, before) == \A k \in 1 .. Len(s) - 1 : <<s[k + 1], s[k]>> \notin before

LEMMA ArrangedParts ==
    ASSUME NEW s, NEW P, Arranges(s, P)
    PROVE  /\ Len(s) \in Nat /\ DOMAIN s = 1 .. Len(s)
           /\ \A k \in 1 .. Len(s) : s[k] \in P
<1>1. s \in Seq(P)
  BY DEF Arranges
<1>2. Len(s) \in Nat /\ DOMAIN s = 1 .. Len(s)
  BY <1>1
<1> QED
  BY <1>1, <1>2, ElementOfSeq

LEMMA EmptyArranges ==
    ASSUME NEW before
    PROVE  Arranges(<< >>, {}) /\ Respects(<< >>, before) /\ Len(<< >>) = 0
BY EmptySeq DEF Arranges, Respects

LEMMA SingleArranges ==
    ASSUME NEW x, NEW before
    PROVE  Arranges(<<x>>, {x}) /\ Respects(<<x>>, before) /\ Len(<<x>>) = 1 /\ <<x>>[1] = x
<1>1. <<x>> \in Seq({x}) /\ Len(<<x>>) = 1 /\ <<x>>[1] = x
  OBVIOUS
<1> QED
  BY <1>1 DEF Arranges, Respects

\* The parts of a concatenation.
LEMMA ConcatArranges ==
    ASSUME NEW a, NEW P, NEW b, NEW Q, P \cap Q = {}, Arranges(a, P), Arranges(b, Q)
    PROVE  /\ Arranges(a \o b, P \cup Q)
           /\ Len(a \o b) = Len(a) + Len(b)
           /\ \A k \in 1 .. Len(a) : (a \o b)[k] = a[k]
           /\ \A k \in 1 .. Len(b) : (a \o b)[Len(a) + k] = b[k]
<1>1. /\ Len(a) \in Nat /\ \A k \in 1 .. Len(a) : a[k] \in P
      /\ Len(b) \in Nat /\ \A k \in 1 .. Len(b) : b[k] \in Q
  BY ArrangedParts
<1>2. a \in Seq(P \cup Q) /\ b \in Seq(P \cup Q)
  BY DEF Arranges
<1> DEFINE c == a \o b
<1>3. /\ c \in Seq(P \cup Q) /\ Len(c) = Len(a) + Len(b)
      /\ \A i \in 1 .. Len(a) + Len(b) :
            c[i] = IF i <= Len(a) THEN a[i] ELSE b[i - Len(a)]
  BY <1>2, ConcatProperties
<1> HIDE DEF c
<1>4. \A k \in 1 .. Len(a) : c[k] = a[k]
  BY <1>1, <1>3
<1>5. ASSUME NEW k \in 1 .. Len(b) PROVE c[Len(a) + k] = b[k]
  <2>1. /\ Len(a) + k \in 1 .. Len(a) + Len(b) /\ ~(Len(a) + k <= Len(a))
        /\ Len(a) + k - Len(a) = k
    BY <1>1
  <2> QED
    BY <1>3, <2>1
<1>6. \A i \in 1 .. Len(c) : i \in 1 .. Len(a) \/ \E k \in 1 .. Len(b) : i = Len(a) + k
  <2>1. ASSUME NEW i \in 1 .. Len(c), i > Len(a)
        PROVE  i - Len(a) \in 1 .. Len(b) /\ i = Len(a) + (i - Len(a))
    BY <1>1, <1>3, <2>1
  <2> QED
    BY <1>1, <1>3, <2>1
<1>7. ASSUME NEW i \in 1 .. Len(c), NEW j \in 1 .. Len(c), c[i] = c[j]
      PROVE  i = j
  <2>1. CASE i \in 1 .. Len(a) /\ j \in 1 .. Len(a)
    BY <1>4, <1>7, <2>1 DEF Arranges
  <2>2. ASSUME NEW k \in 1 .. Len(b), i = Len(a) + k, j \in 1 .. Len(a)
        PROVE  FALSE
    BY <1>1, <1>4, <1>5, <1>7, <2>2
  <2>3. ASSUME NEW k \in 1 .. Len(b), j = Len(a) + k, i \in 1 .. Len(a)
        PROVE  FALSE
    BY <1>1, <1>4, <1>5, <1>7, <2>3
  <2>4. ASSUME NEW k \in 1 .. Len(b), i = Len(a) + k, NEW l \in 1 .. Len(b), j = Len(a) + l
        PROVE  i = j
    <3>1. b[k] = b[l]
      BY <1>5, <1>7, <2>4
    <3> QED
      BY <2>4, <3>1 DEF Arranges
  <2> QED
    BY <1>6, <2>1, <2>2, <2>3, <2>4
<1>8. ASSUME NEW p \in P \cup Q PROVE \E k \in 1 .. Len(c) : c[k] = p
  <2>1. CASE p \in P
    <3>1. PICK k \in 1 .. Len(a) : a[k] = p
      BY <2>1 DEF Arranges
    <3> QED
      BY <1>1, <1>3, <1>4, <3>1
  <2>2. CASE p \in Q
    <3>1. PICK k \in 1 .. Len(b) : b[k] = p
      BY <2>2 DEF Arranges
    <3>2. Len(a) + k \in 1 .. Len(c)
      BY <1>1, <1>3
    <3> QED
      BY <1>5, <3>1, <3>2
  <2> QED
    BY <2>1, <2>2
<1> QED
  BY <1>3, <1>4, <1>5, <1>7, <1>8 DEF Arranges, c

\* Only where two parts meet can a concatenation go wrong.
LEMMA ConcatRespects ==
    ASSUME NEW a, NEW P, NEW b, NEW Q, NEW before,
           P \cap Q = {}, Arranges(a, P), Arranges(b, Q), Respects(a, before), Respects(b, before),
           Len(a) > 0 /\ Len(b) > 0 => <<b[1], a[Len(a)]>> \notin before
    PROVE  Respects(a \o b, before)
<1>1. Len(a) \in Nat /\ Len(b) \in Nat
  BY ArrangedParts
<1> DEFINE c == a \o b
<1>2. /\ Len(c) = Len(a) + Len(b)
      /\ \A k \in 1 .. Len(a) : c[k] = a[k]
      /\ \A k \in 1 .. Len(b) : c[Len(a) + k] = b[k]
  BY ConcatArranges
<1> HIDE DEF c
<1>3. ASSUME NEW k \in 1 .. Len(c) - 1
      PROVE  <<c[k + 1], c[k]>> \notin before
  <2>1. CASE k < Len(a)
    <3>1. k \in 1 .. Len(a) - 1 /\ k \in 1 .. Len(a) /\ k + 1 \in 1 .. Len(a)
      BY <1>1, <1>2, <2>1
    <3> QED
      BY <1>2, <3>1 DEF Respects
  <2>2. CASE k = Len(a)
    <3>1. k \in 1 .. Len(a) /\ 1 \in 1 .. Len(b) /\ Len(a) > 0 /\ Len(b) > 0
      BY <1>1, <1>2, <2>2
    <3>2. c[k] = a[Len(a)] /\ c[k + 1] = b[1]
      BY <1>2, <2>2, <3>1
    <3> QED
      BY <3>1, <3>2
  <2>3. CASE k > Len(a)
    <3> DEFINE l == k - Len(a)
    <3>1. l \in 1 .. Len(b) - 1 /\ l \in 1 .. Len(b) /\ l + 1 \in 1 .. Len(b)
          /\ k = Len(a) + l /\ k + 1 = Len(a) + (l + 1)
      BY <1>1, <1>2, <2>3
    <3> HIDE DEF l
    <3>2. c[k] = b[l] /\ c[k + 1] = b[l + 1]
      BY <1>2, <3>1
    <3> QED
      BY <3>1, <3>2 DEF Respects
  <2> QED
    BY <1>1, <1>2, <2>1, <2>2, <2>3
<1> QED
  BY <1>3 DEF Respects, c

\* A part of an arrangement.
LEMMA SubSeqArranges ==
    ASSUME NEW s, NEW P, NEW before, Arranges(s, P), Respects(s, before),
           NEW m \in Nat, NEW n \in Nat, 1 <= m, m <= n + 1, n <= Len(s)
    PROVE  /\ Arranges(SubSeq(s, m, n), {s[k] : k \in m .. n})
           /\ Respects(SubSeq(s, m, n), before)
           /\ Len(SubSeq(s, m, n)) = n - m + 1
           /\ \A k \in 1 .. n - m + 1 : SubSeq(s, m, n)[k] = s[m + k - 1]
<1> DEFINE t == SubSeq(s, m, n)
           l == n - m + 1
<1>1. Len(s) \in Nat /\ \A k \in 1 .. Len(s) : s[k] \in P
  BY ArrangedParts
<1>2. l \in Nat /\ \A k \in 1 .. l : m + k - 1 \in m .. n /\ m + k - 1 \in 1 .. Len(s)
  BY <1>1
<1>3. /\ Len(t) = l /\ t \in [1 .. l -> {s[k] : k \in m .. n}]
      /\ \A k \in 1 .. l : t[k] = s[m + k - 1]
  <2>1. s \in Seq(P)
    BY DEF Arranges
  <2>2. /\ m \in 1 .. Len(s) + 1 /\ n \in m - 1 .. Len(s)
    BY <1>1
  <2>3. /\ t \in Seq(P) /\ Len(t) = l
        /\ \A k \in 1 .. l : t[k] = s[m + k - 1]
    BY <2>1, <2>2, SubSeqProperties
  <2> HIDE DEF t
  <2>4. t \in [1 .. l -> P]
    BY <2>3
  <2>5. \A k \in 1 .. l : t[k] \in {s[i] : i \in m .. n}
    BY <1>2, <2>3
  <2> QED
    BY <2>3, <2>4, <2>5
<1> HIDE DEF t
<1>4. t \in Seq({s[k] : k \in m .. n})
  <2> DEFINE S == {s[k] : k \in m .. n}
  <2>1. t \in [1 .. l -> S] /\ l \in Nat
    BY <1>2, <1>3
  <2> HIDE DEF S, l
  <2>2. Seq(S) = UNION {[1 .. i -> S] : i \in Nat}
    BY SeqDef
  <2>3. t \in Seq(S)
    BY <2>1, <2>2
  <2> QED
    BY <2>3 DEF S
<1>5. ASSUME NEW i \in 1 .. Len(t), NEW j \in 1 .. Len(t), t[i] = t[j]
      PROVE  i = j
  <2>1. i \in 1 .. l /\ j \in 1 .. l
    BY <1>3
  <2>2. s[m + i - 1] = s[m + j - 1]
    BY <1>3, <1>5, <2>1
  <2>3. m + i - 1 = m + j - 1
    BY <1>2, <2>1, <2>2 DEF Arranges
  <2> QED
    BY <2>1, <2>3
<1>6. ASSUME NEW k \in m .. n PROVE \E i \in 1 .. Len(t) : t[i] = s[k]
  <2>1. k - m + 1 \in 1 .. l /\ m + (k - m + 1) - 1 = k
    OBVIOUS
  <2> QED
    BY <1>3, <2>1
<1>7. ASSUME NEW k \in 1 .. Len(t) - 1 PROVE <<t[k + 1], t[k]>> \notin before
  <2>1. k \in 1 .. l /\ k + 1 \in 1 .. l
    BY <1>2, <1>3
  <2>2. m + (k + 1) - 1 = (m + k - 1) + 1 /\ m + k - 1 \in 1 .. Len(s) - 1
    BY <1>1, <1>2, <2>1
  <2> QED
    BY <1>3, <2>1, <2>2 DEF Respects
<1>8. Arranges(t, {s[k] : k \in m .. n})
  <2> DEFINE S == {s[k] : k \in m .. n}
  <2>1. \A p \in S : \E i \in 1 .. Len(t) : t[i] = p
    BY <1>6
  <2>2. t \in Seq(S)
    BY <1>4
  <2> HIDE DEF S
  <2>3. Arranges(t, S)
    BY <1>5, <2>1, <2>2 DEF Arranges
  <2> QED
    BY <2>3 DEF S
<1>9. Respects(t, before)
  BY <1>7 DEF Respects
<1> QED
  BY <1>3, <1>8, <1>9 DEF t

\* An arrangement cut in two.
IsCut(s, P, before, n, A, B) ==
    LET front == SubSeq(s, 1, n)
        back == SubSeq(s, n + 1, Len(s))
    IN  /\ A \cap B = {} /\ A \cup B = P
        /\ Arranges(front, A) /\ Respects(front, before) /\ Len(front) = n
        /\ \A k \in 1 .. n : front[k] = s[k]
        /\ Arranges(back, B) /\ Respects(back, before) /\ Len(back) = Len(s) - n
        /\ \A k \in 1 .. Len(s) - n : back[k] = s[n + k]

LEMMA CutArranges ==
    ASSUME NEW s, NEW P, NEW before, NEW n, Arranges(s, P), Respects(s, before), n \in 0 .. Len(s)
    PROVE  \E A, B : IsCut(s, P, before, n, A, B)
<1> DEFINE A == {s[k] : k \in 1 .. n}
           B == {s[k] : k \in n + 1 .. Len(s)}
<1>1. /\ Len(s) \in Nat /\ n \in Nat /\ n <= Len(s)
      /\ \A k \in 1 .. Len(s) : s[k] \in P
  BY ArrangedParts
<1>2. /\ \A j, k \in 1 .. Len(s) : s[j] = s[k] => j = k
      /\ \A p \in P : \E k \in 1 .. Len(s) : s[k] = p
  BY DEF Arranges
<1>3. A \cap B = {}
  <2> SUFFICES ASSUME NEW j \in 1 .. n, NEW k \in n + 1 .. Len(s), s[j] = s[k]
               PROVE  FALSE
    OBVIOUS
  <2>1. j \in 1 .. Len(s) /\ k \in 1 .. Len(s) /\ j # k
    BY <1>1
  <2> QED
    BY <1>2, <2>1
<1>4. A \cup B = P
  <2>1. ASSUME NEW p \in P PROVE p \in A \cup B
    <3>1. PICK k \in 1 .. Len(s) : s[k] = p
      BY <1>2
    <3>2. k \in 1 .. n \/ k \in n + 1 .. Len(s)
      BY <1>1
    <3> QED
      BY <3>1, <3>2
  <2>2. ASSUME NEW k \in 1 .. n PROVE s[k] \in P
    BY <1>1
  <2>3. ASSUME NEW k \in n + 1 .. Len(s) PROVE s[k] \in P
    <3>1. k \in 1 .. Len(s)
      BY <1>1
    <3> QED
      BY <1>1, <3>1
  <2> QED
    BY <2>1, <2>2, <2>3
<1>5. /\ Arranges(SubSeq(s, 1, n), A) /\ Respects(SubSeq(s, 1, n), before)
      /\ Len(SubSeq(s, 1, n)) = n
      /\ \A k \in 1 .. n : SubSeq(s, 1, n)[k] = s[k]
  <2>1. 1 <= n + 1 /\ n - 1 + 1 = n /\ \A k \in 1 .. n : 1 + k - 1 = k
    BY <1>1
  <2>2. /\ Arranges(SubSeq(s, 1, n), A) /\ Respects(SubSeq(s, 1, n), before)
        /\ Len(SubSeq(s, 1, n)) = n - 1 + 1
        /\ \A k \in 1 .. n - 1 + 1 : SubSeq(s, 1, n)[k] = s[1 + k - 1]
    BY <1>1, <2>1, SubSeqArranges
  <2> QED
    BY <2>1, <2>2
<1>6. /\ Arranges(SubSeq(s, n + 1, Len(s)), B) /\ Respects(SubSeq(s, n + 1, Len(s)), before)
      /\ Len(SubSeq(s, n + 1, Len(s))) = Len(s) - n
      /\ \A k \in 1 .. Len(s) - n : SubSeq(s, n + 1, Len(s))[k] = s[n + k]
  <2> DEFINE m == n + 1
  <2>1. /\ m \in Nat /\ 1 <= m /\ m <= Len(s) + 1 /\ Len(s) - m + 1 = Len(s) - n
        /\ \A k \in 1 .. Len(s) - n : m + k - 1 = n + k
    BY <1>1
  <2> HIDE DEF m
  <2>2. /\ Arranges(SubSeq(s, m, Len(s)), {s[k] : k \in m .. Len(s)})
        /\ Respects(SubSeq(s, m, Len(s)), before)
        /\ Len(SubSeq(s, m, Len(s))) = Len(s) - m + 1
        /\ \A k \in 1 .. Len(s) - m + 1 : SubSeq(s, m, Len(s))[k] = s[m + k - 1]
    BY <1>1, <2>1, SubSeqArranges
  <2>3. /\ Len(SubSeq(s, m, Len(s))) = Len(s) - n
        /\ \A k \in 1 .. Len(s) - n : SubSeq(s, m, Len(s))[k] = s[n + k]
    BY <2>1, <2>2
  <2> QED
    BY <2>2, <2>3 DEF m
<1> HIDE DEF A, B
<1>7. IsCut(s, P, before, n, A, B)
  BY <1>3, <1>4, <1>5, <1>6 DEF IsCut
<1> QED
  BY <1>7

-----------------------------------------------------------------------------
\* A comparator never orders two elements both ways.
Asymmetric(before) == \A x, y : <<x, y>> \in before => <<y, x>> \notin before

\* The element is put behind one that it is not before and in front of one that
\* it is before.
LEMMA InsertionPlaceFits ==
    ASSUME NEW P, NEW sorted \in Seq(P), NEW before, NEW x
    PROVE  LET k == InsertionPlace(sorted, x, before)
           IN  /\ k \in 0 .. Len(sorted)
               /\ k > 0 => <<x, sorted[k]>> \notin before
               /\ k < Len(sorted) => <<x, sorted[k + 1]>> \in before
<1> DEFINE k == InsertionPlace(sorted, x, before)
           notAfter == {l \in DOMAIN sorted : <<x, sorted[l]>> \notin before}
<1>1. Len(sorted) \in Nat /\ DOMAIN sorted = 1 .. Len(sorted)
  BY LenProperties
<1>2. CASE sorted = << >>
  <2>1. k = 0
    BY <1>2 DEF InsertionPlace
  <2>2. Len(sorted) = 0
    BY <1>2, EmptySeq
  <2> QED
    BY <2>1, <2>2
<1>3. CASE sorted # << >> /\ <<x, sorted[1]>> \in before
  <2>1. k = 0
    BY <1>3 DEF InsertionPlace
  <2> QED
    BY <1>1, <1>3, <2>1
<1>4. CASE sorted # << >> /\ <<x, sorted[1]>> \notin before
  <2>1. k = CHOOSE l \in notAfter : \A j \in notAfter : j <= l
    BY <1>4 DEF InsertionPlace
  <2>2. Len(sorted) > 0
    BY <1>1, <1>4, EmptySeq
  <2>3. /\ \A l \in notAfter : l \in 1 .. Len(sorted) /\ <<x, sorted[l]>> \notin before
        /\ \A l \in 1 .. Len(sorted) : <<x, sorted[l]>> \notin before => l \in notAfter
        /\ 1 \in notAfter
    BY <1>1, <1>4, <2>2
  <2> HIDE DEF notAfter
  <2>4. \E l \in notAfter : \A j \in notAfter : j <= l
    <3>1. \A l \in notAfter : l \in 0 .. Len(sorted)
      <4>1. \A l \in 1 .. Len(sorted) : l \in 0 .. Len(sorted)
        OBVIOUS
      <4> QED
        BY <2>3, <4>1
    <3> QED
      BY <1>1, <2>3, <3>1, GreatestElement
  <2>5. k \in notAfter /\ \A j \in notAfter : j <= k
    BY <2>1, <2>4
  <2> HIDE DEF k
  <2>6. k \in 1 .. Len(sorted) /\ <<x, sorted[k]>> \notin before
    BY <2>3, <2>5
  <2>7. ASSUME k < Len(sorted) PROVE <<x, sorted[k + 1]>> \in before
    <3>1. k + 1 \in 1 .. Len(sorted) /\ ~(k + 1 <= k)
      BY <1>1, <2>6, <2>7
    <3> QED
      BY <2>3, <2>5, <3>1
  <2>8. /\ k \in 0 .. Len(sorted) /\ (k > 0 => <<x, sorted[k]>> \notin before)
        /\ k < Len(sorted) => <<x, sorted[k + 1]>> \in before
    BY <1>1, <2>6, <2>7
  <2> QED
    BY <2>8 DEF k
<1> QED
  BY <1>2, <1>3, <1>4

LEMMA InsertedArranges ==
    ASSUME NEW sorted, NEW P, NEW before, NEW x, x \notin P,
           Arranges(sorted, P), Respects(sorted, before), Asymmetric(before)
    PROVE  /\ Arranges(Inserted(sorted, x, before), P \cup {x})
           /\ Respects(Inserted(sorted, x, before), before)
<1> DEFINE n == Len(sorted)
           k == InsertionPlace(sorted, x, before)
           front == SubSeq(sorted, 1, k)
           back == SubSeq(sorted, k + 1, n)
<1>1. n \in Nat
  BY ArrangedParts
<1>2. /\ k \in 0 .. n
      /\ k > 0 => <<x, sorted[k]>> \notin before
      /\ k < n => <<sorted[k + 1], x>> \notin before
  BY InsertionPlaceFits DEF Asymmetric, Arranges
<1>3. Inserted(sorted, x, before) = front \o (<<x>> \o back)
  BY DEF Inserted
<1> HIDE DEF k
<1> PICK A, B : IsCut(sorted, P, before, k, A, B)
  BY <1>2, CutArranges
<1>4. /\ A \cap B = {} /\ A \cup B = P
      /\ Arranges(front, A) /\ Respects(front, before) /\ Len(front) = k
      /\ \A l \in 1 .. k : front[l] = sorted[l]
      /\ Arranges(back, B) /\ Respects(back, before) /\ Len(back) = n - k
      /\ \A l \in 1 .. n - k : back[l] = sorted[k + l]
  BY DEF IsCut
<1> HIDE DEF n, front, back
<1> DEFINE rest == <<x>> \o back
<1>5. /\ Arranges(<<x>>, {x}) /\ Respects(<<x>>, before)
      /\ Len(<<x>>) = 1 /\ <<x>>[1] = x
  BY SingleArranges
<1>6. {x} \cap B = {} /\ A \cap ({x} \cup B) = {} /\ A \cup ({x} \cup B) = P \cup {x}
  BY <1>4
<1>7. /\ Arranges(rest, {x} \cup B) /\ Len(rest) = 1 + (n - k)
      /\ \A l \in 1 .. 1 : rest[l] = <<x>>[l]
  BY <1>4, <1>5, <1>6, ConcatArranges
<1>8. Respects(rest, before)
  <2>1. Len(back) > 0 => <<back[1], <<x>>[1]>> \notin before
    <3>1. ASSUME Len(back) > 0 PROVE k < n /\ 1 \in 1 .. n - k
      BY <1>1, <1>2, <1>4, <3>1
    <3> QED
      BY <1>2, <1>4, <1>5, <3>1
  <2> QED
    BY <1>4, <1>5, <1>6, <2>1, ConcatRespects
<1>9. rest[1] = x /\ Len(rest) > 0
  BY <1>1, <1>2, <1>5, <1>7
<1> HIDE DEF rest
<1>10. Arranges(front \o rest, P \cup {x})
  BY <1>4, <1>6, <1>7, ConcatArranges
<1>11. Respects(front \o rest, before)
  <2>1. Len(front) > 0 => <<rest[1], front[Len(front)]>> \notin before
    <3>1. ASSUME Len(front) > 0 PROVE k > 0 /\ k \in 1 .. k
      BY <1>2, <1>4, <3>1
    <3> QED
      BY <1>2, <1>4, <1>9, <3>1
  <2> QED
    BY <1>4, <1>6, <1>7, <1>8, <2>1, ConcatRespects
<1> QED
  BY <1>3, <1>10, <1>11 DEF rest

LEMMA InsertedType ==
    ASSUME NEW P, NEW sorted \in Seq(P), NEW x \in P, NEW before
    PROVE  Inserted(sorted, x, before) \in Seq(P)
<1> DEFINE n == Len(sorted)
           k == InsertionPlace(sorted, x, before)
<1>1. n \in Nat /\ k \in 0 .. n
  BY InsertionPlaceFits, LenProperties
<1>2. Inserted(sorted, x, before) = SubSeq(sorted, 1, k) \o (<<x>> \o SubSeq(sorted, k + 1, n))
  BY DEF Inserted
<1> HIDE DEF n, k
<1>3. SubSeq(sorted, 1, k) \in Seq(P) /\ SubSeq(sorted, k + 1, n) \in Seq(P)
  <2>1. \A i \in 1 .. n : sorted[i] \in P
    BY ElementOfSeq DEF n
  <2>2. \A i \in 1 .. k : sorted[i] \in P
    BY <1>1, <2>1
  <2>3. \A i \in k + 1 .. n : sorted[i] \in P
    BY <1>1, <2>1
  <2> QED
    BY <1>1, <2>2, <2>3, SubSeqProperties
<1>4. <<x>> \in Seq(P)
  OBVIOUS
<1> QED
  BY <1>2, <1>3, <1>4, ConcatProperties

LEMMA InsertionSortArranges ==
    ASSUME NEW s, NEW P, NEW before, Arranges(s, P), Asymmetric(before)
    PROVE  /\ Arranges(InsertionSort(s, before), P)
           /\ Respects(InsertionSort(s, before), before)
<1> DEFINE n == Len(s)
           D == 0 .. n
           V == Seq(P)
           sorted == CHOOSE f : f = [k \in D |-> IF k = 0 THEN << >>
                                                 ELSE Inserted(f[k - 1], s[k], before)]
<1>1. n \in Nat /\ \A k \in 1 .. n : s[k] \in P
  BY ArrangedParts
<1>2. InsertionSort(s, before) = sorted[n]
  BY DEF InsertionSort
<1>3. \E f : f = [k \in D |-> IF k = 0 THEN << >> ELSE Inserted(f[k - 1], s[k], before)]
  <2> DEFINE F == [p \in D \X [D -> V] |->
                      IF p[1] = 0 THEN << >> ELSE Inserted(p[2][p[1] - 1], s[p[1]], before)]
             measure == [k \in D |-> k]
  <2>1. ASSUME NEW k \in D, NEW g \in [D -> V]
        PROVE  (IF k = 0 THEN << >> ELSE Inserted(g[k - 1], s[k], before)) \in V
    <3>1. CASE k = 0
      BY <3>1, EmptySeq
    <3>2. CASE k # 0
      <4>1. k - 1 \in D /\ k \in 1 .. n
        BY <1>1, <3>2
      <4>2. g[k - 1] \in V /\ s[k] \in P
        BY <1>1, <4>1
      <4> HIDE DEF D
      <4>3. Inserted(g[k - 1], s[k], before) \in Seq(P)
        BY <4>2, InsertedType
      <4> QED
        BY <3>2, <4>3
    <3> QED
      BY <3>1, <3>2
  <2>2. F \in [D \X [D -> V] -> V]
    BY <2>1
  <2>3. << >> \in V
    BY EmptySeq
  <2>4. \A k \in D, g \in [D -> V] :
           F[<<k, g>>] = IF k = 0 THEN << >> ELSE Inserted(g[k - 1], s[k], before)
    OBVIOUS
  <2> HIDE DEF F
  <2>5. measure \in [D -> 0 .. n] /\ \A k \in D : measure[k] = k
    OBVIOUS
  <2> HIDE DEF measure, V
  <2>6. ASSUME NEW k \in D, NEW g \in [D -> V], NEW h \in [D -> V],
               \A j \in D : measure[j] < measure[k] => g[j] = h[j]
        PROVE  F[<<k, g>>] = F[<<k, h>>]
    <3>1. k # 0 => k - 1 \in D /\ k - 1 < k
      BY <1>1
    <3>2. k # 0 => g[k - 1] = h[k - 1]
      BY <2>5, <2>6, <3>1
    <3> QED
      BY <2>4, <3>2
  <2>7. RecursTo(D, V, measure, F)
    BY <2>6 DEF RecursTo
  <2> HIDE DEF D, n
  <2>8. PICK f : Solves(f, D, V, F)
    BY <1>1, <2>2, <2>3, <2>5, <2>7, RecursiveFunctionExists
  <2>9. f \in [D -> V] /\ \A k \in D : f[k] = IF k = 0 THEN << >> ELSE Inserted(f[k - 1], s[k], before)
    BY <2>4, <2>8 DEF Solves
  <2> QED
    BY <2>9
<1>4. \A k \in D : sorted[k] = IF k = 0 THEN << >> ELSE Inserted(sorted[k - 1], s[k], before)
  <2>1. sorted = [k \in D |-> IF k = 0 THEN << >> ELSE Inserted(sorted[k - 1], s[k], before)]
    BY <1>3
  <2> HIDE DEF sorted
  <2> QED
    BY <2>1
<1> HIDE DEF sorted
<1> DEFINE Done == {k \in D : /\ Arranges(sorted[k], {s[i] : i \in 1 .. k})
                              /\ Respects(sorted[k], before)}
<1>5. \A k \in D : k \in Done
  <2> DEFINE measure == [k \in D |-> k]
  <2>1. measure \in [D -> Nat] /\ \A k \in D : measure[k] = k
    BY <1>1
  <2> HIDE DEF measure
  <2>2. ASSUME NEW k \in D, \A j \in D : measure[j] < measure[k] => j \in Done
        PROVE  k \in Done
    <3>1. CASE k = 0
      <4>1. sorted[k] = << >> /\ {s[i] : i \in 1 .. k} = {}
        BY <1>4, <3>1
      <4> QED
        BY <4>1, EmptyArranges
    <3>2. CASE k # 0
      <4> DEFINE j == k - 1
                 S == {s[i] : i \in 1 .. j}
      <4>1. j \in D /\ j < k /\ k \in 1 .. n
        BY <1>1, <3>2
      <4>2. Arranges(sorted[j], S) /\ Respects(sorted[j], before)
        BY <2>1, <2>2, <4>1
      <4>3. s[k] \notin S
        <5> SUFFICES ASSUME NEW i \in 1 .. j, s[i] = s[k]
                     PROVE  FALSE
          OBVIOUS
        <5>1. i \in 1 .. n /\ i # k
          BY <1>1, <4>1
        <5> QED
          BY <4>1, <5>1 DEF Arranges
      <4>4. {s[i] : i \in 1 .. k} = S \cup {s[k]}
        <5>1. \A i \in 1 .. k : i \in 1 .. j \/ i = k
          BY <1>1, <4>1
        <5>2. \A i \in 1 .. j : i \in 1 .. k
          BY <1>1, <4>1
        <5>3. k \in 1 .. k
          BY <4>1
        <5> QED
          BY <5>1, <5>2, <5>3
      <4>5. sorted[k] = Inserted(sorted[j], s[k], before)
        BY <1>4, <3>2
      <4> HIDE DEF S
      <4>6. Arranges(sorted[k], S \cup {s[k]}) /\ Respects(sorted[k], before)
        BY <4>2, <4>3, <4>5, InsertedArranges
      <4> QED
        BY <4>4, <4>6
    <3> QED
      BY <3>1, <3>2
  <2> HIDE DEF Done, D
  <2> QED
    BY <2>1, <2>2, MeasureInduction
<1>6. {s[i] : i \in 1 .. n} = P
  BY <1>1 DEF Arranges
<1>7. n \in D
  BY <1>1
<1> QED
  BY <1>2, <1>5, <1>6, <1>7

-----------------------------------------------------------------------------
LEMMA PrependArranges ==
    ASSUME NEW r, NEW S, NEW before, NEW x, x \notin S, Arranges(r, S), Respects(r, before),
           Len(r) > 0 => <<r[1], x>> \notin before
    PROVE  /\ Arranges(<<x>> \o r, {x} \cup S) /\ Respects(<<x>> \o r, before)
           /\ (<<x>> \o r)[1] = x
<1>1. /\ Arranges(<<x>>, {x}) /\ Respects(<<x>>, before)
      /\ Len(<<x>>) = 1 /\ <<x>>[1] = x
  BY SingleArranges
<1>2. {x} \cap S = {} /\ 1 \in 1 .. 1
  OBVIOUS
<1>3. /\ Arranges(<<x>> \o r, {x} \cup S)
      /\ \A k \in 1 .. Len(<<x>>) : (<<x>> \o r)[k] = <<x>>[k]
  BY <1>1, <1>2, ConcatArranges
<1>4. Respects(<<x>> \o r, before)
  BY <1>1, <1>2, ConcatRespects
<1> QED
  BY <1>1, <1>2, <1>3, <1>4

LEMMA AppendArranges ==
    ASSUME NEW r, NEW S, NEW before, NEW x, x \notin S, Arranges(r, S), Respects(r, before),
           Len(r) > 0 => <<x, r[Len(r)]>> \notin before
    PROVE  LET c == r \o <<x>>
           IN  /\ Arranges(c, S \cup {x}) /\ Respects(c, before)
               /\ c[Len(c)] = x
<1>1. /\ Arranges(<<x>>, {x}) /\ Respects(<<x>>, before)
      /\ Len(<<x>>) = 1 /\ <<x>>[1] = x
  BY SingleArranges
<1>2. S \cap {x} = {} /\ 1 \in 1 .. 1
  OBVIOUS
<1>3. /\ Arranges(r \o <<x>>, S \cup {x}) /\ Len(r \o <<x>>) = Len(r) + 1
      /\ \A k \in 1 .. Len(<<x>>) : (r \o <<x>>)[Len(r) + k] = <<x>>[k]
  BY <1>1, <1>2, ConcatArranges
<1>4. Respects(r \o <<x>>, before)
  BY <1>1, <1>2, ConcatRespects
<1> QED
  BY <1>1, <1>2, <1>3, <1>4

\* The elements from a place on, and those up to a place.
From(s, i) == {s[k] : k \in i .. Len(s)}
UpTo(s, i) == {s[k] : k \in 1 .. i}

LEMMA FromSplits ==
    ASSUME NEW s, NEW P, Arranges(s, P), NEW i, i \in 1 .. Len(s)
    PROVE  /\ From(s, i) = {s[i]} \cup From(s, i + 1)
           /\ s[i] \notin From(s, i + 1)
           /\ s[i] \in P /\ From(s, i) \subseteq P /\ From(s, i + 1) \subseteq P
<1>1. Len(s) \in Nat /\ i \in Nat /\ \A k \in 1 .. Len(s) : s[k] \in P
  BY ArrangedParts
<1>2. \A k \in i .. Len(s) : k = i \/ k \in i + 1 .. Len(s)
  BY <1>1
<1>3. \A k \in i + 1 .. Len(s) : k \in i .. Len(s) /\ k \in 1 .. Len(s) /\ k # i
  BY <1>1
<1>4. i \in i .. Len(s) /\ i \in 1 .. Len(s)
  BY <1>1
<1>5. From(s, i) = {s[i]} \cup From(s, i + 1)
  BY <1>2, <1>3, <1>4 DEF From
<1>6. ASSUME NEW k \in i + 1 .. Len(s), s[k] = s[i] PROVE FALSE
  BY <1>3, <1>4, <1>6 DEF Arranges
<1>7. s[i] \in P /\ From(s, i + 1) \subseteq P
  BY <1>1, <1>3, <1>4 DEF From
<1>8. s[i] \notin From(s, i + 1)
  BY <1>6 DEF From
<1> QED
  BY <1>5, <1>7, <1>8

LEMMA UpToSplits ==
    ASSUME NEW s, NEW P, Arranges(s, P), NEW i, i \in 1 .. Len(s)
    PROVE  /\ UpTo(s, i) = UpTo(s, i - 1) \cup {s[i]}
           /\ s[i] \notin UpTo(s, i - 1)
           /\ s[i] \in P /\ UpTo(s, i) \subseteq P /\ UpTo(s, i - 1) \subseteq P
<1>1. Len(s) \in Nat /\ i \in Nat /\ \A k \in 1 .. Len(s) : s[k] \in P
  BY ArrangedParts
<1>2. \A k \in 1 .. i : k = i \/ k \in 1 .. i - 1
  BY <1>1
<1>3. \A k \in 1 .. i - 1 : k \in 1 .. i /\ k \in 1 .. Len(s) /\ k # i
  BY <1>1
<1>4. i \in 1 .. i /\ i \in 1 .. Len(s)
  BY <1>1
<1>5. UpTo(s, i) = UpTo(s, i - 1) \cup {s[i]}
  BY <1>2, <1>3, <1>4 DEF UpTo
<1>6. ASSUME NEW k \in 1 .. i - 1, s[k] = s[i] PROVE FALSE
  BY <1>3, <1>4, <1>6 DEF Arranges
<1>7. s[i] \in P /\ UpTo(s, i - 1) \subseteq P
  BY <1>1, <1>3, <1>4 DEF UpTo
<1>8. s[i] \notin UpTo(s, i - 1)
  BY <1>6 DEF UpTo
<1> QED
  BY <1>5, <1>7, <1>8

LEMMA WholeSequence ==
    ASSUME NEW s, NEW P, Arranges(s, P)
    PROVE  From(s, 1) = P /\ UpTo(s, Len(s)) = P
<1>1. \A k \in 1 .. Len(s) : s[k] \in P
  BY ArrangedParts
<1>2. \A x \in P : \E k \in 1 .. Len(s) : s[k] = x
  BY DEF Arranges
<1>3. {s[k] : k \in 1 .. Len(s)} = P
  BY <1>1, <1>2
<1> QED
  BY <1>3 DEF From, UpTo

LEMMA BackArranges ==
    ASSUME NEW s, NEW P, NEW before, Arranges(s, P), Respects(s, before),
           NEW i, i \in 1 .. Len(s) + 1
    PROVE  LET t == SubSeq(s, i, Len(s))
           IN  /\ Arranges(t, From(s, i)) /\ Respects(t, before) /\ Len(t) = Len(s) - i + 1
               /\ Len(t) > 0 => t[1] = s[i]
               /\ From(s, i) \subseteq P
<1> DEFINE n == Len(s)
           t == SubSeq(s, i, n)
<1>1. /\ i \in Nat /\ n \in Nat /\ 1 <= i /\ i <= n + 1 /\ n <= Len(s)
      /\ \A k \in 1 .. Len(s) : s[k] \in P
  BY ArrangedParts
<1>2. /\ Arranges(t, {s[k] : k \in i .. n}) /\ Respects(t, before) /\ Len(t) = n - i + 1
      /\ \A k \in 1 .. n - i + 1 : t[k] = s[i + k - 1]
  BY <1>1, SubSeqArranges
<1> HIDE DEF t
<1>3. Len(t) > 0 => t[1] = s[i]
  <2>1. Len(t) > 0 => 1 \in 1 .. n - i + 1 /\ i + 1 - 1 = i
    BY <1>1, <1>2
  <2> QED
    BY <1>2, <2>1
<1>4. From(s, i) \subseteq P
  BY <1>1 DEF From
<1>5. Arranges(t, From(s, i))
  BY <1>2 DEF From
<1> QED
  BY <1>2, <1>3, <1>4, <1>5 DEF t

LEMMA FrontArranges ==
    ASSUME NEW s, NEW P, NEW before, Arranges(s, P), Respects(s, before), NEW i, i \in 0 .. Len(s)
    PROVE  LET t == SubSeq(s, 1, i)
           IN  /\ Arranges(t, UpTo(s, i)) /\ Respects(t, before) /\ Len(t) = i
               /\ Len(t) > 0 => t[Len(t)] = s[i]
               /\ UpTo(s, i) \subseteq P
<1> DEFINE t == SubSeq(s, 1, i)
<1>1. /\ i \in Nat /\ Len(s) \in Nat /\ 1 <= i + 1 /\ i <= Len(s)
      /\ \A k \in 1 .. Len(s) : s[k] \in P
  BY ArrangedParts
<1>2. /\ Arranges(t, {s[k] : k \in 1 .. i}) /\ Respects(t, before) /\ Len(t) = i - 1 + 1
      /\ \A k \in 1 .. i - 1 + 1 : t[k] = s[1 + k - 1]
  BY <1>1, SubSeqArranges
<1> HIDE DEF t
<1>3. Len(t) = i /\ (Len(t) > 0 => t[Len(t)] = s[i])
  <2>1. /\ i - 1 + 1 = i /\ 1 + i - 1 = i
        /\ i > 0 => i \in 1 .. i - 1 + 1
    BY <1>1
  <2> QED
    BY <1>2, <2>1
<1>4. UpTo(s, i) \subseteq P
  BY <1>1 DEF UpTo
<1>5. Arranges(t, UpTo(s, i))
  BY <1>2 DEF UpTo
<1> QED
  BY <1>2, <1>3, <1>4, <1>5 DEF t

\* What is merged of two sorted sequences from places i and j on.
MergesFrom(r, a, i, b, j, before) ==
    /\ Arranges(r, From(a, i) \cup From(b, j)) /\ Respects(r, before)
    /\ Len(r) > 0 => (i <= Len(a) /\ r[1] = a[i]) \/ (j <= Len(b) /\ r[1] = b[j])

LEMMA TailsMerge ==
    ASSUME NEW a, NEW P, NEW b, NEW Q, NEW before, P \cap Q = {},
           Arranges(a, P), Respects(a, before), Arranges(b, Q), Respects(b, before),
           NEW i, i \in 1 .. Len(a) + 1, NEW j, j \in 1 .. Len(b) + 1, i > Len(a) \/ j > Len(b)
    PROVE  MergesFrom(SubSeq(a, i, Len(a)) \o SubSeq(b, j, Len(b)), a, i, b, j, before)
<1> DEFINE m == Len(a)
           n == Len(b)
           t == SubSeq(a, i, m)
           u == SubSeq(b, j, n)
           c == t \o u
<1>1. m \in Nat /\ n \in Nat /\ i \in Nat /\ j \in Nat /\ 1 <= i /\ i <= m + 1 /\ 1 <= j /\ j <= n + 1
  BY ArrangedParts
<1>2. /\ Arranges(t, From(a, i)) /\ Respects(t, before) /\ Len(t) = m - i + 1
      /\ Len(t) > 0 => t[1] = a[i]
      /\ From(a, i) \subseteq P
  BY BackArranges
<1>3. /\ Arranges(u, From(b, j)) /\ Respects(u, before) /\ Len(u) = n - j + 1
      /\ Len(u) > 0 => u[1] = b[j]
      /\ From(b, j) \subseteq Q
  BY BackArranges
<1>4. From(a, i) \cap From(b, j) = {}
  BY <1>2, <1>3
<1> HIDE DEF t, u, m, n
<1>5. /\ Arranges(c, From(a, i) \cup From(b, j)) /\ Len(c) = Len(t) + Len(u)
      /\ \A k \in 1 .. Len(t) : c[k] = t[k]
      /\ \A k \in 1 .. Len(u) : c[Len(t) + k] = u[k]
  BY <1>2, <1>3, <1>4, ConcatArranges
<1>6. ~(Len(t) > 0 /\ Len(u) > 0)
  BY <1>1, <1>2, <1>3 DEF m, n
<1>7. Respects(c, before)
  BY <1>2, <1>3, <1>4, <1>6, ConcatRespects
<1>8. ASSUME Len(c) > 0
      PROVE  (i <= m /\ c[1] = a[i]) \/ (j <= n /\ c[1] = b[j])
  <2>1. CASE Len(t) > 0
    <3>1. i <= m /\ 1 \in 1 .. Len(t)
      BY <1>1, <1>2, <2>1
    <3> QED
      BY <1>2, <1>5, <2>1, <3>1
  <2>2. CASE Len(t) = 0 /\ Len(u) > 0
    <3>1. j <= n /\ 1 \in 1 .. Len(u) /\ 0 + 1 = 1
      BY <1>1, <1>3, <2>2
    <3>2. c[1] = u[1]
      BY <1>5, <2>2, <3>1
    <3> QED
      BY <1>3, <2>2, <3>1, <3>2
  <2>3. Len(t) > 0 \/ (Len(t) = 0 /\ Len(u) > 0)
    BY <1>1, <1>2, <1>3, <1>5, <1>8
  <2> QED
    BY <2>1, <2>2, <2>3
<1> QED
  BY <1>5, <1>7, <1>8 DEF MergesFrom, t, u, m, n, c

LEMMA MergedForwardArranges ==
    ASSUME NEW a, NEW P, NEW b, NEW Q, NEW before, P \cap Q = {}, Asymmetric(before),
           Arranges(a, P), Respects(a, before), Arranges(b, Q), Respects(b, before)
    PROVE  /\ Arranges(MergedForward(a, b, before), P \cup Q)
           /\ Respects(MergedForward(a, b, before), before)
<1> DEFINE m == Len(a)
           n == Len(b)
           D == (1 .. m + 1) \X (1 .. n + 1)
           V == Seq(P \cup Q)
           tails(p) == SubSeq(a, p[1], Len(a)) \o SubSeq(b, p[2], Len(b))
           G(p, g) == IF p[1] > Len(a) \/ p[2] > Len(b) THEN tails(p)
                      ELSE IF <<b[p[2]], a[p[1]]>> \in before
                      THEN <<b[p[2]]>> \o g[<<p[1], p[2] + 1>>]
                      ELSE <<a[p[1]]>> \o g[<<p[1] + 1, p[2]>>]
           from == CHOOSE f : f = [p \in D |-> G(p, f)]
           measure == [p \in D |-> (m + 1 - p[1]) + (n + 1 - p[2])]
<1>1. m \in Nat /\ n \in Nat
  BY ArrangedParts
<1>2. MergedForward(a, b, before) = from[<<1, 1>>]
  BY DEF MergedForward
<1>3. /\ \A k \in 1 .. m : a[k] \in P
      /\ \A k \in 1 .. n : b[k] \in Q
  BY ArrangedParts
<1>4. \A p \in D : /\ p[1] \in Nat /\ 1 <= p[1] /\ p[1] <= m + 1
                   /\ p[2] \in Nat /\ 1 <= p[2] /\ p[2] <= n + 1
                   /\ p = <<p[1], p[2]>>
  BY <1>1
<1>5. \A i \in 1 .. m + 1, j \in 1 .. n + 1 : <<i, j>> \in D /\ <<i, j>>[1] = i /\ <<i, j>>[2] = j
  OBVIOUS
<1>6. /\ measure \in [D -> 0 .. m + n]
      /\ \A p \in D : measure[p] = (m + 1 - p[1]) + (n + 1 - p[2])
  <2>1. \A p \in D : (m + 1 - p[1]) + (n + 1 - p[2]) \in 0 .. m + n
    BY <1>1, <1>4
  <2> HIDE DEF D
  <2> QED
    BY <2>1
\* The places to which a merge that is not at an end goes on.
<1>7. ASSUME NEW p \in D, ~(p[1] > m), ~(p[2] > n)
      PROVE  /\ p[1] \in 1 .. m /\ p[2] \in 1 .. n
             /\ <<p[1] + 1, p[2]>> \in D /\ measure[<<p[1] + 1, p[2]>>] < measure[p]
             /\ <<p[1], p[2] + 1>> \in D /\ measure[<<p[1], p[2] + 1>>] < measure[p]
  <2>1. /\ p[1] \in 1 .. m /\ p[2] \in 1 .. n /\ p[1] + 1 \in 1 .. m + 1 /\ p[1] \in 1 .. m + 1
        /\ p[2] + 1 \in 1 .. n + 1 /\ p[2] \in 1 .. n + 1
    BY <1>1, <1>4, <1>7
  <2>2. /\ <<p[1] + 1, p[2]>> \in D /\ <<p[1], p[2] + 1>> \in D
        /\ <<p[1] + 1, p[2]>>[1] = p[1] + 1 /\ <<p[1] + 1, p[2]>>[2] = p[2]
        /\ <<p[1], p[2] + 1>>[1] = p[1] /\ <<p[1], p[2] + 1>>[2] = p[2] + 1
    BY <1>5, <2>1
  <2> HIDE DEF D, measure
  <2>3. /\ measure[p] = (m + 1 - p[1]) + (n + 1 - p[2])
        /\ measure[<<p[1] + 1, p[2]>>] = (m + 1 - (p[1] + 1)) + (n + 1 - p[2])
        /\ measure[<<p[1], p[2] + 1>>] = (m + 1 - p[1]) + (n + 1 - (p[2] + 1))
    BY <1>6, <2>2
  <2>4. /\ measure[<<p[1] + 1, p[2]>>] < measure[p]
        /\ measure[<<p[1], p[2] + 1>>] < measure[p]
    <3>1. \A i \in 1 .. m, j \in 1 .. n :
             /\ (m + 1 - (i + 1)) + (n + 1 - j) < (m + 1 - i) + (n + 1 - j)
             /\ (m + 1 - i) + (n + 1 - (j + 1)) < (m + 1 - i) + (n + 1 - j)
      BY <1>1
    <3> HIDE DEF m, n
    <3> QED
      BY <2>1, <2>3, <3>1
  <2> QED
    BY <2>1, <2>2, <2>4
<1>8. ASSUME NEW p \in D
      PROVE  /\ p[1] > m \/ p[2] > n => MergesFrom(tails(p), a, p[1], b, p[2], before)
             /\ tails(p) \in V
  <2>1. p[1] \in 1 .. m + 1 /\ p[2] \in 1 .. n + 1
    OBVIOUS
  <2>2. p[1] > m \/ p[2] > n => MergesFrom(tails(p), a, p[1], b, p[2], before)
    BY <2>1, TailsMerge
  <2>3. SubSeq(a, p[1], m) \in V
    <3>1. \A k \in p[1] .. m : a[k] \in P \cup Q
      BY <1>1, <1>3, <1>4
    <3> QED
      BY <1>1, <1>4, <3>1, SubSeqProperties
  <2>4. SubSeq(b, p[2], n) \in V
    <3>1. \A k \in p[2] .. n : b[k] \in P \cup Q
      BY <1>1, <1>3, <1>4
    <3> QED
      BY <1>1, <1>4, <3>1, SubSeqProperties
  <2> QED
    BY <2>2, <2>3, <2>4, ConcatProperties
<1> HIDE DEF tails, D, measure
<1>9. \E f : f = [p \in D |-> G(p, f)]
  <2> DEFINE F == [q \in D \X [D -> V] |-> G(q[1], q[2])]
  <2>1. ASSUME NEW p \in D, NEW g \in [D -> V]
        PROVE  G(p, g) \in V
    <3>1. CASE p[1] > m \/ p[2] > n
      BY <1>8, <3>1
    <3>2. CASE ~(p[1] > m \/ p[2] > n)
      <4>1. /\ g[<<p[1], p[2] + 1>>] \in V /\ g[<<p[1] + 1, p[2]>>] \in V
            /\ a[p[1]] \in P \cup Q /\ b[p[2]] \in P \cup Q
        BY <1>3, <1>7, <3>2
      <4>2. <<a[p[1]]>> \in V /\ <<b[p[2]]>> \in V
        BY <4>1
      <4>3. /\ <<b[p[2]]>> \o g[<<p[1], p[2] + 1>>] \in V
            /\ <<a[p[1]]>> \o g[<<p[1] + 1, p[2]>>] \in V
        BY <4>1, <4>2, ConcatProperties
      <4> QED
        BY <3>2, <4>3
    <3> QED
      BY <3>1, <3>2
  <2>2. F \in [D \X [D -> V] -> V]
    <3> HIDE DEF V, G
    <3> QED
      BY <2>1
  <2>3. \A p \in D, g \in [D -> V] : F[<<p, g>>] = G(p, g)
    <3> HIDE DEF G
    <3> QED
      OBVIOUS
  <2>4. << >> \in V
    BY EmptySeq
  <2> HIDE DEF F, V
  <2>5. ASSUME NEW p \in D, NEW g \in [D -> V], NEW h \in [D -> V],
               \A q \in D : measure[q] < measure[p] => g[q] = h[q]
        PROVE  F[<<p, g>>] = F[<<p, h>>]
    <3>1. ~(p[1] > m \/ p[2] > n) => /\ g[<<p[1], p[2] + 1>>] = h[<<p[1], p[2] + 1>>]
                                     /\ g[<<p[1] + 1, p[2]>>] = h[<<p[1] + 1, p[2]>>]
      BY <1>7, <2>5
    <3>2. G(p, g) = G(p, h)
      BY <3>1
    <3> HIDE DEF G
    <3> QED
      BY <2>3, <3>2
  <2>6. RecursTo(D, V, measure, F)
    BY <2>5 DEF RecursTo
  <2>7. m + n \in Nat
    BY <1>1
  <2> HIDE DEF G
  <2>8. PICK f : Solves(f, D, V, F)
    BY <1>6, <2>2, <2>4, <2>6, <2>7, RecursiveFunctionExists
  <2>9. f \in [D -> V] /\ \A p \in D : f[p] = G(p, f)
    BY <2>3, <2>8 DEF Solves
  <2>10. f = [p \in D |-> G(p, f)]
    BY <2>9
  <2> QED
    BY <2>10
<1>10. \A p \in D : from[p] = G(p, from)
  <2> HIDE DEF G
  <2>1. from = [p \in D |-> G(p, from)]
    BY <1>9
  <2> HIDE DEF from
  <2> QED
    BY <2>1
<1> HIDE DEF from
<1> DEFINE Done == {p \in D : MergesFrom(from[p], a, p[1], b, p[2], before)}
<1>11. ASSUME NEW p \in D, \A q \in D : measure[q] < measure[p] => q \in Done
       PROVE  p \in Done
  <2>1. CASE p[1] > m \/ p[2] > n
    <3>1. from[p] = tails(p)
      BY <1>10, <2>1
    <3> QED
      BY <1>8, <2>1, <3>1
  <2>2. CASE ~(p[1] > m \/ p[2] > n)
    <3> DEFINE i == p[1]
               j == p[2]
    <3>1. /\ i \in 1 .. m /\ j \in 1 .. n
          /\ MergesFrom(from[<<i + 1, j>>], a, i + 1, b, j, before)
          /\ MergesFrom(from[<<i, j + 1>>], a, i, b, j + 1, before)
      <4>1. <<i + 1, j>> \in Done /\ <<i, j + 1>> \in Done
        BY <1>7, <1>11, <2>2
      <4>2. /\ <<i + 1, j>>[1] = i + 1 /\ <<i + 1, j>>[2] = j
            /\ <<i, j + 1>>[1] = i /\ <<i, j + 1>>[2] = j + 1
        OBVIOUS
      <4> QED
        BY <1>7, <2>2, <4>1, <4>2
    <3> HIDE DEF i, j
    <3>2. i \in Nat /\ j \in Nat
      BY <3>1
    <3>3. /\ From(a, i) = {a[i]} \cup From(a, i + 1) /\ a[i] \notin From(a, i + 1)
          /\ a[i] \in P /\ From(a, i) \subseteq P /\ From(a, i + 1) \subseteq P
          /\ From(b, j) = {b[j]} \cup From(b, j + 1) /\ b[j] \notin From(b, j + 1)
          /\ b[j] \in Q /\ From(b, j) \subseteq Q /\ From(b, j + 1) \subseteq Q
      BY <3>1, FromSplits
    <3>4. /\ i + 1 <= Len(a) => <<a[i + 1], a[i]>> \notin before
          /\ j + 1 <= Len(b) => <<b[j + 1], b[j]>> \notin before
      BY <1>1, <3>1, <3>2 DEF Respects
    <3>5. CASE <<b[j], a[i]>> \in before
      <4> DEFINE r == from[<<i, j + 1>>]
                 S == From(a, i) \cup From(b, j + 1)
      <4>1. from[p] = <<b[j]>> \o r
        BY <1>10, <2>2, <3>5 DEF i, j
      <4>2. Arranges(r, S) /\ Respects(r, before)
        BY <3>1 DEF MergesFrom
      <4>3. Len(r) > 0 => <<r[1], b[j]>> \notin before
        BY <3>1, <3>4, <3>5 DEF MergesFrom, Asymmetric
      <4>4. b[j] \notin S /\ {b[j]} \cup S = From(a, i) \cup From(b, j)
        BY <3>3
      <4> HIDE DEF r, S
      <4>5. /\ Arranges(<<b[j]>> \o r, {b[j]} \cup S) /\ Respects(<<b[j]>> \o r, before)
            /\ (<<b[j]>> \o r)[1] = b[j]
        BY <4>2, <4>3, <4>4, PrependArranges
      <4>6. j <= Len(b)
        BY <3>1
      <4>7. MergesFrom(from[p], a, i, b, j, before)
        BY <4>1, <4>4, <4>5, <4>6 DEF MergesFrom
      <4> QED
        BY <4>7 DEF i, j
    <3>6. CASE <<b[j], a[i]>> \notin before
      <4> DEFINE r == from[<<i + 1, j>>]
                 S == From(a, i + 1) \cup From(b, j)
      <4>1. from[p] = <<a[i]>> \o r
        BY <1>10, <2>2, <3>6 DEF i, j
      <4>2. Arranges(r, S) /\ Respects(r, before)
        BY <3>1 DEF MergesFrom
      <4>3. Len(r) > 0 => <<r[1], a[i]>> \notin before
        BY <3>1, <3>4, <3>6 DEF MergesFrom
      <4>4. a[i] \notin S /\ {a[i]} \cup S = From(a, i) \cup From(b, j)
        BY <3>3
      <4> HIDE DEF r, S
      <4>5. /\ Arranges(<<a[i]>> \o r, {a[i]} \cup S) /\ Respects(<<a[i]>> \o r, before)
            /\ (<<a[i]>> \o r)[1] = a[i]
        BY <4>2, <4>3, <4>4, PrependArranges
      <4>6. i <= Len(a)
        BY <3>1
      <4>7. MergesFrom(from[p], a, i, b, j, before)
        BY <4>1, <4>4, <4>5, <4>6 DEF MergesFrom
      <4> QED
        BY <4>7 DEF i, j
    <3> QED
      BY <3>5, <3>6
  <2> QED
    BY <2>1, <2>2
<1>12. \A p \in D : p \in Done
  <2>1. measure \in [D -> Nat]
    BY <1>1, <1>6
  <2> HIDE DEF Done
  <2> QED
    BY <1>11, <2>1, MeasureInduction
<1>13. MergesFrom(from[<<1, 1>>], a, 1, b, 1, before)
  <2>1. <<1, 1>> \in D /\ <<1, 1>>[1] = 1 /\ <<1, 1>>[2] = 1
    BY <1>1, <1>5
  <2> QED
    BY <1>12, <2>1
<1>14. From(a, 1) = P /\ From(b, 1) = Q
  BY WholeSequence
<1> QED
  BY <1>2, <1>13, <1>14 DEF MergesFrom

\* What is merged of two sorted sequences up to places i and j.
MergesUpTo(r, a, i, b, j, before) ==
    /\ Arranges(r, UpTo(a, i) \cup UpTo(b, j)) /\ Respects(r, before)
    /\ Len(r) > 0 => (i > 0 /\ r[Len(r)] = a[i]) \/ (j > 0 /\ r[Len(r)] = b[j])

LEMMA HeadsMerge ==
    ASSUME NEW a, NEW P, NEW b, NEW Q, NEW before, P \cap Q = {},
           Arranges(a, P), Respects(a, before), Arranges(b, Q), Respects(b, before),
           NEW i, i \in 0 .. Len(a), NEW j, j \in 0 .. Len(b), i = 0 \/ j = 0
    PROVE  MergesUpTo(SubSeq(a, 1, i) \o SubSeq(b, 1, j), a, i, b, j, before)
<1> DEFINE t == SubSeq(a, 1, i)
           u == SubSeq(b, 1, j)
           c == t \o u
<1>1. i \in Nat /\ j \in Nat
  BY ArrangedParts
<1>2. /\ Arranges(t, UpTo(a, i)) /\ Respects(t, before) /\ Len(t) = i
      /\ Len(t) > 0 => t[Len(t)] = a[i]
      /\ UpTo(a, i) \subseteq P
  BY FrontArranges
<1>3. /\ Arranges(u, UpTo(b, j)) /\ Respects(u, before) /\ Len(u) = j
      /\ Len(u) > 0 => u[Len(u)] = b[j]
      /\ UpTo(b, j) \subseteq Q
  BY FrontArranges
<1>4. UpTo(a, i) \cap UpTo(b, j) = {}
  BY <1>2, <1>3
<1> HIDE DEF t, u
<1>5. /\ Arranges(c, UpTo(a, i) \cup UpTo(b, j)) /\ Len(c) = Len(t) + Len(u)
      /\ \A k \in 1 .. Len(t) : c[k] = t[k]
      /\ \A k \in 1 .. Len(u) : c[Len(t) + k] = u[k]
  BY <1>2, <1>3, <1>4, ConcatArranges
<1>6. ~(Len(t) > 0 /\ Len(u) > 0)
  BY <1>1, <1>2, <1>3
<1>7. Respects(c, before)
  BY <1>2, <1>3, <1>4, <1>6, ConcatRespects
<1>8. ASSUME Len(c) > 0
      PROVE  (i > 0 /\ c[Len(c)] = a[i]) \/ (j > 0 /\ c[Len(c)] = b[j])
  <2>1. CASE Len(t) > 0
    <3>1. i > 0 /\ Len(t) \in 1 .. Len(t) /\ Len(c) = Len(t)
      BY <1>1, <1>2, <1>3, <1>5, <1>6, <2>1
    <3> QED
      BY <1>2, <1>5, <2>1, <3>1
  <2>2. CASE Len(t) = 0 /\ Len(u) > 0
    <3>1. j > 0 /\ Len(u) \in 1 .. Len(u) /\ Len(c) = Len(t) + Len(u)
      BY <1>1, <1>3, <1>5, <2>2
    <3>2. c[Len(c)] = u[Len(u)]
      BY <1>5, <3>1
    <3> QED
      BY <1>3, <2>2, <3>1, <3>2
  <2>3. Len(t) > 0 \/ (Len(t) = 0 /\ Len(u) > 0)
    BY <1>1, <1>2, <1>3, <1>5, <1>8
  <2> QED
    BY <2>1, <2>2, <2>3
<1> QED
  BY <1>5, <1>7, <1>8 DEF MergesUpTo, t, u, c

LEMMA MergedBackwardArranges ==
    ASSUME NEW a, NEW P, NEW b, NEW Q, NEW before, P \cap Q = {}, Asymmetric(before),
           Arranges(a, P), Respects(a, before), Arranges(b, Q), Respects(b, before)
    PROVE  /\ Arranges(MergedBackward(a, b, before), P \cup Q)
           /\ Respects(MergedBackward(a, b, before), before)
<1> DEFINE m == Len(a)
           n == Len(b)
           D == (0 .. m) \X (0 .. n)
           V == Seq(P \cup Q)
           heads(p) == SubSeq(a, 1, p[1]) \o SubSeq(b, 1, p[2])
           G(p, g) == IF p[1] = 0 \/ p[2] = 0 THEN heads(p)
                      ELSE IF <<b[p[2]], a[p[1]]>> \in before
                      THEN g[<<p[1] - 1, p[2]>>] \o <<a[p[1]]>>
                      ELSE g[<<p[1], p[2] - 1>>] \o <<b[p[2]]>>
           upTo == CHOOSE f : f = [p \in D |-> G(p, f)]
           measure == [p \in D |-> p[1] + p[2]]
<1>1. m \in Nat /\ n \in Nat
  BY ArrangedParts
<1>2. MergedBackward(a, b, before) = upTo[<<m, n>>]
  BY DEF MergedBackward
<1>3. /\ \A k \in 1 .. m : a[k] \in P
      /\ \A k \in 1 .. n : b[k] \in Q
  BY ArrangedParts
<1>4. \A p \in D : /\ p[1] \in Nat /\ p[1] <= m
                   /\ p[2] \in Nat /\ p[2] <= n
                   /\ p = <<p[1], p[2]>>
  BY <1>1
<1>5. \A i \in 0 .. m, j \in 0 .. n : <<i, j>> \in D /\ <<i, j>>[1] = i /\ <<i, j>>[2] = j
  OBVIOUS
<1>6. measure \in [D -> 0 .. m + n] /\ \A p \in D : measure[p] = p[1] + p[2]
  <2>1. \A p \in D : p[1] + p[2] \in 0 .. m + n
    BY <1>1, <1>4
  <2> HIDE DEF D
  <2> QED
    BY <2>1
<1>7. ASSUME NEW p \in D, ~(p[1] = 0), ~(p[2] = 0)
      PROVE  /\ p[1] \in 1 .. m /\ p[2] \in 1 .. n
             /\ <<p[1] - 1, p[2]>> \in D /\ measure[<<p[1] - 1, p[2]>>] < measure[p]
             /\ <<p[1], p[2] - 1>> \in D /\ measure[<<p[1], p[2] - 1>>] < measure[p]
  <2>1. /\ p[1] \in 1 .. m /\ p[2] \in 1 .. n /\ p[1] - 1 \in 0 .. m /\ p[1] \in 0 .. m
        /\ p[2] - 1 \in 0 .. n /\ p[2] \in 0 .. n
    BY <1>1, <1>4, <1>7
  <2>2. /\ <<p[1] - 1, p[2]>> \in D /\ <<p[1], p[2] - 1>> \in D
        /\ <<p[1] - 1, p[2]>>[1] = p[1] - 1 /\ <<p[1] - 1, p[2]>>[2] = p[2]
        /\ <<p[1], p[2] - 1>>[1] = p[1] /\ <<p[1], p[2] - 1>>[2] = p[2] - 1
    BY <1>5, <2>1
  <2> HIDE DEF D, measure
  <2>3. /\ measure[p] = p[1] + p[2]
        /\ measure[<<p[1] - 1, p[2]>>] = (p[1] - 1) + p[2]
        /\ measure[<<p[1], p[2] - 1>>] = p[1] + (p[2] - 1)
    BY <1>6, <2>2
  <2>4. /\ measure[<<p[1] - 1, p[2]>>] < measure[p]
        /\ measure[<<p[1], p[2] - 1>>] < measure[p]
    <3>1. \A i \in 1 .. m, j \in 1 .. n : (i - 1) + j < i + j /\ i + (j - 1) < i + j
      BY <1>1
    <3> HIDE DEF m, n
    <3> QED
      BY <2>1, <2>3, <3>1
  <2> QED
    BY <2>1, <2>2, <2>4
<1>8. ASSUME NEW p \in D
      PROVE  /\ p[1] = 0 \/ p[2] = 0 => MergesUpTo(heads(p), a, p[1], b, p[2], before)
             /\ heads(p) \in V
  <2>1. p[1] \in 0 .. m /\ p[2] \in 0 .. n
    OBVIOUS
  <2>2. p[1] = 0 \/ p[2] = 0 => MergesUpTo(heads(p), a, p[1], b, p[2], before)
    BY <2>1, HeadsMerge
  <2>3. SubSeq(a, 1, p[1]) \in V
    <3>1. \A k \in 1 .. p[1] : a[k] \in P \cup Q
      BY <1>1, <1>3, <1>4
    <3> QED
      BY <1>1, <1>4, <3>1, SubSeqProperties
  <2>4. SubSeq(b, 1, p[2]) \in V
    <3>1. \A k \in 1 .. p[2] : b[k] \in P \cup Q
      BY <1>1, <1>3, <1>4
    <3> QED
      BY <1>1, <1>4, <3>1, SubSeqProperties
  <2> QED
    BY <2>2, <2>3, <2>4, ConcatProperties
<1> HIDE DEF heads, D, measure
<1>9. \E f : f = [p \in D |-> G(p, f)]
  <2> DEFINE F == [q \in D \X [D -> V] |-> G(q[1], q[2])]
  <2>1. ASSUME NEW p \in D, NEW g \in [D -> V]
        PROVE  G(p, g) \in V
    <3>1. CASE p[1] = 0 \/ p[2] = 0
      BY <1>8, <3>1
    <3>2. CASE ~(p[1] = 0 \/ p[2] = 0)
      <4>1. /\ g[<<p[1], p[2] - 1>>] \in V /\ g[<<p[1] - 1, p[2]>>] \in V
            /\ a[p[1]] \in P \cup Q /\ b[p[2]] \in P \cup Q
        BY <1>3, <1>7, <3>2
      <4>2. <<a[p[1]]>> \in V /\ <<b[p[2]]>> \in V
        BY <4>1
      <4>3. /\ g[<<p[1] - 1, p[2]>>] \o <<a[p[1]]>> \in V
            /\ g[<<p[1], p[2] - 1>>] \o <<b[p[2]]>> \in V
        BY <4>1, <4>2, ConcatProperties
      <4> QED
        BY <3>2, <4>3
    <3> QED
      BY <3>1, <3>2
  <2>2. F \in [D \X [D -> V] -> V]
    <3> HIDE DEF V, G
    <3> QED
      BY <2>1
  <2>3. \A p \in D, g \in [D -> V] : F[<<p, g>>] = G(p, g)
    <3> HIDE DEF G
    <3> QED
      OBVIOUS
  <2>4. << >> \in V
    BY EmptySeq
  <2> HIDE DEF F, V
  <2>5. ASSUME NEW p \in D, NEW g \in [D -> V], NEW h \in [D -> V],
               \A q \in D : measure[q] < measure[p] => g[q] = h[q]
        PROVE  F[<<p, g>>] = F[<<p, h>>]
    <3>1. ~(p[1] = 0 \/ p[2] = 0) => /\ g[<<p[1], p[2] - 1>>] = h[<<p[1], p[2] - 1>>]
                                     /\ g[<<p[1] - 1, p[2]>>] = h[<<p[1] - 1, p[2]>>]
      BY <1>7, <2>5
    <3>2. G(p, g) = G(p, h)
      BY <3>1
    <3> HIDE DEF G
    <3> QED
      BY <2>3, <3>2
  <2>6. RecursTo(D, V, measure, F)
    BY <2>5 DEF RecursTo
  <2>7. m + n \in Nat
    BY <1>1
  <2> HIDE DEF G
  <2>8. PICK f : Solves(f, D, V, F)
    BY <1>6, <2>2, <2>4, <2>6, <2>7, RecursiveFunctionExists
  <2>9. f \in [D -> V] /\ \A p \in D : f[p] = G(p, f)
    BY <2>3, <2>8 DEF Solves
  <2>10. f = [p \in D |-> G(p, f)]
    BY <2>9
  <2> QED
    BY <2>10
<1>10. \A p \in D : upTo[p] = G(p, upTo)
  <2> HIDE DEF G
  <2>1. upTo = [p \in D |-> G(p, upTo)]
    BY <1>9
  <2> HIDE DEF upTo
  <2> QED
    BY <2>1
<1> HIDE DEF upTo
<1> DEFINE Done == {p \in D : MergesUpTo(upTo[p], a, p[1], b, p[2], before)}
<1>11. ASSUME NEW p \in D, \A q \in D : measure[q] < measure[p] => q \in Done
       PROVE  p \in Done
  <2>1. CASE p[1] = 0 \/ p[2] = 0
    <3>1. upTo[p] = heads(p)
      BY <1>10, <2>1
    <3> QED
      BY <1>8, <2>1, <3>1
  <2>2. CASE ~(p[1] = 0 \/ p[2] = 0)
    <3> DEFINE i == p[1]
               j == p[2]
    <3>1. /\ i \in 1 .. m /\ j \in 1 .. n
          /\ MergesUpTo(upTo[<<i - 1, j>>], a, i - 1, b, j, before)
          /\ MergesUpTo(upTo[<<i, j - 1>>], a, i, b, j - 1, before)
      <4>1. <<i - 1, j>> \in Done /\ <<i, j - 1>> \in Done
        BY <1>7, <1>11, <2>2
      <4>2. /\ <<i - 1, j>>[1] = i - 1 /\ <<i - 1, j>>[2] = j
            /\ <<i, j - 1>>[1] = i /\ <<i, j - 1>>[2] = j - 1
        OBVIOUS
      <4> QED
        BY <1>7, <2>2, <4>1, <4>2
    <3> HIDE DEF i, j
    <3>2. i \in Nat /\ j \in Nat /\ i > 0 /\ j > 0
      BY <3>1
    <3>3. /\ UpTo(a, i) = UpTo(a, i - 1) \cup {a[i]} /\ a[i] \notin UpTo(a, i - 1)
          /\ a[i] \in P /\ UpTo(a, i) \subseteq P /\ UpTo(a, i - 1) \subseteq P
          /\ UpTo(b, j) = UpTo(b, j - 1) \cup {b[j]} /\ b[j] \notin UpTo(b, j - 1)
          /\ b[j] \in Q /\ UpTo(b, j) \subseteq Q /\ UpTo(b, j - 1) \subseteq Q
      BY <3>1, UpToSplits
    <3>4. /\ i - 1 > 0 => <<a[i], a[i - 1]>> \notin before
          /\ j - 1 > 0 => <<b[j], b[j - 1]>> \notin before
      <4>1. /\ i - 1 > 0 => i - 1 \in 1 .. Len(a) - 1 /\ (i - 1) + 1 = i
            /\ j - 1 > 0 => j - 1 \in 1 .. Len(b) - 1 /\ (j - 1) + 1 = j
        BY <1>1, <3>1, <3>2
      <4> QED
        BY <4>1 DEF Respects
    <3>5. CASE <<b[j], a[i]>> \in before
      <4> DEFINE r == upTo[<<i - 1, j>>]
                 S == UpTo(a, i - 1) \cup UpTo(b, j)
                 c == r \o <<a[i]>>
      <4>1. upTo[p] = c
        BY <1>10, <2>2, <3>5 DEF i, j
      <4>2. Arranges(r, S) /\ Respects(r, before)
        BY <3>1 DEF MergesUpTo
      <4>3. Len(r) > 0 => <<a[i], r[Len(r)]>> \notin before
        BY <3>1, <3>4, <3>5 DEF MergesUpTo, Asymmetric
      <4>4. a[i] \notin S /\ S \cup {a[i]} = UpTo(a, i) \cup UpTo(b, j)
        BY <3>3
      <4> HIDE DEF r, S
      <4>5. Arranges(c, S \cup {a[i]}) /\ Respects(c, before) /\ c[Len(c)] = a[i]
        BY <4>2, <4>3, <4>4, AppendArranges
      <4> HIDE DEF c
      <4>6. MergesUpTo(upTo[p], a, i, b, j, before)
        BY <3>2, <4>1, <4>4, <4>5 DEF MergesUpTo
      <4> QED
        BY <4>6 DEF i, j
    <3>6. CASE <<b[j], a[i]>> \notin before
      <4> DEFINE r == upTo[<<i, j - 1>>]
                 S == UpTo(a, i) \cup UpTo(b, j - 1)
                 c == r \o <<b[j]>>
      <4>1. upTo[p] = c
        BY <1>10, <2>2, <3>6 DEF i, j
      <4>2. Arranges(r, S) /\ Respects(r, before)
        BY <3>1 DEF MergesUpTo
      <4>3. Len(r) > 0 => <<b[j], r[Len(r)]>> \notin before
        BY <3>1, <3>4, <3>6 DEF MergesUpTo
      <4>4. b[j] \notin S /\ S \cup {b[j]} = UpTo(a, i) \cup UpTo(b, j)
        BY <3>3
      <4> HIDE DEF r, S
      <4>5. Arranges(c, S \cup {b[j]}) /\ Respects(c, before) /\ c[Len(c)] = b[j]
        BY <4>2, <4>3, <4>4, AppendArranges
      <4> HIDE DEF c
      <4>6. MergesUpTo(upTo[p], a, i, b, j, before)
        BY <3>2, <4>1, <4>4, <4>5 DEF MergesUpTo
      <4> QED
        BY <4>6 DEF i, j
    <3> QED
      BY <3>5, <3>6
  <2> QED
    BY <2>1, <2>2
<1>12. \A p \in D : p \in Done
  <2>1. measure \in [D -> Nat]
    BY <1>1, <1>6
  <2> HIDE DEF Done
  <2> QED
    BY <1>11, <2>1, MeasureInduction
<1>13. MergesUpTo(upTo[<<m, n>>], a, m, b, n, before)
  <2>1. <<m, n>> \in D /\ <<m, n>>[1] = m /\ <<m, n>>[2] = n
    BY <1>1, <1>5
  <2> QED
    BY <1>12, <2>1
<1>14. UpTo(a, m) = P /\ UpTo(b, n) = Q
  BY WholeSequence
<1> QED
  BY <1>2, <1>13, <1>14 DEF MergesUpTo

LEMMA PlacesArrange ==
    ASSUME NEW i, i \in Nat, NEW n, n \in Nat
    PROVE  Arranges([k \in 1 .. n |-> i + k], i + 1 .. i + n)
<1> DEFINE s == [k \in 1 .. n |-> i + k]
           P == i + 1 .. i + n
<1>1. \A k \in 1 .. n : s[k] = i + k /\ i + k \in P
  OBVIOUS
<1>2. s \in Seq(P) /\ Len(s) = n
  OBVIOUS
<1>3. \A p \in P : p - i \in 1 .. n /\ p = i + (p - i)
  OBVIOUS
<1>4. \A j, k \in 1 .. n : i + j = i + k => j = k
  OBVIOUS
<1> HIDE DEF s, P
<1>5. Arranges(s, P)
  BY <1>1, <1>2, <1>3, <1>4 DEF Arranges
<1> QED
  BY <1>5 DEF s, P

\* The places 1 .. n are sorted: each appears once, and none directly behind one
\* that it is before.  Nothing is assumed of the comparator but that it does not
\* order two elements both ways: it need not be transitive.
THEOREM SortedPlacesRespect ==
    ASSUME NEW n, n \in Nat, NEW before, Asymmetric(before)
    PROVE  Arranges(SortedPlaces(n, before), 1 .. n) /\ Respects(SortedPlaces(n, before), before)
<1> DEFINE half == (n + 1) \div 2
           s == [k \in 1 .. half |-> k]
           t == [k \in 1 .. n - half |-> half + k]
           a == InsertionSort(s, before)
           b == InsertionSort(t, before)
<1>1. half \in Nat /\ n - half \in Nat
  OBVIOUS
<1>2. SortedPlaces(n, before) = Merged(a, b, before)
  BY DEF SortedPlaces
<1> HIDE DEF half
<1>3. Arranges(s, 1 .. half)
  <2>1. Arranges([k \in 1 .. half |-> 0 + k], 0 + 1 .. 0 + half)
    BY <1>1, PlacesArrange
  <2>2. [k \in 1 .. half |-> 0 + k] = s /\ 0 + half = half
    BY <1>1
  <2> QED
    BY <2>1, <2>2
<1>4. Arranges(t, half + 1 .. n)
  <2>1. Arranges(t, half + 1 .. half + (n - half))
    BY <1>1, PlacesArrange
  <2>2. half + (n - half) = n
    BY <1>1
  <2> QED
    BY <2>1, <2>2
<1> HIDE DEF s, t
<1>5. /\ Arranges(a, 1 .. half) /\ Respects(a, before)
      /\ Arranges(b, half + 1 .. n) /\ Respects(b, before)
  BY <1>3, <1>4, InsertionSortArranges
<1> DEFINE A == 1 .. half
           B == half + 1 .. n
<1>6. A \cap B = {} /\ A \cup B = 1 .. n
  BY <1>1
<1>7. Arranges(a, A) /\ Respects(a, before) /\ Arranges(b, B) /\ Respects(b, before)
  BY <1>5
<1> HIDE DEF a, b, A, B
<1>8. /\ Arranges(MergedForward(a, b, before), A \cup B)
      /\ Respects(MergedForward(a, b, before), before)
  BY <1>6, <1>7, MergedForwardArranges
<1>9. /\ Arranges(MergedBackward(a, b, before), A \cup B)
      /\ Respects(MergedBackward(a, b, before), before)
  BY <1>6, <1>7, MergedBackwardArranges
<1> QED
  BY <1>2, <1>6, <1>8, <1>9 DEF Merged

\* "Not before" is transitive.
WeaklyOrders(before, P) ==
    \A x \in P, y \in P, z \in P :
        <<y, x>> \notin before /\ <<z, y>> \notin before => <<z, x>> \notin before

\* Then an element is not before any in front of it.
LEMMA RespectsAll ==
    ASSUME NEW s, NEW P, NEW before, Arranges(s, P), Respects(s, before),
           WeaklyOrders(before, P), Asymmetric(before)
    PROVE  \A j, k \in 1 .. Len(s) : j <= k => <<s[k], s[j]>> \notin before
<1> DEFINE D == 1 .. Len(s)
           measure == [k \in D |-> k]
           Done == {k \in D : \A j \in D : j <= k => <<s[k], s[j]>> \notin before}
<1>1. Len(s) \in Nat /\ \A k \in D : s[k] \in P
  BY ArrangedParts
<1>2. measure \in [D -> Nat] /\ \A k \in D : measure[k] = k
  BY <1>1
<1> HIDE DEF measure
<1>3. ASSUME NEW k \in D, \A i \in D : measure[i] < measure[k] => i \in Done
      PROVE  k \in Done
  <2> SUFFICES ASSUME NEW j \in D, j <= k
               PROVE  <<s[k], s[j]>> \notin before
    OBVIOUS
  <2>1. CASE j = k
    BY <2>1 DEF Asymmetric
  <2>2. CASE j # k
    <3> DEFINE i == k - 1
    <3>1. i \in D /\ i < k /\ j <= i /\ i \in 1 .. Len(s) - 1 /\ k = i + 1
      BY <1>1, <2>2
    <3> HIDE DEF i
    <3>2. <<s[i], s[j]>> \notin before
      BY <1>2, <1>3, <3>1
    <3>3. <<s[k], s[i]>> \notin before
      BY <3>1 DEF Respects
    <3>4. s[i] \in P /\ s[j] \in P /\ s[k] \in P
      BY <1>1, <3>1
    <3> QED
      BY <3>2, <3>3, <3>4 DEF WeaklyOrders
  <2> QED
    BY <2>1, <2>2
<1>4. \A k \in D : k \in Done
  <2> HIDE DEF Done, D
  <2> QED
    BY <1>2, <1>3, MeasureInduction
<1> QED
  BY <1>4

-----------------------------------------------------------------------------
\* Ascending lists the places of a set in their order.
LEMMA AscendingArranges ==
    ASSUME NEW n, n \in Nat, NEW P, \A p \in P : p \in 1 .. n
    PROVE  LET a == Ascending(P)
           IN  /\ Arranges(a, P) /\ Len(a) = Cardinality(P) /\ IsFiniteSet(P)
               /\ \A j, k \in 1 .. Len(a) : j < k => a[j] < a[k]
<1> DEFINE upTo(p) == {q \in P : q <= p}
           c == Cardinality(P)
           rank == [p \in P |-> Cardinality(upTo(p))]
           a == Ascending(P)
<1>1. IsFiniteSet(P) /\ c \in Nat
  <2>1. IsFiniteSet(1 .. n) /\ P \in SUBSET (1 .. n)
    BY FS_Interval
  <2>2. IsFiniteSet(P)
    BY <2>1, FS_Subset
  <2> QED
    BY <2>2, FS_CardinalityType
<1>2. \A p \in P : p \in Nat
  OBVIOUS
<1>3. \A p \in P : upTo(p) \in SUBSET P /\ p \in upTo(p)
  BY <1>2
<1>4. \A p \in P : IsFiniteSet(upTo(p)) /\ Cardinality(upTo(p)) \in Nat /\ Cardinality(upTo(p)) <= c
  <2> SUFFICES ASSUME NEW p \in P
               PROVE  IsFiniteSet(upTo(p)) /\ Cardinality(upTo(p)) \in Nat /\ Cardinality(upTo(p)) <= c
    OBVIOUS
  <2>1. upTo(p) \in SUBSET P
    BY <1>3
  <2>2. IsFiniteSet(upTo(p)) /\ Cardinality(upTo(p)) <= Cardinality(P)
    BY <1>1, <2>1, FS_Subset
  <2> QED
    BY <2>2, FS_CardinalityType
<1>5. ASSUME NEW p \in P, NEW q \in P, p < q
      PROVE  Cardinality(upTo(p)) < Cardinality(upTo(q))
  <2>1. q \in Nat /\ p \in Nat /\ q \notin upTo(p) /\ q \in upTo(q)
    BY <1>2, <1>5
  <2>2. upTo(p) \in SUBSET upTo(q)
    BY <1>2, <1>5
  <2>3. upTo(p) # upTo(q)
    BY <2>1
  <2> DEFINE U == upTo(p)
             W == upTo(q)
  <2>4. /\ IsFiniteSet(W) /\ U \in SUBSET W /\ U # W
        /\ Cardinality(U) \in Nat /\ Cardinality(W) \in Nat
    BY <1>4, <2>2, <2>3
  <2> HIDE DEF U, W
  <2>5. Cardinality(U) <= Cardinality(W) /\ Cardinality(W) # Cardinality(U)
    BY <2>4, FS_Subset
  <2>6. Cardinality(U) < Cardinality(W)
    BY <2>4, <2>5
  <2> QED
    BY <2>6 DEF U, W
<1>6. \A p \in P : Cardinality(upTo(p)) \in 1 .. c
  <2> SUFFICES ASSUME NEW p \in P PROVE Cardinality(upTo(p)) # 0
    BY <1>1, <1>4
  <2>1. upTo(p) # {} /\ IsFiniteSet(upTo(p))
    BY <1>3, <1>4
  <2> HIDE DEF upTo
  <2> QED
    BY <2>1, FS_EmptySet
<1>7. \A p \in P : rank[p] = Cardinality(upTo(p))
  OBVIOUS
<1>8. rank \in [P -> 1 .. c]
  BY <1>6
<1>9. \A p, q \in P : p < q => rank[p] < rank[q]
  BY <1>5, <1>7
<1>10. \A p \in P : rank[p] \in Nat
  BY <1>1, <1>8
<1>11. a = [k \in 1 .. c |-> CHOOSE p \in P : Cardinality(upTo(p)) = k]
  BY DEF Ascending
<1>12. \A k \in 1 .. c : a[k] = CHOOSE p \in P : Cardinality(upTo(p)) = k
  BY <1>11
<1> HIDE DEF upTo, rank, c, a
<1>13. ASSUME NEW p \in P, NEW q \in P, rank[p] = rank[q]
       PROVE  p = q
  <2>1. ~(p < q) /\ ~(q < p)
    BY <1>9, <1>10, <1>13
  <2>2. p \in Nat /\ q \in Nat
    BY <1>2
  <2> QED
    BY <2>1, <2>2
<1>14. \A k \in 1 .. c : \E p \in P : rank[p] = k
  <2>1. rank \in Injection(P, 1 .. c)
    BY <1>8, <1>13 DEF Injection, IsInjective
  <2>2. IsFiniteSet(1 .. c) /\ Cardinality(1 .. c) = c
    <3>1. 1 \in Int /\ c \in Int /\ (1 > c => c = 0)
      BY <1>1
    <3>2. IsFiniteSet(1 .. c) /\ Cardinality(1 .. c) = IF 1 > c THEN 0 ELSE c - 1 + 1
      BY <3>1, FS_Interval
    <3> QED
      BY <1>1, <3>1, <3>2
  <2>3. Cardinality(P) = Cardinality(1 .. c)
    BY <2>2 DEF c
  <2>4. rank \in Surjection(P, 1 .. c)
    BY <2>1, <2>2, <2>3, FS_Injection
  <2> QED
    BY <2>4 DEF Surjection
<1>15. \A k \in 1 .. c : a[k] \in P /\ rank[a[k]] = k
  <2> SUFFICES ASSUME NEW k \in 1 .. c
               PROVE  a[k] \in P /\ rank[a[k]] = k
    OBVIOUS
  <2>1. \E p \in P : Cardinality(upTo(p)) = k
    BY <1>7, <1>14
  <2>2. a[k] \in P /\ Cardinality(upTo(a[k])) = k
    BY <1>12, <2>1
  <2> QED
    BY <1>7, <2>2
<1>16. a \in Seq(P) /\ Len(a) = c
  <2>1. a \in [1 .. c -> P]
    BY <1>11, <1>15
  <2>2. Seq(P) = UNION {[1 .. i -> P] : i \in Nat}
    BY SeqDef
  <2>3. a \in Seq(P)
    BY <1>1, <2>1, <2>2
  <2> QED
    BY <1>1, <2>1, <2>3
<1>17. ASSUME NEW j \in 1 .. c, NEW k \in 1 .. c, j < k
       PROVE  a[j] < a[k]
  <2>1. /\ a[j] \in P /\ a[k] \in P /\ a[j] \in Nat /\ a[k] \in Nat
        /\ rank[a[j]] = j /\ rank[a[k]] = k
    BY <1>2, <1>15
  <2>2. a[j] # a[k] /\ ~(a[k] < a[j])
    BY <1>1, <1>9, <1>17, <2>1
  <2> QED
    BY <2>1, <2>2
<1>18. \A j, k \in 1 .. c : a[j] = a[k] => j = k
  BY <1>15
<1>19. \A p \in P : \E k \in 1 .. c : a[k] = p
  BY <1>8, <1>13, <1>15
<1>20. Arranges(a, P)
  BY <1>16, <1>18, <1>19 DEF Arranges
<1> QED
  BY <1>1, <1>16, <1>17, <1>20 DEF a, c

LEMMA IntervalSize ==
    ASSUME NEW n, n \in Nat
    PROVE  IsFiniteSet(1 .. n) /\ Cardinality(1 .. n) = n
<1>1. 1 \in Int /\ n \in Int
  OBVIOUS
<1>2. IsFiniteSet(1 .. n) /\ Cardinality(1 .. n) = IF 1 > n THEN 0 ELSE n - 1 + 1
  BY <1>1, FS_Interval
<1>3. CASE 1 > n
  BY <1>2, <1>3
<1>4. CASE ~(1 > n)
  BY <1>2, <1>4
<1> QED
  BY <1>3, <1>4

\* A sequence of the elements of a set, each once, is as long as the set is large.
LEMMA ArrangedLength ==
    ASSUME NEW s, NEW P, Arranges(s, P)
    PROVE  IsFiniteSet(P) /\ Cardinality(P) = Len(s)
<1> DEFINE n == Len(s)
<1>1. n \in Nat /\ \A k \in 1 .. n : s[k] \in P
  BY ArrangedParts
<1>2. s \in [1 .. n -> P]
  BY LenProperties DEF Arranges
<1>3. /\ \A j, k \in 1 .. n : s[j] = s[k] => j = k
      /\ \A p \in P : \E k \in 1 .. n : s[k] = p
  BY DEF Arranges
<1> HIDE DEF n
<1>4. s \in Injection(1 .. n, P)
  BY <1>2, <1>3 DEF Injection, IsInjective
<1>5. s \in Surjection(1 .. n, P)
  BY <1>2, <1>3 DEF Surjection
<1>6. IsFiniteSet(1 .. n) /\ Cardinality(1 .. n) = n
  BY <1>1, IntervalSize
<1>7. IsFiniteSet(P) /\ Cardinality(P) = Cardinality(1 .. n)
  BY <1>4, <1>5, <1>6, FS_Surjection
<1> QED
  BY <1>6, <1>7 DEF n

Image(s, Q) == {s[q] : q \in Q}

LEMMA PickedParts ==
    ASSUME NEW s, NEW a, NEW Q, Arranges(a, Q)
    PROVE  \A k \in 1 .. Len(a) : a[k] \in Q /\ Picked(s, a)[k] = s[a[k]]
BY ArrangedParts DEF Picked

\* The elements at some of the places of an arrangement.
LEMMA PickedArranges ==
    ASSUME NEW s, NEW P, Arranges(s, P), NEW a, NEW Q, Arranges(a, Q),
           Q \in SUBSET (1 .. Len(s))
    PROVE  Arranges(Picked(s, a), Image(s, Q)) /\ Len(Picked(s, a)) = Len(a)
<1> DEFINE r == Picked(s, a)
           S == Image(s, Q)
           n == Len(a)
<1>1. n \in Nat /\ DOMAIN a = 1 .. n /\ \A k \in 1 .. n : a[k] \in Q
  BY ArrangedParts
<1>2. r = [k \in 1 .. n |-> s[a[k]]] /\ \A k \in 1 .. n : r[k] = s[a[k]]
  BY <1>1 DEF Picked
<1>3. /\ \A q \in Q : s[q] \in S
      /\ \A x \in S : \E q \in Q : x = s[q]
  BY DEF Image
<1> HIDE DEF S, r
<1>4. r \in Seq(S) /\ Len(r) = n
  <2>1. r \in [1 .. n -> S]
    BY <1>1, <1>2, <1>3
  <2>2. Seq(S) = UNION {[1 .. i -> S] : i \in Nat}
    BY SeqDef
  <2>3. r \in Seq(S)
    BY <1>1, <2>1, <2>2
  <2> QED
    BY <1>1, <2>1, <2>3
<1>5. ASSUME NEW j \in 1 .. n, NEW k \in 1 .. n, r[j] = r[k]
      PROVE  j = k
  <2>1. a[j] \in 1 .. Len(s) /\ a[k] \in 1 .. Len(s) /\ s[a[j]] = s[a[k]]
    BY <1>1, <1>2, <1>5
  <2>2. \A i, l \in 1 .. Len(s) : s[i] = s[l] => i = l
    BY DEF Arranges
  <2>3. a[j] = a[k]
    BY <2>1, <2>2
  <2> QED
    BY <2>3 DEF Arranges
<1>6. ASSUME NEW x \in S PROVE \E k \in 1 .. n : r[k] = x
  <2>1. PICK q \in Q : x = s[q]
    BY <1>3
  <2>2. PICK k \in 1 .. n : a[k] = q
    BY DEF Arranges
  <2> QED
    BY <1>2, <2>1, <2>2
<1>7. Arranges(r, S)
  BY <1>4, <1>5, <1>6 DEF Arranges
<1> QED
  BY <1>1, <1>2, <1>4, <1>7 DEF r, S

\* A sequence put in the order of sorted places.
LEMMA ReorderedArranges ==
    ASSUME NEW s, NEW P, Arranges(s, P), NEW a, Arranges(a, 1 .. Len(s))
    PROVE  /\ Arranges(Picked(s, a), P) /\ Len(Picked(s, a)) = Len(s) /\ Len(a) = Len(s)
           /\ \A k \in 1 .. Len(s) : a[k] \in 1 .. Len(s) /\ Picked(s, a)[k] = s[a[k]]
<1> DEFINE Q == 1 .. Len(s)
<1>1. Len(s) \in Nat
  BY ArrangedParts
<1>2. Len(a) = Len(s)
  <2>1. Cardinality(1 .. Len(s)) = Len(a)
    BY ArrangedLength
  <2>2. Cardinality(1 .. Len(s)) = Len(s)
    BY <1>1, IntervalSize
  <2> QED
    BY <2>1, <2>2
<1>3. Arranges(a, Q) /\ Q \in SUBSET (1 .. Len(s))
  OBVIOUS
<1>4. Image(s, Q) = P
  <2>1. Image(s, Q) = UpTo(s, Len(s))
    BY DEF Image, UpTo
  <2> QED
    BY <2>1, WholeSequence
<1> HIDE DEF Q
<1>5. Arranges(Picked(s, a), Image(s, Q)) /\ Len(Picked(s, a)) = Len(a)
  BY <1>3, PickedArranges
<1>6. \A k \in 1 .. Len(a) : a[k] \in 1 .. Len(s) /\ Picked(s, a)[k] = s[a[k]]
  BY PickedParts
<1> QED
  BY <1>2, <1>4, <1>5, <1>6

-----------------------------------------------------------------------------
\* A sorted sequence, for a comparator given on its places: what it contains, its
\* neighbours, and where "not before" is transitive, any two of its elements.
Sorted(s, before) == Picked(s, SortedPlaces(Len(s), before))

LEMMA SortedArranges ==
    ASSUME NEW s, NEW P, Arranges(s, P), NEW before, Asymmetric(before)
    PROVE  Arranges(Sorted(s, before), P) /\ Len(Sorted(s, before)) = Len(s)
<1>1. Len(s) \in Nat
  BY ArrangedParts
<1>2. Arranges(SortedPlaces(Len(s), before), 1 .. Len(s))
  BY <1>1, SortedPlacesRespect
<1> QED
  BY <1>2, ReorderedArranges DEF Sorted

LEMMA SortedNeighbours ==
    ASSUME NEW s, NEW P, Arranges(s, P), NEW before, Asymmetric(before),
           NEW k, k \in 1 .. Len(s) - 1
    PROVE  \E i, j \in 1 .. Len(s) : /\ Sorted(s, before)[k] = s[i] /\ Sorted(s, before)[k + 1] = s[j]
                                     /\ <<j, i>> \notin before
<1> DEFINE a == SortedPlaces(Len(s), before)
<1>1. Len(s) \in Nat
  BY ArrangedParts
<1>2. Arranges(a, 1 .. Len(s)) /\ Respects(a, before)
  BY <1>1, SortedPlacesRespect
<1> HIDE DEF a
<1>3. Len(a) = Len(s)
  BY <1>2, ReorderedArranges
<1>4. \A l \in 1 .. Len(s) : a[l] \in 1 .. Len(s) /\ Picked(s, a)[l] = s[a[l]]
  BY <1>2, <1>3, PickedParts
<1>5. k \in 1 .. Len(s) /\ k + 1 \in 1 .. Len(s)
  BY <1>1
<1>6. <<a[k + 1], a[k]>> \notin before
  BY <1>2, <1>3 DEF Respects
<1>7. Sorted(s, before) = Picked(s, a)
  BY DEF Sorted, a
<1> QED
  BY <1>4, <1>5, <1>6, <1>7

LEMMA SortedAll ==
    ASSUME NEW s, NEW P, Arranges(s, P), NEW before, Asymmetric(before),
           WeaklyOrders(before, 1 .. Len(s)),
           NEW k, k \in 1 .. Len(s), NEW l, l \in 1 .. Len(s), k <= l
    PROVE  \E i, j \in 1 .. Len(s) : /\ Sorted(s, before)[k] = s[i] /\ Sorted(s, before)[l] = s[j]
                                     /\ <<j, i>> \notin before
<1> DEFINE a == SortedPlaces(Len(s), before)
           P1 == 1 .. Len(s)
<1>1. Len(s) \in Nat
  BY ArrangedParts
<1>2. Arranges(a, P1) /\ Respects(a, before)
  BY <1>1, SortedPlacesRespect
<1> HIDE DEF a
<1>3. Len(a) = Len(s)
  BY <1>2, ReorderedArranges
<1>4. \A i \in 1 .. Len(s) : a[i] \in 1 .. Len(s) /\ Picked(s, a)[i] = s[a[i]]
  BY <1>2, <1>3, PickedParts
<1>5. WeaklyOrders(before, P1)
  OBVIOUS
<1> HIDE DEF P1
<1>6. \A i, j \in 1 .. Len(a) : i <= j => <<a[j], a[i]>> \notin before
  BY <1>2, <1>5, RespectsAll
<1>7. Sorted(s, before) = Picked(s, a)
  BY DEF Sorted, a
<1> QED
  BY <1>3, <1>4, <1>6, <1>7
=============================================================================
