-------------------------- MODULE NewsIndexProofs --------------------------
(***************************************************************************)
(* The properties of NewsIndex, for any documents, languages, weights and  *)
(* widths of integers.                                                     *)
(*                                                                         *)
(* IndexInv is the inductive invariant of building the index: the clusters *)
(* of a language are a partition of its documents in the order of their    *)
(* freshest ones, and each is what summarizing makes of it.  AnswerFits    *)
(* says of the answer what was shown, in which order and with which ages.  *)
(***************************************************************************)
EXTENDS NewsIndex, SortingProofs, TLAPS

\* A conversion to int32_t keeps what an int32_t can hold.
LEMMA Int32Keeps ==
    ASSUME NEW n \in Int, -Half <= n, n < Half
    PROVE  ToInt32(n) = n
<1>1. Half \in Nat \ {0}
    BY NewsIndexAssumption
<1>2. (n + Half) % (2 * Half) = n + Half
    BY <1>1
<1> QED
    BY <1>1, <1>2 DEF ToInt32

\* A window that was an int is that int again as an int32_t.
LEMMA WindowComesBack ==
    ASSUME NEW period \in -Half .. Half - 1
    PROVE  ToInt32(ToUint64(period)) = period
<1>1. /\ Half \in Nat \ {0} /\ Wide \in Nat /\ Wide > 4 * Half
      /\ \A n \in -Half .. 2 * Half : (n + Wide) % (2 * Half) = n % (2 * Half)
    BY NewsIndexAssumption
<1>2. CASE period >= 0
    <2>1. ToUint64(period) = period
        BY <1>1, <1>2 DEF ToUint64
    <2> QED
        BY <1>1, <1>2, <2>1, Int32Keeps
<1>3. CASE period < 0
    <2>1. ToUint64(period) = period + Wide
        BY <1>1, <1>3 DEF ToUint64
    <2>2. period + Half \in -Half .. 2 * Half
        BY <1>1, <1>3
    <2>3. ((period + Half) + Wide) % (2 * Half) = (period + Half) % (2 * Half)
        BY <1>1, <2>2
    <2>4. (period + Wide) + Half = (period + Half) + Wide
        BY <1>1
    <2>5. ToInt32(period + Wide) = ToInt32(period)
        BY <2>3, <2>4 DEF ToInt32
    <2> QED
        BY <1>1, <1>3, <2>1, <2>5, Int32Keeps
<1> QED
    BY <1>1, <1>2, <1>3

\* Age computes with 32 and 64 bits what it would compute with integers, for
\* every cluster and period of a /threads request, as long as the window does
\* not reach back behind the time 0: AgesAreExact for one cluster.
THEOREM AgeIsExact ==
    ASSUME NEW BestTimestamp \in 0 .. Half - 1, NEW iterTimestamp \in 0 .. Half - 1,
           NEW period \in -Half .. Half - 1, BestTimestamp + period >= 0
    PROVE  Age(BestTimestamp, iterTimestamp, ToUint64(period))
             = IF BestTimestamp + period < iterTimestamp
               THEN {BestTimestamp + period - iterTimestamp}
               ELSE {}
<1> DEFINE end == BestTimestamp + period
<1>1. Half \in Nat \ {0} /\ Wide \in Nat /\ Wide > 4 * Half
    BY NewsIndexAssumption
<1>2. ToInt32(BestTimestamp) = BestTimestamp /\ ToInt32(iterTimestamp) = iterTimestamp
    BY <1>1, Int32Keeps
<1>3. ToInt32(ToUint64(period)) = period
    BY WindowComesBack
<1>4. ToUint64(BestTimestamp + ToUint64(period)) = end
    <2>1. CASE period >= 0
        BY <1>1, <2>1 DEF ToUint64
    <2>2. CASE period < 0
        <3>1. ToUint64(period) = period + Wide
            BY <1>1, <2>2 DEF ToUint64
        <3>2. (BestTimestamp + (period + Wide)) % Wide = end
            BY <1>1, <2>2
        <3> QED
            BY <3>1, <3>2 DEF ToUint64
    <2> QED
        BY <1>1, <2>1, <2>2
<1>5. CASE end < iterTimestamp
    <2>1. ToInt32(end) = end /\ ToInt32(end - iterTimestamp) = end - iterTimestamp
        BY <1>1, <1>5, Int32Keeps
    <2> QED
        BY <1>2, <1>3, <1>4, <1>5, <2>1 DEF Age
<1>6. CASE ~(end < iterTimestamp)
    BY <1>2, <1>4, <1>6 DEF Age
<1> QED
    BY <1>5, <1>6

-----------------------------------------------------------------------------
LEMMA HalfIsNat == Half \in Nat /\ Half - 1 \in Nat
BY NewsIndexAssumption

AreDocuments == docs \in Seq(DocumentKinds) /\ Len(docs) <= MaxDocs

LEMMA DocumentParts ==
    ASSUME AreDocuments
    PROVE  /\ Len(docs) \in Nat /\ Len(docs) <= MaxDocs /\ DOMAIN docs = 1 .. Len(docs)
           /\ \A i \in DOMAIN docs : docs[i] \in Document /\ FetchTime(i) \in 0 .. Half - 1
<1>1. Len(docs) \in Nat /\ Len(docs) <= MaxDocs /\ DOMAIN docs = 1 .. Len(docs)
  BY LenProperties DEF AreDocuments
<1>2. ASSUME NEW i \in DOMAIN docs
      PROVE  docs[i] \in Document /\ FetchTime(i) \in 0 .. Half - 1
  <2>1. docs[i] \in DocumentKinds
    BY <1>1, ElementOfSeq DEF AreDocuments
  <2>2. docs[i] \in Document
    BY <2>1, NewsClusterAssumption
  <2>3. docs[i].FetchTime \in Nat /\ docs[i].FetchTime < Half
    BY <2>1, <2>2, NewsIndexAssumption DEF Document
  <2> QED
    BY <2>2, <2>3, HalfIsNat DEF FetchTime
<1> QED
  BY <1>1, <1>2

\* A sequence that arranges a set has its elements.
LEMMA ArrangedSet ==
    ASSUME NEW documents, NEW S, Arranges(documents, S)
    PROVE  ToSet(documents) = S
<1>1. DOMAIN documents = 1 .. Len(documents)
  BY ArrangedParts
<1>2. ToSet(documents) = UpTo(documents, Len(documents))
  BY <1>1 DEF ToSet, UpTo
<1> QED
  BY <1>2, WholeSequence

\* AddedTimestamp is the time of a newest document, whatever their order.
NewestOf(S) == Max({FetchTime(i) : i \in S})

LEMMA AddedIsNewest ==
    ASSUME NEW documents, NEW S, Arranges(documents, S)
    PROVE  AddedTimestamp(documents) = NewestOf(S)
<1>1. ToSet(documents) = S
  BY ArrangedSet
<1>2. {FetchTime(documents[k]) : k \in DOMAIN documents} = {FetchTime(i) : i \in ToSet(documents)}
  BY DEF ToSet
<1> QED
  BY <1>1, <1>2 DEF AddedTimestamp, NewestOf

LEMMA NewestIsNewest ==
    ASSUME AreDocuments, NEW S, S \in SUBSET DOMAIN docs, S # {}
    PROVE  /\ NewestOf(S) \in 0 .. Half - 1
           /\ \E i \in S : FetchTime(i) = NewestOf(S)
           /\ \A i \in S : FetchTime(i) <= NewestOf(S)
<1> DEFINE T == {FetchTime(i) : i \in S}
<1>1. Half - 1 \in Nat /\ \A i \in S : FetchTime(i) \in 0 .. Half - 1
  BY DocumentParts, HalfIsNat
<1>2. T # {} /\ \A t \in T : t \in 0 .. Half - 1
  BY <1>1
<1>3. \A i \in S : FetchTime(i) \in T
  OBVIOUS
<1>4. \A t \in T : \E i \in S : FetchTime(i) = t
  OBVIOUS
<1>5. NewestOf(S) = Max(T)
  BY DEF NewestOf
<1> HIDE DEF T
<1>6. \E m \in T : \A t \in T : t <= m
  BY <1>1, <1>2, GreatestElement
<1>7. \E m \in T : \A t \in T : m >= t
  BY <1>2, <1>6
<1>8. Max(T) \in T /\ \A t \in T : Max(T) >= t
  BY <1>7 DEF Max
<1>9. \A t \in T : t <= Max(T)
  BY <1>2, <1>8
<1> QED
  BY <1>2, <1>3, <1>4, <1>5, <1>8, <1>9

-----------------------------------------------------------------------------
DocsBefore == {p \in (DOMAIN docs) \X (DOMAIN docs) :
                 \/ FetchTime(p[1]) < FetchTime(p[2])
                 \/ FetchTime(p[1]) = FetchTime(p[2]) /\ p[1] < p[2]}

\* The documents are sorted by their times.
LEMMA DocsAreSorted ==
    ASSUME AreDocuments
    PROVE  /\ Arranges(SortedDocs, DOMAIN docs) /\ Len(SortedDocs) = Len(docs)
           /\ \A k, l \in 1 .. Len(docs) : k <= l => FetchTime(SortedDocs[k]) <= FetchTime(SortedDocs[l])
<1> DEFINE n == Len(docs)
           s == [i \in DOMAIN docs |-> i]
<1>1. /\ n \in Nat /\ DOMAIN docs = 1 .. n
      /\ \A i \in 1 .. n : i \in Nat /\ FetchTime(i) \in Nat
  BY DocumentParts
<1>2. Arranges(s, 1 .. n)
  <2>1. s = [k \in 1 .. n |-> 0 + k]
    BY <1>1
  <2>2. Arranges([k \in 1 .. n |-> 0 + k], 0 + 1 .. 0 + n)
    BY <1>1, PlacesArrange
  <2>3. 0 + 1 = 1 /\ 0 + n = n
    BY <1>1
  <2> QED
    BY <2>1, <2>2, <2>3
<1>3. Len(s) = n /\ DOMAIN s = 1 .. n /\ \A k \in 1 .. n : s[k] = k
  BY <1>1
<1>4. SortedDocs = Sorted(s, DocsBefore)
  <2>1. DocsBefore = {p \in (DOMAIN s) \X (DOMAIN s) :
                        \/ FetchTime(s[p[1]]) < FetchTime(s[p[2]])
                        \/ FetchTime(s[p[1]]) = FetchTime(s[p[2]]) /\ s[p[1]] < s[p[2]]}
    BY <1>1, <1>3 DEF DocsBefore
  <2> QED
    BY <2>1 DEF SortedDocs, StableSort, Sorted
<1>5. \A i, j \in 1 .. n : <<i, j>> \in DocsBefore <=>
         FetchTime(i) < FetchTime(j) \/ (FetchTime(i) = FetchTime(j) /\ i < j)
  BY <1>1 DEF DocsBefore
<1>6. \A i, j : <<i, j>> \in DocsBefore => i \in 1 .. n /\ j \in 1 .. n
  BY <1>1 DEF DocsBefore
<1>7. Asymmetric(DocsBefore)
  BY <1>1, <1>5, <1>6 DEF Asymmetric
<1>8. WeaklyOrders(DocsBefore, 1 .. n)
  BY <1>1, <1>5 DEF WeaklyOrders
<1> HIDE DEF s
<1>9. Arranges(SortedDocs, 1 .. n) /\ Len(SortedDocs) = n
  BY <1>2, <1>3, <1>4, <1>7, SortedArranges
<1>10. ASSUME NEW k \in 1 .. n, NEW l \in 1 .. n, k <= l
       PROVE  FetchTime(SortedDocs[k]) <= FetchTime(SortedDocs[l])
  <2>1. PICK i, j \in 1 .. Len(s) : /\ SortedDocs[k] = s[i] /\ SortedDocs[l] = s[j]
                                    /\ <<j, i>> \notin DocsBefore
    BY <1>2, <1>3, <1>4, <1>7, <1>8, <1>10, SortedAll
  <2>2. SortedDocs[k] = i /\ SortedDocs[l] = j /\ i \in 1 .. n /\ j \in 1 .. n
    BY <1>3, <2>1
  <2> QED
    BY <1>1, <1>5, <2>1, <2>2
<1> QED
  BY <1>1, <1>9, <1>10

LEMMA ReverseArranges ==
    ASSUME NEW s, NEW P, Arranges(s, P)
    PROVE  Arranges(Reverse(s), P)
<1> DEFINE n == Len(s)
           r == Reverse(s)
<1>1. n \in Nat /\ \A k \in 1 .. n : s[k] \in P /\ n - k + 1 \in 1 .. n /\ n - (n - k + 1) + 1 = k
  BY ArrangedParts
<1>2. r = [k \in 1 .. n |-> s[n - k + 1]]
  BY DEF Reverse
<1>3. \A k \in 1 .. n : r[k] = s[n - k + 1]
  BY <1>2
<1> HIDE DEF r
<1>4. r \in Seq(P) /\ Len(r) = n
  <2>1. r \in [1 .. n -> P]
    BY <1>1, <1>2
  <2>2. Seq(P) = UNION {[1 .. i -> P] : i \in Nat}
    BY SeqDef
  <2>3. r \in Seq(P)
    BY <1>1, <2>1, <2>2
  <2> QED
    BY <1>1, <2>1, <2>3
<1>5. ASSUME NEW j \in 1 .. n, NEW k \in 1 .. n, r[j] = r[k]
      PROVE  j = k
  <2>1. n - j + 1 \in 1 .. n /\ n - k + 1 \in 1 .. n /\ s[n - j + 1] = s[n - k + 1]
    BY <1>1, <1>3, <1>5
  <2>2. n - j + 1 = n - k + 1
    BY <2>1 DEF Arranges
  <2> QED
    BY <1>1, <2>2
<1>6. ASSUME NEW x \in P PROVE \E k \in 1 .. n : r[k] = x
  <2>1. PICK k \in 1 .. n : s[k] = x
    BY DEF Arranges
  <2>2. n - k + 1 \in 1 .. n /\ r[n - k + 1] = s[k]
    BY <1>1, <1>3
  <2> QED
    BY <2>1, <2>2
<1>7. Arranges(r, P)
  BY <1>4, <1>5, <1>6 DEF Arranges
<1> QED
  BY <1>7 DEF r

DocsOf(language) == {i \in DOMAIN docs : docs[i].Language = language}

LEMMA LangDocsArrange ==
    ASSUME AreDocuments, NEW language
    PROVE  Arranges(Lang2Docs(language), DocsOf(language))
<1> DEFINE s == Reverse(SortedDocs)
           Q == {k \in DOMAIN s : docs[s[k]].Language = language}
<1>1. Arranges(s, DOMAIN docs)
  BY DocsAreSorted, ReverseArranges
<1>2. Lang2Docs(language) = Picked(s, Ascending(Q))
  BY DEF Lang2Docs, Selected
<1> HIDE DEF s
<1>3. Len(s) \in Nat /\ DOMAIN s = 1 .. Len(s) /\ \A k \in 1 .. Len(s) : s[k] \in DOMAIN docs
  BY <1>1, ArrangedParts
<1>4. /\ \A k \in Q : k \in 1 .. Len(s)
      /\ Q \in SUBSET (1 .. Len(s))
  BY <1>3
<1>5. Image(s, Q) = DocsOf(language)
  <2>1. ASSUME NEW k \in Q PROVE s[k] \in DocsOf(language)
    BY <1>3 DEF DocsOf
  <2>2. ASSUME NEW i \in DocsOf(language) PROVE \E k \in Q : i = s[k]
    <3>1. PICK k \in 1 .. Len(s) : s[k] = i
      BY <1>1 DEF Arranges, DocsOf
    <3> QED
      BY <1>3, <3>1 DEF DocsOf
  <2> QED
    BY <2>1, <2>2 DEF Image
<1> HIDE DEF Q
<1>6. Arranges(Ascending(Q), Q)
  BY <1>3, <1>4, AscendingArranges
<1>7. Arranges(Picked(s, Ascending(Q)), Image(s, Q))
  BY <1>1, <1>4, <1>6, PickedArranges
<1> QED
  BY <1>2, <1>5, <1>7

-----------------------------------------------------------------------------
NewestTime(sorted) == IF sorted = << >> THEN 0 ELSE FetchTime(Last(sorted))

\* The two timestamps of an index are those of documents: of the newest of all,
\* and of one that at most the share beyond the percentile is newer than.
LEMMA TimestampsAreExact ==
    ASSUME AreDocuments
    PROVE  /\ GetIterTimestamp(SortedDocs) \in 0 .. Half - 1
           /\ NewestTime(SortedDocs) \in 0 .. Half - 1
           /\ \A i \in DOMAIN docs : FetchTime(i) <= NewestTime(SortedDocs)
           /\ docs # << >> => \E i \in DOMAIN docs : FetchTime(i) = NewestTime(SortedDocs)
           /\ Cardinality({i \in DOMAIN docs : FetchTime(i) > GetIterTimestamp(SortedDocs)}) * 100
                 <= (100 - Percentile) * Len(docs)
<1> DEFINE n == Len(docs)
           s == SortedDocs
           t == GetIterTimestamp(s)
           later == {i \in DOMAIN docs : FetchTime(i) > t}
<1>1. /\ n \in Nat /\ DOMAIN docs = 1 .. n /\ Half - 1 \in Nat
      /\ \A i \in 1 .. n : FetchTime(i) \in 0 .. Half - 1
  BY DocumentParts, HalfIsNat
<1>2. Arranges(s, 1 .. n) /\ Len(s) = n
  BY <1>1, DocsAreSorted
<1>3. \A k, l \in 1 .. n : k <= l => FetchTime(s[k]) <= FetchTime(s[l])
  BY DocsAreSorted
<1>4. \A k \in 1 .. n : s[k] \in 1 .. n /\ FetchTime(s[k]) \in 0 .. Half - 1
  BY <1>1, <1>2, ArrangedParts
<1>5. \A i \in 1 .. n : \E k \in 1 .. n : s[k] = i
  BY <1>2 DEF Arranges
<1>6. Percentile \in 0 .. 99
  BY NewsIndexAssumption
<1>7. CASE n = 0
  <2>1. s = << >>
    BY <1>2, <1>7, EmptySeq DEF Arranges
  <2>2. t = 0 /\ NewestTime(s) = 0
    BY <2>1 DEF GetIterTimestamp, NewestTime
  <2>3. later = {} /\ docs = << >>
    <3>1. docs = << >>
      BY <1>7, EmptySeq DEF AreDocuments
    <3> QED
      BY <1>1, <1>7, <3>1
  <2>4. Cardinality(later) = 0
    BY <2>3, FS_EmptySet
  <2> HIDE DEF later, t, s
  <2>5. Cardinality(later) * 100 <= (100 - Percentile) * n
    BY <1>6, <1>7, <2>4
  <2>6. t \in 0 .. Half - 1 /\ NewestTime(s) \in 0 .. Half - 1
    BY <1>1, <2>2
  <2> QED
    BY <1>1, <1>7, <2>3, <2>5, <2>6 DEF later, t, s
<1>8. CASE n > 0
  <2>1. s # << >>
    BY <1>2, <1>8, EmptySeq DEF Arranges
  <2> DEFINE m == (Percentile * n) \div 100
  <2>2. t = FetchTime(s[m + 1]) /\ NewestTime(s) = FetchTime(s[n])
    BY <1>2, <2>1 DEF GetIterTimestamp, NewestTime, Last
  <2>3. m \in Nat /\ m + 1 \in 1 .. n /\ n \in 1 .. n
    <3>1. Percentile * n \in Nat /\ Percentile * n <= 99 * n
      BY <1>1, <1>6
    <3>2. m \in Nat /\ m * 100 <= Percentile * n
      BY <3>1
    <3> HIDE DEF m
    <3> QED
      BY <1>1, <1>8, <3>1, <3>2
  <2>4. Percentile * n <= 100 * m + 99
    <3>1. Percentile * n \in Nat
      BY <1>1, <1>6
    <3> QED
      BY <3>1
  <2> HIDE DEF m
  <2>5. t \in 0 .. Half - 1 /\ NewestTime(s) \in 0 .. Half - 1
    BY <1>4, <2>2, <2>3
  <2>6. ASSUME NEW i \in DOMAIN docs PROVE FetchTime(i) <= NewestTime(s)
    <3>1. PICK k \in 1 .. n : s[k] = i
      BY <1>1, <1>5
    <3> QED
      BY <1>1, <1>3, <2>2, <2>3, <3>1
  <2>7. \E i \in DOMAIN docs : FetchTime(i) = NewestTime(s)
    BY <1>1, <1>4, <2>2, <2>3
  <2>8. Cardinality(later) <= n - (m + 1) /\ Cardinality(later) \in Nat
    <3> DEFINE S == m + 2 .. n
               place == [i \in later |-> CHOOSE k \in 1 .. n : s[k] = i]
    <3>1. ASSUME NEW i \in later
          PROVE  place[i] \in S /\ s[place[i]] = i
      <4>1. i \in 1 .. n /\ FetchTime(i) > t
        BY <1>1
      <4>2. place[i] \in 1 .. n /\ s[place[i]] = i
        BY <1>5, <4>1
      <4> DEFINE k == place[i]
      <4>3. k \in 1 .. n /\ s[k] = i
        BY <4>2
      <4> HIDE DEF k
      <4>4. ~(k <= m + 1)
        <5>1. ASSUME k <= m + 1 PROVE FALSE
          <6>1. FetchTime(s[k]) <= FetchTime(s[m + 1])
            BY <1>3, <2>3, <4>3, <5>1
          <6>2. FetchTime(i) \in Nat /\ t \in Nat
            BY <1>1, <2>5, <4>1
          <6> QED
            BY <2>2, <4>1, <4>3, <6>1, <6>2
        <5> QED
          BY <5>1
      <4>5. k \in S
        BY <2>3, <4>3, <4>4
      <4> QED
        BY <4>3, <4>5 DEF k
    <3>2. IsFiniteSet(S) /\ Cardinality(S) = n - (m + 1)
      <4>1. m + 2 \in Int /\ n \in Int /\ m + 2 <= n + 1
        BY <1>1, <2>3
      <4>2. IsFiniteSet(S) /\ Cardinality(S) = IF m + 2 > n THEN 0 ELSE n - (m + 2) + 1
        BY <4>1, FS_Interval
      <4>3. (IF m + 2 > n THEN 0 ELSE n - (m + 2) + 1) = n - (m + 1)
        <5>1. m \in Int /\ n \in Int /\ m + 2 <= n + 1
          BY <1>1, <2>3, <4>1
        <5>2. CASE m + 2 > n
          BY <5>1, <5>2
        <5>3. CASE ~(m + 2 > n)
          BY <5>1, <5>3
        <5> QED
          BY <5>2, <5>3
      <4> QED
        BY <4>2, <4>3
    <3> HIDE DEF S
    <3>3. place \in Injection(later, S)
      <4>1. place \in [later -> S]
        BY <3>1
      <4>2. \A i, j \in later : place[i] = place[j] => i = j
        BY <3>1
      <4> HIDE DEF place, later
      <4> QED
        BY <4>1, <4>2 DEF Injection, IsInjective
    <3> HIDE DEF place, later
    <3>4. IsFiniteSet(later) /\ Cardinality(later) <= Cardinality(S)
      BY <3>2, <3>3, FS_Injection
    <3> QED
      BY <3>2, <3>4, FS_CardinalityType
  <2> HIDE DEF later, t, s
  <2>9. Cardinality(later) * 100 <= (100 - Percentile) * n
    <3>1. (100 - Percentile) * n = 100 * n - Percentile * n /\ Percentile * n \in Nat
      BY <1>1, <1>6
    <3> QED
      BY <1>1, <2>3, <2>4, <2>8, <3>1
  <2> QED
    BY <2>5, <2>6, <2>7, <2>9 DEF later, t, s
<1> QED
  BY <1>1, <1>7, <1>8

-----------------------------------------------------------------------------
(***************************************************************************)
(* The clusters of a language: they partition its documents.               *)
(***************************************************************************)
Cluster0 ==
    [Documents : Seq(1 .. MaxDocs), FreshestTimestamp : 0 .. Half - 1,
     Importance : Nat, BestTimestamp : 0 .. Half - 1, Category : Categories]

\* A cluster of documents of D, each once, dated by the newest of them.
IsClusterOf(c, D) ==
    /\ c \in Cluster0
    /\ \E P \in SUBSET D : /\ P # {} /\ Arranges(c.Documents, P)
                           /\ c.FreshestTimestamp = NewestOf(P)

HasDocument(c, i) == i \in ToSet(c.Documents)

\* Clusters that have every document of D, each in one of them.
Partition(C, D) ==
    /\ \A c \in C : IsClusterOf(c, D)
    /\ \A b \in C, c \in C, i \in D : HasDocument(b, i) /\ HasDocument(c, i) => b = c
    /\ \A i \in D : \E c \in C : HasDocument(c, i)

Partitions(cs, D) == Arranges(cs, ToSet(cs)) /\ Partition(ToSet(cs), D)

LEMMA DocumentsInBounds ==
    ASSUME AreDocuments, NEW documents, NEW P, P \in SUBSET DOMAIN docs, Arranges(documents, P)
    PROVE  documents \in Seq(1 .. MaxDocs)
<1>1. documents \in Seq(P)
  BY DEF Arranges
<1>2. Len(documents) \in Nat /\ DOMAIN documents = 1 .. Len(documents)
      /\ \A k \in 1 .. Len(documents) : documents[k] \in P
  BY ArrangedParts
<1>3. MaxDocs \in Nat
  BY NewsIndexAssumption
<1>4. \A i \in P : i \in 1 .. MaxDocs
  BY <1>3, DocumentParts
<1> DEFINE S == 1 .. MaxDocs
<1>5. \A k \in 1 .. Len(documents) : documents[k] \in S
  BY <1>2, <1>4
<1> HIDE DEF S
<1>6. documents \in [1 .. Len(documents) -> S]
  <2>1. documents = [k \in 1 .. Len(documents) |-> documents[k]]
    BY <1>1, <1>2, LenProperties
  <2> QED
    BY <1>5, <2>1
<1>7. Seq(S) = UNION {[1 .. i -> S] : i \in Nat}
  BY SeqDef
<1>8. documents \in Seq(S)
  BY <1>2, <1>6, <1>7
<1> QED
  BY <1>8 DEF S

\* A cluster that is made of documents is a cluster of them.
ClusterWith(documents, importance, best, category) ==
    [Documents |-> documents, FreshestTimestamp |-> AddedTimestamp(documents),
     Importance |-> importance, BestTimestamp |-> best, Category |-> category]

LEMMA MadeCluster ==
    ASSUME AreDocuments, NEW D, D \in SUBSET DOMAIN docs, NEW P, P \in SUBSET D, P # {},
           NEW documents, Arranges(documents, P),
           NEW importance, importance \in Nat, NEW best, best \in 0 .. Half - 1,
           NEW category, category \in Categories
    PROVE  LET c == ClusterWith(documents, importance, best, category)
           IN  IsClusterOf(c, D) /\ ToSet(c.Documents) = P
<1> DEFINE c == ClusterWith(documents, importance, best, category)
<1>1. P \in SUBSET DOMAIN docs
  OBVIOUS
<1>2. documents \in Seq(1 .. MaxDocs)
  BY <1>1, DocumentsInBounds
<1>3. AddedTimestamp(documents) = NewestOf(P) /\ NewestOf(P) \in 0 .. Half - 1
  BY <1>1, AddedIsNewest, NewestIsNewest
<1>4. /\ c.Documents = documents /\ c.FreshestTimestamp = NewestOf(P)
      /\ c \in Cluster0
  BY <1>2, <1>3 DEF Cluster0, ClusterWith
<1>5. ToSet(documents) = P
  BY ArrangedSet
<1> HIDE DEF c
<1>6. IsClusterOf(c, D) /\ ToSet(c.Documents) = P
  BY <1>4, <1>5 DEF IsClusterOf
<1> QED
  BY <1>6 DEF c

\* The documents with a label.
LEMMA LabelledArranges ==
    ASSUME NEW langDocs, NEW D, Arranges(langDocs, D), NEW label, NEW first
    PROVE  Arranges(Labelled(langDocs, label, first),
                    Image(langDocs, {k \in DOMAIN langDocs : label[k] = first}))
<1> DEFINE Q == {k \in DOMAIN langDocs : label[k] = first}
<1>1. Len(langDocs) \in Nat /\ DOMAIN langDocs = 1 .. Len(langDocs)
  BY ArrangedParts
<1>2. Q \in SUBSET (1 .. Len(langDocs)) /\ \A k \in Q : k \in 1 .. Len(langDocs)
  BY <1>1
<1>3. Labelled(langDocs, label, first) = Picked(langDocs, Ascending(Q))
  BY DEF Labelled
<1> HIDE DEF Q
<1>4. Arranges(Ascending(Q), Q)
  BY <1>1, <1>2, AscendingArranges
<1>5. Arranges(Picked(langDocs, Ascending(Q)), Image(langDocs, Q))
  BY <1>2, <1>4, PickedArranges
<1> QED
  BY <1>3, <1>5 DEF Q

\* A labelling partitions the documents.
LEMMA LabellingPartitions ==
    ASSUME AreDocuments, NEW D, D \in SUBSET DOMAIN docs, NEW langDocs, Arranges(langDocs, D),
           NEW label, label \in Labellings(Len(langDocs))
    PROVE  Partitions(LabelledClusters(langDocs, label), D)
<1> DEFINE n == Len(langDocs)
           F == {k \in DOMAIN langDocs : label[k] = k}
           firsts == Ascending(F)
           cs == LabelledClusters(langDocs, label)
           Of(f) == Image(langDocs, {k \in DOMAIN langDocs : label[k] = f})
<1>1. n \in Nat /\ DOMAIN langDocs = 1 .. n /\ \A k \in 1 .. n : langDocs[k] \in D
  BY ArrangedParts
<1>2. /\ \A j, k \in 1 .. n : langDocs[j] = langDocs[k] => j = k
      /\ \A i \in D : \E k \in 1 .. n : langDocs[k] = i
  BY DEF Arranges
<1>3. \A k \in 1 .. n : label[k] \in 1 .. n /\ label[label[k]] = label[k]
  BY DEF Labellings
<1>4. \A f \in F : f \in 1 .. n /\ label[f] = f
  BY <1>1
<1>5. \A k \in 1 .. n : label[k] \in F
  BY <1>1, <1>3
<1>6. \A f, i : i \in Of(f) <=> \E k \in 1 .. n : label[k] = f /\ langDocs[k] = i
  BY <1>1 DEF Image
<1>7. \A f : Arranges(Labelled(langDocs, label, f), Of(f))
  BY LabelledArranges
<1>8. cs = [k \in DOMAIN firsts |->
              [Documents |-> Labelled(langDocs, label, firsts[k]),
               FreshestTimestamp |-> AddedTimestamp(Labelled(langDocs, label, firsts[k])),
               Importance |-> 0, BestTimestamp |-> 0, Category |-> "NC_UNDEFINED"]]
  BY DEF LabelledClusters
<1>9. Arranges(firsts, F)
  <2> HIDE DEF F
  <2> QED
    BY <1>1, <1>4, AscendingArranges
<1> HIDE DEF F, firsts, cs, Of
<1>10. Len(firsts) \in Nat /\ DOMAIN firsts = 1 .. Len(firsts)
       /\ \A k \in 1 .. Len(firsts) : firsts[k] \in F
  BY <1>9, ArrangedParts
<1>11. /\ \A j, k \in 1 .. Len(firsts) : firsts[j] = firsts[k] => j = k
       /\ \A f \in F : \E k \in 1 .. Len(firsts) : firsts[k] = f
  BY <1>9 DEF Arranges
<1>12. DOMAIN cs = 1 .. Len(firsts) /\ Len(cs) = Len(firsts)
  BY <1>8, <1>10
<1>13. ASSUME NEW k \in 1 .. Len(firsts)
       PROVE  IsClusterOf(cs[k], D) /\ ToSet(cs[k].Documents) = Of(firsts[k])
  <2> DEFINE f == firsts[k]
             documents == Labelled(langDocs, label, f)
  <2>1. f \in 1 .. n /\ label[f] = f
    BY <1>4, <1>10
  <2>2. cs[k] = ClusterWith(documents, 0, 0, "NC_UNDEFINED")
    BY <1>8, <1>10 DEF ClusterWith
  <2>3. Arranges(documents, Of(f))
    BY <1>7
  <2>4. Of(f) \in SUBSET D /\ Of(f) # {}
    <3>1. ASSUME NEW i \in Of(f) PROVE i \in D
      BY <1>1, <1>6
    <3>2. langDocs[f] \in Of(f)
      BY <1>6, <2>1
    <3> QED
      BY <3>1, <3>2
  <2>5. 0 \in Nat /\ 0 \in 0 .. Half - 1 /\ "NC_UNDEFINED" \in Categories
    BY HalfIsNat DEF Categories
  <2> HIDE DEF f, documents
  <2>6. IsClusterOf(cs[k], D) /\ ToSet(cs[k].Documents) = Of(f)
    BY <2>2, <2>3, <2>4, <2>5, MadeCluster
  <2> QED
    BY <2>6 DEF f
<1>14. \A k \in 1 .. Len(firsts) : \A i : HasDocument(cs[k], i) <=> i \in Of(firsts[k])
  BY <1>13 DEF HasDocument
<1>15. ASSUME NEW j \in 1 .. Len(firsts), NEW k \in 1 .. Len(firsts), NEW i \in D,
              HasDocument(cs[j], i), HasDocument(cs[k], i)
       PROVE  j = k
  <2>1. PICK l \in 1 .. n : label[l] = firsts[j] /\ langDocs[l] = i
    BY <1>6, <1>14, <1>15
  <2>2. PICK m \in 1 .. n : label[m] = firsts[k] /\ langDocs[m] = i
    BY <1>6, <1>14, <1>15
  <2> QED
    BY <1>2, <1>11, <2>1, <2>2
<1>16. ASSUME NEW k \in 1 .. Len(firsts) PROVE \E i \in D : HasDocument(cs[k], i)
  <2>1. firsts[k] \in 1 .. n /\ label[firsts[k]] = firsts[k]
    BY <1>4, <1>10
  <2>2. langDocs[firsts[k]] \in Of(firsts[k])
    BY <1>6, <2>1
  <2> QED
    BY <1>1, <1>14, <2>1, <2>2
<1>17. Arranges(cs, ToSet(cs))
  <2>1. cs \in Seq(ToSet(cs))
    <3>1. cs \in [1 .. Len(firsts) -> ToSet(cs)]
      <4>1. cs = [k \in 1 .. Len(firsts) |-> cs[k]]
        BY <1>8, <1>10
      <4>2. \A k \in 1 .. Len(firsts) : cs[k] \in ToSet(cs)
        BY <1>12 DEF ToSet
      <4> QED
        BY <4>1, <4>2
    <3>2. Seq(ToSet(cs)) = UNION {[1 .. i -> ToSet(cs)] : i \in Nat}
      BY SeqDef
    <3> QED
      BY <1>10, <3>1, <3>2
  <2>2. \A j, k \in 1 .. Len(cs) : cs[j] = cs[k] => j = k
    BY <1>12, <1>15, <1>16
  <2>3. \A c \in ToSet(cs) : \E k \in 1 .. Len(cs) : cs[k] = c
    BY <1>12 DEF ToSet
  <2> QED
    BY <2>1, <2>2, <2>3 DEF Arranges
<1>18. Partition(ToSet(cs), D)
  <2>1. \A c : c \in ToSet(cs) <=> \E k \in 1 .. Len(firsts) : c = cs[k]
    BY <1>12 DEF ToSet
  <2>2. \A c \in ToSet(cs) : IsClusterOf(c, D)
    BY <1>13, <2>1
  <2>3. \A b \in ToSet(cs), c \in ToSet(cs), i \in D :
           HasDocument(b, i) /\ HasDocument(c, i) => b = c
    BY <1>15, <2>1
  <2>4. ASSUME NEW i \in D PROVE \E c \in ToSet(cs) : HasDocument(c, i)
    <3>1. PICK l \in 1 .. n : langDocs[l] = i
      BY <1>2
    <3>2. PICK k \in 1 .. Len(firsts) : firsts[k] = label[l]
      BY <1>5, <1>11
    <3> QED
      BY <1>6, <1>14, <2>1, <3>1, <3>2
  <2> QED
    BY <2>2, <2>3, <2>4 DEF Partition
<1> QED
  BY <1>17, <1>18 DEF Partitions, cs

ClustersBefore(cs) == {p \in (DOMAIN cs) \X (DOMAIN cs) :
                         cs[p[1]].FreshestTimestamp < cs[p[2]].FreshestTimestamp}

InOrder(cs) == \A j, k \in 1 .. Len(cs) :
    j <= k => cs[j].FreshestTimestamp <= cs[k].FreshestTimestamp

\* Sorting the clusters keeps them.
LEMMA SortingPartitions ==
    ASSUME NEW D, NEW cs, Partitions(cs, D)
    PROVE  Partitions(SortedClusters(cs), D) /\ InOrder(SortedClusters(cs))
<1> DEFINE before == ClustersBefore(cs)
           sorted == SortedClusters(cs)
           n == Len(cs)
<1>1. Arranges(cs, ToSet(cs)) /\ Partition(ToSet(cs), D)
  BY DEF Partitions
<1>2. n \in Nat /\ DOMAIN cs = 1 .. n /\ \A k \in 1 .. n : cs[k] \in ToSet(cs)
  BY <1>1, ArrangedParts
<1>3. \A k \in 1 .. n : cs[k].FreshestTimestamp \in Nat
  <2>1. \A k \in 1 .. n : cs[k] \in Cluster0
    BY <1>1, <1>2 DEF Partition, IsClusterOf
  <2> QED
    BY <2>1, HalfIsNat DEF Cluster0
<1>4. sorted = Sorted(cs, before)
  BY DEF SortedClusters, StableSort, Sorted, ClustersBefore
<1>5. \A j, k : <<j, k>> \in before <=>
         j \in 1 .. n /\ k \in 1 .. n /\ cs[j].FreshestTimestamp < cs[k].FreshestTimestamp
  BY <1>2 DEF ClustersBefore
<1>6. Asymmetric(before)
  BY <1>3, <1>5 DEF Asymmetric
<1>7. WeaklyOrders(before, 1 .. n)
  BY <1>3, <1>5 DEF WeaklyOrders
<1> HIDE DEF before, sorted
<1>8. Arranges(sorted, ToSet(cs)) /\ Len(sorted) = n
  BY <1>1, <1>4, <1>6, SortedArranges
<1>9. ASSUME NEW k \in 1 .. n, NEW l \in 1 .. n, k <= l
      PROVE  sorted[k].FreshestTimestamp <= sorted[l].FreshestTimestamp
  <2>1. PICK i, j \in 1 .. n : sorted[k] = cs[i] /\ sorted[l] = cs[j] /\ <<j, i>> \notin before
    BY <1>1, <1>4, <1>6, <1>7, <1>9, SortedAll
  <2> QED
    BY <1>3, <1>5, <2>1
<1>10. ToSet(sorted) = ToSet(cs)
  BY <1>8, ArrangedSet
<1> QED
  BY <1>1, <1>8, <1>9, <1>10 DEF Partitions, InOrder, sorted

-----------------------------------------------------------------------------
(***************************************************************************)
(* Summarizing a cluster.                                                  *)
(***************************************************************************)
LEMMA SigmoidType ==
    ASSUME NEW a, a \in 0 .. Half - 1, NEW b, b \in 0 .. Half - 1, NEW shift, shift \in {0, 8, 12}
    PROVE  Sigmoid(a - b, shift) \in Nat
<1>1. a - b \in -Half .. Half - 1
  BY HalfIsNat
<1> QED
  BY <1>1, NewsIndexAssumption

LEMMA ProductType ==
    ASSUME NEW a, a \in Nat, NEW b, b \in Nat
    PROVE  a * b \in Nat
OBVIOUS

LEMMA DocWeightType ==
    ASSUME AreDocuments, NEW i, i \in DOMAIN docs, NEW t, t \in 0 .. Half - 1
    PROVE  DocWeight(i, t) \in Int /\ docs[i].Title \in Nat
<1>1. docs[i] \in Document /\ FetchTime(i) \in 0 .. Half - 1
  BY DocumentParts
<1>2. /\ docs[i].Host \in Hosts /\ docs[i].Relevance \in Int /\ docs[i].Title \in Nat
  BY <1>1 DEF Document
<1>3. AgencyScore[Host(i)] \in Nat
  BY <1>2, NewsClusterAssumption DEF Host
<1>4. Sigmoid(FetchTime(i) - t, 12) \in Nat
  BY <1>1, SigmoidType
<1> DEFINE a == AgencyScore[Host(i)] + docs[i].Relevance
           b == Sigmoid(FetchTime(i) - t, 12)
           c == IF docs[i].Nasty THEN 1 ELSE 2
<1>5. a \in Int /\ b \in Int /\ c \in Int
  BY <1>2, <1>3, <1>4
<1>6. DocWeight(i, t) = a * b * c
  BY DEF DocWeight
<1> HIDE DEF a, b, c
<1>7. a * b \in Int
  BY <1>5
<1>8. a * b * c \in Int
  BY <1>5, <1>7
<1> QED
  BY <1>2, <1>6, <1>8

\* What is smaller than its neighbour by less than t.
LEMMA StepsAddUp ==
    ASSUME NEW n \in Nat, NEW w \in [1 .. n -> Int], NEW t \in Nat,
           \A k \in 1 .. n - 1 : w[k + 1] < w[k] + t
    PROVE  \A k, l \in 1 .. n : k < l => w[l] < w[k] + (l - k) * t
<1> DEFINE T == {m \in Nat : \E k \in 1 .. n : m > 0 /\ k + m <= n /\ ~(w[k + m] < w[k] + m * t)}
<1>0. \A m : m \in T <=>
         m \in Nat /\ \E k \in 1 .. n : m > 0 /\ k + m <= n /\ ~(w[k + m] < w[k] + m * t)
  OBVIOUS
<1> HIDE DEF T
<1>1. ASSUME T # {} PROVE FALSE
  <2>1. \A m \in T : m \in Nat
    BY <1>0
  <2>2. PICK m \in T : \A j \in T : m <= j
    BY <1>1, <2>1, LeastElement
  <2>3. m \in Nat /\ m > 0
    BY <1>0
  <2>4. PICK k \in 1 .. n : k + m <= n /\ ~(w[k + m] < w[k] + m * t)
    BY <1>0
  <2>5. CASE m = 1
    <3>1. k \in 1 .. n - 1 /\ m * t = t
      BY <2>4, <2>5
    <3> QED
      BY <2>4, <2>5, <3>1
  <2>6. CASE m > 1
    <3> DEFINE j == m - 1
    <3>1. j \in Nat /\ j > 0 /\ j < m /\ m = j + 1 /\ k + j <= n - 1 /\ k + j \in 1 .. n - 1
      BY <2>3, <2>4, <2>6
    <3>2. j \notin T
      BY <2>2, <2>3, <3>1
    <3> HIDE DEF j
    <3>3. w[k + j] < w[k] + j * t
      <4>1. k + j <= n
        BY <3>1
      <4> QED
        BY <1>0, <3>1, <3>2, <4>1
    <3>4. w[(k + j) + 1] < w[k + j] + t
      BY <3>1
    <3>5. m * t = j * t + t /\ j * t \in Int /\ (k + j) + 1 = k + m
      BY <3>1
    <3>6. w[k + m] \in Int /\ w[k] \in Int /\ w[k + j] \in Int
      BY <2>3, <2>4, <3>1
    <3>7. w[k + m] < w[k + j] + t
      BY <3>4, <3>5
    <3> DEFINE a == w[k + m]
               b == w[k + j]
               c == w[k]
               d == j * t
               e == m * t
    <3>8. a < b + t /\ b < c + d /\ e = d + t /\ ~(a < c + e)
          /\ a \in Int /\ b \in Int /\ c \in Int /\ d \in Int
      BY <2>4, <3>3, <3>5, <3>6, <3>7
    <3> HIDE DEF a, b, c, d, e
    <3> QED
      BY <3>8
  <2> QED
    BY <2>3, <2>5, <2>6
<1>2. ASSUME NEW k \in 1 .. n, NEW l \in 1 .. n, k < l
      PROVE  w[l] < w[k] + (l - k) * t
  <2> DEFINE m == l - k
  <2>1. m \in Nat /\ m > 0 /\ k + m = l /\ k + m <= n
    BY <1>2
  <2>2. m \notin T
    BY <1>1
  <2> HIDE DEF m
  <2>3. w[k + m] < w[k] + m * t
    BY <1>0, <2>1, <2>2
  <2> QED
    BY <2>1, <2>3 DEF m
<1> QED
  BY <1>2

DocsBeforeInCluster(documents, t) ==
    {p \in (DOMAIN documents) \X (DOMAIN documents) : Outweighs(documents[p[1]], documents[p[2]], t)}

\* A cluster's documents, each once and none much lighter than one behind it.
LEMMA WeightsSorted ==
    ASSUME AreDocuments, NEW P, P \in SUBSET DOMAIN docs, P # {},
           NEW documents, Arranges(documents, P)
    PROVE  /\ Arranges(SortByWeights(documents), P) /\ Len(SortByWeights(documents)) > 0
           /\ \A k, l \in 1 .. Len(SortByWeights(documents)) : k < l =>
                 DocWeight(SortByWeights(documents)[l], NewestOf(P))
                   < DocWeight(SortByWeights(documents)[k], NewestOf(P)) + (l - k) * Tolerance
<1> DEFINE t == NewestOf(P)
           before == DocsBeforeInCluster(documents, t)
           sorted == SortByWeights(documents)
           n == Len(documents)
<1>1. t = AddedTimestamp(documents) /\ t \in 0 .. Half - 1
  BY AddedIsNewest, NewestIsNewest
<1>2. sorted = Sorted(documents, before)
  BY <1>1 DEF SortByWeights, StableSort, Sorted, DocsBeforeInCluster
<1>3. n \in Nat /\ DOMAIN documents = 1 .. n /\ \A k \in 1 .. n : documents[k] \in P
  BY ArrangedParts
<1>4. \A j, k : <<j, k>> \in before <=>
         j \in 1 .. n /\ k \in 1 .. n /\ Outweighs(documents[j], documents[k], t)
  BY <1>3 DEF DocsBeforeInCluster
<1> HIDE DEF t, before, sorted
<1>5. \A i \in P : DocWeight(i, t) \in Int /\ docs[i].Title \in Nat
  BY <1>1, DocWeightType
<1>6. Tolerance \in Nat
  BY NewsClusterAssumption
<1>7. ASSUME NEW i \in P, NEW j \in P, Outweighs(i, j, t)
      PROVE  ~Outweighs(j, i, t)
  BY <1>5, <1>6, <1>7 DEF Outweighs, Distance
<1>8. ASSUME NEW i \in P, NEW j \in P, ~Outweighs(j, i, t)
      PROVE  DocWeight(j, t) < DocWeight(i, t) + Tolerance
  <2>1. Tolerance > 0
    BY NewsClusterAssumption
  <2> QED
    BY <1>5, <1>6, <1>8, <2>1 DEF Outweighs, Distance
<1>9. Asymmetric(before)
  BY <1>3, <1>4, <1>7 DEF Asymmetric
<1>10. Arranges(sorted, P) /\ Len(sorted) = n
  BY <1>2, <1>9, SortedArranges
<1>11. \A k \in 1 .. n : sorted[k] \in P
  BY <1>10, ArrangedParts
<1>12. n > 0
  <2>1. \A i \in P : \E k \in 1 .. n : documents[k] = i
    BY DEF Arranges
  <2> QED
    BY <1>3, <2>1
<1> DEFINE w == [k \in 1 .. n |-> DocWeight(sorted[k], t)]
<1>13. w \in [1 .. n -> Int]
  BY <1>5, <1>11
<1>14. ASSUME NEW k \in 1 .. n - 1
       PROVE  w[k + 1] < w[k] + Tolerance
  <2>1. k \in 1 .. n /\ k + 1 \in 1 .. n
    BY <1>3
  <2>2. PICK i, j \in 1 .. n : sorted[k] = documents[i] /\ sorted[k + 1] = documents[j]
                               /\ <<j, i>> \notin before
    BY <1>2, <1>9, SortedNeighbours
  <2>3. ~Outweighs(sorted[k + 1], sorted[k], t)
    BY <1>4, <2>2
  <2> QED
    BY <1>8, <1>11, <2>1, <2>3
<1>15. \A k \in 1 .. n : w[k] = DocWeight(sorted[k], t)
  OBVIOUS
<1> HIDE DEF w
<1>16. \A k, l \in 1 .. n : k < l => w[l] < w[k] + (l - k) * Tolerance
  BY <1>3, <1>6, <1>13, <1>14, StepsAddUp
<1> QED
  BY <1>10, <1>12, <1>15, <1>16 DEF sorted, t

-----------------------------------------------------------------------------
(***************************************************************************)
(* Sums over finite sets, as MapThenSumSet computes them: one element of   *)
(* the set after the other.  They do not depend on the order.              *)
(***************************************************************************)
Chosen(s) == CHOOSE x \in s : TRUE

Totals(sum, w, S) ==
    /\ IsFiniteSet(S) /\ \A x \in S : w[x] \in Nat
    /\ sum \in [SUBSET S -> Nat]
    /\ \A s \in SUBSET S : sum[s] = IF s = {} THEN 0 ELSE w[Chosen(s)] + sum[s \ {Chosen(s)}]

\* Any element can be the first.
Unordered(sum, w, S) == \A s \in SUBSET S : \A x \in s : sum[s] = w[x] + sum[s \ {x}]

LEMMA SizesOfSubsets ==
    ASSUME NEW S, IsFiniteSet(S)
    PROVE  \E measure \in [SUBSET S -> 0 .. Cardinality(S)] :
              \A s \in SUBSET S : \A x \in s : measure[s \ {x}] < measure[s]
<1> DEFINE measure == [s \in SUBSET S |-> Cardinality(s)]
<1>1. Cardinality(S) \in Nat
  BY FS_CardinalityType
<1>2. ASSUME NEW s \in SUBSET S
      PROVE  IsFiniteSet(s) /\ Cardinality(s) \in Nat /\ Cardinality(s) <= Cardinality(S)
  BY FS_Subset, FS_CardinalityType
<1>3. measure \in [SUBSET S -> 0 .. Cardinality(S)]
  BY <1>1, <1>2
<1>4. ASSUME NEW s \in SUBSET S, NEW x \in s
      PROVE  measure[s \ {x}] < measure[s]
  <2>1. Cardinality(s \ {x}) = Cardinality(s) - 1
    BY <1>2, FS_RemoveElement
  <2>2. measure[s \ {x}] = Cardinality(s \ {x}) /\ measure[s] = Cardinality(s)
    OBVIOUS
  <2> QED
    BY <1>2, <2>1, <2>2
<1> QED
  BY <1>3, <1>4

LEMMA ChosenIsIn ==
    ASSUME NEW s, s # {}
    PROVE  Chosen(s) \in s
BY DEF Chosen

LEMMA TotalsExist ==
    ASSUME NEW S, IsFiniteSet(S), NEW w, \A x \in S : w[x] \in Nat
    PROVE  \E sum : Totals(sum, w, S)
<1> DEFINE D == SUBSET S
           F == [p \in D \X [D -> Nat] |->
                   IF p[1] = {} THEN 0 ELSE w[Chosen(p[1])] + p[2][p[1] \ {Chosen(p[1])}]]
<1>1. PICK measure \in [D -> 0 .. Cardinality(S)] :
         \A s \in D : \A x \in s : measure[s \ {x}] < measure[s]
  BY SizesOfSubsets
<1>2. Cardinality(S) \in Nat
  BY FS_CardinalityType
<1>3. ASSUME NEW s \in D, s # {}
      PROVE  Chosen(s) \in s /\ Chosen(s) \in S /\ s \ {Chosen(s)} \in D
  BY <1>3, ChosenIsIn
<1>4. \A s \in D, g \in [D -> Nat] :
         F[<<s, g>>] = IF s = {} THEN 0 ELSE w[Chosen(s)] + g[s \ {Chosen(s)}]
  OBVIOUS
<1>5. F \in [D \X [D -> Nat] -> Nat]
  BY <1>3
<1> HIDE DEF F
<1>6. RecursTo(D, Nat, measure, F)
  <2> SUFFICES ASSUME NEW s \in D, NEW g \in [D -> Nat], NEW h \in [D -> Nat],
                      \A r \in D : measure[r] < measure[s] => g[r] = h[r]
               PROVE  F[<<s, g>>] = F[<<s, h>>]
    BY DEF RecursTo
  <2>1. CASE s = {}
    BY <1>4, <2>1
  <2>2. CASE s # {}
    <3>1. s \ {Chosen(s)} \in D /\ measure[s \ {Chosen(s)}] < measure[s]
      BY <1>1, <1>3, <2>2
    <3> QED
      BY <1>4, <3>1
  <2> QED
    BY <2>1, <2>2
<1>7. \E sum : Solves(sum, D, Nat, F)
  <2> HIDE DEF D
  <2> QED
    BY <1>1, <1>2, <1>5, <1>6, RecursiveFunctionExists
<1> QED
  BY <1>4, <1>7 DEF Solves, Totals

\* A function that satisfies the equation has natural numbers as its values.
LEMMA TotalsFrom ==
    ASSUME NEW S, IsFiniteSet(S), NEW w, \A x \in S : w[x] \in Nat,
           NEW R, NEW sum, sum \in [SUBSET S -> R],
           \A s \in SUBSET S :
               sum[s] = IF s = {} THEN 0 ELSE w[Chosen(s)] + sum[s \ {Chosen(s)}]
    PROVE  Totals(sum, w, S)
<1> DEFINE D == SUBSET S
           P == {s \in D : sum[s] \in Nat}
<1>1. PICK m \in [D -> 0 .. Cardinality(S)] : \A s \in D : \A x \in s : m[s \ {x}] < m[s]
  BY SizesOfSubsets
<1>2. m \in [D -> Nat]
  <2>1. \A k \in 0 .. Cardinality(S) : k \in Nat
    BY FS_CardinalityType
  <2> QED
    BY <1>1, <2>1
<1>3. ASSUME NEW s \in D, \A r \in D : m[r] < m[s] => r \in P
      PROVE  s \in P
  <2> SUFFICES sum[s] \in Nat
    OBVIOUS
  <2>0. sum[s] = IF s = {} THEN 0 ELSE w[Chosen(s)] + sum[s \ {Chosen(s)}]
    OBVIOUS
  <2>1. CASE s = {}
    <3>1. sum[s] = 0
      BY <2>0, <2>1
    <3> QED
      BY <3>1
  <2>2. CASE s # {}
    <3>1. Chosen(s) \in s /\ Chosen(s) \in S
      BY <2>2, ChosenIsIn
    <3>2. sum[s \ {Chosen(s)}] \in Nat
      BY <1>1, <1>3, <3>1
    <3> QED
      BY <2>0, <2>2, <3>1, <3>2
  <2> QED
    BY <2>1, <2>2
<1>4. \A s \in P : sum[s] \in Nat
  OBVIOUS
<1> HIDE DEF P
<1>5. \A s \in D : s \in P
  <2> HIDE DEF D
  <2> QED
    BY <1>2, <1>3, MeasureInduction
<1> QED
  BY <1>4, <1>5 DEF Totals

LEMMA TotalsUnordered ==
    ASSUME NEW S, NEW w, NEW sum, Totals(sum, w, S)
    PROVE  Unordered(sum, w, S)
<1> DEFINE D == SUBSET S
           P == {s \in D : \A x \in s : sum[s] = w[x] + sum[s \ {x}]}
<1>0. IsFiniteSet(S) /\ \A x \in S : w[x] \in Nat
  BY DEF Totals
<1>1. PICK m \in [D -> 0 .. Cardinality(S)] : \A s \in D : \A x \in s : m[s \ {x}] < m[s]
  BY <1>0, SizesOfSubsets
<1>2. m \in [D -> Nat]
  <2>1. \A k \in 0 .. Cardinality(S) : k \in Nat
    BY <1>0, FS_CardinalityType
  <2> QED
    BY <1>1, <2>1
<1>3. \A s \in D : /\ sum[s] \in Nat
                   /\ s # {} => sum[s] = w[Chosen(s)] + sum[s \ {Chosen(s)}]
  BY DEF Totals
<1>4. ASSUME NEW s \in D, \A r \in D : m[r] < m[s] => r \in P
      PROVE  s \in P
  <2> SUFFICES ASSUME NEW x \in s
               PROVE  sum[s] = w[x] + sum[s \ {x}]
    OBVIOUS
  <2> DEFINE c == Chosen(s)
  <2>1. c \in s /\ sum[s] = w[c] + sum[s \ {c}]
    BY <1>3, ChosenIsIn
  <2> HIDE DEF c
  <2>2. CASE x = c
    BY <2>1, <2>2
  <2>3. CASE x # c
    <3>1. s \ {c} \in P /\ s \ {x} \in P
      BY <1>1, <1>4, <2>1
    <3>2. x \in s \ {c} /\ c \in s \ {x} /\ (s \ {c}) \ {x} = (s \ {x}) \ {c}
      BY <2>1, <2>3
    <3> DEFINE r == (s \ {x}) \ {c}
    <3>3. sum[s \ {c}] = w[x] + sum[r] /\ sum[s \ {x}] = w[c] + sum[r]
      BY <3>1, <3>2
    <3>4. w[x] \in Nat /\ w[c] \in Nat /\ sum[r] \in Nat
      BY <1>0, <1>3, <2>1
    <3> HIDE DEF r
    <3> QED
      BY <2>1, <3>3, <3>4
  <2> QED
    BY <2>2, <2>3
<1> HIDE DEF P
<1>5. \A s \in D : s \in P
  <2> HIDE DEF D
  <2> QED
    BY <1>2, <1>4, MeasureInduction
<1> QED
  BY <1>5 DEF P, Unordered

\* A sum is not larger than one over other elements that are as large.
LEMMA TotalsGrow ==
    ASSUME NEW S, NEW v, NEW a, Totals(a, v, S), NEW T, NEW w, NEW b, Totals(b, w, T),
           NEW h, \A x \in S : h[x] \in T /\ v[x] <= w[h[x]],
           \A x, y \in S : h[x] = h[y] => x = y
    PROVE  a[S] <= b[T]
<1>0. /\ IsFiniteSet(S) /\ \A x \in S : v[x] \in Nat
      /\ IsFiniteSet(T) /\ \A x \in T : w[x] \in Nat
      /\ \A s \in SUBSET S : a[s] \in Nat /\ (s = {} => a[s] = 0)
      /\ \A t \in SUBSET T : b[t] \in Nat
      /\ Unordered(a, v, S) /\ Unordered(b, w, T)
  BY TotalsUnordered DEF Totals
<1> DEFINE D == SUBSET S
           P == {s \in D : \A t \in SUBSET T : (\A x \in s : h[x] \in t) => a[s] <= b[t]}
<1>1. PICK m \in [D -> 0 .. Cardinality(S)] : \A s \in D : \A x \in s : m[s \ {x}] < m[s]
  BY <1>0, SizesOfSubsets
<1>2. m \in [D -> Nat]
  <2>1. \A k \in 0 .. Cardinality(S) : k \in Nat
    BY <1>0, FS_CardinalityType
  <2> QED
    BY <1>1, <2>1
<1>3. ASSUME NEW s \in D, \A r \in D : m[r] < m[s] => r \in P
      PROVE  s \in P
  <2> SUFFICES ASSUME NEW t \in SUBSET T, \A x \in s : h[x] \in t
               PROVE  a[s] <= b[t]
    OBVIOUS
  <2>1. a[s] \in Nat /\ b[t] \in Nat
    BY <1>0
  <2>2. CASE s = {}
    <3>1. a[s] = 0
      BY <1>0, <2>2
    <3> QED
      BY <2>1, <3>1
  <2>3. CASE s # {}
    <3>1. PICK x \in s : TRUE
      BY <2>3
    <3>2. a[s] = v[x] + a[s \ {x}]
      BY <1>0 DEF Unordered
    <3>3. b[t] = w[h[x]] + b[t \ {h[x]}]
      <4>1. h[x] \in t
        OBVIOUS
      <4> QED
        BY <1>0, <4>1 DEF Unordered
    <3>4. a[s \ {x}] <= b[t \ {h[x]}]
      <4>1. s \ {x} \in P
        BY <1>1, <1>3
      <4>2. \A y \in s \ {x} : h[y] \in t \ {h[x]}
        OBVIOUS
      <4> QED
        BY <4>1, <4>2
    <3>5. /\ v[x] \in Nat /\ w[h[x]] \in Nat /\ v[x] <= w[h[x]]
          /\ a[s \ {x}] \in Nat /\ b[t \ {h[x]}] \in Nat
      BY <1>0
    <3> DEFINE i == v[x]
               j == w[h[x]]
               k == a[s \ {x}]
               l == b[t \ {h[x]}]
    <3>6. /\ i \in Nat /\ j \in Nat /\ i <= j /\ k \in Nat /\ l \in Nat /\ k <= l
          /\ a[s] = i + k /\ b[t] = j + l
      BY <3>2, <3>3, <3>4, <3>5
    <3> HIDE DEF i, j, k, l
    <3> QED
      BY <3>6
  <2> QED
    BY <2>2, <2>3
<1> HIDE DEF P
<1>4. \A s \in D : s \in P
  <2> HIDE DEF D
  <2> QED
    BY <1>2, <1>3, MeasureInduction
<1>5. S \in P
  BY <1>4
<1> QED
  BY <1>5 DEF P

LEMMA TotalsAbove ==
    ASSUME NEW S, NEW w, NEW sum, Totals(sum, w, S), NEW x \in S
    PROVE  sum[S] \in Nat /\ w[x] <= sum[S]
<1>1. sum[S] = w[x] + sum[S \ {x}]
  BY TotalsUnordered DEF Unordered
<1>2. sum[S] \in Nat /\ sum[S \ {x}] \in Nat /\ w[x] \in Nat
  BY DEF Totals
<1> QED
  BY <1>1, <1>2

-----------------------------------------------------------------------------
(***************************************************************************)
(* The slices of a cluster.                                                *)
(***************************************************************************)
SlicePlaces(byTime, first) ==
    {k \in first .. Len(byTime) : \A l \in first .. k - 1 : Host(byTime[l]) # Host(byTime[k])}

SliceScore(byTime, first, k) ==
    HostWeight[Host(byTime[k])] * Sigmoid(FetchTime(byTime[first]) - FetchTime(byTime[k]), 0)

SliceScores(byTime, first) ==
    [k \in SlicePlaces(byTime, first) |-> SliceScore(byTime, first, k)]

LEMMA SliceScoreType ==
    ASSUME AreDocuments, NEW byTime, \A k \in 1 .. Len(byTime) : byTime[k] \in DOMAIN docs,
           NEW first \in 1 .. Len(byTime), NEW k \in 1 .. Len(byTime)
    PROVE  SliceScore(byTime, first, k) \in Nat
<1>1. docs[byTime[k]] \in Document
  BY DocumentParts
<1>2. FetchTime(byTime[first]) \in 0 .. Half - 1 /\ FetchTime(byTime[k]) \in 0 .. Half - 1
  BY DocumentParts
<1>3. Sigmoid(FetchTime(byTime[first]) - FetchTime(byTime[k]), 0) \in Nat
  BY <1>2, SigmoidType
<1>4. HostWeight[Host(byTime[k])] \in Nat
  BY <1>1, NewsClusterAssumption DEF Host, Document
<1> QED
  BY <1>3, <1>4, ProductType DEF SliceScore

LEMMA SliceTotals ==
    ASSUME AreDocuments, NEW P, P \in SUBSET DOMAIN docs, NEW byTime, Arranges(byTime, P),
           NEW first \in 1 .. Len(byTime)
    PROVE  \E sum : /\ Totals(sum, SliceScores(byTime, first), SlicePlaces(byTime, first))
                    /\ SliceRanks(byTime)[first] = sum[SlicePlaces(byTime, first)]
<1> DEFINE C == SlicePlaces(byTime, first)
           w == SliceScores(byTime, first)
           sum == CHOOSE f : f = [s \in SUBSET C |->
                    IF s = {} THEN 0
                    ELSE SliceScore(byTime, first, CHOOSE x \in s : TRUE)
                           + f[s \ {CHOOSE x \in s : TRUE}]]
<1>1. Len(byTime) \in Nat /\ DOMAIN byTime = 1 .. Len(byTime)
      /\ \A k \in 1 .. Len(byTime) : byTime[k] \in DOMAIN docs
  BY ArrangedParts
<1>2. \A k \in C : k \in 1 .. Len(byTime)
  BY <1>1 DEF SlicePlaces
<1>3. SliceRanks(byTime)[first] = sum[C]
  BY <1>1 DEF SliceRanks, MapThenSumSet, MapThenFoldSet, SlicePlaces, SliceScore
<1>4. IsFiniteSet(C)
  <2>1. C \in SUBSET (1 .. Len(byTime))
    BY <1>2
  <2> HIDE DEF C
  <2> QED
    BY <1>1, <2>1, IntervalSize, FS_Subset
<1>5. \A k \in C : w[k] = SliceScore(byTime, first, k) /\ w[k] \in Nat
  BY <1>1, <1>2, SliceScoreType DEF SliceScores
<1> HIDE DEF C, w
<1>6. \E f : f = [s \in SUBSET C |->
                    IF s = {} THEN 0
                    ELSE SliceScore(byTime, first, CHOOSE x \in s : TRUE)
                           + f[s \ {CHOOSE x \in s : TRUE}]]
  <2>1. PICK f : Totals(f, w, C)
    BY <1>4, <1>5, TotalsExist
  <2>2. f \in [SUBSET C -> Nat]
    BY <2>1 DEF Totals
  <2>3. ASSUME NEW s \in SUBSET C
        PROVE  f[s] = IF s = {} THEN 0
                      ELSE SliceScore(byTime, first, CHOOSE x \in s : TRUE)
                             + f[s \ {CHOOSE x \in s : TRUE}]
    <3>1. s # {} => Chosen(s) \in C
      BY ChosenIsIn
    <3> QED
      BY <1>5, <2>1, <3>1 DEF Totals, Chosen
  <2>4. f = [s \in SUBSET C |->
                    IF s = {} THEN 0
                    ELSE SliceScore(byTime, first, CHOOSE x \in s : TRUE)
                           + f[s \ {CHOOSE x \in s : TRUE}]]
    BY <2>2, <2>3
  <2> QED
    BY <2>4
<1>7. sum = [s \in SUBSET C |->
                    IF s = {} THEN 0
                    ELSE SliceScore(byTime, first, CHOOSE x \in s : TRUE)
                           + sum[s \ {CHOOSE x \in s : TRUE}]]
  BY <1>6
<1> HIDE DEF sum
<1>8. Totals(sum, w, C)
  <2>1. \A s \in SUBSET C : s # {} => Chosen(s) \in C
    BY ChosenIsIn
  <2>2. \A s \in SUBSET C : sum[s] = IF s = {} THEN 0 ELSE w[Chosen(s)] + sum[s \ {Chosen(s)}]
    BY <1>5, <1>7, <2>1 DEF Chosen
  <2>3. sum \in [SUBSET C -> {sum[s] : s \in SUBSET C}]
    BY <1>7
  <2> QED
    BY <1>4, <1>5, <2>2, <2>3, TotalsFrom
<1> QED
  BY <1>3, <1>8 DEF C, w

\* Of the largest numbers there is a first.
LEMMA FirstLargest ==
    ASSUME NEW n \in Nat, n > 0, NEW v, \A k \in 1 .. n : v[k] \in Nat
    PROVE  \E k \in 1 .. n : \A l \in 1 .. n : v[l] < v[k] \/ (v[l] = v[k] /\ k <= l)
<1> DEFINE P == {i \in 1 .. n : \E k \in 1 .. i : \A l \in 1 .. i : v[l] <= v[k]}
           measure == [i \in 1 .. n |-> i]
<1>1. measure \in [1 .. n -> Nat] /\ \A i \in 1 .. n : measure[i] = i
  OBVIOUS
<1> HIDE DEF measure
<1>2. ASSUME NEW i \in 1 .. n, \A j \in 1 .. n : measure[j] < measure[i] => j \in P
      PROVE  i \in P
  <2> SUFFICES \E k \in 1 .. i : \A l \in 1 .. i : v[l] <= v[k]
    OBVIOUS
  <2>1. CASE i = 1
    BY <2>1
  <2>2. CASE i # 1
    <3> DEFINE j == i - 1
    <3>1. j \in 1 .. n /\ j < i
      BY <2>2
    <3>2. j \in P
      BY <1>1, <1>2, <3>1
    <3>3. PICK k \in 1 .. j : \A l \in 1 .. j : v[l] <= v[k]
      BY <3>2
    <3>4. k \in 1 .. i /\ i \in 1 .. i /\ v[k] \in Nat /\ v[i] \in Nat
          /\ \A l \in 1 .. i : l \in 1 .. j \/ l = i
      BY <3>1
    <3>5. \A l \in 1 .. j : v[l] \in Nat
      BY <3>1
    <3> HIDE DEF j
    <3>6. CASE v[i] <= v[k]
      BY <3>3, <3>4, <3>6
    <3>7. CASE v[k] < v[i]
      BY <3>3, <3>4, <3>5, <3>7
    <3> QED
      BY <3>4, <3>6, <3>7
  <2> QED
    BY <2>1, <2>2
<1>3. n \in P => \E k \in 1 .. n : \A l \in 1 .. n : v[l] <= v[k]
  OBVIOUS
<1>4. \A i \in 1 .. n : i \in P
  <2> DEFINE D == 1 .. n
  <2> HIDE DEF P
  <2>1. /\ measure \in [D -> Nat]
        /\ \A i \in D : (\A j \in D : measure[j] < measure[i] => j \in P) => i \in P
    BY <1>1, <1>2
  <2> HIDE DEF D
  <2>2. \A i \in D : i \in P
    BY <2>1, MeasureInduction
  <2> QED
    BY <2>2 DEF D
<1> HIDE DEF P
<1>5. PICK m \in 1 .. n : \A l \in 1 .. n : v[l] <= v[m]
  BY <1>3, <1>4
<1> DEFINE T == {k \in 1 .. n : v[k] = v[m]}
<1>6. T # {} /\ \A k \in T : k \in Nat
  OBVIOUS
<1>7. \A k \in T : k \in 1 .. n /\ v[k] = v[m]
  OBVIOUS
<1>8. \A k \in 1 .. n : k \in T \/ v[k] # v[m]
  OBVIOUS
<1> HIDE DEF T
<1>9. PICK k \in T : \A l \in T : k <= l
  BY <1>6, LeastElement
<1>10. ASSUME NEW l \in 1 .. n
       PROVE  v[l] < v[k] \/ (v[l] = v[k] /\ k <= l)
  BY <1>5, <1>7, <1>8, <1>9
<1> QED
  BY <1>7, <1>10

DocsBeforeByTime(documents) ==
    {p \in (DOMAIN documents) \X (DOMAIN documents) :
        LET i == documents[p[1]]
            j == documents[p[2]]
        IN  \/ FetchTime(i) < FetchTime(j)
            \/ FetchTime(i) = FetchTime(j) /\ (Host(i) < Host(j) \/ (Host(i) = Host(j) /\ i < j))}

LEMMA TimesSorted ==
    ASSUME AreDocuments, NEW P, P \in SUBSET DOMAIN docs, NEW documents, Arranges(documents, P)
    PROVE  LET byTime == DocsByTime(documents)
           IN  /\ Arranges(byTime, P) /\ Len(byTime) = Len(documents)
               /\ \A k, l \in 1 .. Len(documents) :
                     k <= l => FetchTime(byTime[k]) <= FetchTime(byTime[l])
<1> DEFINE n == Len(documents)
           before == DocsBeforeByTime(documents)
           sorted == DocsByTime(documents)
<1>1. sorted = Sorted(documents, before)
  BY DEF DocsByTime, StableSort, Sorted, DocsBeforeByTime
<1>2. n \in Nat /\ DOMAIN documents = 1 .. n /\ \A k \in 1 .. n : documents[k] \in P
  BY ArrangedParts
<1>3. \A i \in P : i \in Nat /\ FetchTime(i) \in Nat /\ Host(i) \in Nat
  <2>1. \A i \in P : docs[i] \in Document /\ i \in Nat
    BY DocumentParts
  <2>2. \A i \in P : FetchTime(i) \in Nat /\ Host(i) \in Hosts
    BY <2>1 DEF Document, FetchTime, Host
  <2>3. \A h \in Hosts : h \in Nat
    BY NewsClusterAssumption
  <2> QED
    BY <2>1, <2>2, <2>3
<1> DEFINE Earlier(i, j) ==
        \/ FetchTime(i) < FetchTime(j)
        \/ FetchTime(i) = FetchTime(j) /\ (Host(i) < Host(j) \/ (Host(i) = Host(j) /\ i < j))
<1>4. \A j, k : <<j, k>> \in before <=>
         j \in 1 .. n /\ k \in 1 .. n /\ Earlier(documents[j], documents[k])
  BY <1>2 DEF DocsBeforeByTime
<1>5. \A i, j \in P : Earlier(i, j) => ~Earlier(j, i)
  BY <1>3
<1>6. \A i, j, k \in P : ~Earlier(j, i) /\ ~Earlier(k, j) => ~Earlier(k, i)
  BY <1>3
<1>7. \A i, j \in P : ~Earlier(j, i) => FetchTime(i) <= FetchTime(j)
  BY <1>3
<1> HIDE DEF Earlier, before, sorted
<1>8. Asymmetric(before)
  BY <1>2, <1>4, <1>5 DEF Asymmetric
<1>9. WeaklyOrders(before, 1 .. n)
  BY <1>2, <1>4, <1>6 DEF WeaklyOrders
<1>10. Arranges(sorted, P) /\ Len(sorted) = n
  BY <1>1, <1>8, SortedArranges
<1>11. ASSUME NEW k \in 1 .. n, NEW l \in 1 .. n, k <= l
       PROVE  FetchTime(sorted[k]) <= FetchTime(sorted[l])
  <2>1. PICK i, j \in 1 .. n : sorted[k] = documents[i] /\ sorted[l] = documents[j]
                               /\ <<j, i>> \notin before
    BY <1>1, <1>8, <1>9, <1>11, SortedAll
  <2> QED
    BY <1>2, <1>4, <1>7, <2>1
<1> QED
  BY <1>10, <1>11 DEF sorted

\* The slice that makes a cluster as important as it is.
IsBest(best, byTime) ==
    /\ best \in 1 .. Len(byTime)
    /\ \A l \in 1 .. Len(byTime) :
          \/ SliceRanks(byTime)[l] < SliceRanks(byTime)[best]
          \/ SliceRanks(byTime)[l] = SliceRanks(byTime)[best] /\ best <= l

LEMMA SliceRankType ==
    ASSUME AreDocuments, NEW P, P \in SUBSET DOMAIN docs, NEW byTime, Arranges(byTime, P),
           NEW first \in 1 .. Len(byTime)
    PROVE  SliceRanks(byTime)[first] \in Nat /\ SliceRanks(byTime)[first] > 0
<1> DEFINE C == SlicePlaces(byTime, first)
           w == SliceScores(byTime, first)
<1>1. Len(byTime) \in Nat /\ \A k \in 1 .. Len(byTime) : byTime[k] \in DOMAIN docs
  BY ArrangedParts
<1>2. PICK sum : Totals(sum, w, C) /\ SliceRanks(byTime)[first] = sum[C]
  BY SliceTotals
<1>3. first \in C
  BY <1>1 DEF SlicePlaces
<1>4. w[first] = SliceScore(byTime, first, first)
  BY <1>3 DEF SliceScores
<1>5. SliceScore(byTime, first, first) \in Nat /\ SliceScore(byTime, first, first) > 0
  <2> DEFINE t == FetchTime(byTime[first])
             a == HostWeight[Host(byTime[first])]
             b == Sigmoid(0, 0)
  <2>1. docs[byTime[first]] \in Document /\ t \in Nat
    BY <1>1, DocumentParts
  <2>2. a \in Nat /\ a > 0
    <3>1. Host(byTime[first]) \in Hosts
      BY <2>1 DEF Host, Document
    <3> QED
      BY <3>1, NewsClusterAssumption
  <2>3. b \in Nat /\ b > 0
    <3>1. 0 \in -Half .. Half - 1
      BY HalfIsNat
    <3> QED
      BY <3>1, NewsIndexAssumption
  <2>4. t - t = 0
    BY <2>1
  <2>5. SliceScore(byTime, first, first) = a * b
    BY <2>4 DEF SliceScore
  <2> HIDE DEF a, b
  <2>6. a * b \in Nat /\ a * b > 0
    BY <2>2, <2>3
  <2> QED
    BY <2>5, <2>6
<1> HIDE DEF C, w
<1>6. sum[C] \in Nat /\ w[first] <= sum[C]
  BY <1>2, <1>3, TotalsAbove
<1> QED
  BY <1>2, <1>4, <1>5, <1>6

LEMMA ImportanceOfBest ==
    ASSUME AreDocuments, NEW P, P \in SUBSET DOMAIN docs, NEW documents, Arranges(documents, P),
           Len(documents) > 0
    PROVE  \E best : /\ IsBest(best, DocsByTime(documents))
                     /\ CalcImportance(documents).Importance = SliceRanks(DocsByTime(documents))[best]
                     /\ CalcImportance(documents).BestTimestamp
                           = FetchTime(DocsByTime(documents)[best])
<1> DEFINE byTime == DocsByTime(documents)
           rank == SliceRanks(byTime)
           n == Len(byTime)
           best == BestSlice(rank)
<1>1. Arranges(byTime, P) /\ n = Len(documents)
  BY TimesSorted
<1>2. CalcImportance(documents).Importance = rank[best]
      /\ CalcImportance(documents).BestTimestamp = FetchTime(byTime[best])
  BY DEF CalcImportance
<1> HIDE DEF byTime
<1>3. n \in Nat /\ n > 0 /\ DOMAIN byTime = 1 .. n
  BY <1>1, ArrangedParts
<1>4. \A k \in 1 .. n : rank[k] \in Nat
  BY <1>1, SliceRankType
<1>5. DOMAIN rank = 1 .. n
  BY <1>3 DEF SliceRanks
<1>6. best = CHOOSE k \in 1 .. n : \A l \in 1 .. n :
                rank[l] < rank[k] \/ (rank[l] = rank[k] /\ k <= l)
  BY <1>5 DEF BestSlice
<1> HIDE DEF rank, best
<1>7. \E k \in 1 .. n : \A l \in 1 .. n : rank[l] < rank[k] \/ (rank[l] = rank[k] /\ k <= l)
  BY <1>3, <1>4, FirstLargest
<1>8. /\ best \in 1 .. n
      /\ \A l \in 1 .. n : rank[l] < rank[best] \/ (rank[l] = rank[best] /\ best <= l)
  BY <1>6, <1>7
<1>9. IsBest(best, byTime)
  BY <1>8 DEF IsBest, rank
<1> QED
  BY <1>2, <1>9 DEF byTime, rank

-----------------------------------------------------------------------------
(***************************************************************************)
(* A cluster's importance without its documents' order: SliceRank.         *)
(***************************************************************************)
DueTimes(S, host, time) ==
    {FetchTime(i) : i \in {j \in S : Host(j) = host /\ FetchTime(j) >= time}}

DueHosts(S, time) == {host \in Hosts : DueTimes(S, host, time) # {}}

HostScore(S, time, host) == HostWeight[host] * Sigmoid(time - Min(DueTimes(S, host, time)), 0)

HostScores(S, time) == [host \in DueHosts(S, time) |-> HostScore(S, time, host)]

LEMMA DueTimesParts ==
    ASSUME AreDocuments, NEW S, S \in SUBSET DOMAIN docs, NEW time, time \in 0 .. Half - 1,
           NEW host, host \in DueHosts(S, time)
    PROVE  LET first == Min(DueTimes(S, host, time))
           IN  /\ first \in 0 .. Half - 1
               /\ \E i \in S : Host(i) = host /\ FetchTime(i) >= time /\ FetchTime(i) = first
               /\ \A i \in S : Host(i) = host /\ FetchTime(i) >= time => first <= FetchTime(i)
<1> DEFINE T == DueTimes(S, host, time)
           first == Min(T)
<1>1. \A i \in S : FetchTime(i) \in 0 .. Half - 1
  BY DocumentParts
<1>2. T # {}
  BY DEF DueHosts
<1>3. \A t : t \in T <=> \E i \in S : Host(i) = host /\ FetchTime(i) >= time /\ FetchTime(i) = t
  BY DEF DueTimes
<1> HIDE DEF T
<1>4. \A t \in T : t \in Nat
  BY <1>1, <1>3
<1>5. \E x \in T : \A y \in T : x <= y
  BY <1>2, <1>4, LeastElement
<1>6. first \in T /\ \A y \in T : first <= y
  BY <1>5 DEF Min
<1> HIDE DEF first
<1>7. \E i \in S : Host(i) = host /\ FetchTime(i) >= time /\ FetchTime(i) = first
  BY <1>3, <1>6
<1>8. \A i \in S : Host(i) = host /\ FetchTime(i) >= time => first <= FetchTime(i)
  BY <1>3, <1>6
<1>9. first \in 0 .. Half - 1
  BY <1>1, <1>7
<1> QED
  BY <1>7, <1>8, <1>9 DEF first, T

LEMMA HostScoreType ==
    ASSUME AreDocuments, NEW S, S \in SUBSET DOMAIN docs, NEW time, time \in 0 .. Half - 1,
           NEW host, host \in DueHosts(S, time)
    PROVE  HostScore(S, time, host) \in Nat
<1>1. Min(DueTimes(S, host, time)) \in 0 .. Half - 1
  BY DueTimesParts
<1>2. Sigmoid(time - Min(DueTimes(S, host, time)), 0) \in Nat
  BY <1>1, SigmoidType
<1>3. HostWeight[host] \in Nat
  BY NewsClusterAssumption DEF DueHosts
<1> QED
  BY <1>2, <1>3, ProductType DEF HostScore

LEMMA SliceRankTotals ==
    ASSUME AreDocuments, NEW S, S \in SUBSET DOMAIN docs, NEW time, time \in 0 .. Half - 1,
           IsFiniteSet(DueHosts(S, time))
    PROVE  \E sum : /\ Totals(sum, HostScores(S, time), DueHosts(S, time))
                    /\ SliceRank(S, time) = sum[DueHosts(S, time)]
<1> DEFINE C == DueHosts(S, time)
           w == HostScores(S, time)
           sum == CHOOSE f : f = [s \in SUBSET C |->
                    IF s = {} THEN 0
                    ELSE HostScore(S, time, CHOOSE x \in s : TRUE)
                           + f[s \ {CHOOSE x \in s : TRUE}]]
<1>1. SliceRank(S, time) = sum[C]
  BY DEF SliceRank, MapThenSumSet, MapThenFoldSet, DueHosts, DueTimes, HostScore
<1>2. \A k \in C : w[k] = HostScore(S, time, k) /\ w[k] \in Nat
  BY HostScoreType DEF HostScores
<1>3. IsFiniteSet(C)
  OBVIOUS
<1> HIDE DEF C, w
<1>4. \E f : f = [s \in SUBSET C |->
                    IF s = {} THEN 0
                    ELSE HostScore(S, time, CHOOSE x \in s : TRUE)
                           + f[s \ {CHOOSE x \in s : TRUE}]]
  <2>1. PICK f : Totals(f, w, C)
    BY <1>2, <1>3, TotalsExist
  <2>2. f \in [SUBSET C -> Nat]
    BY <2>1 DEF Totals
  <2>3. ASSUME NEW s \in SUBSET C
        PROVE  f[s] = IF s = {} THEN 0
                      ELSE HostScore(S, time, CHOOSE x \in s : TRUE)
                             + f[s \ {CHOOSE x \in s : TRUE}]
    <3>1. s # {} => Chosen(s) \in C
      BY ChosenIsIn
    <3> QED
      BY <1>2, <2>1, <3>1 DEF Totals, Chosen
  <2> QED
    BY <2>2, <2>3
<1>5. sum = [s \in SUBSET C |->
                    IF s = {} THEN 0
                    ELSE HostScore(S, time, CHOOSE x \in s : TRUE)
                           + sum[s \ {CHOOSE x \in s : TRUE}]]
  BY <1>4
<1> HIDE DEF sum
<1>6. Totals(sum, w, C)
  <2>1. \A s \in SUBSET C : s # {} => Chosen(s) \in C
    BY ChosenIsIn
  <2>2. \A s \in SUBSET C : sum[s] = IF s = {} THEN 0 ELSE w[Chosen(s)] + sum[s \ {Chosen(s)}]
    BY <1>2, <1>5, <2>1 DEF Chosen
  <2>3. sum \in [SUBSET C -> {sum[s] : s \in SUBSET C}]
    BY <1>5
  <2> QED
    BY <1>2, <1>3, <2>2, <2>3, TotalsFrom
<1> QED
  BY <1>1, <1>6 DEF C, w

\* Documents in the order of their times.
ByTime(byTime, P) ==
    /\ Arranges(byTime, P)
    /\ \A k, l \in 1 .. Len(byTime) : k <= l => FetchTime(byTime[k]) <= FetchTime(byTime[l])

LEMMA ByTimeParts ==
    ASSUME AreDocuments, NEW P, P \in SUBSET DOMAIN docs, NEW byTime, ByTime(byTime, P)
    PROVE  /\ Len(byTime) \in Nat
           /\ \A k \in 1 .. Len(byTime) : /\ byTime[k] \in P /\ Host(byTime[k]) \in Hosts
                                          /\ FetchTime(byTime[k]) \in 0 .. Half - 1
           /\ \A i \in P : \E k \in 1 .. Len(byTime) : byTime[k] = i
<1>1. Len(byTime) \in Nat /\ \A k \in 1 .. Len(byTime) : byTime[k] \in P
  BY ArrangedParts DEF ByTime
<1>2. \A i \in P : docs[i] \in Document /\ FetchTime(i) \in 0 .. Half - 1
  BY DocumentParts
<1>3. \A i \in P : Host(i) \in Hosts
  BY <1>2 DEF Host, Document
<1>4. \A i \in P : \E k \in 1 .. Len(byTime) : byTime[k] = i
  BY DEF ByTime, Arranges
<1> QED
  BY <1>1, <1>2, <1>3, <1>4

\* The first document of each host that is due, as a place from "first" on.
PlaceOf(byTime, first, host) ==
    CHOOSE k \in first .. Len(byTime) : /\ Host(byTime[k]) = host
                                        /\ \A l \in first .. k - 1 : Host(byTime[l]) # host

LEMMA PlaceOfHost ==
    ASSUME NEW byTime, Len(byTime) \in Nat, NEW first, first \in 1 .. Len(byTime),
           NEW k, k \in first .. Len(byTime)
    PROVE  LET p == PlaceOf(byTime, first, Host(byTime[k]))
           IN  /\ p \in SlicePlaces(byTime, first) /\ p \in first .. Len(byTime)
               /\ Host(byTime[p]) = Host(byTime[k]) /\ p <= k
<1> DEFINE host == Host(byTime[k])
           T == {l \in first .. Len(byTime) : Host(byTime[l]) = host}
           p == PlaceOf(byTime, first, host)
<1>1. T # {} /\ \A l \in T : l \in Nat
  OBVIOUS
<1>2. /\ k \in T /\ \A l \in T : l \in first .. Len(byTime) /\ Host(byTime[l]) = host
      /\ \A l \in first .. Len(byTime) : Host(byTime[l]) = host => l \in T
  OBVIOUS
<1> HIDE DEF T, host
<1>3. PICK m \in T : \A l \in T : m <= l
  BY <1>1, LeastElement
<1>4. /\ m \in first .. Len(byTime) /\ Host(byTime[m]) = host
      /\ \A l \in first .. m - 1 : Host(byTime[l]) # host
  <2>1. \A l \in first .. m - 1 : l \in first .. Len(byTime) /\ ~(m <= l)
    BY <1>2, <1>3
  <2> QED
    BY <1>2, <1>3, <2>1
<1>5. /\ p \in first .. Len(byTime) /\ Host(byTime[p]) = host
      /\ \A l \in first .. p - 1 : Host(byTime[l]) # host
  BY <1>4 DEF PlaceOf
<1> HIDE DEF p
<1>6. p \in SlicePlaces(byTime, first)
  BY <1>5 DEF SlicePlaces
<1>7. p <= k
  <2>1. Host(byTime[k]) = host
    BY DEF host
  <2> QED
    BY <1>5, <2>1
<1> QED
  BY <1>5, <1>6, <1>7 DEF p, host

LEMMA SigmoidGrows ==
    ASSUME NEW a, a \in 0 .. Half - 1, NEW b, b \in 0 .. Half - 1, NEW c, c \in 0 .. Half - 1, b <= c
    PROVE  Sigmoid(a - c, 0) <= Sigmoid(a - b, 0)
<1>1. a - c \in -Half .. Half - 1 /\ a - b \in -Half .. Half - 1 /\ a - c <= a - b
  BY HalfIsNat
<1> QED
  BY <1>1, NewsIndexAssumption

\* The same host, seen earlier, counts for more.
LEMMA ScoreGrows ==
    ASSUME NEW host, host \in Hosts, NEW a, a \in 0 .. Half - 1, NEW b, b \in 0 .. Half - 1,
           NEW c, c \in 0 .. Half - 1, b <= c
    PROVE  HostWeight[host] * Sigmoid(a - c, 0) <= HostWeight[host] * Sigmoid(a - b, 0)
<1> DEFINE m == HostWeight[host]
           x == Sigmoid(a - c, 0)
           y == Sigmoid(a - b, 0)
<1>1. m \in Nat
  BY NewsClusterAssumption
<1>2. x \in Nat /\ y \in Nat /\ x <= y
  BY SigmoidType, SigmoidGrows
<1> HIDE DEF m, x, y
<1>3. m * x <= m * y
  <2>1. y - x \in Nat /\ y = x + (y - x)
    BY <1>2
  <2>2. m * y = m * x + m * (y - x)
    BY <1>1, <1>2, <2>1
  <2>3. m * (y - x) \in Nat /\ m * x \in Nat
    BY <1>1, <1>2, <2>1, ProductType
  <2> QED
    BY <2>2, <2>3
<1> QED
  BY <1>3 DEF m, x, y

LEMMA DueHostsAreFinite ==
    ASSUME AreDocuments, NEW P, P \in SUBSET DOMAIN docs, NEW byTime, ByTime(byTime, P), NEW time
    PROVE  IsFiniteSet(DueHosts(P, time))
<1> DEFINE n == Len(byTime)
           S == DueHosts(P, time)
           D == 1 .. n
           place == [host \in S |-> CHOOSE k \in D : Host(byTime[k]) = host]
<1>1. n \in Nat /\ \A i \in P : \E k \in D : byTime[k] = i
  BY ByTimeParts
<1>2. IsFiniteSet(D)
  BY <1>1, IntervalSize
<1>3. ASSUME NEW host \in S
      PROVE  place[host] \in D /\ Host(byTime[place[host]]) = host
  <2>1. PICK i \in P : Host(i) = host
    BY DEF DueHosts, DueTimes
  <2>2. \E k \in D : Host(byTime[k]) = host
    BY <1>1, <2>1
  <2> QED
    BY <2>2
<1>4. place \in Injection(S, D)
  <2>1. place \in [S -> D]
    BY <1>3
  <2>2. \A x, y \in S : place[x] = place[y] => x = y
    BY <1>3
  <2> HIDE DEF place, S, D
  <2> QED
    BY <2>1, <2>2 DEF Injection, IsInjective
<1> HIDE DEF place, S, D
<1>5. IsFiniteSet(S)
  BY <1>2, <1>4, FS_Injection
<1> QED
  BY <1>5 DEF S

\* No slice counts more than there is from its time on,
LEMMA SliceBelow ==
    ASSUME AreDocuments, NEW P, P \in SUBSET DOMAIN docs, NEW byTime, ByTime(byTime, P),
           NEW first \in 1 .. Len(byTime)
    PROVE  SliceRanks(byTime)[first] <= SliceRank(P, FetchTime(byTime[first]))
<1> DEFINE t == FetchTime(byTime[first])
           S == SlicePlaces(byTime, first)
           T == DueHosts(P, t)
           v == SliceScores(byTime, first)
           w == HostScores(P, t)
           h == [k \in S |-> Host(byTime[k])]
<1>1. Len(byTime) \in Nat /\ t \in 0 .. Half - 1
  BY ByTimeParts
<1>2. PICK a : Totals(a, v, S) /\ SliceRanks(byTime)[first] = a[S]
  BY SliceTotals DEF ByTime
<1>3. IsFiniteSet(T)
  BY DueHostsAreFinite
<1>4. PICK b : Totals(b, w, T) /\ SliceRank(P, t) = b[T]
  BY <1>1, <1>3, SliceRankTotals
<1>5. ASSUME NEW k \in S
      PROVE  h[k] \in T /\ v[k] <= w[h[k]]
  <2> DEFINE host == Host(byTime[k])
             m == Min(DueTimes(P, host, t))
  <2>1. k \in 1 .. Len(byTime) /\ first <= k
    BY <1>1 DEF SlicePlaces
  <2>2. /\ byTime[k] \in P /\ FetchTime(byTime[k]) >= t
        /\ FetchTime(byTime[k]) \in 0 .. Half - 1 /\ host \in Hosts
    BY <1>1, <2>1, ByTimeParts DEF ByTime
  <2>3. host \in T
    BY <2>2 DEF DueHosts, DueTimes
  <2>4. m \in 0 .. Half - 1 /\ m <= FetchTime(byTime[k])
    BY <1>1, <2>2, <2>3, DueTimesParts
  <2>5. v[k] = HostWeight[host] * Sigmoid(t - FetchTime(byTime[k]), 0)
    BY DEF SliceScores, SliceScore
  <2>6. w[host] = HostWeight[host] * Sigmoid(t - m, 0)
    BY <2>3 DEF HostScores, HostScore
  <2>7. h[k] = host
    OBVIOUS
  <2> HIDE DEF m, host, t, T, v, w, h
  <2>8. v[k] <= w[host]
    BY <1>1, <2>2, <2>4, <2>5, <2>6, ScoreGrows
  <2> QED
    BY <2>3, <2>7, <2>8
<1>6. ASSUME NEW k \in S, NEW l \in S, h[k] = h[l]
      PROVE  k = l
  <2>1. k \in first .. Len(byTime) /\ l \in first .. Len(byTime) /\ Host(byTime[k]) = Host(byTime[l])
    BY <1>6 DEF SlicePlaces
  <2>2. ~(k < l) /\ ~(l < k)
    BY <1>1, <2>1 DEF SlicePlaces
  <2> QED
    BY <1>1, <2>1, <2>2
<1> HIDE DEF S, T, v, w, h
<1>7. a[S] <= b[T]
  BY <1>2, <1>4, <1>5, <1>6, TotalsGrow
<1> QED
  BY <1>2, <1>4, <1>7

\* and the first of a time counts all of that.
LEMMA SliceAbove ==
    ASSUME AreDocuments, NEW P, P \in SUBSET DOMAIN docs, NEW byTime, ByTime(byTime, P),
           NEW first \in 1 .. Len(byTime),
           \A k \in 1 .. first - 1 : FetchTime(byTime[k]) < FetchTime(byTime[first])
    PROVE  SliceRank(P, FetchTime(byTime[first])) <= SliceRanks(byTime)[first]
<1> DEFINE t == FetchTime(byTime[first])
           T == SlicePlaces(byTime, first)
           S == DueHosts(P, t)
           w == SliceScores(byTime, first)
           v == HostScores(P, t)
           h == [host \in S |-> PlaceOf(byTime, first, host)]
<1>1. Len(byTime) \in Nat /\ t \in 0 .. Half - 1
  BY ByTimeParts
<1>2. PICK b : Totals(b, w, T) /\ SliceRanks(byTime)[first] = b[T]
  BY SliceTotals DEF ByTime
<1>3. IsFiniteSet(S)
  BY DueHostsAreFinite
<1>4. PICK a : Totals(a, v, S) /\ SliceRank(P, t) = a[S]
  BY <1>1, <1>3, SliceRankTotals
<1>5. ASSUME NEW host \in S
      PROVE  h[host] \in T /\ Host(byTime[h[host]]) = host /\ v[host] <= w[h[host]]
  <2> DEFINE m == Min(DueTimes(P, host, t))
             p == PlaceOf(byTime, first, host)
  <2>1. PICK i \in P : Host(i) = host /\ FetchTime(i) >= t /\ FetchTime(i) = m
    BY <1>1, DueTimesParts
  <2>2. PICK k \in 1 .. Len(byTime) : byTime[k] = i
    BY ByTimeParts
  <2>3. k \in first .. Len(byTime)
    <3>1. ~(k < first)
      <4>1. k < first => FetchTime(byTime[k]) < t
        BY <1>1
      <4>2. FetchTime(byTime[k]) \in 0 .. Half - 1
        BY ByTimeParts
      <4> QED
        BY <1>1, <2>1, <2>2, <4>1, <4>2
    <3> QED
      BY <1>1, <3>1
  <2>4. host = Host(byTime[k]) /\ FetchTime(byTime[k]) = m
    BY <2>1, <2>2
  <2>5. p \in T /\ p \in first .. Len(byTime) /\ Host(byTime[p]) = host /\ p <= k
    <3> DEFINE q == PlaceOf(byTime, first, Host(byTime[k]))
    <3>1. q \in T /\ q \in first .. Len(byTime) /\ Host(byTime[q]) = Host(byTime[k]) /\ q <= k
      BY <1>1, <2>3, PlaceOfHost
    <3>2. q = p
      BY <2>4
    <3> HIDE DEF p, q
    <3> QED
      BY <2>4, <3>1, <3>2
  <2>6. p \in 1 .. Len(byTime)
    BY <1>1, <2>5
  <2>7. FetchTime(byTime[p]) <= m /\ FetchTime(byTime[p]) \in 0 .. Half - 1 /\ m \in 0 .. Half - 1
        /\ host \in Hosts
    <3> HIDE DEF p, m
    <3>1. FetchTime(byTime[p]) <= FetchTime(byTime[k])
      BY <2>5, <2>6 DEF ByTime
    <3>2. \A l \in 1 .. Len(byTime) : Host(byTime[l]) \in Hosts /\ FetchTime(byTime[l]) \in 0 .. Half - 1
      BY ByTimeParts
    <3> QED
      BY <2>4, <2>6, <3>1, <3>2
  <2>8. v[host] = HostWeight[host] * Sigmoid(t - m, 0)
    BY DEF HostScores, HostScore
  <2>9. w[p] = HostWeight[host] * Sigmoid(t - FetchTime(byTime[p]), 0)
    BY <2>5 DEF SliceScores, SliceScore
  <2>10. h[host] = p
    OBVIOUS
  <2> HIDE DEF m, p, t, T, v, w, h
  <2>11. v[host] <= w[p]
    BY <1>1, <2>7, <2>8, <2>9, ScoreGrows
  <2> QED
    BY <2>5, <2>10, <2>11
<1>6. ASSUME NEW x \in S, NEW y \in S, h[x] = h[y]
      PROVE  x = y
  BY <1>5, <1>6
<1> HIDE DEF S, T, v, w, h
<1>7. a[S] <= b[T]
  BY <1>2, <1>4, <1>5, <1>6, TotalsGrow
<1> QED
  BY <1>2, <1>4, <1>7

LEMMA MaxIs ==
    ASSUME NEW T, \A t \in T : t \in Int, NEW m, m \in T, \A t \in T : t <= m
    PROVE  Max(T) = m
<1>1. \E x \in T : \A y \in T : x >= y
  OBVIOUS
<1>2. Max(T) \in T /\ \A y \in T : Max(T) >= y
  BY <1>1 DEF Max
<1> DEFINE x == Max(T)
<1>3. x \in T /\ x \in Int /\ m \in Int /\ x >= m /\ x <= m
  BY <1>2
<1> HIDE DEF x
<1>4. x = m
  BY <1>3
<1> QED
  BY <1>4 DEF x

LEMMA MinIs ==
    ASSUME NEW T, \A t \in T : t \in Int, NEW m, m \in T, \A t \in T : m <= t
    PROVE  Min(T) = m
<1>1. \E x \in T : \A y \in T : x <= y
  OBVIOUS
<1>2. Min(T) \in T /\ \A y \in T : Min(T) <= y
  BY <1>1 DEF Min
<1> DEFINE x == Min(T)
<1>3. x \in T /\ x \in Int /\ m \in Int /\ x <= m /\ m <= x
  BY <1>2
<1> HIDE DEF x
<1>4. x = m
  BY <1>3
<1> QED
  BY <1>4 DEF x

\* The first document of a time starts a slice that counts all of it.
LEMMA SliceOfTime ==
    ASSUME AreDocuments, NEW P, P \in SUBSET DOMAIN docs, NEW byTime, ByTime(byTime, P),
           NEW i, i \in P
    PROVE  \E first \in 1 .. Len(byTime) :
              /\ FetchTime(byTime[first]) = FetchTime(i)
              /\ \A k \in 1 .. Len(byTime) : FetchTime(byTime[k]) = FetchTime(i) => first <= k
              /\ SliceRanks(byTime)[first] = SliceRank(P, FetchTime(i))
              /\ SliceRanks(byTime)[first] \in Nat
<1> DEFINE n == Len(byTime)
           t == FetchTime(i)
           T == {k \in 1 .. n : FetchTime(byTime[k]) = t}
<1>1. n \in Nat /\ \A k \in 1 .. n : FetchTime(byTime[k]) \in 0 .. Half - 1
  BY ByTimeParts
<1>2. PICK l \in 1 .. n : byTime[l] = i
  BY DEF ByTime, Arranges
<1>3. T # {} /\ \A k \in T : k \in Nat
  BY <1>2
<1>4. \A k : k \in T <=> k \in 1 .. n /\ FetchTime(byTime[k]) = t
  OBVIOUS
<1> HIDE DEF T
<1>5. PICK first \in T : \A k \in T : first <= k
  BY <1>3, LeastElement
<1>6. first \in 1 .. n /\ FetchTime(byTime[first]) = t
  BY <1>4, <1>5
<1>7. ASSUME NEW k \in 1 .. first - 1
      PROVE  FetchTime(byTime[k]) < FetchTime(byTime[first])
  <2>1. k \in 1 .. n /\ k <= first /\ ~(first <= k)
    BY <1>1, <1>6
  <2>2. FetchTime(byTime[k]) <= FetchTime(byTime[first])
    BY <1>6, <2>1 DEF ByTime
  <2>3. FetchTime(byTime[k]) # t
    BY <1>4, <1>5, <2>1
  <2>4. FetchTime(byTime[k]) \in 0 .. Half - 1 /\ FetchTime(byTime[first]) \in 0 .. Half - 1
    BY <1>1, <1>6, <2>1
  <2> QED
    BY <1>6, <2>2, <2>3, <2>4
<1> DEFINE a == SliceRanks(byTime)[first]
           b == SliceRank(P, t)
<1>8. a \in Nat
  BY <1>6, SliceRankType DEF ByTime
<1>9. b \in Nat
  <2>1. IsFiniteSet(DueHosts(P, t)) /\ t \in 0 .. Half - 1
    BY <1>1, <1>6, DueHostsAreFinite
  <2>2. PICK sum : Totals(sum, HostScores(P, t), DueHosts(P, t)) /\ b = sum[DueHosts(P, t)]
    BY <2>1, SliceRankTotals
  <2> QED
    BY <2>2 DEF Totals
<1>10. a <= b
  BY <1>6, SliceBelow
<1>11. b <= a
  BY <1>6, <1>7, SliceAbove
<1> HIDE DEF a, b
<1>12. a = b
  BY <1>8, <1>9, <1>10, <1>11
<1> QED
  BY <1>4, <1>5, <1>6, <1>8, <1>12 DEF a, b

\* The importance and the date of a cluster with these documents.
LEMMA BestSliceIsBest ==
    ASSUME AreDocuments, NEW P, P \in SUBSET DOMAIN docs, NEW byTime, ByTime(byTime, P),
           NEW best, IsBest(best, byTime),
           NEW cluster, ToSet(cluster.Documents) = P,
           cluster.Importance = SliceRanks(byTime)[best],
           cluster.BestTimestamp = FetchTime(byTime[best])
    PROVE  ImportanceIsBestSlice(cluster)
<1> DEFINE n == Len(byTime)
           m == SliceRanks(byTime)[best]
           t == FetchTime(byTime[best])
           times == {FetchTime(i) : i \in P}
           R == {SliceRank(P, time) : time \in times}
           B == {time \in times : SliceRank(P, time) = m}
<1>1. /\ n \in Nat /\ best \in 1 .. n
      /\ \A k \in 1 .. n : byTime[k] \in P /\ FetchTime(byTime[k]) \in 0 .. Half - 1
  BY ByTimeParts DEF IsBest
<1>2. \A l \in 1 .. n : \/ SliceRanks(byTime)[l] < m
                        \/ SliceRanks(byTime)[l] = m /\ best <= l
  BY DEF IsBest
<1>3. m \in Nat
  BY <1>1, SliceRankType DEF ByTime
<1>4. ASSUME NEW i \in P
      PROVE  /\ SliceRank(P, FetchTime(i)) \in Nat
             /\ SliceRank(P, FetchTime(i)) <= m
             /\ SliceRank(P, FetchTime(i)) = m => t <= FetchTime(i)
  <2>1. PICK first \in 1 .. n : /\ FetchTime(byTime[first]) = FetchTime(i)
                                /\ SliceRanks(byTime)[first] = SliceRank(P, FetchTime(i))
                                /\ SliceRanks(byTime)[first] \in Nat
    BY SliceOfTime
  <2>2. SliceRank(P, FetchTime(i)) = m => best <= first
    BY <1>2, <1>3, <2>1
  <2>3. best <= first => t <= FetchTime(i)
    BY <1>1, <2>1 DEF ByTime
  <2>4. SliceRank(P, FetchTime(i)) <= m
    BY <1>2, <1>3, <2>1
  <2> QED
    BY <2>1, <2>2, <2>3, <2>4
<1>5. SliceRank(P, t) = m
  <2>1. byTime[best] \in P
    BY <1>1
  <2>2. PICK first \in 1 .. n :
           /\ \A k \in 1 .. n : FetchTime(byTime[k]) = t => first <= k
           /\ SliceRanks(byTime)[first] = SliceRank(P, t)
    BY <2>1, SliceOfTime
  <2>3. first <= best
    BY <1>1, <2>2
  <2>4. m <= SliceRank(P, t)
    BY <1>1, SliceBelow
  <2>5. SliceRank(P, t) <= m /\ SliceRank(P, t) \in Nat
    BY <1>4, <2>1
  <2> QED
    BY <1>3, <2>4, <2>5
<1>6. t \in times
  BY <1>1
<1>7. \A time \in times : \E i \in P : time = FetchTime(i)
  OBVIOUS
<1>8. \A time \in times : time \in Int
  BY <1>7, DocumentParts
<1>9. ToSet(cluster.Documents) = P /\ cluster.Importance = m /\ cluster.BestTimestamp = t
  OBVIOUS
<1> HIDE DEF times, t, m
<1>10. Max(R) = m
  <2>1. m \in R
    BY <1>5, <1>6
  <2>2. \A r \in R : r \in Int /\ r <= m
    BY <1>4, <1>7
  <2> HIDE DEF R
  <2> QED
    BY <2>1, <2>2, MaxIs
<1>11. Min(B) = t
  <2>1. t \in B
    BY <1>5, <1>6
  <2>2. \A time \in B : time \in Int /\ t <= time
    BY <1>4, <1>7, <1>8
  <2> HIDE DEF B
  <2> QED
    BY <2>1, <2>2, MinIs
<1> QED
  BY <1>9, <1>10, <1>11 DEF ImportanceIsBestSlice, times

-----------------------------------------------------------------------------
Votes(documents, k) ==
    Cardinality({l \in DOMAIN documents : docs[documents[l]].Category = ECategory[k]})

\* A category that a document of the cluster has.
LEMMA CategoryIsVotedFor ==
    ASSUME AreDocuments, NEW P, P \in SUBSET DOMAIN docs, NEW documents, Arranges(documents, P),
           Len(documents) > 0
    PROVE  CalcCategory(documents) \in Categories \ {"NC_UNDEFINED", "NC_ANY"}
<1> DEFINE n == Len(documents)
           Of(k) == {l \in DOMAIN documents : docs[documents[l]].Category = ECategory[k]}
           v == [k \in 1 .. 10 |-> Votes(documents, k)]
           best == CHOOSE k \in 1 .. 10 : \A l \in 1 .. 10 :
                       v[l] < v[k] \/ (v[l] = v[k] /\ k <= l)
<1>1. /\ n \in Nat /\ DOMAIN documents = 1 .. n
      /\ \A k \in 1 .. n : documents[k] \in DOMAIN docs
  BY ArrangedParts
<1>2. \A k \in 1 .. n : docs[documents[k]].Category \in Categories \ {"NC_UNDEFINED", "NC_ANY"}
  <2>1. \A k \in 1 .. n : docs[documents[k]] \in Document
    BY <1>1, DocumentParts
  <2> QED
    BY <2>1 DEF Document
<1>3. DOMAIN ECategory = 1 .. 10
  BY DEF ECategory
<1>4. CalcCategory(documents) = ECategory[best]
  BY <1>3 DEF CalcCategory, Votes
<1>5. \A k \in 1 .. 10 : v[k] = Cardinality(Of(k))
  BY DEF Votes
<1>6. \A k \in 1 .. 10 : IsFiniteSet(Of(k)) /\ Cardinality(Of(k)) \in Nat
                         /\ (Cardinality(Of(k)) = 0 <=> Of(k) = {})
  <2> SUFFICES ASSUME NEW k \in 1 .. 10
               PROVE  IsFiniteSet(Of(k)) /\ Cardinality(Of(k)) \in Nat
                      /\ (Cardinality(Of(k)) = 0 <=> Of(k) = {})
    OBVIOUS
  <2> DEFINE S == Of(k)
  <2>1. S \in SUBSET (1 .. n) /\ IsFiniteSet(1 .. n)
    BY <1>1, IntervalSize
  <2> HIDE DEF S
  <2>2. IsFiniteSet(S)
    BY <2>1, FS_Subset
  <2>3. Cardinality(S) \in Nat /\ (Cardinality(S) = 0 <=> S = {})
    BY <2>2, FS_CardinalityType, FS_EmptySet
  <2> QED
    BY <2>2, <2>3 DEF S
<1>7. ECategory[1] = "NC_UNDEFINED" /\ ECategory[2] = "NC_ANY"
  BY DEF ECategory
<1>8. \A k \in 3 .. 10 : ECategory[k] \in Categories \ {"NC_UNDEFINED", "NC_ANY"}
  <2>1. \A k \in 3 .. 10 : k = 3 \/ k = 4 \/ k = 5 \/ k = 6 \/ k = 7 \/ k = 8 \/ k = 9 \/ k = 10
    OBVIOUS
  <2> QED
    BY <2>1 DEF ECategory, Categories
<1>9. \A c \in Categories : \E k \in 1 .. 10 : ECategory[k] = c
  <2>1. /\ ECategory[1] = "NC_UNDEFINED" /\ ECategory[2] = "NC_ANY" /\ ECategory[3] = "NC_SOCIETY"
        /\ ECategory[4] = "NC_ECONOMY" /\ ECategory[5] = "NC_TECHNOLOGY"
        /\ ECategory[6] = "NC_SPORTS" /\ ECategory[7] = "NC_ENTERTAINMENT"
        /\ ECategory[8] = "NC_SCIENCE" /\ ECategory[9] = "NC_OTHER" /\ ECategory[10] = "NC_NOT_NEWS"
    BY DEF ECategory
  <2> HIDE DEF best, v
  <2> QED
    BY <2>1 DEF Categories
<1>10. Of(1) = {} /\ Of(2) = {}
  BY <1>1, <1>2, <1>7
<1>11. PICK m \in 1 .. 10 : Of(m) # {}
  <2>1. 1 \in 1 .. n
    BY <1>1
  <2>2. PICK k \in 1 .. 10 : ECategory[k] = docs[documents[1]].Category
    BY <1>2, <1>9, <2>1
  <2>3. 1 \in Of(k)
    BY <1>1, <2>1, <2>2
  <2> QED
    BY <2>3
<1>12. \A k \in 1 .. 10 : v[k] \in Nat
  BY <1>5, <1>6
<1>13. v[1] = 0 /\ v[2] = 0 /\ v[m] \in Nat /\ v[m] # 0
  <2>1. \A k \in 1 .. 10 : v[k] = 0 <=> Of(k) = {}
    BY <1>5, <1>6
  <2>2. 1 \in 1 .. 10 /\ 2 \in 1 .. 10
    OBVIOUS
  <2> HIDE DEF v, Of
  <2> QED
    BY <1>10, <1>11, <1>12, <2>1, <2>2
<1> HIDE DEF v, Of
<1>14. \E k \in 1 .. 10 : \A l \in 1 .. 10 : v[l] < v[k] \/ (v[l] = v[k] /\ k <= l)
  <2> DEFINE N == 10
  <2>1. N \in Nat /\ N > 0 /\ \A k \in 1 .. N : v[k] \in Nat
    BY <1>12
  <2> HIDE DEF N
  <2>2. \E k \in 1 .. N : \A l \in 1 .. N : v[l] < v[k] \/ (v[l] = v[k] /\ k <= l)
    BY <2>1, FirstLargest
  <2> QED
    BY <2>2 DEF N
<1>15. best \in 1 .. 10 /\ (v[m] < v[best] \/ v[m] = v[best])
  BY <1>14
<1> HIDE DEF best
<1>16. best # 1 /\ best # 2
  <2> SUFFICES ASSUME v[best] = 0 PROVE FALSE
    BY <1>13
  <2> QED
    BY <1>13, <1>15
<1>17. best \in 3 .. 10
  BY <1>15, <1>16
<1> QED
  BY <1>4, <1>8, <1>17

-----------------------------------------------------------------------------
\* A summarized cluster: the documents of before, and all NewsCluster promises.
IsSummary(c) ==
    /\ c \in IndexedCluster
    /\ OrderFollowsWeights(c) /\ ImportanceIsBestSlice(c)

LEMMA SummaryOfCluster ==
    ASSUME AreDocuments, NEW D, D \in SUBSET DOMAIN docs, NEW c, IsClusterOf(c, D)
    PROVE  /\ IsClusterOf(Summarized(c), D) /\ IsSummary(Summarized(c))
           /\ ToSet(Summarized(c).Documents) = ToSet(c.Documents)
           /\ Summarized(c).FreshestTimestamp = c.FreshestTimestamp
<1> DEFINE documents == SortByWeights(c.Documents)
           byTime == DocsByTime(documents)
           slice == CalcImportance(documents)
           importance == slice.Importance
           date == slice.BestTimestamp
           category == CalcCategory(documents)
           s == Summarized(c)
<1>1. PICK P \in SUBSET D : P # {} /\ Arranges(c.Documents, P) /\ c.FreshestTimestamp = NewestOf(P)
  BY DEF IsClusterOf
<1>2. P \in SUBSET DOMAIN docs
  OBVIOUS
<1>3. /\ Arranges(documents, P) /\ Len(documents) > 0
      /\ \A k, l \in 1 .. Len(documents) : k < l =>
            DocWeight(documents[l], NewestOf(P))
              < DocWeight(documents[k], NewestOf(P)) + (l - k) * Tolerance
  BY <1>1, <1>2, WeightsSorted
<1>4. s = ClusterWith(documents, importance, date, category)
  BY DEF Summarized, ClusterWith
<1> HIDE DEF s
<1>5. Arranges(byTime, P) /\ ByTime(byTime, P)
  <2>1. /\ Arranges(byTime, P) /\ Len(byTime) = Len(documents)
        /\ \A k, l \in 1 .. Len(documents) :
              k <= l => FetchTime(byTime[k]) <= FetchTime(byTime[l])
    <3> HIDE DEF documents
    <3> QED
      BY <1>2, <1>3, TimesSorted
  <2> QED
    BY <2>1 DEF ByTime
<1>6. PICK best : /\ IsBest(best, byTime) /\ importance = SliceRanks(byTime)[best]
                  /\ date = FetchTime(byTime[best])
  <2> HIDE DEF documents
  <2> QED
    BY <1>2, <1>3, ImportanceOfBest
<1>7. category \in Categories \ {"NC_UNDEFINED", "NC_ANY"}
  <2> HIDE DEF documents
  <2> QED
    BY <1>2, <1>3, CategoryIsVotedFor
<1> HIDE DEF documents, byTime, slice, importance, date, category
<1>8. importance \in Nat /\ importance > 0 /\ date \in 0 .. Half - 1
  <2>1. best \in 1 .. Len(byTime)
    BY <1>6 DEF IsBest
  <2>2. SliceRanks(byTime)[best] \in Nat /\ SliceRanks(byTime)[best] > 0
    BY <1>2, <1>5, <2>1, SliceRankType
  <2>3. FetchTime(byTime[best]) \in 0 .. Half - 1
    BY <1>2, <1>5, <2>1, ByTimeParts
  <2> QED
    BY <1>6, <2>2, <2>3
<1>9. IsClusterOf(s, D) /\ ToSet(s.Documents) = P
  <2>1. category \in Categories
    BY <1>7
  <2> QED
    BY <1>1, <1>3, <1>4, <1>8, <2>1, MadeCluster
<1>10. /\ s.Documents = documents /\ s.Importance = importance /\ s.BestTimestamp = date
       /\ s.Category = category /\ s.FreshestTimestamp = NewestOf(P)
  <2>1. AddedTimestamp(documents) = NewestOf(P)
    BY <1>3, AddedIsNewest
  <2> QED
    BY <1>4, <2>1 DEF ClusterWith
<1>11. s \in IndexedCluster
  <2>1. documents # << >>
    BY <1>3, EmptySeq
  <2>2. documents \in Seq(1 .. MaxDocs) /\ NewestOf(P) \in 0 .. Half - 1
    BY <1>1, <1>2, <1>3, DocumentsInBounds, NewestIsNewest
  <2>3. s = [Documents |-> documents, FreshestTimestamp |-> NewestOf(P),
             Importance |-> importance, BestTimestamp |-> date, Category |-> category]
    BY <1>4, <1>10 DEF ClusterWith
  <2> QED
    BY <1>7, <1>8, <2>1, <2>2, <2>3 DEF IndexedCluster
<1>12. OrderFollowsWeights(s)
  <2>1. DOMAIN documents = 1 .. Len(documents)
    BY <1>3, ArrangedParts
  <2> QED
    BY <1>3, <1>10, <2>1 DEF OrderFollowsWeights
<1>13. ImportanceIsBestSlice(s)
  BY <1>2, <1>5, <1>6, <1>9, <1>10, BestSliceIsBest
<1>14. ToSet(c.Documents) = P
  BY <1>1, ArrangedSet
<1> QED
  BY <1>1, <1>9, <1>10, <1>11, <1>12, <1>13, <1>14 DEF IsSummary, s

SummarizedAll(cs) == [k \in DOMAIN cs |-> Summarized(cs[k])]

LEMMA SummarizingPartitions ==
    ASSUME AreDocuments, NEW D, D \in SUBSET DOMAIN docs, NEW cs, Partitions(cs, D), InOrder(cs)
    PROVE  LET sc == SummarizedAll(cs)
           IN  Partitions(sc, D) /\ InOrder(sc) /\ \A c \in ToSet(sc) : IsSummary(c)
<1> DEFINE n == Len(cs)
           sc == SummarizedAll(cs)
<1>1. Arranges(cs, ToSet(cs)) /\ Partition(ToSet(cs), D)
  BY DEF Partitions
<1>2. n \in Nat /\ DOMAIN cs = 1 .. n /\ \A k \in 1 .. n : cs[k] \in ToSet(cs)
  BY <1>1, ArrangedParts
<1>3. \A j, k \in 1 .. n : cs[j] = cs[k] => j = k
  BY <1>1 DEF Arranges
<1>4. DOMAIN sc = 1 .. n /\ Len(sc) = n /\ \A k \in 1 .. n : sc[k] = Summarized(cs[k])
  BY <1>2 DEF SummarizedAll
<1>5. sc = [k \in 1 .. n |-> sc[k]]
  BY <1>2 DEF SummarizedAll
<1> HIDE DEF sc
<1>6. \A k \in 1 .. n : /\ IsClusterOf(sc[k], D) /\ IsSummary(sc[k])
                        /\ ToSet(sc[k].Documents) = ToSet(cs[k].Documents)
                        /\ sc[k].FreshestTimestamp = cs[k].FreshestTimestamp
  <2>1. \A k \in 1 .. n : IsClusterOf(cs[k], D)
    BY <1>1, <1>2 DEF Partition
  <2> QED
    BY <1>4, <2>1, SummaryOfCluster
<1>7. \A k \in 1 .. n, i \in D : HasDocument(sc[k], i) <=> HasDocument(cs[k], i)
  BY <1>6 DEF HasDocument
<1>8. ASSUME NEW j \in 1 .. n, NEW k \in 1 .. n, NEW i \in D,
             HasDocument(sc[j], i), HasDocument(sc[k], i)
      PROVE  j = k
  <2>1. cs[j] = cs[k]
    BY <1>1, <1>2, <1>7, <1>8 DEF Partition
  <2> QED
    BY <1>3, <2>1
<1>9. ASSUME NEW k \in 1 .. n
      PROVE  \E i \in D : HasDocument(sc[k], i)
  <2>1. PICK P \in SUBSET D : P # {} /\ Arranges(sc[k].Documents, P)
    BY <1>6 DEF IsClusterOf
  <2>2. ToSet(sc[k].Documents) = P
    BY <2>1, ArrangedSet
  <2> QED
    BY <2>1, <2>2 DEF HasDocument
<1>10. \A c : c \in ToSet(sc) <=> \E k \in 1 .. n : c = sc[k]
  BY <1>4 DEF ToSet
<1>11. Arranges(sc, ToSet(sc))
  <2>1. sc \in [1 .. n -> ToSet(sc)]
    BY <1>5, <1>10
  <2>2. Seq(ToSet(sc)) = UNION {[1 .. i -> ToSet(sc)] : i \in Nat}
    BY SeqDef
  <2>3. sc \in Seq(ToSet(sc))
    BY <1>2, <2>1, <2>2
  <2>4. \A j, k \in 1 .. n : sc[j] = sc[k] => j = k
    BY <1>8, <1>9
  <2> QED
    BY <1>4, <1>10, <2>3, <2>4 DEF Arranges
<1>12. Partition(ToSet(sc), D)
  <2>1. \A c \in ToSet(sc) : IsClusterOf(c, D)
    BY <1>6, <1>10
  <2>2. \A b \in ToSet(sc), c \in ToSet(sc), i \in D :
           HasDocument(b, i) /\ HasDocument(c, i) => b = c
    BY <1>8, <1>10
  <2>3. ASSUME NEW i \in D PROVE \E c \in ToSet(sc) : HasDocument(c, i)
    <3>1. PICK c \in ToSet(cs) : HasDocument(c, i)
      BY <1>1 DEF Partition
    <3>2. PICK k \in 1 .. n : cs[k] = c
      BY <1>1 DEF Arranges
    <3> QED
      BY <1>7, <1>10, <3>1, <3>2
  <2> QED
    BY <2>1, <2>2, <2>3 DEF Partition
<1>13. InOrder(sc)
  BY <1>4, <1>6 DEF InOrder
<1> QED
  BY <1>6, <1>10, <1>11, <1>12, <1>13 DEF Partitions, sc

-----------------------------------------------------------------------------
(***************************************************************************)
(* The inductive invariant of building the index.                          *)
(***************************************************************************)
TimestampsFit ==
    /\ \A i \in DOMAIN docs : FetchTime(i) <= TrueMaxTimestamp
    /\ docs # << >> => \E i \in DOMAIN docs : FetchTime(i) = TrueMaxTimestamp
    /\ Cardinality({i \in DOMAIN docs : FetchTime(i) > IterTimestamp}) * 100
          <= (100 - Percentile) * Len(docs)

ClustersFit ==
    \A l \in Clusterings : Partitions(Clusters[l], DocsOf(l)) /\ InOrder(Clusters[l])

SummariesFit == \A l \in Clusterings : \A c \in ToSet(Clusters[l]) : IsSummary(c)

IndexInv ==
    /\ AreDocuments /\ MinClusterSize \in MinClusterSizes
    /\ stage \in {"docs", "clusters", "index", "answered"}
    /\ DOMAIN Clusters = Clusterings
    /\ IterTimestamp \in 0 .. Half - 1 /\ TrueMaxTimestamp \in 0 .. Half - 1
    /\ stage # "docs" => TimestampsFit /\ ClustersFit
    /\ IsSummarized => SummariesFit
    /\ stage = "answered" <=> answer # NoAnswer

LEMMA InitFits == Init => IndexInv
<1> SUFFICES ASSUME Init PROVE IndexInv
  OBVIOUS
<1>1. AreDocuments
  <2>1. PICK n \in 0 .. MaxDocs : docs \in [1 .. n -> DocumentKinds]
    BY DEF Init
  <2>2. MaxDocs \in Nat
    BY NewsIndexAssumption
  <2>3. n \in Nat /\ n <= MaxDocs
    BY <2>2
  <2>4. Seq(DocumentKinds) = UNION {[1 .. i -> DocumentKinds] : i \in Nat}
    BY SeqDef
  <2>5. docs \in Seq(DocumentKinds)
    BY <2>1, <2>3, <2>4
  <2>6. DOMAIN docs = 1 .. n
    BY <2>1
  <2>7. Len(docs) = n
    BY <2>3, <2>5, <2>6, LenProperties
  <2> QED
    BY <2>3, <2>5, <2>7 DEF AreDocuments
<1>2. 0 \in 0 .. Half - 1
  BY HalfIsNat
<1> QED
  BY <1>1, <1>2 DEF Init, IndexInv, IsSummarized

LEMMA SameDocuments ==
    ASSUME docs' = docs
    PROVE  /\ AreDocuments' <=> AreDocuments
           /\ \A l : DocsOf(l)' = DocsOf(l)
           /\ \A cs, D : Partitions(cs, D)' <=> Partitions(cs, D)
           /\ \A c : IsSummary(c)' <=> IsSummary(c)
<1>1. AreDocuments' <=> AreDocuments
  BY DEF AreDocuments
<1>2. \A l : DocsOf(l)' = DocsOf(l)
  BY DEF DocsOf
<1>3. \A cs, D : Partitions(cs, D)' <=> Partitions(cs, D)
  BY DEF Partitions, Partition, IsClusterOf, NewestOf, FetchTime, HasDocument
<1>4. \A c : OrderFollowsWeights(c)' <=> OrderFollowsWeights(c)
  BY DEF OrderFollowsWeights, DocWeight, FetchTime, Host
<1>5. \A S, t : SliceRank(S, t)' = SliceRank(S, t)
  BY DEF SliceRank, MapThenSumSet, MapThenFoldSet, FetchTime, Host
<1>6. \A c : ImportanceIsBestSlice(c)' <=> ImportanceIsBestSlice(c)
  BY <1>5 DEF ImportanceIsBestSlice, FetchTime
<1>7. \A c : IsSummary(c)' <=> IsSummary(c)
  BY <1>4, <1>6 DEF IsSummary
<1> QED
  BY <1>1, <1>2, <1>3, <1>7

\* Nothing the documents and the index consist of has changed.
LEMMA SameIndex ==
    ASSUME UNCHANGED <<docs, indexVars>>
    PROVE  /\ TimestampsFit' <=> TimestampsFit
           /\ ClustersFit' <=> ClustersFit
           /\ SummariesFit' <=> SummariesFit
<1>1. docs' = docs /\ Clusters' = Clusters /\ IterTimestamp' = IterTimestamp
      /\ TrueMaxTimestamp' = TrueMaxTimestamp
  BY DEF indexVars
<1>2. TimestampsFit' <=> TimestampsFit
  BY <1>1 DEF TimestampsFit, FetchTime
<1>3. ClustersFit' <=> ClustersFit
  BY <1>1, SameDocuments DEF ClustersFit, InOrder
<1>4. SummariesFit' <=> SummariesFit
  BY <1>1, SameDocuments DEF SummariesFit
<1> QED
  BY <1>2, <1>3, <1>4

LEMMA ClusterFits == IndexInv /\ Cluster => IndexInv'
<1> SUFFICES ASSUME IndexInv, Cluster PROVE IndexInv'
  OBVIOUS
<1>1. /\ docs' = docs /\ MinClusterSize' = MinClusterSize /\ answer' = answer
      /\ stage = "docs" /\ stage' = "clusters"
  BY DEF Cluster
<1>2. AreDocuments /\ MinClusterSize \in MinClusterSizes /\ answer = NoAnswer
  BY <1>1 DEF IndexInv
<1>3. IterTimestamp' = GetIterTimestamp(SortedDocs) /\ TrueMaxTimestamp' = NewestTime(SortedDocs)
  BY DEF Cluster, NewestTime
<1>4. PICK labels : /\ \A language \in Clusterings :
                          labels[language] \in Labellings(Len(Lang2Docs(language)))
                    /\ Clusters' = [language \in Clusterings |->
                          SortedClusters(LabelledClusters(Lang2Docs(language), labels[language]))]
  BY DEF Cluster
<1>5. ASSUME NEW l \in Clusterings
      PROVE  Partitions(Clusters'[l], DocsOf(l)) /\ InOrder(Clusters'[l])
  <2> DEFINE D == DocsOf(l)
             langDocs == Lang2Docs(l)
             cs == LabelledClusters(langDocs, labels[l])
  <2>1. D \in SUBSET DOMAIN docs
    BY DEF DocsOf
  <2>2. Arranges(langDocs, D) /\ labels[l] \in Labellings(Len(langDocs))
    BY <1>2, <1>4, LangDocsArrange
  <2>3. Clusters'[l] = SortedClusters(cs)
    BY <1>4
  <2> HIDE DEF D, langDocs
  <2>4. Partitions(cs, D)
    BY <1>2, <2>1, <2>2, LabellingPartitions
  <2> HIDE DEF cs
  <2>5. Partitions(SortedClusters(cs), D) /\ InOrder(SortedClusters(cs))
    BY <2>4, SortingPartitions
  <2> QED
    BY <2>3, <2>5 DEF D
<1>6. ClustersFit'
  BY <1>1, <1>5, SameDocuments DEF ClustersFit, InOrder
<1> DEFINE t == GetIterTimestamp(SortedDocs)
           u == NewestTime(SortedDocs)
<1>7. /\ t \in 0 .. Half - 1 /\ u \in 0 .. Half - 1
      /\ \A i \in DOMAIN docs : FetchTime(i) <= u
      /\ docs # << >> => \E i \in DOMAIN docs : FetchTime(i) = u
      /\ Cardinality({i \in DOMAIN docs : FetchTime(i) > t}) * 100 <= (100 - Percentile) * Len(docs)
  BY <1>2, TimestampsAreExact
<1> HIDE DEF t, u
<1>8. IterTimestamp' = t /\ TrueMaxTimestamp' = u
  BY <1>3 DEF t, u
<1>9. TimestampsFit'
  BY <1>1, <1>7, <1>8 DEF TimestampsFit, FetchTime
<1>10. AreDocuments'
  BY <1>1, <1>2, SameDocuments
<1>11. ~IsSummarized' /\ answer' = NoAnswer'
  BY <1>1, <1>2 DEF IsSummarized, NoAnswer
<1>12. DOMAIN Clusters' = Clusterings
  BY <1>4
<1> QED
  BY <1>1, <1>2, <1>6, <1>7, <1>8, <1>9, <1>10, <1>11, <1>12 DEF IndexInv

LEMMA SummarizeFits == IndexInv /\ Summarize => IndexInv'
<1> SUFFICES ASSUME IndexInv, Summarize PROVE IndexInv'
  OBVIOUS
<1>1. /\ docs' = docs /\ MinClusterSize' = MinClusterSize /\ answer' = answer
      /\ stage = "clusters" /\ stage' = "index"
      /\ IterTimestamp' = IterTimestamp /\ TrueMaxTimestamp' = TrueMaxTimestamp
      /\ Clusters' = [language \in Clusterings |-> SummarizedAll(Clusters[language])]
  BY DEF Summarize, SummarizedAll
<1>2. /\ AreDocuments /\ MinClusterSize \in MinClusterSizes /\ answer = NoAnswer
      /\ TimestampsFit /\ ClustersFit
      /\ IterTimestamp \in 0 .. Half - 1 /\ TrueMaxTimestamp \in 0 .. Half - 1
  BY <1>1 DEF IndexInv
<1>3. ASSUME NEW l \in Clusterings
      PROVE  /\ Partitions(Clusters'[l], DocsOf(l)) /\ InOrder(Clusters'[l])
             /\ \A c \in ToSet(Clusters'[l]) : IsSummary(c)
  <2> DEFINE D == DocsOf(l)
             cs == Clusters[l]
             sc == SummarizedAll(cs)
  <2>1. D \in SUBSET DOMAIN docs
    BY DEF DocsOf
  <2>2. Partitions(cs, D) /\ InOrder(cs)
    BY <1>2 DEF ClustersFit
  <2>3. Clusters'[l] = sc
    BY <1>1
  <2> HIDE DEF D, cs
  <2>4. Partitions(sc, D) /\ InOrder(sc) /\ \A c \in ToSet(sc) : IsSummary(c)
    BY <1>2, <2>1, <2>2, SummarizingPartitions
  <2> HIDE DEF sc
  <2> QED
    BY <2>3, <2>4 DEF D
<1>4. ClustersFit'
  BY <1>1, <1>3, SameDocuments DEF ClustersFit, InOrder
<1>5. SummariesFit'
  BY <1>1, <1>3, SameDocuments DEF SummariesFit
<1>6. TimestampsFit'
  BY <1>1, <1>2 DEF TimestampsFit, FetchTime
<1>7. AreDocuments'
  BY <1>1, <1>2, SameDocuments
<1>8. answer' = NoAnswer'
  BY <1>1, <1>2 DEF NoAnswer
<1>9. DOMAIN Clusters' = Clusterings
  BY <1>1
<1> QED
  BY <1>1, <1>2, <1>4, <1>5, <1>6, <1>7, <1>8, <1>9 DEF IndexInv

\* What the three queries have in common.
Answers ==
    /\ UNCHANGED <<docs, MinClusterSize, indexVars>>
    /\ stage \in {"clusters", "index"} /\ stage' = "answered"
    /\ answer' # NoAnswer
    /\ answer'.mode \in {"/threads", "top", "threads"}
    /\ answer'.mode # "threads" <=> stage = "index"

LEMMA QueriesAnswer ==
    /\ \A period, language, category : Threads(period, language, category) => Answers
    /\ \A window : Top(window) => Answers
    /\ PrintThreads => Answers
<1> DEFINE A(mode, period, languages, weighted, shown) ==
             [mode |-> mode, period |-> period, languages |-> languages, weighted |-> weighted,
              shown |-> shown]
<1>1. \A mode, period, languages, weighted, shown :
         /\ A(mode, period, languages, weighted, shown).mode = mode
         /\ mode # "none" => A(mode, period, languages, weighted, shown) # NoAnswer
  BY DEF NoAnswer
<1>2. \A mode, period, languages, weighted, shown :
         Answer(mode, period, languages, weighted, shown) =>
            /\ answer' = A(mode, period, languages, weighted, shown)
            /\ stage' = "answered"
            /\ UNCHANGED <<docs, MinClusterSize, indexVars>>
  BY DEF Answer
<1> HIDE DEF A
<1>3. ASSUME NEW period, NEW language, NEW category, Threads(period, language, category)
      PROVE  Answers
  BY <1>1, <1>2, <1>3 DEF Threads, Answers
<1>4. ASSUME NEW window, Top(window)
      PROVE  Answers
  BY <1>1, <1>2, <1>4 DEF Top, Answers
<1>5. ASSUME PrintThreads
      PROVE  Answers
  BY <1>1, <1>2, <1>5 DEF PrintThreads, Answers
<1> QED
  BY <1>3, <1>4, <1>5

LEMMA AnswersFit == IndexInv /\ Answers => IndexInv'
<1> SUFFICES ASSUME IndexInv, Answers PROVE IndexInv'
  OBVIOUS
<1>1. /\ UNCHANGED <<docs, indexVars>> /\ docs' = docs /\ MinClusterSize' = MinClusterSize
      /\ Clusters' = Clusters /\ IterTimestamp' = IterTimestamp
      /\ TrueMaxTimestamp' = TrueMaxTimestamp
  BY DEF Answers, indexVars
<1>2. TimestampsFit /\ ClustersFit /\ (stage = "index" => SummariesFit)
  BY DEF IndexInv, IsSummarized, Answers
<1>3. TimestampsFit' /\ ClustersFit' /\ (IsSummarized' => SummariesFit')
  BY <1>1, <1>2, SameIndex DEF Answers, IsSummarized
<1>4. AreDocuments'
  BY <1>1, SameDocuments DEF IndexInv
<1>5. answer' # NoAnswer' /\ stage' = "answered"
  BY DEF Answers, NoAnswer
<1> QED
  BY <1>1, <1>3, <1>4, <1>5 DEF IndexInv

LEMMA StepFits == IndexInv /\ [Next]_vars => IndexInv'
<1> SUFFICES ASSUME IndexInv, [Next]_vars PROVE IndexInv'
  OBVIOUS
<1>1. CASE Cluster
  BY <1>1, ClusterFits
<1>2. CASE Summarize
  BY <1>2, SummarizeFits
<1>3. CASE \E period \in Periods, language \in Clusterings, category \in QueryCategories :
              Threads(period, language, category)
  BY <1>3, QueriesAnswer, AnswersFit
<1>4. CASE \E window \in Windows : Top(window)
  BY <1>4, QueriesAnswer, AnswersFit
<1>5. CASE PrintThreads
  BY <1>5, QueriesAnswer, AnswersFit
<1>6. CASE UNCHANGED vars
  <2>1. UNCHANGED <<docs, indexVars>> /\ docs' = docs /\ MinClusterSize' = MinClusterSize
        /\ stage' = stage /\ answer' = answer /\ Clusters' = Clusters
        /\ IterTimestamp' = IterTimestamp /\ TrueMaxTimestamp' = TrueMaxTimestamp
    BY <1>6 DEF vars, indexVars
  <2>2. /\ TimestampsFit' <=> TimestampsFit
        /\ ClustersFit' <=> ClustersFit
        /\ SummariesFit' <=> SummariesFit
        /\ AreDocuments' <=> AreDocuments
    BY <2>1, SameIndex, SameDocuments
  <2>3. IsSummarized' <=> IsSummarized
    BY <2>1 DEF IsSummarized
  <2> QED
    BY <2>1, <2>2, <2>3 DEF IndexInv, NoAnswer
<1> QED
  BY <1>1, <1>2, <1>3, <1>4, <1>5, <1>6 DEF Next

LEMMA IndexInvHolds == Spec => []IndexInv
<1> QED
  BY InitFits, StepFits, PTL DEF Spec

-----------------------------------------------------------------------------
LEMMA TypeFits == IndexInv => TypeOK
<1> SUFFICES ASSUME IndexInv PROVE TypeOK
  OBVIOUS
<1>1. ASSUME IsSummarized, NEW l \in Clusterings
      PROVE  Clusters[l] \in Seq(IndexedCluster)
  <2> DEFINE cs == Clusters[l]
  <2>1. stage # "docs"
    BY <1>1 DEF IsSummarized
  <2>2. Partitions(cs, DocsOf(l)) /\ \A c \in ToSet(cs) : c \in IndexedCluster
    BY <1>1, <2>1 DEF IndexInv, ClustersFit, SummariesFit, IsSummary
  <2> HIDE DEF cs
  <2>3. Arranges(cs, ToSet(cs))
    BY <2>2 DEF Partitions
  <2>4. cs \in Seq(ToSet(cs)) /\ Len(cs) \in Nat
    BY <2>3, ArrangedParts DEF Arranges
  <2>5. cs \in [1 .. Len(cs) -> IndexedCluster]
    <3>1. cs \in [1 .. Len(cs) -> ToSet(cs)]
      BY <2>4, LenProperties
    <3> QED
      BY <2>2, <3>1
  <2>6. Seq(IndexedCluster) = UNION {[1 .. i -> IndexedCluster] : i \in Nat}
    BY SeqDef
  <2>7. cs \in Seq(IndexedCluster)
    BY <2>4, <2>5, <2>6
  <2> QED
    BY <2>7 DEF cs
<1> QED
  BY <1>1 DEF IndexInv, TypeOK, AreDocuments

\* The places a document has in the clusters of a language.
PlacesOf(i, l) == {p \in Places(l) : Clusters[l][p[1]].Documents[p[2]] = i}

LEMMA DocumentHasOnePlace ==
    ASSUME IndexInv, stage # "docs", NEW l \in Clusterings, NEW i \in DOMAIN docs
    PROVE  Cardinality(PlacesOf(i, l)) = IF docs[i].Language = l THEN 1 ELSE 0
<1> DEFINE cs == Clusters[l]
           D == DocsOf(l)
           n == Len(cs)
<1>1. Partitions(cs, D)
  BY DEF IndexInv, ClustersFit
<1>2. \A p : p \in PlacesOf(i, l) <=>
         \E k \in DOMAIN cs : \E m \in DOMAIN cs[k].Documents : p = <<k, m>> /\ cs[k].Documents[m] = i
  BY DEF PlacesOf, Places
<1>3. i \in D <=> docs[i].Language = l
  BY DEF DocsOf
<1> HIDE DEF cs, D
<1>4. Arranges(cs, ToSet(cs)) /\ Partition(ToSet(cs), D)
  BY <1>1 DEF Partitions
<1>5. n \in Nat /\ DOMAIN cs = 1 .. n /\ \A k \in 1 .. n : cs[k] \in ToSet(cs)
  BY <1>4, ArrangedParts
<1>6. \A j, k \in 1 .. n : cs[j] = cs[k] => j = k
  BY <1>4 DEF Arranges
<1>7. ASSUME NEW k \in 1 .. n
      PROVE  /\ \A m \in DOMAIN cs[k].Documents : cs[k].Documents[m] = i => i \in D
             /\ \A j, m \in DOMAIN cs[k].Documents :
                   cs[k].Documents[j] = cs[k].Documents[m] => j = m
             /\ HasDocument(cs[k], i) <=> \E m \in DOMAIN cs[k].Documents : cs[k].Documents[m] = i
  <2>1. IsClusterOf(cs[k], D)
    BY <1>4, <1>5 DEF Partition
  <2>2. PICK P \in SUBSET D : Arranges(cs[k].Documents, P)
    BY <2>1 DEF IsClusterOf
  <2>3. DOMAIN cs[k].Documents = 1 .. Len(cs[k].Documents)
        /\ \A m \in 1 .. Len(cs[k].Documents) : cs[k].Documents[m] \in P
    BY <2>2, ArrangedParts
  <2>4. \A j, m \in 1 .. Len(cs[k].Documents) : cs[k].Documents[j] = cs[k].Documents[m] => j = m
    BY <2>2 DEF Arranges
  <2>5. HasDocument(cs[k], i) <=> \E m \in DOMAIN cs[k].Documents : cs[k].Documents[m] = i
    BY DEF HasDocument, ToSet
  <2> QED
    BY <2>3, <2>4, <2>5
<1>8. CASE i \in D
  <2>1. PICK c \in ToSet(cs) : HasDocument(c, i)
    BY <1>4, <1>8 DEF Partition
  <2>2. PICK k \in 1 .. n : cs[k] = c
    BY <1>4 DEF Arranges
  <2>3. PICK m \in DOMAIN cs[k].Documents : cs[k].Documents[m] = i
    BY <1>7, <2>1, <2>2
  <2>4. ASSUME NEW j \in 1 .. n, NEW o \in DOMAIN cs[j].Documents, cs[j].Documents[o] = i
        PROVE  j = k /\ o = m
    <3>1. HasDocument(cs[j], i)
      BY <1>7, <2>4
    <3>2. cs[j] = cs[k]
      BY <1>4, <1>5, <1>8, <2>1, <2>2, <3>1 DEF Partition
    <3>3. j = k
      BY <1>6, <3>2
    <3> QED
      BY <1>7, <2>3, <2>4, <3>3
  <2>5. \A p : p \in PlacesOf(i, l) <=> p = <<k, m>>
    BY <1>2, <1>5, <2>3, <2>4
  <2>6. PlacesOf(i, l) = {<<k, m>>}
    BY <2>5
  <2> QED
    BY <1>3, <1>8, <2>6, FS_Singleton
<1>9. CASE i \notin D
  <2>1. PlacesOf(i, l) = {}
    BY <1>2, <1>5, <1>7, <1>9
  <2> QED
    BY <1>3, <1>9, <2>1, FS_EmptySet
<1> QED
  BY <1>8, <1>9

LEMMA CompleteFits == IndexInv => IndexIsComplete
<1> SUFFICES ASSUME IndexInv, stage # "docs" PROVE IndexIsComplete
  BY DEF IndexIsComplete
<1>1. TimestampsFit
  BY DEF IndexInv
<1>2. \A i \in DOMAIN docs, language \in Clusterings :
         Cardinality({p \in Places(language) : Clusters[language][p[1]].Documents[p[2]] = i})
           = IF docs[i].Language = language THEN 1 ELSE 0
  BY DocumentHasOnePlace DEF PlacesOf
<1> QED
  BY <1>1, <1>2 DEF IndexIsComplete, TimestampsFit

LEMMA SummarizedFit ==
    ASSUME IndexInv, NEW c \in SummarizedClusters
    PROVE  IsSummary(c)
<1>1. IsSummarized /\ c \in ClustersOfLanguages(Clusterings)
  BY DEF SummarizedClusters
<1>2. PICK l \in Clusterings : c \in ToSet(Clusters[l])
  BY <1>1 DEF ClustersOfLanguages
<1> QED
  BY <1>1, <1>2 DEF IndexInv, SummariesFit

\* The types of the index; above all, that a cluster that can be ranked has a
\* category a document was given, whatever the documents voted for.
THEOREM TypeCorrect == Spec => []TypeOK
<1> QED
  BY IndexInvHolds, TypeFits, PTL

\* Clustering loses, repeats and mixes up no document, for any partition of the
\* documents, and the two timestamps of the index are what a query takes them for.
THEOREM IndexCompletes == Spec => []IndexIsComplete
<1> QED
  BY IndexInvHolds, CompleteFits, PTL

\* The comparator of SortByWeights is no strict weak order; what a cluster's
\* documents are sorted by nevertheless.
THEOREM OrdersFollow == Spec => []OrdersFollowWeights
<1>1. IndexInv => OrdersFollowWeights
  BY SummarizedFit DEF OrdersFollowWeights, IsSummary
<1> QED
  BY <1>1, IndexInvHolds, PTL

\* The loop over the slices of a cluster, sorted by time, computes the sum of
\* its best slice.
THEOREM ImportancesAreExact == Spec => []ImportancesAreBestSlices
<1>1. IndexInv => ImportancesAreBestSlices
  BY SummarizedFit DEF ImportancesAreBestSlices, IsSummary
<1> QED
  BY <1>1, IndexInvHolds, PTL
-----------------------------------------------------------------------------
(***************************************************************************)
(* The answers.  First the search for the place where a period begins.     *)
(***************************************************************************)
\* The first place that does not belong to a front part of 1 .. n.
IsBound(b, early, n) == b \in 1 .. n + 1 /\ \A k \in 1 .. n : k \in early <=> k < b

\* The ranges a search of n elements comes to.
SearchRanges(n) == {r \in (1 .. n + 1) \X (0 .. n) : r[1] + r[2] <= n + 1}

LEMMA HalfOf ==
    ASSUME NEW m \in Nat, m # 0
    PROVE  m \div 2 \in Nat /\ m \div 2 < m
OBVIOUS

\* What is left of a range of m elements at i on either side of its middle.
LEMMA HalvesInRange ==
    ASSUME NEW n \in Nat, NEW i \in Nat, NEW m \in Nat, NEW h \in Nat,
           1 <= i, i <= n + 1, m <= n, i + m <= n + 1, h < m
    PROVE  /\ i + h + 1 \in 1 .. n + 1 /\ m - h - 1 \in 0 .. n
           /\ i + h + 1 + (m - h - 1) <= n + 1
           /\ i \in 1 .. n + 1 /\ h \in 0 .. n /\ i + h <= n + 1
           /\ i + h \in 1 .. n /\ (i + h + 1) - 1 = i + h
           /\ i + h + 1 + (m - h - 1) = i + m
           /\ m - h - 1 < m /\ m - h - 1 \in Nat
OBVIOUS

LEMMA LowerBoundFits ==
    ASSUME NEW cs, Len(cs) \in Nat, \A k \in 1 .. Len(cs) : cs[k].FreshestTimestamp \in Int,
           InOrder(cs), NEW t, t \in Int
    PROVE  IsBound(LowerBound(cs, t), {k \in 1 .. Len(cs) : cs[k].FreshestTimestamp < t}, Len(cs))
<1> DEFINE n == Len(cs)
           early == {k \in 1 .. n : cs[k].FreshestTimestamp < t}
           R == SearchRanges(n)
           V == 1 .. n + 1
           half(p) == p[2] \div 2
           above(p) == <<p[1] + half(p) + 1, p[2] - half(p) - 1>>
           below(p) == <<p[1], half(p)>>
           G(p, g) == IF p[2] = 0 THEN p[1]
                      ELSE IF cs[p[1] + half(p)].FreshestTimestamp < t THEN g[above(p)]
                      ELSE g[below(p)]
           from == CHOOSE f : f = [p \in R |-> G(p, f)]
           measure == [p \in R |-> p[2]]
<1>1. LowerBound(cs, t) = from[<<1, n>>]
  BY DEF LowerBound, SearchRanges, Compare
<1>2. \A p \in R : /\ p[1] \in Nat /\ 1 <= p[1] /\ p[1] <= n + 1
                   /\ p[2] \in Nat /\ p[2] <= n /\ p[1] + p[2] <= n + 1
  BY DEF SearchRanges
<1>3. \A i \in 1 .. n + 1, j \in 0 .. n : i + j <= n + 1 =>
         <<i, j>> \in R /\ <<i, j>>[1] = i /\ <<i, j>>[2] = j
  BY DEF SearchRanges
<1>4. measure \in [R -> 0 .. n] /\ \A p \in R : measure[p] = p[2]
  BY <1>2
<1>5. \A k \in 1 .. n : k \in early <=> cs[k].FreshestTimestamp < t
  OBVIOUS
<1>6. \A j, k \in 1 .. n : j <= k /\ k \in early => j \in early
  <2>1. \A j, k \in 1 .. n : j <= k => cs[j].FreshestTimestamp <= cs[k].FreshestTimestamp
    BY DEF InOrder
  <2> QED
    BY <1>5, <2>1
<1> HIDE DEF early, R, measure
<1>7. ASSUME NEW p \in R, p[2] # 0
      PROVE  /\ half(p) \in Nat /\ half(p) < p[2] /\ p[1] + half(p) \in 1 .. n
             /\ above(p) \in R /\ above(p)[1] = p[1] + half(p) + 1
             /\ above(p)[2] < p[2] /\ above(p)[2] \in Nat
             /\ above(p)[1] - 1 = p[1] + half(p) /\ above(p)[1] + above(p)[2] = p[1] + p[2]
             /\ below(p) \in R /\ below(p)[1] = p[1] /\ below(p)[2] = half(p)
  <2>1. half(p) \in Nat /\ half(p) < p[2]
    BY <1>2, <1>7, HalfOf
  <2> HIDE DEF half
  <2>2. /\ p[1] + half(p) + 1 \in 1 .. n + 1 /\ p[2] - half(p) - 1 \in 0 .. n
        /\ p[1] + half(p) + 1 + (p[2] - half(p) - 1) <= n + 1
        /\ p[1] \in 1 .. n + 1 /\ half(p) \in 0 .. n /\ p[1] + half(p) <= n + 1
        /\ p[1] + half(p) \in 1 .. n /\ (p[1] + half(p) + 1) - 1 = p[1] + half(p)
        /\ p[1] + half(p) + 1 + (p[2] - half(p) - 1) = p[1] + p[2]
        /\ p[2] - half(p) - 1 < p[2] /\ p[2] - half(p) - 1 \in Nat
    BY <1>2, <2>1, HalvesInRange
  <2> QED
    BY <1>2, <1>3, <2>1, <2>2
<1> HIDE DEF half, above, below
<1>8. \E f : f = [p \in R |-> G(p, f)]
  <2> DEFINE F == [q \in R \X [R -> V] |-> G(q[1], q[2])]
  <2>1. ASSUME NEW p \in R, NEW g \in [R -> V]
        PROVE  G(p, g) \in V
    <3>1. CASE p[2] = 0
      BY <1>2, <3>1
    <3>2. CASE p[2] # 0
      BY <1>7, <3>2
    <3> QED
      BY <3>1, <3>2
  <2>2. F \in [R \X [R -> V] -> V]
    <3> HIDE DEF V, G
    <3> QED
      BY <2>1
  <2>3. \A p \in R, g \in [R -> V] : F[<<p, g>>] = G(p, g)
    <3> HIDE DEF G, V
    <3> QED
      OBVIOUS
  <2>4. 1 \in V
    OBVIOUS
  <2> HIDE DEF F, V
  <2>5. ASSUME NEW p \in R, NEW g \in [R -> V], NEW h \in [R -> V],
               \A q \in R : measure[q] < measure[p] => g[q] = h[q]
        PROVE  F[<<p, g>>] = F[<<p, h>>]
    <3>1. ASSUME p[2] # 0
          PROVE  g[above(p)] = h[above(p)] /\ g[below(p)] = h[below(p)]
      <4>1. measure[above(p)] < measure[p] /\ measure[below(p)] < measure[p]
        BY <1>4, <1>7, <3>1
      <4> QED
        BY <1>7, <2>5, <3>1, <4>1
    <3> QED
      BY <2>3, <3>1
  <2>6. RecursTo(R, V, measure, F)
    BY <2>5 DEF RecursTo
  <2>7. PICK f : Solves(f, R, V, F)
    BY <1>4, <2>2, <2>4, <2>6, RecursiveFunctionExists
  <2>8. f \in [R -> V] /\ \A p \in R : f[p] = G(p, f)
    <3> HIDE DEF G
    <3> QED
      BY <2>3, <2>7 DEF Solves
  <2>9. f = [p \in R |-> G(p, f)]
    <3> HIDE DEF G
    <3> QED
      BY <2>8
  <2> QED
    BY <2>9
<1>9. from = [p \in R |-> G(p, from)]
  BY <1>8
<1>10. \A p \in R : from[p] = G(p, from)
  <2> HIDE DEF from, G
  <2> QED
    BY <1>9
<1> HIDE DEF from
<1> DEFINE surrounds(p) == /\ \A k \in 1 .. p[1] - 1 : k \in early
                           /\ \A k \in p[1] + p[2] .. n : k \notin early
           Q == {p \in R : surrounds(p) => IsBound(from[p], early, n)}
<1>11. ASSUME NEW p \in R, \A q \in R : measure[q] < measure[p] => q \in Q
       PROVE  p \in Q
  <2> SUFFICES ASSUME surrounds(p)
               PROVE  IsBound(from[p], early, n)
    OBVIOUS
  <2>1. CASE p[2] = 0
    <3>1. from[p] = p[1]
      BY <1>10, <2>1
    <3> QED
      BY <1>2, <2>1, <3>1 DEF IsBound
  <2>2. CASE p[2] # 0 /\ cs[p[1] + half(p)].FreshestTimestamp < t
    <3>1. from[p] = from[above(p)]
      BY <1>10, <2>2
    <3>2. surrounds(above(p))
      <4>1. p[1] + half(p) \in early
        BY <1>5, <1>7, <2>2
      <4>2. \A x \in 1 .. n : x \in early => \A k \in 1 .. x : k \in early
        BY <1>6
      <4>3. \A k \in 1 .. p[1] + half(p) : k \in early
        BY <1>7, <2>2, <4>1, <4>2
      <4> QED
        BY <1>7, <2>2, <4>3
    <3>3. above(p) \in R /\ measure[above(p)] < measure[p]
      BY <1>4, <1>7, <2>2
    <3>4. above(p) \in Q
      BY <1>11, <3>3
    <3> QED
      BY <3>1, <3>2, <3>4
  <2>3. CASE p[2] # 0 /\ ~(cs[p[1] + half(p)].FreshestTimestamp < t)
    <3>1. from[p] = from[below(p)]
      BY <1>10, <2>3
    <3>2. surrounds(below(p))
      <4>1. p[1] + half(p) \notin early
        BY <1>5, <1>7, <2>3
      <4>2. \A k \in p[1] + half(p) .. n : k \notin early
        BY <1>2, <1>6, <1>7, <2>3, <4>1
      <4> QED
        BY <1>7, <2>3, <4>2
    <3>3. below(p) \in R /\ measure[below(p)] < measure[p]
      BY <1>4, <1>7, <2>3
    <3>4. below(p) \in Q
      BY <1>11, <3>3
    <3> QED
      BY <3>1, <3>2, <3>4
  <2> QED
    BY <2>1, <2>2, <2>3
<1>12. \A p \in R : p \in Q
  <2> HIDE DEF Q
  <2>1. measure \in [R -> Nat]
    BY <1>4
  <2> QED
    BY <1>11, <2>1, MeasureInduction
<1>13. <<1, n>> \in R /\ <<1, n>>[1] = 1 /\ <<1, n>>[2] = n
  BY <1>3
<1>14. surrounds(<<1, n>>)
  BY <1>13
<1> QED
  BY <1>1, <1>12, <1>13, <1>14 DEF early

-----------------------------------------------------------------------------
(***************************************************************************)
(* Ranking puts the clusters in the order of their merit.                  *)
(***************************************************************************)
HasMerit(w) == ClusterSize(w) \in Nat /\ w.Weight \in Nat

LEMMA MeritRanks ==
    ASSUME MinClusterSize \in Nat, NEW a, HasMerit(a), NEW b, HasMerit(b)
    PROVE  RanksHigher(a, b) <=> ~NoMoreMerit(a, b)
<1> DEFINE m == ClusterSize(a)
           n == ClusterSize(b)
           min == MinClusterSize
           least(x) == IF x < min THEN x ELSE min
<1>1. m \in Nat /\ n \in Nat /\ min \in Nat /\ a.Weight \in Nat /\ b.Weight \in Nat
  BY DEF HasMerit
<1>2. /\ Merit(a).size = least(m) /\ Merit(b).size = least(n)
      /\ Merit(a).weight = a.Weight /\ Merit(b).weight = b.Weight
  BY DEF Merit
<1>3. RanksHigher(a, b) <=> IF m # n /\ (m < min \/ n < min) THEN m > n ELSE a.Weight > b.Weight
  BY DEF RanksHigher
<1>4. NoMoreMerit(a, b) <=> \/ least(m) < least(n)
                            \/ least(m) = least(n) /\ a.Weight <= b.Weight
  BY <1>2 DEF NoMoreMerit
<1> HIDE DEF m, n, min
<1>5. CASE m # n /\ (m < min \/ n < min)
  BY <1>1, <1>3, <1>4, <1>5
<1>6. CASE ~(m # n /\ (m < min \/ n < min))
  BY <1>1, <1>3, <1>4, <1>6
<1> QED
  BY <1>5, <1>6

LEMMA MeritOrders ==
    ASSUME MinClusterSize \in Nat, NEW a, HasMerit(a), NEW b, HasMerit(b), NEW c, HasMerit(c)
    PROVE  /\ NoMoreMerit(a, b) \/ NoMoreMerit(b, a)
           /\ NoMoreMerit(a, b) /\ NoMoreMerit(b, c) => NoMoreMerit(a, c)
<1>1. \A w : HasMerit(w) => Merit(w).size \in Nat /\ Merit(w).weight \in Nat
  BY DEF HasMerit, Merit
<1> QED
  BY <1>1 DEF NoMoreMerit

HigherRanked(weighted) ==
    {p \in (DOMAIN weighted) \X (DOMAIN weighted) : RanksHigher(weighted[p[1]], weighted[p[2]])}

ByMerit(r) == \A j, k \in 1 .. Len(r) : j <= k => NoMoreMerit(r[k], r[j])

LEMMA RankedByMerit ==
    ASSUME MinClusterSize \in Nat, NEW weighted, NEW W, Arranges(weighted, W),
           \A w \in W : HasMerit(w)
    PROVE  /\ Arranges(StableSort(weighted, RanksHigher), W)
           /\ ByMerit(StableSort(weighted, RanksHigher))
<1> DEFINE before == HigherRanked(weighted)
           n == Len(weighted)
           r == Sorted(weighted, before)
<1>1. StableSort(weighted, RanksHigher) = r
  BY DEF StableSort, Sorted, HigherRanked
<1>2. n \in Nat /\ DOMAIN weighted = 1 .. n /\ \A k \in 1 .. n : HasMerit(weighted[k])
  BY ArrangedParts
<1>3. \A x, y : <<x, y>> \in before <=>
         x \in 1 .. n /\ y \in 1 .. n /\ ~NoMoreMerit(weighted[x], weighted[y])
  <2>1. \A x, y : <<x, y>> \in before <=>
           x \in 1 .. n /\ y \in 1 .. n /\ RanksHigher(weighted[x], weighted[y])
    BY <1>2 DEF HigherRanked
  <2> HIDE DEF before
  <2> QED
    BY <1>2, <2>1, MeritRanks
<1> HIDE DEF before, n
<1>4. Asymmetric(before)
  BY <1>2, <1>3, MeritOrders DEF Asymmetric
<1>5. WeaklyOrders(before, 1 .. n)
  <2> SUFFICES ASSUME NEW x \in 1 .. n, NEW y \in 1 .. n, NEW z \in 1 .. n,
                      <<y, x>> \notin before, <<z, y>> \notin before
               PROVE  <<z, x>> \notin before
    BY DEF WeaklyOrders
  <2> QED
    BY <1>2, <1>3, MeritOrders
<1>6. Arranges(r, W) /\ Len(r) = n
  BY <1>4, SortedArranges DEF n
<1>7. ASSUME NEW j \in 1 .. n, NEW k \in 1 .. n, j <= k
      PROVE  NoMoreMerit(r[k], r[j])
  <2>1. PICK x \in 1 .. n, y \in 1 .. n : r[j] = weighted[x] /\ r[k] = weighted[y]
                                          /\ <<y, x>> \notin before
    BY <1>4, <1>5, <1>7, SortedAll DEF n
  <2> QED
    BY <1>3, <2>1
<1>8. ByMerit(r)
  <2> HIDE DEF r
  <2> QED
    BY <1>6, <1>7 DEF ByMerit
<1> QED
  BY <1>1, <1>6, <1>8

\* What a rubric shows of what is weighed.
InRubric(w, category) == category \in {w.Cluster.Category, "NC_ANY"}

Rubric(W, category) == {w \in W : InRubric(w, category)}

LEMMA RankFits ==
    ASSUME MinClusterSize \in Nat, NEW weighted, NEW W, Arranges(weighted, W),
           \A w \in W : HasMerit(w), NEW category, category \in Categories
    PROVE  /\ Arranges(Rank(weighted)[category], Rubric(W, category))
           /\ ByMerit(Rank(weighted)[category])
<1> DEFINE r == StableSort(weighted, RanksHigher)
           Q == {k \in DOMAIN r : InRubric(r[k], category)}
           a == Ascending(Q)
           s == Picked(r, a)
<1>1. Rank(weighted)[category] = s
  BY DEF Rank, Selected, InRubric
<1>2. Arranges(r, W) /\ ByMerit(r)
  BY RankedByMerit
<1> HIDE DEF r
<1>3. Len(r) \in Nat /\ DOMAIN r = 1 .. Len(r) /\ \A k \in 1 .. Len(r) : r[k] \in W
  BY <1>2, ArrangedParts
<1>4. \A k : k \in Q <=> k \in 1 .. Len(r) /\ InRubric(r[k], category)
  BY <1>3
<1> HIDE DEF Q
<1>5. Q \in SUBSET (1 .. Len(r))
  BY <1>4
<1>6. Arranges(a, Q) /\ \A j, k \in 1 .. Len(a) : j < k => a[j] < a[k]
  BY <1>3, <1>5, AscendingArranges
<1> HIDE DEF a
<1>7. Arranges(s, Image(r, Q)) /\ Len(s) = Len(a)
  BY <1>2, <1>5, <1>6, PickedArranges
<1>8. Image(r, Q) = Rubric(W, category)
  <2>1. \A w : w \in W <=> \E k \in 1 .. Len(r) : w = r[k]
    BY <1>2, <1>3 DEF Arranges
  <2> QED
    BY <1>4, <2>1 DEF Image, Rubric
<1>9. \A k \in 1 .. Len(a) : a[k] \in 1 .. Len(r) /\ s[k] = r[a[k]]
  BY <1>5, <1>6, PickedParts
<1> HIDE DEF s
<1>10. Len(a) \in Nat
  BY <1>6, ArrangedParts
<1>11. ASSUME NEW j \in 1 .. Len(s), NEW k \in 1 .. Len(s), j <= k
       PROVE  NoMoreMerit(s[k], s[j])
  <2>1. j < k => a[j] < a[k]
    BY <1>6, <1>7
  <2>2. j < k \/ j = k
    BY <1>7, <1>10, <1>11
  <2>3. a[j] \in 1 .. Len(r) /\ a[k] \in 1 .. Len(r) /\ s[j] = r[a[j]] /\ s[k] = r[a[k]]
    BY <1>7, <1>9
  <2>4. a[j] <= a[k]
    BY <1>3, <2>1, <2>2, <2>3
  <2> QED
    BY <1>2, <2>3, <2>4 DEF ByMerit
<1> QED
  BY <1>1, <1>7, <1>8, <1>11 DEF ByMerit

\* An answer shows the best of what its rubric has, up to a limit.
ShowsBest(shown, R, limit) ==
    \E r : /\ Arranges(r, R) /\ ByMerit(r)
           /\ Len(shown) = (IF Len(r) < limit THEN Len(r) ELSE limit)
           /\ DOMAIN shown = 1 .. Len(shown)
           /\ \A k \in 1 .. Len(shown) : shown[k] = r[k]

LEMMA LimitedRankFits ==
    ASSUME MinClusterSize \in Nat, NEW weighted, NEW W, Arranges(weighted, W),
           \A w \in W : HasMerit(w), NEW category, category \in Categories
    PROVE  ShowsBest(LimitedRank(weighted, category), Rubric(W, category), Limit)
<1> DEFINE r == Rank(weighted)[category]
           m == IF Len(r) < Limit THEN Len(r) ELSE Limit
           t == SubSeq(r, 1, m)
<1>1. LimitedRank(weighted, category) = t
  BY DEF LimitedRank
<1>2. Arranges(r, Rubric(W, category)) /\ ByMerit(r)
  BY RankFits
<1> HIDE DEF r
<1>3. Limit \in Nat
  BY NewsIndexAssumption
<1>4. Len(r) \in Nat
  BY <1>2, ArrangedParts
<1>5. m \in 0 .. Len(r)
  BY <1>3, <1>4
<1> HIDE DEF m
<1>6. Respects(r, {})
  BY DEF Respects
<1>7. 1 <= m + 1 /\ m \in Nat /\ 1 \in Nat /\ m <= Len(r)
  BY <1>4, <1>5
<1>8. /\ Arranges(t, {r[k] : k \in 1 .. m}) /\ Len(t) = m - 1 + 1
      /\ \A k \in 1 .. m - 1 + 1 : t[k] = r[1 + k - 1]
  BY <1>2, <1>6, <1>7, SubSeqArranges
<1> HIDE DEF t
<1>9. Len(t) = m /\ \A k \in 1 .. m : t[k] = r[k]
  BY <1>7, <1>8
<1>10. DOMAIN t = 1 .. Len(t)
  BY <1>8, ArrangedParts
<1> QED
  BY <1>1, <1>2, <1>9, <1>10 DEF ShowsBest, m

LEMMA RankShowsBest ==
    ASSUME MinClusterSize \in Nat, NEW weighted, NEW W, Arranges(weighted, W),
           \A w \in W : HasMerit(w), NEW category, category \in Categories
    PROVE  LET R == Rubric(W, category)
           IN  ShowsBest(Rank(weighted)[category], R, Cardinality(R))
<1> DEFINE r == Rank(weighted)[category]
           R == Rubric(W, category)
<1>1. Arranges(r, R) /\ ByMerit(r)
  BY RankFits
<1> HIDE DEF r, R
<1>2. Len(r) \in Nat /\ DOMAIN r = 1 .. Len(r)
  BY <1>1, ArrangedParts
<1>3. Cardinality(R) = Len(r)
  BY <1>1, ArrangedLength
<1>4. ShowsBest(r, R, Cardinality(R))
  BY <1>1, <1>2, <1>3 DEF ShowsBest
<1> QED
  BY <1>4 DEF r, R

-----------------------------------------------------------------------------
(***************************************************************************)
(* What is weighed, and what is shown of it.                               *)
(***************************************************************************)
Penalized(age) == IF age = {} THEN One ELSE Sigmoid(CHOOSE a \in age : TRUE, 8)

Weighed(c, window) ==
    LET age == Age(c.BestTimestamp, IterTimestamp, window)
    IN  [Cluster |-> c, Age |-> age, Weight |-> c.Importance * Penalized(age)]

WeighedAll(C, window) == {Weighed(c, window) : c \in C}

LEMMA Int32Type ==
    ASSUME NEW n \in Int
    PROVE  ToInt32(n) \in -Half .. Half - 1
<1>1. Half \in Nat \ {0}
  BY NewsIndexAssumption
<1> DEFINE m == 2 * Half
           r == (n + Half) % m
<1>2. m \in Nat \ {0} /\ n + Half \in Int
  BY <1>1
<1> HIDE DEF m
<1>3. r \in 0 .. m - 1
  BY <1>2
<1> HIDE DEF r
<1>4. r - Half \in -Half .. Half - 1
  BY <1>1, <1>3 DEF m
<1> QED
  BY <1>4 DEF ToInt32, r, m

LEMMA WeightIsNat ==
    ASSUME NEW c, c \in IndexedCluster, NEW window, window \in Int, IterTimestamp \in Int
    PROVE  Weighed(c, window).Weight \in Nat /\ Weighed(c, window).Cluster = c
<1> DEFINE age == Age(c.BestTimestamp, IterTimestamp, window)
<1>1. c.BestTimestamp \in Int /\ c.Importance \in Nat
  BY HalfIsNat DEF IndexedCluster
<1>2. One \in Nat /\ \A t \in -Half .. Half - 1 : Sigmoid(t, 8) \in Nat
  BY NewsClusterAssumption, NewsIndexAssumption
<1>3. \A n \in Int : ToInt32(n) \in Int
  BY HalfIsNat, Int32Type
<1> DEFINE x == ToInt32(c.BestTimestamp)
           y == ToInt32(window)
           z == ToInt32(x + y)
           i == ToInt32(IterTimestamp)
<1>4. x \in Int /\ y \in Int /\ i \in Int
  BY <1>1, <1>3
<1>5. z \in Int
  <2> HIDE DEF x, y
  <2> QED
    BY <1>3, <1>4
<1>6. ToInt32(z - i) \in -Half .. Half - 1
  <2> HIDE DEF z, i
  <2> QED
    BY <1>4, <1>5, Int32Type
<1>7. age = {} \/ age = {ToInt32(z - i)}
  BY DEF Age
<1>8. Penalized(age) \in Nat
  <2> HIDE DEF age, z, i
  <2>1. age # {} => (CHOOSE a \in age : TRUE) = ToInt32(z - i)
    BY <1>7
  <2> QED
    BY <1>2, <1>6, <1>7, <2>1 DEF Penalized
<1>9. Weighed(c, window).Weight = c.Importance * Penalized(age) /\ Weighed(c, window).Cluster = c
  BY DEF Weighed
<1> HIDE DEF age
<1> QED
  BY <1>1, <1>8, <1>9, ProductType

LEMMA WeighedHaveMerit ==
    ASSUME NEW C, \A c \in C : c \in IndexedCluster, NEW window, window \in Int,
           IterTimestamp \in Int
    PROVE  \A w \in WeighedAll(C, window) : HasMerit(w)
<1> SUFFICES ASSUME NEW c \in C
             PROVE  HasMerit(Weighed(c, window))
  BY DEF WeighedAll
<1>1. Weighed(c, window).Weight \in Nat /\ Weighed(c, window).Cluster = c
  BY WeightIsNat
<1>2. Len(c.Documents) \in Nat
  <2>1. c.Documents \in Seq(1 .. MaxDocs)
    BY DEF IndexedCluster
  <2> QED
    BY <2>1
<1> QED
  BY <1>1, <1>2 DEF HasMerit, ClusterSize

LEMMA WeightedArranges ==
    ASSUME NEW cs, NEW C, Arranges(cs, C), NEW window
    PROVE  Arranges(Weighted(cs, window), WeighedAll(C, window))
<1> DEFINE n == Len(cs)
           s == Weighted(cs, window)
<1>1. n \in Nat /\ DOMAIN cs = 1 .. n /\ \A k \in 1 .. n : cs[k] \in C
  BY ArrangedParts
<1>2. s = [k \in 1 .. n |-> Weighed(cs[k], window)]
  BY <1>1 DEF Weighted, Weighed, Penalized
<1> HIDE DEF s
<1>3. \A k \in 1 .. n : s[k] = Weighed(cs[k], window) /\ s[k] \in WeighedAll(C, window)
  BY <1>1, <1>2 DEF WeighedAll
<1>4. s \in [1 .. n -> WeighedAll(C, window)] /\ DOMAIN s = 1 .. n
  <2> DEFINE W == WeighedAll(C, window)
  <2>1. \A k \in 1 .. n : s[k] \in W
    BY <1>3
  <2> HIDE DEF W
  <2>2. s = [k \in 1 .. n |-> s[k]]
    BY <1>2
  <2>3. s \in [1 .. n -> W]
    BY <2>1, <2>2
  <2> QED
    BY <2>3 DEF W
<1>5. s \in Seq(WeighedAll(C, window)) /\ Len(s) = n
  <2> DEFINE W == WeighedAll(C, window)
  <2>1. Seq(W) = UNION {[1 .. i -> W] : i \in Nat}
    BY SeqDef
  <2>2. s \in [1 .. n -> W]
    BY <1>4
  <2> HIDE DEF W
  <2>3. s \in Seq(W)
    BY <1>1, <2>1, <2>2
  <2>4. Len(s) = n
    BY <1>1, <1>4, <2>3, LenProperties
  <2> QED
    BY <2>3, <2>4 DEF W
<1>6. \A c : Weighed(c, window).Cluster = c
  BY DEF Weighed
<1>7. \A j, k \in 1 .. n : s[j] = s[k] => j = k
  <2>1. \A j, k \in 1 .. n : cs[j] = cs[k] => j = k
    BY DEF Arranges
  <2>2. \A k \in 1 .. n : s[k].Cluster = cs[k]
    BY <1>3, <1>6
  <2> QED
    BY <2>1, <2>2
<1>8. ASSUME NEW w \in WeighedAll(C, window)
      PROVE  \E k \in 1 .. n : s[k] = w
  <2>1. PICK c \in C : w = Weighed(c, window)
    BY DEF WeighedAll
  <2>2. PICK k \in 1 .. n : cs[k] = c
    BY DEF Arranges
  <2> QED
    BY <1>3, <2>1, <2>2
<1>9. Arranges(s, WeighedAll(C, window))
  BY <1>5, <1>7, <1>8 DEF Arranges
<1> QED
  BY <1>9 DEF s

\* What an answer about some clusters shows in a rubric.
DueIn(C, category) == {c \in C : category \in {c.Category, "NC_ANY"}}

LEMMA ShownIsExact ==
    ASSUME NEW C, NEW window, NEW category, NEW shown, NEW limit, limit \in Nat,
           ShowsBest(shown, Rubric(WeighedAll(C, window), category), limit)
    PROVE  LET due == DueIn(C, category)
           IN  /\ {shown[k].Cluster : k \in DOMAIN shown} \subseteq due
               /\ \A j, k \in DOMAIN shown : j # k => shown[j].Cluster # shown[k].Cluster
               /\ Len(shown) = IF Cardinality(due) > limit THEN limit ELSE Cardinality(due)
               /\ Cardinality(due) \in Nat
               /\ Cardinality(due) = Cardinality(Rubric(WeighedAll(C, window), category))
<1> DEFINE R == Rubric(WeighedAll(C, window), category)
           due == DueIn(C, category)
<1>1. \A w \in R : w.Cluster \in due /\ w = Weighed(w.Cluster, window)
  BY DEF Rubric, InRubric, WeighedAll, Weighed, DueIn
<1>2. \A c \in due : Weighed(c, window) \in R /\ Weighed(c, window).Cluster = c
  BY DEF Rubric, InRubric, WeighedAll, Weighed, DueIn
<1> HIDE DEF R, due
<1>3. PICK r : /\ Arranges(r, R)
               /\ Len(shown) = (IF Len(r) < limit THEN Len(r) ELSE limit)
               /\ DOMAIN shown = 1 .. Len(shown)
               /\ \A k \in 1 .. Len(shown) : shown[k] = r[k]
  BY DEF ShowsBest, R
<1>4. Len(r) \in Nat /\ \A k \in 1 .. Len(r) : r[k] \in R
  BY <1>3, ArrangedParts
<1>5. \A j, k \in 1 .. Len(r) : r[j] = r[k] => j = k
  BY <1>3 DEF Arranges
<1>6. \A j, k \in 1 .. Len(r) : r[j].Cluster = r[k].Cluster => j = k
  BY <1>1, <1>4, <1>5
<1>7. 1 .. Len(shown) \subseteq 1 .. Len(r)
  BY <1>3, <1>4
<1>8. {shown[k].Cluster : k \in DOMAIN shown} \subseteq due
  BY <1>1, <1>3, <1>4, <1>7
<1>9. \A j, k \in DOMAIN shown : j # k => shown[j].Cluster # shown[k].Cluster
  BY <1>3, <1>6, <1>7
<1>10. Cardinality(due) = Len(r)
  <2> DEFINE n == Len(r)
             s == [k \in 1 .. n |-> r[k].Cluster]
  <2>1. \A k \in 1 .. n : s[k] = r[k].Cluster /\ s[k] \in due
    BY <1>1, <1>4
  <2>2. s \in [1 .. n -> due] /\ DOMAIN s = 1 .. n
    BY <2>1
  <2> HIDE DEF s, n
  <2>3. Seq(due) = UNION {[1 .. i -> due] : i \in Nat}
    BY SeqDef
  <2>4. n \in Nat
    BY <1>4 DEF n
  <2>5. s \in Seq(due)
    BY <2>2, <2>3, <2>4
  <2>6. Len(s) = n
    BY <2>2, <2>4, <2>5, LenProperties
  <2>7. \A j, k \in 1 .. n : s[j] = s[k] => j = k
    BY <1>6, <2>1 DEF n
  <2>8. ASSUME NEW c \in due
        PROVE  \E k \in 1 .. n : s[k] = c
    <3>1. PICK k \in 1 .. n : r[k] = Weighed(c, window)
      BY <1>2, <1>3 DEF Arranges, n
    <3> QED
      BY <1>2, <2>1, <3>1
  <2>9. Arranges(s, due)
    BY <2>5, <2>6, <2>7, <2>8 DEF Arranges
  <2> QED
    BY <2>6, <2>9, ArrangedLength DEF n
<1>11. Cardinality(R) = Len(r)
  BY <1>3, ArrangedLength
<1>12. Len(shown) = IF Cardinality(due) > limit THEN limit ELSE Cardinality(due)
  BY <1>3, <1>4, <1>10
<1> QED
  BY <1>4, <1>8, <1>9, <1>10, <1>11, <1>12 DEF due, R

LEMMA ShownByMerit ==
    ASSUME NEW R, NEW shown, NEW limit, limit \in Nat, ShowsBest(shown, R, limit)
    PROVE  \A k \in DOMAIN shown :
              /\ \A j \in 1 .. k : NoMoreMerit(shown[k], shown[j])
              /\ \A w \in R : (\A j \in DOMAIN shown : shown[j] # w) => NoMoreMerit(w, shown[k])
<1>1. PICK r : /\ Arranges(r, R) /\ ByMerit(r)
               /\ Len(shown) = (IF Len(r) < limit THEN Len(r) ELSE limit)
               /\ DOMAIN shown = 1 .. Len(shown)
               /\ \A k \in 1 .. Len(shown) : shown[k] = r[k]
  BY DEF ShowsBest
<1>2. Len(r) \in Nat
  BY <1>1, ArrangedParts
<1>3. Len(shown) \in Nat /\ Len(shown) <= Len(r)
  BY <1>1, <1>2
<1> SUFFICES ASSUME NEW k \in 1 .. Len(shown)
             PROVE  /\ \A j \in 1 .. k : NoMoreMerit(shown[k], shown[j])
                    /\ \A w \in R : (\A j \in 1 .. Len(shown) : shown[j] # w)
                                      => NoMoreMerit(w, shown[k])
  BY <1>1
<1>4. k \in 1 .. Len(r) /\ shown[k] = r[k]
  BY <1>1, <1>2, <1>3
<1>5. ASSUME NEW j \in 1 .. k
      PROVE  NoMoreMerit(shown[k], shown[j])
  <2>1. j \in 1 .. Len(r) /\ j \in 1 .. Len(shown) /\ j <= k
    BY <1>2, <1>3
  <2> QED
    BY <1>1, <1>4, <2>1 DEF ByMerit
<1>6. ASSUME NEW w \in R, \A j \in 1 .. Len(shown) : shown[j] # w
      PROVE  NoMoreMerit(w, shown[k])
  <2>1. PICK l \in 1 .. Len(r) : r[l] = w
    BY <1>1 DEF Arranges
  <2>2. l \notin 1 .. Len(shown)
    BY <1>1, <1>6, <2>1
  <2>3. k <= l
    BY <1>2, <1>3, <2>2
  <2> QED
    BY <1>1, <1>4, <2>1, <2>3 DEF ByMerit
<1> QED
  BY <1>5, <1>6

-----------------------------------------------------------------------------
(***************************************************************************)
(* Which clusters a query is about.                                        *)
(***************************************************************************)
ClustersIn(language) == IF language \in Clusterings THEN ToSet(Clusters[language]) ELSE {}

LEMMA LanguagesClusters ==
    ASSUME NEW languages
    PROVE  \A c : c \in ClustersOfLanguages(languages)
                    <=> \E l \in languages : c \in ClustersIn(l)
BY DEF ClustersOfLanguages, ClustersIn

LEMMA ClustersOfArrange ==
    ASSUME IndexInv, stage # "docs", NEW language
    PROVE  Arranges(ClustersOf(language), ClustersIn(language))
<1>1. CASE language \in Clusterings
  <2>1. Partitions(Clusters[language], DocsOf(language))
    BY <1>1 DEF IndexInv, ClustersFit
  <2> QED
    BY <1>1, <2>1 DEF Partitions, ClustersOf, ClustersIn
<1>2. CASE language \notin Clusterings
  BY <1>2, EmptyArranges DEF ClustersOf, ClustersIn
<1> QED
  BY <1>1, <1>2

\* A cluster has documents, and all are of its language.
LEMMA LanguagesAreDisjoint ==
    ASSUME IndexInv, stage # "docs", NEW l, NEW m, l # m
    PROVE  ClustersIn(l) \cap ClustersIn(m) = {}
<1> SUFFICES ASSUME NEW c, c \in ClustersIn(l), c \in ClustersIn(m)
             PROVE  FALSE
  OBVIOUS
<1>1. \A k : c \in ClustersIn(k) => IsClusterOf(c, DocsOf(k))
  BY DEF ClustersIn, IndexInv, ClustersFit, Partitions, Partition
<1>2. PICK P \in SUBSET DocsOf(l) : P # {} /\ Arranges(c.Documents, P)
  BY <1>1 DEF IsClusterOf
<1>3. PICK Q \in SUBSET DocsOf(m) : Q # {} /\ Arranges(c.Documents, Q)
  BY <1>1 DEF IsClusterOf
<1>4. P = Q
  BY <1>2, <1>3, ArrangedSet
<1> QED
  BY <1>2, <1>3, <1>4 DEF DocsOf

LEMMA TopClusters ==
    ASSUME IndexInv, stage # "docs"
    PROVE  Arranges(ClustersOf("LN_EN") \o ClustersOf("LN_RU"),
                    ClustersOfLanguages({"LN_EN", "LN_RU"}))
<1> DEFINE C == ClustersIn("LN_EN")
           D == ClustersIn("LN_RU")
<1>1. Arranges(ClustersOf("LN_EN"), C) /\ Arranges(ClustersOf("LN_RU"), D) /\ C \cap D = {}
  BY ClustersOfArrange, LanguagesAreDisjoint
<1>2. ClustersOfLanguages({"LN_EN", "LN_RU"}) = C \cup D
  BY LanguagesClusters
<1> HIDE DEF C, D
<1> QED
  BY <1>1, <1>2, ConcatArranges

AllClusters ==
    ClustersOf("LN_UNDEFINED") \o ClustersOf("LN_RU") \o ClustersOf("LN_EN") \o ClustersOf("LN_OTHER")

LEMMA AllClustersArrange ==
    ASSUME IndexInv, stage # "docs"
    PROVE  Arranges(AllClusters, ClustersOfLanguages(Clusterings))
<1> DEFINE A == ClustersIn("LN_UNDEFINED")
           B == ClustersIn("LN_RU")
           C == ClustersIn("LN_EN")
           D == ClustersIn("LN_OTHER")
<1>1. /\ Arranges(ClustersOf("LN_UNDEFINED"), A) /\ Arranges(ClustersOf("LN_RU"), B)
      /\ Arranges(ClustersOf("LN_EN"), C) /\ Arranges(ClustersOf("LN_OTHER"), D)
  BY ClustersOfArrange
<1>2. /\ A \cap B = {} /\ A \cap C = {} /\ A \cap D = {} /\ B \cap C = {} /\ B \cap D = {}
      /\ C \cap D = {}
  BY LanguagesAreDisjoint
<1>3. Clusterings \subseteq {"LN_UNDEFINED", "LN_RU", "LN_EN", "LN_OTHER"}
  BY NewsIndexAssumption DEF Languages
<1>4. \A l : l \notin Clusterings => ClustersIn(l) = {}
  BY DEF ClustersIn
<1>5. ClustersOfLanguages(Clusterings) = ((A \cup B) \cup C) \cup D
  <2>1. \A c : c \in ClustersOfLanguages(Clusterings) <=> \E l \in Clusterings : c \in ClustersIn(l)
    BY LanguagesClusters
  <2>2. ASSUME NEW c, c \in ClustersOfLanguages(Clusterings)
        PROVE  c \in A \/ c \in B \/ c \in C \/ c \in D
    <3>1. PICK l \in Clusterings : c \in ClustersIn(l)
      BY <2>1, <2>2
    <3>2. l \in {"LN_UNDEFINED", "LN_RU", "LN_EN", "LN_OTHER"}
      BY <1>3
    <3> QED
      BY <3>1, <3>2
  <2>3. \A l, c : c \in ClustersIn(l) => c \in ClustersOfLanguages(Clusterings)
    BY <1>4, <2>1
  <2> QED
    BY <2>2, <2>3
<1> DEFINE a == ClustersOf("LN_UNDEFINED")
           b == ClustersOf("LN_RU")
           c == ClustersOf("LN_EN")
           d == ClustersOf("LN_OTHER")
<1>6. AllClusters = ((a \o b) \o c) \o d
  BY DEF AllClusters
<1> HIDE DEF A, B, C, D, a, b, c, d
<1>7. Arranges(a \o b, A \cup B)
  BY <1>1, <1>2, ConcatArranges DEF a, b
<1>8. Arranges((a \o b) \o c, (A \cup B) \cup C)
  <2>1. (A \cup B) \cap C = {} /\ Arranges(c, C)
    BY <1>1, <1>2 DEF c
  <2> QED
    BY <1>7, <2>1, ConcatArranges
<1>9. Arranges(((a \o b) \o c) \o d, ((A \cup B) \cup C) \cup D)
  <2>1. ((A \cup B) \cup C) \cap D = {} /\ Arranges(d, D)
    BY <1>1, <1>2 DEF d
  <2> QED
    BY <1>8, <2>1, ConcatArranges
<1> QED
  BY <1>5, <1>6, <1>9

\* The clusters a period reaches back to are those from its timestamp on.
LEMMA DueFromTimestamp ==
    ASSUME AreDocuments, TimestampsFit, TrueMaxTimestamp \in 0 .. Half - 1,
           NEW D, D \in SUBSET DOMAIN docs, NEW c, IsClusterOf(c, D),
           NEW period \in -Half .. Half - 1
    PROVE  IsDue(c, period) <=> c.FreshestTimestamp >= FromTimestamp(ToUint64(period))
<1> DEFINE T == TrueMaxTimestamp
           newest == c.FreshestTimestamp
<1>1. PICK P \in SUBSET D : P # {} /\ Arranges(c.Documents, P) /\ newest = NewestOf(P)
  BY DEF IsClusterOf
<1>2. /\ newest \in 0 .. Half - 1
      /\ \E i \in P : FetchTime(i) = newest
      /\ \A i \in P : FetchTime(i) <= newest
  BY <1>1, NewestIsNewest
<1>3. ToSet(c.Documents) = P
  BY <1>1, ArrangedSet
<1>4. P \in SUBSET DOMAIN docs /\ \A i \in DOMAIN docs : FetchTime(i) \in 0 .. Half - 1
  BY DocumentParts
<1>5. docs # << >>
  <2>1. DOMAIN docs # {}
    BY <1>1, <1>4
  <2> QED
    BY <2>1
<1>6. /\ \A i \in DOMAIN docs : FetchTime(i) <= T
      /\ \E i \in DOMAIN docs : FetchTime(i) = T
  BY <1>5 DEF TimestampsFit
<1>7. Half \in Nat \ {0} /\ Wide \in Nat /\ Wide > 4 * Half
  BY NewsIndexAssumption
<1>8. T \in 0 .. Half - 1
  OBVIOUS
<1> HIDE DEF T, newest
<1>9. IsDue(c, period) <=> period < 0 \/ \E i \in P : T <= FetchTime(i) + period
  <2>1. ASSUME NEW i \in P
        PROVE  (\A j \in DOMAIN docs : FetchTime(j) <= FetchTime(i) + period)
                  <=> T <= FetchTime(i) + period
    <3>1. \A j \in DOMAIN docs : FetchTime(j) <= T /\ FetchTime(j) \in Int
      BY <1>4, <1>6, <1>7
    <3>2. FetchTime(i) + period \in Int /\ T \in Int
      BY <1>4, <1>7, <1>8
    <3> QED
      BY <1>6, <3>1, <3>2
  <2> QED
    BY <1>3, <2>1 DEF IsDue
<1>10. (\E i \in P : T <= FetchTime(i) + period) <=> T <= newest + period
  <2>1. \A i \in P : FetchTime(i) \in Int
    BY <1>4
  <2> QED
    BY <1>2, <1>7, <1>8, <2>1
<1>11. CASE period < 0
  <2>1. ToUint64(period) = period + Wide
    BY <1>7, <1>11 DEF ToUint64
  <2>2. FromTimestamp(ToUint64(period)) = 0
    BY <1>7, <1>8, <2>1 DEF FromTimestamp, T
  <2> QED
    BY <1>2, <1>9, <1>11, <2>2 DEF newest
<1>12. CASE period >= 0
  <2>1. ToUint64(period) = period
    BY <1>7, <1>12 DEF ToUint64
  <2>2. FromTimestamp(ToUint64(period)) = IF T > period THEN T - period ELSE 0
    BY <2>1 DEF FromTimestamp, T
  <2>3. T <= newest + period <=> newest >= (IF T > period THEN T - period ELSE 0)
    BY <1>2, <1>7, <1>8, <1>12
  <2> QED
    BY <1>2, <1>7, <1>9, <1>10, <1>12, <2>2, <2>3 DEF newest
<1> QED
  BY <1>11, <1>12

DueClusters(clusters, window) ==
    SubSeq(clusters, LowerBound(clusters, FromTimestamp(window)), Len(clusters))

LEMMA DueClustersArrange ==
    ASSUME IndexInv, stage # "docs", NEW l, l \in Clusterings,
           NEW period, period \in -Half .. Half - 1
    PROVE  Arranges(DueClusters(Clusters[l], ToUint64(period)),
                    {c \in ClustersOfLanguages({l}) : IsDue(c, period)})
<1> DEFINE cs == Clusters[l]
           D == DocsOf(l)
           window == ToUint64(period)
           t == FromTimestamp(window)
           n == Len(cs)
           early == {k \in 1 .. n : cs[k].FreshestTimestamp < t}
           b == LowerBound(cs, t)
           due == {c \in ClustersOfLanguages({l}) : IsDue(c, period)}
<1>1. /\ AreDocuments /\ TimestampsFit /\ TrueMaxTimestamp \in 0 .. Half - 1
      /\ Partitions(cs, D) /\ InOrder(cs)
  BY DEF IndexInv, ClustersFit
<1>2. D \in SUBSET DOMAIN docs
  BY DEF DocsOf
<1>3. Half \in Nat \ {0} /\ Wide \in Nat /\ Wide > 4 * Half
  BY NewsIndexAssumption
<1>4. t \in Int
  <2>1. window \in Int
    BY <1>3 DEF ToUint64
  <2> HIDE DEF window
  <2> QED
    BY <1>1, <1>3, <2>1 DEF FromTimestamp
<1>5. \A c : c \in ClustersOfLanguages({l}) <=> c \in ToSet(cs)
  BY LanguagesClusters DEF ClustersIn
<1>6. \A c : IsClusterOf(c, D) => (IsDue(c, period) <=> c.FreshestTimestamp >= t)
  BY <1>1, <1>2, DueFromTimestamp
<1>7. due = {c \in ClustersOfLanguages({l}) : IsDue(c, period)}
  OBVIOUS
<1> HIDE DEF cs, D, t, due
<1>8. Arranges(cs, ToSet(cs)) /\ \A c \in ToSet(cs) : IsClusterOf(c, D)
  BY <1>1 DEF Partitions, Partition
<1>9. n \in Nat /\ \A k \in 1 .. n : cs[k] \in ToSet(cs)
  BY <1>8, ArrangedParts
<1>10. \A k \in 1 .. n : cs[k].FreshestTimestamp \in Int
  <2>1. \A k \in 1 .. n : cs[k] \in Cluster0
    BY <1>8, <1>9 DEF IsClusterOf
  <2> QED
    BY <1>3, <2>1 DEF Cluster0
<1>11. IsBound(b, early, n)
  BY <1>1, <1>4, <1>9, <1>10, LowerBoundFits
<1> HIDE DEF b
<1>12. b \in 1 .. n + 1 /\ \A k \in 1 .. n : cs[k].FreshestTimestamp < t <=> k < b
  BY <1>11 DEF IsBound
<1>13. Respects(cs, {})
  BY DEF Respects
<1>14. Arranges(SubSeq(cs, b, n), From(cs, b))
  BY <1>8, <1>12, <1>13, BackArranges
<1>15. \A k \in 1 .. n : cs[k] \in due <=> k >= b
  <2>1. \A k \in 1 .. n : cs[k] \in due <=> cs[k].FreshestTimestamp >= t
    BY <1>5, <1>6, <1>7, <1>8, <1>9
  <2> QED
    BY <1>4, <1>10, <1>12, <2>1
<1>16. From(cs, b) = due
  <2>1. \A c \in due : \E k \in 1 .. n : cs[k] = c
    BY <1>5, <1>7, <1>8 DEF Arranges
  <2>2. \A c : c \in From(cs, b) <=> \E k \in b .. n : cs[k] = c
    BY DEF From
  <2>3. \A k : k \in b .. n <=> k \in 1 .. n /\ k >= b
    BY <1>9, <1>12
  <2> QED
    BY <1>15, <2>1, <2>2, <2>3
<1>17. DueClusters(Clusters[l], ToUint64(period)) = SubSeq(cs, b, n)
  BY DEF DueClusters, cs, t, b
<1> QED
  BY <1>7, <1>14, <1>16, <1>17

-----------------------------------------------------------------------------
(***************************************************************************)
(* What a query answers.                                                   *)
(***************************************************************************)
Asked(a) == {c \in ClustersOfLanguages(a.languages) : a.mode = "/threads" => IsDue(c, a.period)}

WindowOf(a) == IF a.mode = "/threads" THEN ToUint64(a.period) ELSE a.period

WeighedFor(a) == WeighedAll(Asked(a), WindowOf(a))

ShownLimit(a, R) == IF a.mode = "/threads" THEN Limit ELSE Cardinality(R)

Ranks(a) ==
    /\ \/ a.mode = "/threads" /\ a.period \in -Half .. Half - 1
       \/ a.mode = "top" /\ a.period \in 0 .. Wide - Half
    /\ Arranges(a.weighted, WeighedFor(a))
    /\ \A category \in DOMAIN a.shown :
          LET R == Rubric(WeighedFor(a), category)
          IN  ShowsBest(a.shown[category], R, ShownLimit(a, R))

LEMMA AskedAreIndexed ==
    ASSUME IndexInv, stage = "index", NEW a
    PROVE  \A c \in Asked(a) : c \in IndexedCluster
<1> SUFFICES ASSUME NEW c \in Asked(a)
             PROVE  c \in IndexedCluster
  OBVIOUS
<1>1. SummariesFit
  BY DEF IndexInv, IsSummarized
<1>2. PICK l \in Clusterings : c \in ToSet(Clusters[l])
  BY DEF Asked, ClustersOfLanguages
<1> QED
  BY <1>1, <1>2 DEF SummariesFit, IsSummary

LEMMA WindowType ==
    ASSUME NEW a, \/ a.mode = "/threads" /\ a.period \in -Half .. Half - 1
                  \/ a.mode = "top" /\ a.period \in 0 .. Wide - Half
    PROVE  WindowOf(a) \in Int
<1>1. Half \in Nat \ {0} /\ Wide \in Nat /\ Wide > 4 * Half
  BY NewsIndexAssumption
<1> QED
  BY <1>1 DEF WindowOf, ToUint64

LEMMA ThreadsRanks ==
    ASSUME IndexInv, NEW period \in Periods, NEW language \in Clusterings,
           NEW category \in QueryCategories, Threads(period, language, category)
    PROVE  Ranks(answer')
<1> DEFINE window == ToUint64(period)
           due == DueClusters(Clusters[language], window)
           weighted == Weighted(due, window)
           a == [mode |-> "/threads", period |-> period, languages |-> {language},
                 weighted |-> weighted, shown |-> [c \in {category} |-> LimitedRank(weighted, c)]]
<1>1. answer' = a /\ stage = "index"
  BY DEF Threads, Answer, DueClusters
<1>2. period \in -Half .. Half - 1 /\ category \in Categories
  BY NewsIndexAssumption
<1>3. /\ a.mode = "/threads" /\ a.period = period /\ a.languages = {language}
      /\ a.weighted = weighted /\ DOMAIN a.shown = {category}
      /\ a.shown[category] = LimitedRank(weighted, category)
  OBVIOUS
<1> HIDE DEF a
<1>4. WindowOf(a) = window /\ window \in Int
  BY <1>2, <1>3, WindowType DEF WindowOf
<1>5. Arranges(due, Asked(a))
  <2>1. Asked(a) = {c \in ClustersOfLanguages({language}) : IsDue(c, period)}
    BY <1>3 DEF Asked
  <2> QED
    BY <1>1, <1>2, <2>1, DueClustersArrange
<1> HIDE DEF window, due
<1>6. Arranges(weighted, WeighedFor(a))
  BY <1>4, <1>5, WeightedArranges DEF WeighedFor
<1>7. \A w \in WeighedFor(a) : HasMerit(w)
  <2>1. IterTimestamp \in Int
    BY HalfIsNat DEF IndexInv
  <2> QED
    BY <1>1, <1>4, <2>1, AskedAreIndexed, WeighedHaveMerit DEF WeighedFor
<1>8. MinClusterSize \in Nat
  BY NewsIndexAssumption DEF IndexInv
<1> HIDE DEF weighted
<1>9. ShowsBest(LimitedRank(weighted, category), Rubric(WeighedFor(a), category), Limit)
  BY <1>2, <1>6, <1>7, <1>8, LimitedRankFits
<1>10. Ranks(a)
  BY <1>2, <1>3, <1>6, <1>9 DEF Ranks, ShownLimit
<1> QED
  BY <1>1, <1>10

LEMMA TopRanks ==
    ASSUME IndexInv, NEW window \in Windows, Top(window)
    PROVE  Ranks(answer')
<1> DEFINE cs == ClustersOf("LN_EN") \o ClustersOf("LN_RU")
           weighted == Weighted(cs, window)
           rubrics == Categories \ ({"NC_UNDEFINED"} \cup IF SaveNotNews THEN {} ELSE {"NC_NOT_NEWS"})
           a == [mode |-> "top", period |-> window, languages |-> {"LN_EN", "LN_RU"},
                 weighted |-> weighted, shown |-> [c \in rubrics |-> Rank(weighted)[c]]]
<1>1. answer' = a /\ stage = "index"
  BY DEF Top, Answer
<1>2. window \in 0 .. Wide - Half /\ \A c \in rubrics : c \in Categories
  BY NewsIndexAssumption
<1>3. /\ a.mode = "top" /\ a.period = window /\ a.languages = {"LN_EN", "LN_RU"}
      /\ a.weighted = weighted /\ DOMAIN a.shown = rubrics
      /\ \A c \in rubrics : a.shown[c] = Rank(weighted)[c]
  OBVIOUS
<1> HIDE DEF a, rubrics
<1>4. WindowOf(a) = window /\ window \in Int
  BY <1>2, <1>3, WindowType DEF WindowOf
<1>5. Arranges(cs, Asked(a))
  <2>1. Asked(a) = ClustersOfLanguages({"LN_EN", "LN_RU"})
    BY <1>3 DEF Asked
  <2> QED
    BY <1>1, <2>1, TopClusters
<1> HIDE DEF cs
<1>6. Arranges(weighted, WeighedFor(a))
  BY <1>4, <1>5, WeightedArranges DEF WeighedFor
<1>7. \A w \in WeighedFor(a) : HasMerit(w)
  <2>1. IterTimestamp \in Int
    BY HalfIsNat DEF IndexInv
  <2> QED
    BY <1>1, <1>4, <2>1, AskedAreIndexed, WeighedHaveMerit DEF WeighedFor
<1>8. MinClusterSize \in Nat
  BY NewsIndexAssumption DEF IndexInv
<1> HIDE DEF weighted
<1>9. ASSUME NEW c \in rubrics
      PROVE  LET R == Rubric(WeighedFor(a), c)
             IN  ShowsBest(Rank(weighted)[c], R, Cardinality(R))
  BY <1>2, <1>6, <1>7, <1>8, RankShowsBest
<1>10. Ranks(a)
  BY <1>2, <1>3, <1>6, <1>9 DEF Ranks, ShownLimit
<1> QED
  BY <1>1, <1>10

\* The three properties, of any answer.
ShowsExactly(a) ==
    \A category \in DOMAIN a.shown :
        LET shown == a.shown[category]
            due == DueIn(Asked(a), category)
        IN  /\ {shown[k].Cluster : k \in DOMAIN shown} \subseteq due
            /\ \A j, k \in DOMAIN shown : j # k => shown[j].Cluster # shown[k].Cluster
            /\ Len(shown) = IF a.mode = "/threads" /\ Cardinality(due) > Limit
                            THEN Limit
                            ELSE Cardinality(due)

ShowsByMerit(a) ==
    \A category \in DOMAIN a.shown :
        LET shown == a.shown[category]
            cut == {w \in ToSet(a.weighted) : InRubric(w, category)
                                              /\ \A k \in DOMAIN shown : shown[k] # w}
        IN  \A k \in DOMAIN shown :
                /\ \A j \in 1 .. k : NoMoreMerit(shown[k], shown[j])
                /\ \A w \in cut : NoMoreMerit(w, shown[k])

AgeFrom(end) == IF end < IterTimestamp THEN {end - IterTimestamp} ELSE {}

ExactAge(w, period) ==
    LET end == w.Cluster.BestTimestamp + period
    IN  end >= 0 => w.Age = AgeFrom(end)

HasExactAges(a) == \A w \in ToSet(a.weighted) : ExactAge(w, a.period)

LEMMA RankedIsExact ==
    ASSUME NEW a, Ranks(a)
    PROVE  ShowsExactly(a)
<1> SUFFICES ASSUME NEW category \in DOMAIN a.shown
             PROVE  LET shown == a.shown[category]
                        due == DueIn(Asked(a), category)
                    IN  /\ {shown[k].Cluster : k \in DOMAIN shown} \subseteq due
                        /\ \A j, k \in DOMAIN shown : j # k => shown[j].Cluster # shown[k].Cluster
                        /\ Len(shown) = IF a.mode = "/threads" /\ Cardinality(due) > Limit
                                        THEN Limit
                                        ELSE Cardinality(due)
  BY DEF ShowsExactly
<1> DEFINE shown == a.shown[category]
           R == Rubric(WeighedFor(a), category)
           limit == ShownLimit(a, R)
           due == DueIn(Asked(a), category)
<1>1. ShowsBest(shown, R, limit)
  BY DEF Ranks
<1>2. Limit \in Nat
  BY NewsIndexAssumption
<1>3. limit \in Nat
  <2>1. PICK r : Arranges(r, R)
    BY <1>1 DEF ShowsBest
  <2>2. Cardinality(R) \in Nat
    BY <2>1, ArrangedLength, ArrangedParts
  <2> QED
    BY <1>2, <2>2 DEF ShownLimit
<1>4. /\ {shown[k].Cluster : k \in DOMAIN shown} \subseteq due
      /\ \A j, k \in DOMAIN shown : j # k => shown[j].Cluster # shown[k].Cluster
      /\ Len(shown) = IF Cardinality(due) > limit THEN limit ELSE Cardinality(due)
      /\ Cardinality(due) \in Nat /\ Cardinality(due) = Cardinality(R)
  <2> HIDE DEF shown, limit
  <2> QED
    BY <1>1, <1>3, ShownIsExact DEF WeighedFor
<1>5. Len(shown) = IF a.mode = "/threads" /\ Cardinality(due) > Limit
                   THEN Limit ELSE Cardinality(due)
  <2> HIDE DEF shown, due, R
  <2> QED
    BY <1>4 DEF ShownLimit
<1> HIDE DEF due
<1> QED
  BY <1>4, <1>5 DEF due

LEMMA RankedIsByMerit ==
    ASSUME NEW a, Ranks(a)
    PROVE  ShowsByMerit(a)
<1> SUFFICES ASSUME NEW category \in DOMAIN a.shown, NEW k \in DOMAIN a.shown[category]
             PROVE  LET shown == a.shown[category]
                    IN  /\ \A j \in 1 .. k : NoMoreMerit(shown[k], shown[j])
                        /\ \A w \in ToSet(a.weighted) :
                              InRubric(w, category) /\ (\A j \in DOMAIN shown : shown[j] # w)
                                => NoMoreMerit(w, shown[k])
  BY DEF ShowsByMerit
<1> DEFINE shown == a.shown[category]
           R == Rubric(WeighedFor(a), category)
           limit == ShownLimit(a, R)
<1>1. ShowsBest(shown, R, limit)
  BY DEF Ranks
<1>2. Limit \in Nat
  BY NewsIndexAssumption
<1>3. limit \in Nat
  <2>1. PICK r : Arranges(r, R)
    BY <1>1 DEF ShowsBest
  <2>2. Cardinality(R) \in Nat
    BY <2>1, ArrangedLength, ArrangedParts
  <2> QED
    BY <1>2, <2>2 DEF ShownLimit
<1>4. ToSet(a.weighted) = WeighedFor(a)
  BY ArrangedSet DEF Ranks
<1>5. \A w : w \in R <=> w \in ToSet(a.weighted) /\ InRubric(w, category)
  BY <1>4 DEF Rubric
<1>6. k \in DOMAIN shown
  OBVIOUS
<1> HIDE DEF shown, R, limit
<1>7. /\ \A j \in 1 .. k : NoMoreMerit(shown[k], shown[j])
      /\ \A w \in R : (\A j \in DOMAIN shown : shown[j] # w) => NoMoreMerit(w, shown[k])
  BY <1>1, <1>3, <1>6, ShownByMerit
<1> QED
  BY <1>5, <1>7 DEF shown

\* Age with a window of the command line.
LEMMA TopAgeIsExact ==
    ASSUME NEW best \in 0 .. Half - 1, NEW iter \in 0 .. Half - 1, NEW window \in 0 .. Wide - Half
    PROVE  Age(best, iter, window)
             = IF best + window < iter THEN {best + window - iter} ELSE {}
<1>1. Half \in Nat \ {0} /\ Wide \in Nat /\ Wide > 4 * Half
  BY NewsIndexAssumption
<1>2. ToInt32(best) = best /\ ToInt32(iter) = iter
  BY <1>1, Int32Keeps
<1>3. ToUint64(best + window) = best + window
  BY <1>1 DEF ToUint64
<1>4. CASE best + window < iter
  <2>1. ToInt32(window) = window /\ ToInt32(best + window) = best + window
        /\ ToInt32(best + window - iter) = best + window - iter
    BY <1>1, <1>4, Int32Keeps
  <2> QED
    BY <1>2, <1>3, <1>4, <2>1 DEF Age
<1>5. CASE ~(best + window < iter)
  BY <1>2, <1>3, <1>5 DEF Age
<1> QED
  BY <1>4, <1>5

LEMMA RankedHasExactAges ==
    ASSUME IndexInv, stage = "index", NEW a, Ranks(a)
    PROVE  HasExactAges(a)
<1> SUFFICES ASSUME NEW w \in ToSet(a.weighted)
             PROVE  ExactAge(w, a.period)
  BY DEF HasExactAges
<1>1. ToSet(a.weighted) = WeighedFor(a)
  BY ArrangedSet DEF Ranks
<1>2. PICK c \in Asked(a) : w = Weighed(c, WindowOf(a))
  BY <1>1 DEF WeighedFor, WeighedAll
<1>3. w.Cluster = c /\ w.Age = Age(c.BestTimestamp, IterTimestamp, WindowOf(a))
  BY <1>2 DEF Weighed
<1>4. c.BestTimestamp \in 0 .. Half - 1
  BY AskedAreIndexed DEF IndexedCluster
<1>5. IterTimestamp \in 0 .. Half - 1
  BY DEF IndexInv
<1>6. ASSUME c.BestTimestamp + a.period >= 0
      PROVE  Age(c.BestTimestamp, IterTimestamp, WindowOf(a)) = AgeFrom(c.BestTimestamp + a.period)
  <2> DEFINE best == c.BestTimestamp
             period == a.period
             iter == IterTimestamp
             exact == IF best + period < iter THEN {best + period - iter} ELSE {}
  <2>1. AgeFrom(best + period) = exact
    <3>1. best \in Int /\ period \in Int /\ iter \in Int
      BY <1>4, <1>5, HalfIsNat, NewsIndexAssumption DEF Ranks
    <3> HIDE DEF best, period
    <3>2. (best + period) - iter = best + period - iter
      BY <3>1
    <3> QED
      BY <3>2, Zenon DEF AgeFrom
  <2>2. best \in 0 .. Half - 1 /\ iter \in 0 .. Half - 1 /\ best + period >= 0
    BY <1>4, <1>5, <1>6
  <2>3. CASE a.mode = "/threads" /\ period \in -Half .. Half - 1
    <3>1. WindowOf(a) = ToUint64(period)
      BY <2>3 DEF WindowOf
    <3> HIDE DEF best, period, iter
    <3>2. Age(best, iter, WindowOf(a)) = exact
      BY <2>2, <2>3, <3>1, AgeIsExact
    <3> HIDE DEF exact
    <3> QED
      BY <2>1, <3>2 DEF best, period, iter
  <2>4. CASE a.mode = "top" /\ period \in 0 .. Wide - Half
    <3>1. WindowOf(a) = period
      BY <2>4 DEF WindowOf
    <3> HIDE DEF best, period, iter
    <3>2. Age(best, iter, WindowOf(a)) = exact
      BY <2>2, <2>4, <3>1, TopAgeIsExact
    <3> HIDE DEF exact
    <3> QED
      BY <2>1, <3>2 DEF best, period, iter
  <2> QED
    BY <2>3, <2>4 DEF Ranks
<1> QED
  BY <1>3, <1>6 DEF ExactAge

\* The mode "threads".
LEMMA PrintThreadsAnswers ==
    ASSUME IndexInv, PrintThreads
    PROVE  /\ answer'.mode = "threads" /\ answer'.weighted = << >>
           /\ ShowsExactly(answer')
<1> DEFINE cs == AllClusters
           shown == [k \in DOMAIN cs |-> [Cluster |-> cs[k]]]
           a == [mode |-> "threads", period |-> 0, languages |-> Clusterings,
                 weighted |-> << >>, shown |-> [c \in {"NC_ANY"} |-> shown]]
           C == ClustersOfLanguages(Clusterings)
<1>1. answer' = a /\ stage = "clusters"
  BY DEF PrintThreads, Answer, AllClusters
<1>2. /\ a.mode = "threads" /\ a.weighted = << >> /\ a.languages = Clusterings
      /\ DOMAIN a.shown = {"NC_ANY"} /\ a.shown["NC_ANY"] = shown
  OBVIOUS
<1>3. Arranges(cs, C)
  BY <1>1, AllClustersArrange
<1> HIDE DEF a, cs, C
<1>4. DueIn(Asked(a), "NC_ANY") = C
  BY <1>2 DEF DueIn, Asked, C
<1>5. Len(cs) \in Nat /\ DOMAIN cs = 1 .. Len(cs) /\ \A k \in 1 .. Len(cs) : cs[k] \in C
  BY <1>3, ArrangedParts
<1>6. \A j, k \in 1 .. Len(cs) : cs[j] = cs[k] => j = k
  BY <1>3 DEF Arranges
<1>7. DOMAIN shown = 1 .. Len(cs) /\ \A k \in 1 .. Len(cs) : shown[k].Cluster = cs[k]
  BY <1>5
<1>8. Len(shown) = Len(cs)
  BY <1>5
<1>9. Cardinality(C) = Len(cs)
  BY <1>3, ArrangedLength
<1> HIDE DEF shown
<1>10. ShowsExactly(a)
  BY <1>2, <1>4, <1>5, <1>6, <1>7, <1>8, <1>9 DEF ShowsExactly
<1> QED
  BY <1>1, <1>2, <1>10

\* What holds of an answer once it is given.
AnswerFits ==
    stage = "answered" =>
        /\ ShowsExactly(answer)
        /\ answer.mode # "threads" => ShowsByMerit(answer)
        /\ HasExactAges(answer)

LEMMA SameAnswers ==
    ASSUME UNCHANGED <<docs, MinClusterSize, indexVars>>
    PROVE  AnswerFits' <=> (stage' = "answered" =>
              /\ ShowsExactly(answer')
              /\ answer'.mode # "threads" => ShowsByMerit(answer')
              /\ HasExactAges(answer'))
<1>1. docs' = docs /\ MinClusterSize' = MinClusterSize /\ Clusters' = Clusters
      /\ IterTimestamp' = IterTimestamp /\ TrueMaxTimestamp' = TrueMaxTimestamp
  BY DEF indexVars
<1>2. ShowsExactly(answer)' <=> ShowsExactly(answer')
  BY <1>1 DEF ShowsExactly, Asked, ClustersOfLanguages, IsDue, FetchTime, DueIn
<1>3. ShowsByMerit(answer)' <=> ShowsByMerit(answer')
  BY <1>1 DEF ShowsByMerit, InRubric, NoMoreMerit, Merit, ClusterSize
<1>4. HasExactAges(answer)' <=> HasExactAges(answer')
  BY <1>1 DEF HasExactAges, ExactAge, AgeFrom
<1> QED
  BY <1>2, <1>3, <1>4 DEF AnswerFits

LEMMA RankedFits ==
    ASSUME IndexInv, stage = "index", Answers, Ranks(answer')
    PROVE  AnswerFits'
<1>1. ShowsExactly(answer') /\ ShowsByMerit(answer') /\ HasExactAges(answer')
  BY RankedIsExact, RankedIsByMerit, RankedHasExactAges
<1> QED
  BY <1>1, SameAnswers DEF Answers

LEMMA AnswerStepFits == IndexInv /\ AnswerFits /\ [Next]_vars => AnswerFits'
<1> SUFFICES ASSUME IndexInv, AnswerFits, [Next]_vars PROVE AnswerFits'
  OBVIOUS
<1>1. CASE Cluster
  BY <1>1 DEF Cluster, AnswerFits
<1>2. CASE Summarize
  BY <1>2 DEF Summarize, AnswerFits
<1>3. CASE \E period \in Periods, language \in Clusterings, category \in QueryCategories :
              Threads(period, language, category)
  <2>1. PICK period \in Periods, language \in Clusterings, category \in QueryCategories :
           Threads(period, language, category)
    BY <1>3
  <2>2. stage = "index"
    BY <2>1 DEF Threads
  <2> QED
    BY <2>1, <2>2, QueriesAnswer, ThreadsRanks, RankedFits
<1>4. CASE \E window \in Windows : Top(window)
  <2>1. PICK window \in Windows : Top(window)
    BY <1>4
  <2>2. stage = "index"
    BY <2>1 DEF Top
  <2> QED
    BY <2>1, <2>2, QueriesAnswer, TopRanks, RankedFits
<1>5. CASE PrintThreads
  <2>1. UNCHANGED <<docs, MinClusterSize, indexVars>>
    BY <1>5, QueriesAnswer DEF Answers
  <2>2. answer'.mode = "threads" /\ answer'.weighted = << >> /\ ShowsExactly(answer')
    BY <1>5, PrintThreadsAnswers
  <2>3. HasExactAges(answer')
    <3>1. ToSet(<< >>) = {}
      BY DEF ToSet
    <3> QED
      BY <2>2, <3>1 DEF HasExactAges
  <2> QED
    BY <2>1, <2>2, <2>3, SameAnswers
<1>6. CASE UNCHANGED vars
  <2>1. UNCHANGED <<docs, MinClusterSize, indexVars>> /\ stage' = stage /\ answer' = answer
    BY <1>6 DEF vars
  <2>2. AnswerFits' <=> (stage = "answered" =>
              /\ ShowsExactly(answer)
              /\ answer.mode # "threads" => ShowsByMerit(answer)
              /\ HasExactAges(answer))
    BY <2>1, SameAnswers
  <2> QED
    BY <2>2 DEF AnswerFits
<1> QED
  BY <1>1, <1>2, <1>3, <1>4, <1>5, <1>6 DEF Next

LEMMA AnswerFitsHolds == Spec => []AnswerFits
<1>1. Init => AnswerFits
  BY DEF Init, AnswerFits
<1> QED
  BY <1>1, IndexInvHolds, AnswerStepFits, PTL DEF Spec

\* A /threads request and the modes "top" and "threads" show the clusters they
\* are about, each once and none too many or too few: the binary search finds
\* where the period begins, and neither sorting nor the limit loses another.
THEOREM AnswersAreExact == Spec => []AnswerIsExact
<1>1. AnswerFits => AnswerIsExact
  BY DEF AnswerFits, ShowsExactly, DueIn, Asked, AnswerIsExact, Due
<1> QED
  BY <1>1, AnswerFitsHolds, PTL

\* Whatever the weights, RanksHigher is a strict weak order, so that sorting by
\* it puts the best first and the limit cuts off the rest.
THEOREM BestAreFirst == Spec => []BestComeFirst
<1>1. AnswerFits => BestComeFirst
  BY DEF AnswerFits, ShowsByMerit, InRubric, BestComeFirst
<1> QED
  BY <1>1, AnswerFitsHolds, PTL

\* AgeIsExact, for every cluster that goes into an answer and also for the
\* windows of the command line.
THEOREM AnswersHaveExactAges == Spec => []AgesAreExact
<1>1. AnswerFits => AgesAreExact
  BY DEF AnswerFits, HasExactAges, ExactAge, AgeFrom, AgesAreExact
<1> QED
  BY <1>1, AnswerFitsHolds, PTL
=============================================================================
