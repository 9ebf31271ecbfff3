-------------------------- MODULE SlinkBatchProofs --------------------------
(***************************************************************************)
(* Theorems about SlinkBatch, for any number of documents, any distances,  *)
(* sites and configurations: the repaired nearest neighbours are nearest,  *)
(* the loop's ENSURE never throws, and the clusters are what the           *)
(* configuration allows.                                                   *)
(***************************************************************************)
EXTENDS SlinkBatch, FiniteSetTheorems, TLAPS

-----------------------------------------------------------------------------
(***************************************************************************)
(* Types.                                                                  *)
(***************************************************************************)

\* The configuration in use is one of the code's.
LEMMA ConfigType ==
    ASSUME config \in Configs
    PROVE  /\ config \in TClusteringConfig
           /\ config.small_threshold \in Nat /\ config.small_threshold < InfDistance
           /\ config.small_cluster_size \in Nat /\ config.medium_cluster_size \in Nat
           /\ config.large_cluster_size \in Nat
           /\ config.medium_threshold \in Nat /\ config.large_threshold \in Nat
           /\ config.ban_same_hosts \in BOOLEAN
<1>1. config \in TClusteringConfig /\ InfDistance \in Nat
  BY BatchAssumption
<1> QED
  BY <1>1 DEF TClusteringConfig

\* What a search for the nearest of some documents ends with.
LEMMA NearestType ==
    ASSUME NEW k \in Docs, NEW row \in [Docs -> Distance], NEW K
    PROVE  NearestDistance(k, row, K) \in Distance
BY BatchAssumption DEF NearestDistance, Distance

LEMMA LinkedType ==
    ASSUME TypeOK, NEW minI \in Docs, NEW minJ \in Docs
    PROVE  /\ \A k \in Docs : LinkedDistance(minI, minJ, k) \in Distance
           /\ LinkedMatrix(minI, minJ) \in [Docs -> [Docs -> Distance]]
<1>1. \A i, j \in Docs : distances[i][j] \in Distance
  BY DEF TypeOK
<1>2. \A k \in Docs : LinkedDistance(minI, minJ, k) \in Distance
  BY <1>1 DEF LinkedDistance, Smaller
<1>3. InfDistance \in Distance
  BY BatchAssumption DEF Distance
<1> DEFINE entry(i, j) ==
        CASE i = minJ \/ j = minJ -> InfDistance
          [] i = minI /\ j \notin {minI, minJ} -> LinkedDistance(minI, minJ, j)
          [] j = minI /\ i \notin {minI, minJ} -> LinkedDistance(minI, minJ, i)
          [] OTHER -> distances[i][j]
<1>4. \A i, j \in Docs : entry(i, j) \in Distance
  BY <1>1, <1>2, <1>3
<1>5. LinkedMatrix(minI, minJ) = [i \in Docs |-> [j \in Docs |-> entry(i, j)]]
  BY DEF LinkedMatrix
<1> HIDE DEF entry
<1> QED
  BY <1>2, <1>4, <1>5

\* Documents and distances are numbers.
LEMMA Numbers ==
    ASSUME TypeOK
    PROVE  /\ InfDistance \in Int /\ prevStepMinDistance \in Int
           /\ \A i \in Docs : i \in Int
           /\ \A i \in Docs : nn[i] \in Docs /\ nn[i] \in Int
           /\ \A i \in Docs : labels[i] \in Docs /\ labels[i] \in Int
           /\ \A i \in Docs : nnDistances[i] \in Int /\ nnDistances[i] <= InfDistance
           /\ \A i, j \in Docs : distances[i][j] \in Int /\ distances[i][j] <= InfDistance
           /\ \A i, j \in Docs : given[i][j] \in Int
<1>1. InfDistance \in Int /\ \A d \in Distance : d \in Int /\ d <= InfDistance
  BY BatchAssumption DEF Distance
<1>2. \A i \in Docs : i \in Int
  BY BatchAssumption DEF Docs
<1>3. \A i \in Docs : nn[i] \in Docs /\ labels[i] \in Docs /\ nnDistances[i] \in Distance
  BY DEF TypeOK
<1>4. \A i, j \in Docs : distances[i][j] \in Distance /\ given[i][j] \in Distance
  BY DEF TypeOK
<1>5. prevStepMinDistance \in Distance
  BY DEF TypeOK
<1> QED
  BY <1>1, <1>2, <1>3, <1>4, <1>5

LEMMA TypeInit == Init => TypeOK
<1> SUFFICES ASSUME Init PROVE TypeOK
  OBVIOUS
<1>1. 0 \in Distance /\ InfDistance \in Distance /\ docSize \in Nat
  BY BatchAssumption DEF Distance
<1>2. given \in [Docs -> [Docs -> Distance]]
  <2>1. PICK between \in [Pairs -> Distance] : given = CalcDistances(between)
    BY DEF Init
  <2>2. ASSUME NEW i \in Docs, NEW j \in Docs, i # j PROVE between[{i, j}] \in Distance
    <3>1. {i, j} \in Pairs
      BY <2>2 DEF Pairs
    <3> QED
      BY <3>1
  <2> QED
    BY <1>1, <2>1, <2>2 DEF CalcDistances
<1>3. nn \in [Docs -> Docs] /\ distances = given
  BY DEF Init
<1>4. nnDistances \in [Docs -> Distance]
  BY <1>2, <1>3 DEF Init
<1>5. clusterSiteNames \in [Docs -> SUBSET Sites]
  <2>1. \A i \in Docs : site[i] \in Sites
    BY DEF Init, Sites
  <2> QED
    BY <2>1 DEF Init
<1> QED
  BY <1>1, <1>2, <1>3, <1>4, <1>5 DEF Init, TypeOK

LEMMA TypeStep == TypeOK /\ [Next]_vars => TypeOK'
<1> SUFFICES ASSUME TypeOK, [Next]_vars PROVE TypeOK'
  OBVIOUS
<1>1. /\ nn \in [Docs -> Docs] /\ nnDistances \in [Docs -> Distance]
      /\ distances \in [Docs -> [Docs -> Distance]] /\ InfDistance \in Distance
  BY BatchAssumption DEF TypeOK, Distance
<1>2. ASSUME NEW minI \in Docs, StopLinking(minI) PROVE TypeOK'
  BY <1>1, <1>2 DEF TypeOK, StopLinking, inputs
<1>3. ASSUME NEW minI \in Docs, NEW minJ \in Docs, RejectLink(minI, minJ) PROVE TypeOK'
  <2>1. distances' \in [Docs -> [Docs -> Distance]]
    <3>1. distances' = [distances EXCEPT ![minI][minJ] = InfDistance,
                                         ![minJ][minI] = InfDistance]
      BY <1>3 DEF RejectLink
    <3> QED
      BY <1>1, <3>1
  <2>2. nn' \in [Docs -> Docs] /\ nnDistances' \in [Docs -> Distance]
    <3> DEFINE others == Docs \ {minI, minJ}
    <3>1. PICK ki, kj \in Docs :
              /\ nn' = [nn EXCEPT ![minI] = ki, ![minJ] = kj]
              /\ nnDistances' =
                    [nnDistances EXCEPT ![minI] = NearestDistance(ki, distances[minI], others),
                                        ![minJ] = NearestDistance(kj, distances[minJ], others)]
      BY <1>3 DEF RejectLink
    <3>2. /\ NearestDistance(ki, distances[minI], others) \in Distance
          /\ NearestDistance(kj, distances[minJ], others) \in Distance
      BY <1>1, NearestType
    <3> QED
      BY <1>1, <3>1, <3>2
  <2>3. prevStepMinDistance' \in Distance /\ level' \in Nat
    BY <1>1, <1>3 DEF RejectLink, TypeOK
  <2>4. UNCHANGED <<inputs, labels, clusterSizes, clusterSiteNames, pc>>
    BY <1>3 DEF RejectLink
  <2> QED
    BY <2>1, <2>2, <2>3, <2>4 DEF TypeOK, inputs
<1>4. ASSUME NEW minI \in Docs, NEW minJ \in Docs, Link(minI, minJ) PROVE TypeOK'
  <2> DEFINE others == Docs \ {minI, minJ}
             linked == LinkedMatrix(minI, minJ)
  <2>1. distances' = linked /\ linked \in [Docs -> [Docs -> Distance]]
    BY <1>4, LinkedType DEF Link
  <2>2. labels' \in [Docs -> Docs]
    BY <1>4 DEF Link, Relabelled, TypeOK
  <2>3. nn' \in [Docs -> Docs] /\ nnDistances' \in [Docs -> Distance]
    <3>1. PICK ki \in Docs :
              /\ nn' = [[k \in Docs |-> Repointed(minI, minJ, k)]
                            EXCEPT ![minI] = ki, ![minJ] = nn[minJ]]
              /\ nnDistances' =
                    [[k \in Docs |-> RepointedDistance(minI, minJ, k)]
                        EXCEPT ![minI] = NearestDistance(ki, linked[minI], others),
                               ![minJ] = InfDistance]
      BY <1>4 DEF Link
    <3>2. NearestDistance(ki, linked[minI], others) \in Distance
      BY <2>1, NearestType
    <3>3. \A k \in Docs : RepointedDistance(minI, minJ, k) \in Distance
      BY <1>1, LinkedType DEF RepointedDistance
    <3>4. \A k \in Docs : Repointed(minI, minJ, k) \in Docs
      BY <1>1 DEF Repointed
    <3> HIDE DEF others, linked
    <3> QED
      BY <1>1, <3>1, <3>2, <3>3, <3>4
  <2>4. clusterSizes' \in [Docs -> Nat]
    <3>1. clusterSizes' = [clusterSizes EXCEPT ![minI] = clusterSizes[minI] + clusterSizes[minJ],
                                               ![minJ] = clusterSizes[minI] + clusterSizes[minJ]]
      BY <1>4 DEF Link
    <3>2. clusterSizes \in [Docs -> Nat] /\ clusterSizes[minI] + clusterSizes[minJ] \in Nat
      BY DEF TypeOK
    <3> QED
      BY <3>1, <3>2
  <2>5. clusterSiteNames' \in [Docs -> SUBSET Sites]
    BY <1>4 DEF Link, UnitedSites, TypeOK
  <2>6. prevStepMinDistance' \in Distance /\ level' \in Nat
    BY <1>1, <1>4 DEF Link, TypeOK
  <2>7. UNCHANGED <<inputs, pc>>
    BY <1>4 DEF Link
  <2> QED
    BY <2>1, <2>2, <2>3, <2>4, <2>5, <2>6, <2>7 DEF TypeOK, inputs
<1>5. ASSUME LevelsExhausted PROVE TypeOK'
  BY <1>5 DEF TypeOK, LevelsExhausted, inputs
<1>6. ASSUME UNCHANGED vars PROVE TypeOK'
  BY <1>6 DEF TypeOK, vars, inputs
<1> QED
  BY <1>2, <1>3, <1>4, <1>5, <1>6 DEF Next

\* Type correctness of ClusterBatch: indices stay documents of the batch, and
\* distances between 0 and INF_DISTANCE.
THEOREM TypeCorrect == Spec => []TypeOK
BY TypeInit, TypeStep, PTL DEF Spec

-----------------------------------------------------------------------------
(***************************************************************************)
(* The matrix and the nearest neighbours.                                  *)
(***************************************************************************)

\* Distances do not depend on the order of the two, and are below INF_DISTANCE
\* between clusters only: the rows of documents linked away are empty.
Symmetric ==
    \A i, j \in Docs : given[i][j] = given[j][i] /\ distances[i][j] = distances[j][i]

RowsAreClusters ==
    \A i, j \in Docs : distances[i][j] < InfDistance => i # j /\ labels[i] = i

\* What the loop repairs as it goes: nnDistances holds the minimum of each row,
\* and nn where it is.
NeighboursAreNearest ==
    /\ \A i, j \in Docs : nnDistances[i] <= distances[i][j]
    /\ \A i \in Docs : nnDistances[i] < InfDistance => distances[i][nn[i]] = nnDistances[i]

LabelsPrecede == \A i \in Docs : labels[i] <= i /\ labels[labels[i]] = labels[i]

MatrixInv == Symmetric /\ RowsAreClusters /\ NeighboursAreNearest /\ LabelsPrecede

\* The pair that a level links or rejects.
IsClosestPair(minI, minJ) ==
    /\ minI < minJ
    /\ labels[minI] = minI /\ labels[minJ] = minJ
    /\ distances[minI][minJ] = nnDistances[minI]
    /\ nnDistances[minI] < InfDistance
    /\ \A j, k \in Docs : nnDistances[minI] <= distances[j][k]

\* The first row with the smallest of the nearest distances leads to a closest
\* pair of the matrix.
LEMMA MinElementIsClosest ==
    ASSUME TypeOK, MatrixInv, NEW i \in Docs, IsMinElement(i), nnDistances[i] < InfDistance
    PROVE  IsClosestPair(i, nn[i])
<1>1. /\ nn[i] \in Docs /\ i \in Int /\ nn[i] \in Int /\ InfDistance \in Int
      /\ \A j \in Docs : nnDistances[j] \in Int
      /\ \A j, k \in Docs : distances[j][k] \in Int
  BY Numbers
<1>2. distances[i][nn[i]] = nnDistances[i]
  BY DEF MatrixInv, NeighboursAreNearest
<1>3. distances[nn[i]][i] = nnDistances[i]
  BY <1>1, <1>2 DEF MatrixInv, Symmetric
<1>4. i # nn[i] /\ labels[i] = i /\ labels[nn[i]] = nn[i]
  BY <1>1, <1>2, <1>3 DEF MatrixInv, RowsAreClusters
<1>5. nnDistances[nn[i]] <= nnDistances[i]
  BY <1>1, <1>3 DEF MatrixInv, NeighboursAreNearest
<1>6. i < nn[i]
  BY <1>1, <1>4, <1>5 DEF IsMinElement
<1>7. ASSUME NEW j \in Docs, NEW k \in Docs PROVE nnDistances[i] <= distances[j][k]
  <2>1. nnDistances[i] <= nnDistances[j]
    BY <1>1 DEF IsMinElement
  <2>2. nnDistances[j] <= distances[j][k]
    BY DEF MatrixInv, NeighboursAreNearest
  <2> QED
    BY <1>1, <2>1, <2>2
<1> QED
  BY <1>2, <1>4, <1>6, <1>7 DEF IsClosestPair

LEMMA LevelPair ==
    ASSUME TypeOK, MatrixInv, NEW minI \in Docs, NEW minJ \in Docs,
           ClosestPair(minI, minJ, nnDistances[minI]), nnDistances[minI] <= config.small_threshold
    PROVE  IsClosestPair(minI, minJ)
<1>1. config \in Configs /\ nnDistances[minI] \in Int /\ InfDistance \in Int
  BY BatchAssumption DEF TypeOK, Distance
<1>2. nnDistances[minI] < InfDistance
  BY <1>1, ConfigType
<1> QED
  BY <1>2, MinElementIsClosest DEF ClosestPair

\* A search for the nearest of K ends with the smallest distance of the row, and
\* where it is.
LEMMA SearchFindsNearest ==
    ASSUME NEW row \in [Docs -> Distance], NEW K \in SUBSET Docs, NEW old,
           NEW k \in Docs, IsNearest(k, row, K, old)
    PROVE  /\ \A l \in K : NearestDistance(k, row, K) <= row[l]
           /\ NearestDistance(k, row, K) < InfDistance =>
                 k \in K /\ row[k] = NearestDistance(k, row, K)
<1>1. InfDistance \in Int /\ \A l \in Docs : row[l] \in Int /\ row[l] <= InfDistance
  BY BatchAssumption DEF Distance
<1> QED
  BY <1>1 DEF IsNearest, NearestDistance

-----------------------------------------------------------------------------
\* What a link does to labels and matrix.
LEMMA LinkFacts ==
    ASSUME TypeOK, MatrixInv, NEW minI \in Docs, NEW minJ \in Docs, Link(minI, minJ)
    PROVE  /\ IsClosestPair(minI, minJ)
           /\ \A i \in Docs : labels'[i] = IF labels[i] = minJ THEN minI ELSE labels[i]
           /\ \A i, j \in Docs :
                 distances'[i][j] =
                     IF i = minJ \/ j = minJ THEN InfDistance
                     ELSE IF i = minI /\ j # minI THEN LinkedDistance(minI, minJ, j)
                     ELSE IF j = minI /\ i # minI THEN LinkedDistance(minI, minJ, i)
                     ELSE distances[i][j]
<1>1. IsClosestPair(minI, minJ)
  BY LevelPair DEF Link
<1>2. minI # minJ /\ labels[minI] = minI /\ labels[minJ] = minJ /\ Docs \subseteq Int
  BY <1>1, BatchAssumption DEF IsClosestPair, Docs
<1>3. \A i \in Docs : labels'[i] = IF labels[i] = minJ THEN minI ELSE labels[i]
  BY <1>2 DEF Link, Relabelled
<1> DEFINE entry(i, j) ==
        CASE i = minJ \/ j = minJ -> InfDistance
          [] i = minI /\ j \notin {minI, minJ} -> LinkedDistance(minI, minJ, j)
          [] j = minI /\ i \notin {minI, minJ} -> LinkedDistance(minI, minJ, i)
          [] OTHER -> distances[i][j]
<1>4. distances' = [i \in Docs |-> [j \in Docs |-> entry(i, j)]]
  BY DEF Link, LinkedMatrix
<1>5. \A i, j \in Docs :
         entry(i, j) =
             IF i = minJ \/ j = minJ THEN InfDistance
             ELSE IF i = minI /\ j # minI THEN LinkedDistance(minI, minJ, j)
             ELSE IF j = minI /\ i # minI THEN LinkedDistance(minI, minJ, i)
             ELSE distances[i][j]
  BY <1>2
<1> HIDE DEF entry
<1>6. \A i, j \in Docs : distances'[i][j] = entry(i, j)
  BY <1>4
<1> QED
  BY <1>1, <1>3, <1>5, <1>6

\* What a rejection does to them.
LEMMA RejectFacts ==
    ASSUME TypeOK, MatrixInv, NEW minI \in Docs, NEW minJ \in Docs, RejectLink(minI, minJ)
    PROVE  /\ IsClosestPair(minI, minJ)
           /\ labels' = labels
           /\ \A i, j \in Docs :
                 distances'[i][j] =
                     IF {i, j} = {minI, minJ} THEN InfDistance ELSE distances[i][j]
<1>1. IsClosestPair(minI, minJ)
  BY LevelPair DEF RejectLink
<1>2. distances' = [distances EXCEPT ![minI][minJ] = InfDistance, ![minJ][minI] = InfDistance]
  BY DEF RejectLink
<1>3. distances \in [Docs -> [Docs -> Distance]] /\ minI # minJ
  BY <1>1, Numbers DEF TypeOK, IsClosestPair
<1>4. \A i, j \in Docs :
         distances'[i][j] =
             IF (i = minI /\ j = minJ) \/ (i = minJ /\ j = minI) THEN InfDistance
             ELSE distances[i][j]
  BY <1>2, <1>3
<1>5. \A i, j : {i, j} = {minI, minJ} <=> (i = minI /\ j = minJ) \/ (i = minJ /\ j = minI)
  OBVIOUS
<1>6. labels' = labels
  BY DEF RejectLink
<1> QED
  BY <1>1, <1>4, <1>5, <1>6

\* No step makes anything closer than the pair it looked at.
LEMMA NothingGetsCloser ==
    ASSUME TypeOK, MatrixInv, NEW minI \in Docs, NEW minJ \in Docs,
           Link(minI, minJ) \/ RejectLink(minI, minJ)
    PROVE  \A i, j \in Docs : nnDistances[minI] <= distances'[i][j]
<1>1. /\ InfDistance \in Int
      /\ \A i \in Docs : nnDistances[i] \in Int /\ nnDistances[i] <= InfDistance
      /\ \A i, j \in Docs : distances[i][j] \in Int
  BY Numbers
<1>2. CASE Link(minI, minJ)
  <2>1. \A i, j \in Docs : nnDistances[minI] <= distances[i][j]
    BY <1>2, LinkFacts DEF IsClosestPair
  <2>2. \A k \in Docs : nnDistances[minI] <= LinkedDistance(minI, minJ, k)
    BY <2>1 DEF LinkedDistance, Smaller
  <2> QED
    BY <1>1, <1>2, <2>1, <2>2, LinkFacts
<1>3. CASE RejectLink(minI, minJ)
  <2>1. \A i, j \in Docs : nnDistances[minI] <= distances[i][j]
    BY <1>3, RejectFacts DEF IsClosestPair
  <2> QED
    BY <1>1, <1>3, <2>1, RejectFacts
<1> QED
  BY <1>2, <1>3

LEMMA MatrixInit == Init => MatrixInv
<1> SUFFICES ASSUME Init PROVE MatrixInv
  OBVIOUS
<1>1. TypeOK
  BY TypeInit
<1>2. PICK between \in [Pairs -> Distance] : given = CalcDistances(between)
  BY DEF Init
<1>3. distances = given /\ labels = [i \in Docs |-> i]
  BY DEF Init
<1>4. \A i, j \in Docs : given[i][j] = IF i = j THEN InfDistance ELSE between[{i, j}]
  BY <1>2 DEF CalcDistances
<1>5. \A i, j \in Docs : given[i][j] = given[j][i]
  <2> SUFFICES ASSUME NEW i \in Docs, NEW j \in Docs PROVE given[i][j] = given[j][i]
    OBVIOUS
  <2>1. CASE i = j
    BY <2>1
  <2>2. CASE i # j
    <3>1. {i, j} = {j, i}
      OBVIOUS
    <3>2. given[i][j] = between[{i, j}] /\ given[j][i] = between[{j, i}]
      BY <1>4, <2>2, Zenon
    <3> QED
      BY <3>1, <3>2, Zenon
  <2> QED
    BY <2>1, <2>2
<1>6. RowsAreClusters
  <2>1. \A i \in Docs : given[i][i] = InfDistance
    BY <1>4, Zenon
  <2>2. \A i \in Docs : labels[i] = i
    BY <1>3
  <2> QED
    BY <1>1, <1>3, <2>1, <2>2, Numbers DEF RowsAreClusters
<1>7. NeighboursAreNearest
  <2>1. \A i \in Docs : nn[i] \in Docs /\ IsMinCoeff(nn[i], distances[i])
    BY DEF Init
  <2>2. \A i \in Docs : nnDistances[i] = distances[i][nn[i]]
    BY DEF Init
  <2> QED
    BY <1>1, <2>1, <2>2, Numbers DEF IsMinCoeff, NeighboursAreNearest
<1>8. LabelsPrecede
  BY <1>1, <1>3, Numbers DEF LabelsPrecede
<1> QED
  BY <1>3, <1>5, <1>6, <1>7, <1>8 DEF MatrixInv, Symmetric

LEMMA LinkKeepsMatrix ==
    ASSUME TypeOK, MatrixInv, NEW minI \in Docs, NEW minJ \in Docs, Link(minI, minJ)
    PROVE  MatrixInv'
<1> DEFINE others == Docs \ {minI, minJ}
           linked == LinkedMatrix(minI, minJ)
<1>1. /\ IsClosestPair(minI, minJ) /\ given' = given
      /\ minI < minJ /\ minI # minJ /\ labels[minI] = minI /\ labels[minJ] = minJ
  <2>1. IsClosestPair(minI, minJ)
    BY LinkFacts
  <2>2. given' = given
    BY DEF Link, inputs
  <2>3. minI < minJ /\ minI # minJ
    BY <2>1, Numbers DEF IsClosestPair
  <2> QED
    BY <2>1, <2>2, <2>3 DEF IsClosestPair
<1>2. \A i, j \in Docs :
         distances'[i][j] =
             IF i = minJ \/ j = minJ THEN InfDistance
             ELSE IF i = minI /\ j # minI THEN LinkedDistance(minI, minJ, j)
             ELSE IF j = minI /\ i # minI THEN LinkedDistance(minI, minJ, i)
             ELSE distances[i][j]
  BY LinkFacts
<1>3. \A i \in Docs : labels'[i] = IF labels[i] = minJ THEN minI ELSE labels[i]
  BY LinkFacts
<1>4. \A k \in Docs :
         /\ LinkedDistance(minI, minJ, k) \in {distances[minI][k], distances[minJ][k]}
         /\ LinkedDistance(minI, minJ, k) <= distances[minI][k]
         /\ LinkedDistance(minI, minJ, k) <= distances[minJ][k]
  BY Numbers DEF LinkedDistance, Smaller
<1>5. \A i, j \in Docs : distances[i][j] = distances[j][i] /\ given[i][j] = given[j][i]
  BY DEF MatrixInv, Symmetric
<1>6. Symmetric'
  BY <1>1, <1>2, <1>5 DEF Symmetric
<1>7. \A i, j \in Docs : distances[i][j] < InfDistance => i # j /\ labels[i] = i
  BY DEF MatrixInv, RowsAreClusters
<1>8. RowsAreClusters'
  <2> SUFFICES ASSUME NEW i \in Docs, NEW j \in Docs, distances'[i][j] < InfDistance
               PROVE  i # j /\ labels'[i] = i
    BY DEF RowsAreClusters
  <2>1. i # minJ /\ j # minJ
    BY <1>2, Numbers
  <2>2. CASE i = minI
    BY <1>1, <1>2, <1>3, <1>7, <2>1, <2>2
  <2>3. CASE i # minI
    <3>1. i # j /\ labels[i] = i
      BY <1>2, <1>4, <1>5, <1>7, <2>1, <2>3
    <3> QED
      BY <1>3, <2>1, <3>1
  <2> QED
    BY <2>2, <2>3
<1>9. LabelsPrecede'
  <2>1. \A i \in Docs : labels[i] <= i /\ labels[labels[i]] = labels[i] /\ labels[i] \in Docs
    BY Numbers DEF MatrixInv, LabelsPrecede
  <2>2. minI \in Int /\ minJ \in Int /\ \A i \in Docs : i \in Int
    BY Numbers
  <2>3. ASSUME NEW i \in Docs PROVE labels'[i] <= i /\ labels'[labels'[i]] = labels'[i]
    <3>1. CASE labels[i] = minJ
      <4>1. labels'[i] = minI /\ labels'[minI] = minI /\ minJ <= i
        BY <1>1, <1>3, <2>1, <3>1
      <4> QED
        BY <1>1, <2>2, <4>1
    <3>2. CASE labels[i] # minJ
      BY <1>3, <2>1, <3>2
    <3> QED
      BY <3>1, <3>2
  <2> QED
    BY <2>3 DEF LabelsPrecede
<1>10. PICK ki \in Docs :
          /\ IsNearest(ki, linked[minI], others, minJ)
          /\ nn' = [[k \in Docs |-> Repointed(minI, minJ, k)]
                        EXCEPT ![minI] = ki, ![minJ] = nn[minJ]]
          /\ nnDistances' =
                [[k \in Docs |-> RepointedDistance(minI, minJ, k)]
                    EXCEPT ![minI] = NearestDistance(ki, linked[minI], others),
                           ![minJ] = InfDistance]
  BY DEF Link
<1>11. distances' = linked /\ linked \in [Docs -> [Docs -> Distance]]
  BY LinkedType DEF Link
<1> DEFINE found == NearestDistance(ki, linked[minI], others)
<1>12. /\ \A l \in others : found <= linked[minI][l]
       /\ found < InfDistance => ki \in others /\ linked[minI][ki] = found
  <2>1. linked[minI] \in [Docs -> Distance] /\ others \in SUBSET Docs
    BY <1>11
  <2> HIDE DEF linked, others
  <2> QED
    BY <1>10, <2>1, SearchFindsNearest
<1>13. /\ nn'[minI] = ki /\ nnDistances'[minI] = found
       /\ nnDistances'[minJ] = InfDistance
       /\ \A k \in others : nn'[k] = Repointed(minI, minJ, k)
       /\ \A k \in others : nnDistances'[k] = RepointedDistance(minI, minJ, k)
  BY <1>1, <1>10
<1>14. found \in Int /\ found <= InfDistance
  BY <1>11, NearestType, BatchAssumption DEF Distance
<1> HIDE DEF found, linked
<1>15. NeighboursAreNearest'
  <2>1. \A i, j \in Docs : nnDistances[i] <= distances[i][j]
    BY DEF MatrixInv, NeighboursAreNearest
  <2>2. \A i \in Docs : nnDistances[i] < InfDistance => distances[i][nn[i]] = nnDistances[i]
    BY DEF MatrixInv, NeighboursAreNearest
  <2>3. \A i, j \in Docs : i = j => distances'[i][j] = InfDistance
    BY <1>2, <1>7, Numbers
  <2>4. ASSUME NEW j \in Docs PROVE nnDistances'[minI] <= distances'[minI][j]
    BY <1>2, <1>11, <1>12, <1>13, <1>14, <2>3
  <2>5. nnDistances'[minI] < InfDistance => distances'[minI][nn'[minI]] = nnDistances'[minI]
    BY <1>11, <1>12, <1>13
  <2>6. \A j \in Docs : nnDistances'[minJ] <= distances'[minJ][j]
    BY <1>2, <1>13, Numbers
  <2>7. ASSUME NEW k \in others
        PROVE  /\ \A j \in Docs : nnDistances'[k] <= distances'[k][j]
               /\ nnDistances'[k] < InfDistance => distances'[k][nn'[k]] = nnDistances'[k]
    <3>1. /\ \A j \in others : distances'[k][j] = distances[k][j]
          /\ distances'[k][minJ] = InfDistance
          /\ distances'[k][minI] = LinkedDistance(minI, minJ, k)
      BY <1>1, <1>2
    <3>2. nnDistances[k] <= LinkedDistance(minI, minJ, k)
      BY <1>4, <1>5, <2>1
    <3>3. CASE nn[k] \in {minI, minJ}
      <4>1. nnDistances'[k] = LinkedDistance(minI, minJ, k) /\ nn'[k] = minI
        BY <1>13, <3>3 DEF Repointed, RepointedDistance
      <4>2. LinkedDistance(minI, minJ, k) <= distances[k][nn[k]]
        BY <1>4, <1>5, <3>3
      <4>3. \A j \in others : LinkedDistance(minI, minJ, k) <= distances[k][j]
        <5> TAKE j \in others
        <5>1. LinkedDistance(minI, minJ, k) \in Int
          BY <1>4, Numbers
        <5>2. CASE nnDistances[k] < InfDistance
          BY <2>1, <2>2, <4>2, <5>1, <5>2, Numbers
        <5>3. CASE ~(nnDistances[k] < InfDistance)
          BY <1>4, <2>1, <5>1, <5>3, Numbers
        <5> QED
          BY <5>2, <5>3
      <4>4. LinkedDistance(minI, minJ, k) <= InfDistance /\ LinkedDistance(minI, minJ, k) \in Int
        BY <1>4, Numbers
      <4> QED
        BY <3>1, <4>1, <4>3, <4>4
    <3>4. CASE nn[k] \notin {minI, minJ}
      <4>1. nnDistances'[k] = nnDistances[k] /\ nn'[k] = nn[k] /\ nn[k] \in others
        BY <1>13, <3>4, Numbers DEF Repointed, RepointedDistance
      <4> QED
        BY <2>1, <2>2, <3>1, <3>2, <4>1, Numbers
    <3> QED
      BY <3>3, <3>4
  <2>8. InfDistance \in Int
    BY Numbers
  <2> QED
    BY <1>13, <2>4, <2>5, <2>6, <2>7, <2>8 DEF NeighboursAreNearest
<1> QED
  BY <1>6, <1>8, <1>9, <1>15 DEF MatrixInv

LEMMA RejectKeepsMatrix ==
    ASSUME TypeOK, MatrixInv, NEW minI \in Docs, NEW minJ \in Docs, RejectLink(minI, minJ)
    PROVE  MatrixInv'
<1> DEFINE others == Docs \ {minI, minJ}
<1>1. /\ IsClosestPair(minI, minJ) /\ given' = given /\ labels' = labels
      /\ minI # minJ
  <2>1. IsClosestPair(minI, minJ) /\ labels' = labels
    BY RejectFacts
  <2>2. given' = given
    BY DEF RejectLink, inputs
  <2> QED
    BY <2>1, <2>2, Numbers DEF IsClosestPair
<1>2. \A i, j \in Docs :
         distances'[i][j] = IF {i, j} = {minI, minJ} THEN InfDistance ELSE distances[i][j]
  BY RejectFacts
<1>3. \A i, j \in Docs :
         /\ {i, j} = {minI, minJ} => distances'[i][j] = InfDistance
         /\ {i, j} # {minI, minJ} => distances'[i][j] = distances[i][j]
  BY <1>2, Zenon
<1>4. Symmetric'
  <2> SUFFICES ASSUME NEW i \in Docs, NEW j \in Docs
               PROVE  given[i][j] = given[j][i] /\ distances'[i][j] = distances'[j][i]
    BY <1>1 DEF Symmetric
  <2>1. given[i][j] = given[j][i] /\ distances[i][j] = distances[j][i]
    BY DEF MatrixInv, Symmetric
  <2>2. {i, j} = {j, i}
    OBVIOUS
  <2> QED
    BY <1>3, <2>1, <2>2, Zenon
<1>5. \A i, j \in Docs : distances'[i][j] < InfDistance => distances'[i][j] = distances[i][j]
  BY <1>3, Numbers
<1>6. RowsAreClusters'
  BY <1>1, <1>5 DEF MatrixInv, RowsAreClusters
<1>7. LabelsPrecede'
  BY <1>1 DEF MatrixInv, LabelsPrecede
<1>8. PICK ki, kj \in Docs :
          /\ IsNearest(ki, distances[minI], others, minJ)
          /\ IsNearest(kj, distances[minJ], others, nn[minJ])
          /\ nn' = [nn EXCEPT ![minI] = ki, ![minJ] = kj]
          /\ nnDistances' =
                [nnDistances EXCEPT ![minI] = NearestDistance(ki, distances[minI], others),
                                    ![minJ] = NearestDistance(kj, distances[minJ], others)]
  BY DEF RejectLink
<1>9. distances \in [Docs -> [Docs -> Distance]] /\ InfDistance \in Int
  BY Numbers DEF TypeOK
<1>10. distances[minI] \in [Docs -> Distance] /\ distances[minJ] \in [Docs -> Distance]
  BY <1>9
<1> DEFINE foundI == NearestDistance(ki, distances[minI], others)
           foundJ == NearestDistance(kj, distances[minJ], others)
<1>11. /\ \A l \in others : foundI <= distances[minI][l]
       /\ foundI < InfDistance => ki \in others /\ distances[minI][ki] = foundI
       /\ \A l \in others : foundJ <= distances[minJ][l]
       /\ foundJ < InfDistance => kj \in others /\ distances[minJ][kj] = foundJ
  <2>1. others \in SUBSET Docs
    OBVIOUS
  <2> HIDE DEF others
  <2> QED
    BY <1>8, <1>10, <2>1, SearchFindsNearest
<1>12. /\ nn'[minI] = ki /\ nnDistances'[minI] = foundI
       /\ nn'[minJ] = kj /\ nnDistances'[minJ] = foundJ
       /\ \A k \in others : nn'[k] = nn[k] /\ nnDistances'[k] = nnDistances[k]
  BY <1>1, <1>8 DEF TypeOK
<1>13. foundI <= InfDistance /\ foundJ <= InfDistance
  BY <1>10, NearestType, BatchAssumption DEF Distance
<1> HIDE DEF foundI, foundJ
<1>14. /\ \A j \in others : distances'[minI][j] = distances[minI][j]
       /\ \A j \in others : distances'[minJ][j] = distances[minJ][j]
       /\ \A k \in others, j \in Docs : distances'[k][j] = distances[k][j]
  <2>1. \A k \in others, j \in Docs : {k, j} # {minI, minJ} /\ {j, k} # {minI, minJ}
    OBVIOUS
  <2> QED
    BY <1>3, <2>1, Zenon
<1>15. /\ distances'[minI][minJ] = InfDistance /\ distances'[minJ][minI] = InfDistance
       /\ distances'[minI][minI] = InfDistance /\ distances'[minJ][minJ] = InfDistance
  <2>1. distances[minI][minI] = InfDistance /\ distances[minJ][minJ] = InfDistance
    BY Numbers DEF MatrixInv, RowsAreClusters
  <2>2. {minI, minI} # {minI, minJ} /\ {minJ, minJ} # {minI, minJ} /\ {minJ, minI} = {minI, minJ}
    BY <1>1
  <2> QED
    BY <1>3, <2>1, <2>2, Zenon
<1>16. NeighboursAreNearest'
  <2>1. /\ \A i, j \in Docs : nnDistances[i] <= distances[i][j]
        /\ \A i \in Docs : nnDistances[i] < InfDistance => distances[i][nn[i]] = nnDistances[i]
    BY DEF MatrixInv, NeighboursAreNearest
  <2>2. /\ \A j \in Docs : nnDistances'[minI] <= distances'[minI][j]
        /\ nnDistances'[minI] < InfDistance => distances'[minI][nn'[minI]] = nnDistances'[minI]
    BY <1>11, <1>12, <1>13, <1>14, <1>15
  <2>3. /\ \A j \in Docs : nnDistances'[minJ] <= distances'[minJ][j]
        /\ nnDistances'[minJ] < InfDistance => distances'[minJ][nn'[minJ]] = nnDistances'[minJ]
    BY <1>11, <1>12, <1>13, <1>14, <1>15
  <2>4. ASSUME NEW k \in others
        PROVE  /\ \A j \in Docs : nnDistances'[k] <= distances'[k][j]
               /\ nnDistances'[k] < InfDistance => distances'[k][nn'[k]] = nnDistances'[k]
    BY <1>12, <1>14, <2>1, Numbers
  <2> QED
    BY <2>2, <2>3, <2>4 DEF NeighboursAreNearest
<1> QED
  BY <1>4, <1>6, <1>7, <1>16 DEF MatrixInv

LEMMA MatrixStep == TypeOK /\ MatrixInv /\ [Next]_vars => MatrixInv'
<1> SUFFICES ASSUME TypeOK, MatrixInv, [Next]_vars PROVE MatrixInv'
  OBVIOUS
<1>1. ASSUME NEW minI \in Docs, NEW minJ \in Docs, RejectLink(minI, minJ) PROVE MatrixInv'
  BY <1>1, RejectKeepsMatrix
<1>2. ASSUME NEW minI \in Docs, NEW minJ \in Docs, Link(minI, minJ) PROVE MatrixInv'
  BY <1>2, LinkKeepsMatrix
<1>3. ASSUME UNCHANGED <<given, distances, labels, nn, nnDistances>> PROVE MatrixInv'
  BY <1>3 DEF MatrixInv, Symmetric, RowsAreClusters, NeighboursAreNearest, LabelsPrecede
<1>4. ASSUME NEW minI \in Docs, StopLinking(minI) PROVE MatrixInv'
  BY <1>3, <1>4 DEF StopLinking, inputs
<1>5. ASSUME LevelsExhausted PROVE MatrixInv'
  BY <1>3, <1>5 DEF LevelsExhausted, inputs
<1>6. ASSUME UNCHANGED vars PROVE MatrixInv'
  BY <1>3, <1>6 DEF vars, inputs
<1> QED
  BY <1>1, <1>2, <1>4, <1>5, <1>6 DEF Next

\* The pair that a level takes from the repaired neighbours is a closest pair of
\* the whole matrix: the repairs of RejectLink and Link suffice.
THEOREM ClosestPairIsFound == Spec => []PairIsClosest
<1>1. TypeOK /\ MatrixInv => PairIsClosest
  <2> SUFFICES ASSUME TypeOK, MatrixInv, NEW i \in Docs, IsMinElement(i),
                      nnDistances[i] < InfDistance
               PROVE  /\ i < nn[i]
                      /\ labels[i] = i /\ labels[nn[i]] = nn[i]
                      /\ distances[i][nn[i]] = nnDistances[i]
                      /\ \A j, k \in Docs : nnDistances[i] <= distances[j][k]
    BY DEF PairIsClosest
  <2> QED
    BY MinElementIsClosest DEF IsClosestPair
<1> QED
  BY TypeInit, TypeStep, MatrixInit, MatrixStep, <1>1, PTL DEF Spec

-----------------------------------------------------------------------------
(***************************************************************************)
(* The distances of successive levels do not decrease.                     *)
(***************************************************************************)

LEMMA DistancesInit == Init => DistancesNeverDecrease
<1> SUFFICES ASSUME Init PROVE \A i \in Docs : 0 <= nnDistances[i]
  BY DEF Init, DistancesNeverDecrease
<1>1. \A i \in Docs : nnDistances[i] \in Distance
  BY TypeInit DEF TypeOK
<1> QED
  BY <1>1 DEF Distance

LEMMA DistancesStep ==
    TypeOK /\ MatrixInv /\ DistancesNeverDecrease /\ [Next]_vars => DistancesNeverDecrease'
<1> SUFFICES ASSUME TypeOK, MatrixInv, DistancesNeverDecrease, [Next]_vars
             PROVE  DistancesNeverDecrease'
  OBVIOUS
<1>1. ASSUME NEW minI \in Docs, NEW minJ \in Docs, Link(minI, minJ) \/ RejectLink(minI, minJ)
      PROVE  DistancesNeverDecrease'
  <2>1. TypeOK' /\ MatrixInv'
    BY TypeStep, MatrixStep
  <2>2. \A i, j \in Docs : nnDistances[minI] <= distances'[i][j]
    BY <1>1, NothingGetsCloser
  <2>3. \A i \in Docs : nnDistances'[i] < InfDistance => distances'[i][nn'[i]] = nnDistances'[i]
    BY <2>1 DEF MatrixInv, NeighboursAreNearest
  <2>4. \A i \in Docs : nn'[i] \in Docs /\ nnDistances'[i] \in Int
    BY <2>1 DEF TypeOK, Distance
  <2>5. nnDistances[minI] \in Int /\ nnDistances[minI] <= InfDistance /\ InfDistance \in Int
    BY Numbers
  <2>6. \A i \in Docs : nnDistances[minI] <= nnDistances'[i]
    BY <2>2, <2>3, <2>4, <2>5
  <2>7. prevStepMinDistance' = nnDistances[minI]
    BY <1>1 DEF Link, RejectLink
  <2> QED
    BY <2>6, <2>7 DEF DistancesNeverDecrease
<1>2. ASSUME NEW minI \in Docs, StopLinking(minI) PROVE DistancesNeverDecrease'
  BY <1>2 DEF StopLinking, DistancesNeverDecrease
<1>3. ASSUME LevelsExhausted PROVE DistancesNeverDecrease'
  BY <1>3 DEF LevelsExhausted, DistancesNeverDecrease
<1>4. ASSUME UNCHANGED vars PROVE DistancesNeverDecrease'
  BY <1>4 DEF vars, DistancesNeverDecrease
<1> QED
  BY <1>1, <1>2, <1>3, <1>4 DEF Next

\* The ENSURE of the loop (slink.cpp:199) never throws: the closest pair of a
\* level is no closer than that of the level before, linked or rejected.
THEOREM EnsureNeverThrows == Spec => []DistancesNeverDecrease
BY TypeInit, TypeStep, MatrixInit, MatrixStep, DistancesInit, DistancesStep, PTL DEF Spec

-----------------------------------------------------------------------------
(***************************************************************************)
(* Labels, sizes and sites of clusters.                                    *)
(***************************************************************************)

LEMMA ClusterIsFinite ==
    \A l : IsFiniteSet(Cluster(l)) /\ Cardinality(Cluster(l)) \in Nat
<1>1. IsFiniteSet(Docs)
  BY BatchAssumption, FS_Interval DEF Docs
<1>2. \A l : Cluster(l) \subseteq Docs
  BY DEF Cluster
<1> QED
  BY <1>1, <1>2, FS_Subset, FS_CardinalityType

LEMMA SizesAdd ==
    ASSUME NEW k, NEW l, Cluster(k) \cap Cluster(l) = {}
    PROVE  Cardinality(Cluster(k) \cup Cluster(l)) =
               Cardinality(Cluster(k)) + Cardinality(Cluster(l))
<1>1. /\ IsFiniteSet(Cluster(k)) /\ Cardinality(Cluster(k)) \in Nat
      /\ IsFiniteSet(Cluster(l)) /\ Cardinality(Cluster(l)) \in Nat
  BY ClusterIsFinite
<1>2. Cardinality(Cluster(k) \cup Cluster(l)) =
          Cardinality(Cluster(k)) + Cardinality(Cluster(l)) - Cardinality({})
  BY <1>1, FS_Union
<1> QED
  BY <1>1, <1>2, FS_EmptySet

\* A link unites two disjoint clusters and leaves the others alone.
LEMMA LinkUnites ==
    ASSUME TypeOK, MatrixInv, NEW minI \in Docs, NEW minJ \in Docs, Link(minI, minJ)
    PROVE  /\ minI \in Cluster(minI) /\ minJ \in Cluster(minJ) /\ minI # minJ
           /\ Cluster(minI) \cap Cluster(minJ) = {}
           /\ Cluster(minI)' = Cluster(minI) \cup Cluster(minJ)
           /\ Cluster(minJ)' = {}
           /\ \A l \in Docs \ {minI, minJ} : Cluster(l)' = Cluster(l)
<1>1. \A i \in Docs : labels'[i] = IF labels[i] = minJ THEN minI ELSE labels[i]
  BY LinkFacts
<1>2. minI # minJ /\ labels[minI] = minI /\ labels[minJ] = minJ
  BY LinkFacts, Numbers DEF IsClosestPair
<1> QED
  BY <1>1, <1>2 DEF Cluster

LEMMA LabelsInit == Init => LabelsAreFirstDocuments
<1> SUFFICES ASSUME Init, NEW i \in Docs
             PROVE  /\ labels[i] <= i
                    /\ labels[labels[i]] = labels[i]
                    /\ clusterSizes[labels[i]] = Cardinality(Cluster(labels[i]))
  BY DEF LabelsAreFirstDocuments
<1>1. labels[i] = i /\ clusterSizes[i] = 1 /\ i \in Int
  BY BatchAssumption DEF Init, Docs
<1>2. Cluster(i) = {i}
  BY DEF Init, Cluster
<1> QED
  BY <1>1, <1>2, FS_Singleton

LEMMA LabelsStep ==
    TypeOK /\ MatrixInv /\ LabelsAreFirstDocuments /\ [Next]_vars => LabelsAreFirstDocuments'
<1> SUFFICES ASSUME TypeOK, MatrixInv, LabelsAreFirstDocuments, [Next]_vars
             PROVE  LabelsAreFirstDocuments'
  OBVIOUS
<1>1. ASSUME NEW minI \in Docs, NEW minJ \in Docs, Link(minI, minJ)
      PROVE  LabelsAreFirstDocuments'
  <2>1. LabelsPrecede'
    BY MatrixStep DEF MatrixInv
  <2>2. \A i \in Docs : labels'[i] = IF labels[i] = minJ THEN minI ELSE labels[i]
    BY <1>1, LinkFacts
  <2>3. minI # minJ /\ labels[minI] = minI /\ labels[minJ] = minJ
    BY <1>1, LinkFacts, Numbers DEF IsClosestPair
  <2>4. \A i \in Docs : labels[i] \in Docs /\ clusterSizes[labels[i]] = Cardinality(Cluster(labels[i]))
    BY Numbers DEF LabelsAreFirstDocuments
  <2>5. clusterSizes' = [clusterSizes EXCEPT ![minI] = clusterSizes[minI] + clusterSizes[minJ],
                                             ![minJ] = clusterSizes[minI] + clusterSizes[minJ]]
    BY <1>1 DEF Link
  <2>6. /\ clusterSizes'[minI] = clusterSizes[minI] + clusterSizes[minJ]
        /\ \A l \in Docs \ {minI, minJ} : clusterSizes'[l] = clusterSizes[l]
    BY <2>3, <2>5 DEF TypeOK
  <2>7. Cardinality(Cluster(minI) \cup Cluster(minJ)) =
            Cardinality(Cluster(minI)) + Cardinality(Cluster(minJ))
    <3>1. Cluster(minI) \cap Cluster(minJ) = {}
      BY <1>1, LinkUnites
    <3> QED
      BY <3>1, SizesAdd
  <2>8. clusterSizes'[minI] = Cardinality(Cluster(minI)')
    <3>1. Cluster(minI)' = Cluster(minI) \cup Cluster(minJ)
      BY <1>1, LinkUnites
    <3> QED
      BY <2>3, <2>4, <2>6, <2>7, <3>1
  <2>9. ASSUME NEW l \in Docs, \E i \in Docs : labels'[i] = l
        PROVE  clusterSizes'[l] = Cardinality(Cluster(l)')
    <3>1. CASE l = minI
      BY <2>8, <3>1
    <3>2. CASE l # minI
      <4>1. PICK i \in Docs : labels[i] = l /\ l \in Docs \ {minI, minJ}
        BY <2>2, <2>9, <3>2
      <4>2. Cluster(l)' = Cluster(l)
        BY <1>1, <4>1, LinkUnites
      <4> QED
        BY <2>4, <2>6, <4>1, <4>2
    <3> QED
      BY <3>1, <3>2
  <2>10. \A l \in Docs : (\E i \in Docs : labels'[i] = l) =>
             clusterSizes'[l] = Cardinality({j \in Docs : labels'[j] = l})
    BY <2>9 DEF Cluster
  <2>11. \A i \in Docs : labels'[i] \in Docs
    BY TypeStep DEF TypeOK
  <2> QED
    BY <2>1, <2>10, <2>11 DEF LabelsPrecede, LabelsAreFirstDocuments, Cluster
<1>2. ASSUME UNCHANGED <<labels, clusterSizes>> PROVE LabelsAreFirstDocuments'
  BY <1>2 DEF LabelsAreFirstDocuments, Cluster
<1>3. ASSUME NEW minI \in Docs, NEW minJ \in Docs, RejectLink(minI, minJ)
      PROVE  LabelsAreFirstDocuments'
  BY <1>2, <1>3 DEF RejectLink
<1>4. ASSUME NEW minI \in Docs, StopLinking(minI) PROVE LabelsAreFirstDocuments'
  BY <1>2, <1>4 DEF StopLinking
<1>5. ASSUME LevelsExhausted PROVE LabelsAreFirstDocuments'
  BY <1>2, <1>5 DEF LevelsExhausted
<1>6. ASSUME UNCHANGED vars PROVE LabelsAreFirstDocuments'
  BY <1>2, <1>6 DEF vars
<1> QED
  BY <1>1, <1>3, <1>4, <1>5, <1>6 DEF Next

\* Every cluster is named by its first document, and under that name its size is
\* known: what stitchers and acceptance checks rely on.
THEOREM LabelsNameClusters == Spec => []LabelsAreFirstDocuments
BY TypeInit, TypeStep, MatrixInit, MatrixStep, LabelsInit, LabelsStep, PTL DEF Spec

-----------------------------------------------------------------------------
\* With ban_same_hosts, a cluster's site names are those of its documents.
SitesAreKnown ==
    config.ban_same_hosts =>
        \A l \in Docs : labels[l] = l => clusterSiteNames[l] = {site[i] : i \in Cluster(l)}

SiteInv == SitesAreDistinct /\ SitesAreKnown

LEMMA SiteInit == Init => SiteInv
<1> SUFFICES ASSUME Init, config.ban_same_hosts PROVE SiteInv
  BY DEF SiteInv, SitesAreDistinct, SitesAreKnown
<1>1. \A i \in Docs : labels[i] = i /\ clusterSiteNames[i] = {site[i]}
  BY DEF Init
<1>2. \A i \in Docs : Cluster(i) = {i}
  BY <1>1 DEF Cluster
<1> QED
  BY <1>1, <1>2 DEF SiteInv, SitesAreDistinct, SitesAreKnown

LEMMA SiteStep == TypeOK /\ MatrixInv /\ SiteInv /\ [Next]_vars => SiteInv'
<1> SUFFICES ASSUME TypeOK, MatrixInv, SiteInv, [Next]_vars PROVE SiteInv'
  OBVIOUS
<1>1. ASSUME NEW minI \in Docs, NEW minJ \in Docs, Link(minI, minJ) PROVE SiteInv'
  <2>1. config' = config /\ site' = site
    BY <1>1 DEF Link, inputs
  <2> SUFFICES ASSUME config.ban_same_hosts
               PROVE  /\ \A i, j \in Docs : i # j /\ labels'[i] = labels'[j] => site[i] # site[j]
                      /\ \A l \in Docs : labels'[l] = l =>
                             clusterSiteNames'[l] = {site[i] : i \in Cluster(l)'}
    BY <2>1 DEF SiteInv, SitesAreDistinct, SitesAreKnown, Cluster
  <2>2. \A i \in Docs : labels'[i] = IF labels[i] = minJ THEN minI ELSE labels[i]
    BY <1>1, LinkFacts
  <2>3. minI # minJ /\ labels[minI] = minI /\ labels[minJ] = minJ
    BY <1>1, LinkFacts, Numbers DEF IsClosestPair
  <2>4. clusterSiteNames[minI] \cap clusterSiteNames[minJ] = {}
    BY <1>1 DEF Link, IsAcceptable, HasSameSource
  <2>5. \A l \in Docs : labels[l] = l => clusterSiteNames[l] = {site[i] : i \in Cluster(l)}
    BY DEF SiteInv, SitesAreKnown
  <2>6. \A i, j \in Docs : i # j /\ labels[i] = labels[j] => site[i] # site[j]
    BY DEF SiteInv, SitesAreDistinct
  <2>7. \A i, j \in Docs : labels[i] = minI /\ labels[j] = minJ => site[i] # site[j]
    BY <2>3, <2>4, <2>5 DEF Cluster
  <2>8. \A i, j \in Docs : i # j /\ labels'[i] = labels'[j] => site[i] # site[j]
    BY <2>2, <2>6, <2>7
  <2>9. /\ clusterSiteNames'[minI] = clusterSiteNames[minI] \cup clusterSiteNames[minJ]
        /\ \A l \in Docs \ {minI} : clusterSiteNames'[l] = clusterSiteNames[l]
    BY <1>1 DEF Link, UnitedSites, TypeOK
  <2>10. ASSUME NEW l \in Docs, labels'[l] = l
         PROVE  clusterSiteNames'[l] = {site[i] : i \in Cluster(l)'}
    <3>1. CASE l = minI
      <4>1. Cluster(minI)' = Cluster(minI) \cup Cluster(minJ)
        BY <1>1, LinkUnites
      <4> QED
        BY <2>3, <2>5, <2>9, <3>1, <4>1
    <3>2. CASE l # minI
      <4>1. labels[l] = l /\ l # minJ
        BY <2>2, <2>3, <2>10, <3>2
      <4>2. Cluster(l)' = Cluster(l)
        BY <1>1, <3>2, <4>1, LinkUnites
      <4> QED
        BY <2>5, <2>9, <3>2, <4>1, <4>2
    <3> QED
      BY <3>1, <3>2
  <2> QED
    BY <2>8, <2>10
<1>2. ASSUME UNCHANGED <<config, site, labels, clusterSiteNames>> PROVE SiteInv'
  BY <1>2 DEF SiteInv, SitesAreDistinct, SitesAreKnown, Cluster
<1>3. ASSUME NEW minI \in Docs, NEW minJ \in Docs, RejectLink(minI, minJ) PROVE SiteInv'
  BY <1>2, <1>3 DEF RejectLink, inputs
<1>4. ASSUME NEW minI \in Docs, StopLinking(minI) PROVE SiteInv'
  BY <1>2, <1>4 DEF StopLinking, inputs
<1>5. ASSUME LevelsExhausted PROVE SiteInv'
  BY <1>2, <1>5 DEF LevelsExhausted, inputs
<1>6. ASSUME UNCHANGED vars PROVE SiteInv'
  BY <1>2, <1>6 DEF vars, inputs
<1> QED
  BY <1>1, <1>3, <1>4, <1>5, <1>6 DEF Next

\* With ban_same_hosts, no two documents of one site end up in one cluster.
THEOREM NoSiteTwice == Spec => []SitesAreDistinct
<1>1. SiteInv => SitesAreDistinct
  BY DEF SiteInv
<1> QED
  BY TypeInit, TypeStep, MatrixInit, MatrixStep, SiteInit, SiteStep, <1>1, PTL DEF Spec

-----------------------------------------------------------------------------
(***************************************************************************)
(* How tightly clusters are linked.                                        *)
(***************************************************************************)

\* Between two clusters that can still be linked, some two documents are as
\* close as the matrix says.
DistancesAreGiven ==
    \A i, j \in Docs : distances[i][j] < InfDistance =>
        \E a \in Cluster(i), b \in Cluster(j) : given[a][b] <= distances[i][j]

\* One cluster's part of BigClustersAreTight.
Tight(C) ==
    /\ Linked(C, config.small_threshold)
    /\ Cardinality(C) > 1 /\ Cardinality(C) > config.small_cluster_size =>
          IF Cardinality(C) <= config.medium_cluster_size
          THEN Linked(C, config.medium_threshold)
          ELSE Cardinality(C) <= config.large_cluster_size /\ Linked(C, config.large_threshold)

\* So far, nothing was linked that is farther apart than the level before.
LinkedSoFar == pc = "link" => \A C \in Clusters : Linked(C, prevStepMinDistance)

TightInv == DistancesAreGiven /\ LinkedSoFar /\ (\A C \in Clusters : Tight(C))

\* A threshold may be raised.
LEMMA LinkedMonotone ==
    ASSUME TypeOK, NEW C \in SUBSET Docs, NEW s \in Int, NEW t \in Int, s <= t, Linked(C, s)
    PROVE  Linked(C, t)
<1> SUFFICES ASSUME NEW A \in (SUBSET C) \ {{}, C}
             PROVE  \E i \in A, j \in C \ A : given[i][j] <= t
  BY DEF Linked
<1>1. PICK i \in A, j \in C \ A : given[i][j] <= s
  BY DEF Linked
<1>2. given[i][j] \in Int
  BY Numbers
<1> QED
  BY <1>1, <1>2

\* One short distance between two clusters links them.
LEMMA LinkedUnion ==
    ASSUME TypeOK, MatrixInv, NEW C \in SUBSET Docs, NEW D \in SUBSET Docs, NEW t \in Int,
           Linked(C, t), Linked(D, t), NEW a \in C, NEW b \in D, given[a][b] <= t
    PROVE  Linked(C \cup D, t)
<1> SUFFICES ASSUME NEW A \in (SUBSET (C \cup D)) \ {{}, C \cup D}
             PROVE  \E i \in A, j \in (C \cup D) \ A : given[i][j] <= t
  BY DEF Linked
<1>1. CASE A \cap C # {} /\ ~(C \subseteq A)
  <2> DEFINE B == A \cap C
  <2>1. B \in SUBSET C /\ B # {} /\ B # C
    BY <1>1
  <2> HIDE DEF B
  <2>2. PICK i \in B, j \in C \ B : given[i][j] <= t
    BY <2>1 DEF Linked
  <2> QED
    BY <2>2 DEF B
<1>2. CASE A \cap D # {} /\ ~(D \subseteq A)
  <2> DEFINE B == A \cap D
  <2>1. B \in SUBSET D /\ B # {} /\ B # D
    BY <1>2
  <2> HIDE DEF B
  <2>2. PICK i \in B, j \in D \ B : given[i][j] <= t
    BY <2>1 DEF Linked
  <2> QED
    BY <2>2 DEF B
<1>3. CASE (A \cap C = {} \/ C \subseteq A) /\ (A \cap D = {} \/ D \subseteq A)
  <2>1. (a \in A <=> C \subseteq A) /\ (b \in A <=> D \subseteq A)
    BY <1>3
  <2>2. CASE a \in A /\ b \notin A
    BY <2>2
  <2>3. CASE b \in A /\ a \notin A
    <3>1. given[b][a] <= t
      BY DEF MatrixInv, Symmetric
    <3> QED
      BY <2>3, <3>1
  <2>4. CASE a \in A /\ b \in A
    <3>1. A = C \cup D
      BY <2>1, <2>4
    <3> QED
      BY <3>1
  <2>5. CASE a \notin A /\ b \notin A
    <3>1. A = {}
      BY <1>3, <2>1, <2>5
    <3> QED
      BY <3>1
  <2> QED
    BY <2>2, <2>3, <2>4, <2>5
<1> QED
  BY <1>1, <1>2, <1>3

\* A document is linked with itself.
LEMMA LinkedSingle == \A i, t : Linked({i}, t)
<1>1. \A i : \A A \in SUBSET {i} : A = {} \/ A = {i}
  OBVIOUS
<1> QED
  BY <1>1, Zenon DEF Linked

LEMMA TightInit == Init => TightInv
<1> SUFFICES ASSUME Init PROVE TightInv
  OBVIOUS
<1>1. \A i \in Docs : Cluster(i) = {i}
  BY DEF Init, Cluster
<1>2. DistancesAreGiven
  <2> SUFFICES ASSUME NEW i \in Docs, NEW j \in Docs
               PROVE  \E a \in Cluster(i), b \in Cluster(j) : given[a][b] <= distances[i][j]
    BY DEF DistancesAreGiven
  <2>1. given[i][j] = distances[i][j] /\ given[i][j] \in Int
    BY TypeInit, Numbers DEF Init
  <2> QED
    BY <1>1, <2>1
<1>3. \A C \in Clusters : \E i \in Docs : C = {i}
  <2>1. \A i \in Docs : labels[i] = i
    BY DEF Init
  <2> QED
    BY <1>1, <2>1 DEF Clusters
<1>4. \A C \in Clusters : Cardinality(C) = 1
  BY <1>3, FS_Singleton
<1>5. \A C \in Clusters : \A t : Linked(C, t)
  <2> TAKE C \in Clusters
  <2>1. PICK i \in Docs : C = {i}
    BY <1>3
  <2>2. \A t : Linked({i}, t)
    BY LinkedSingle
  <2> QED
    BY <2>1, <2>2
<1>6. \A C \in Clusters : Tight(C)
  <2> TAKE C \in Clusters
  <2>1. ~(Cardinality(C) > 1)
    BY <1>4
  <2> QED
    BY <1>5, <2>1, Zenon DEF Tight
<1> QED
  BY <1>2, <1>5, <1>6 DEF TightInv, LinkedSoFar

LEMMA DistancesAreGivenStep ==
    ASSUME TypeOK, MatrixInv, DistancesAreGiven, NEW minI \in Docs, NEW minJ \in Docs,
           Link(minI, minJ) \/ RejectLink(minI, minJ)
    PROVE  DistancesAreGiven'
<1>1. CASE RejectLink(minI, minJ)
  <2>1. \A i, j \in Docs : distances'[i][j] < InfDistance => distances'[i][j] = distances[i][j]
    BY <1>1, RejectFacts, Numbers
  <2>2. labels' = labels /\ given' = given
    BY <1>1 DEF RejectLink, inputs
  <2> QED
    BY <2>1, <2>2 DEF DistancesAreGiven, Cluster
<1>2. CASE Link(minI, minJ)
  <2>1. \A i, j \in Docs :
           distances'[i][j] =
               IF i = minJ \/ j = minJ THEN InfDistance
               ELSE IF i = minI /\ j # minI THEN LinkedDistance(minI, minJ, j)
               ELSE IF j = minI /\ i # minI THEN LinkedDistance(minI, minJ, i)
               ELSE distances[i][j]
    BY <1>2, LinkFacts
  <2>2. /\ Cluster(minI)' = Cluster(minI) \cup Cluster(minJ)
        /\ \A l \in Docs \ {minI, minJ} : Cluster(l)' = Cluster(l)
    BY <1>2, LinkUnites
  <2>3. given' = given
    BY <1>2 DEF Link, inputs
  <2>4. \A i, j \in Docs : distances[i][j] < InfDistance =>
           \E a \in Cluster(i), b \in Cluster(j) : given[a][b] <= distances[i][j]
    BY DEF DistancesAreGiven
  <2>5. \A i, j \in Docs : distances[i][j] = distances[j][i] /\ given[i][j] = given[j][i]
    BY DEF MatrixInv, Symmetric
  <2>6. \A k \in Docs :
           LinkedDistance(minI, minJ, k) \in {distances[minI][k], distances[minJ][k]}
    BY DEF LinkedDistance, Smaller
  <2>7. \A i \in Docs : distances[i][i] = InfDistance
    BY Numbers DEF MatrixInv, RowsAreClusters
  <2>8. ASSUME NEW i \in Docs, NEW j \in Docs, distances'[i][j] < InfDistance
        PROVE  \E a \in Cluster(i)', b \in Cluster(j)' : given[a][b] <= distances'[i][j]
    <3>1. i # minJ /\ j # minJ
      BY <2>1, <2>8, Numbers
    <3>2. CASE i = minI /\ j # minI
      <4>1. distances'[i][j] = LinkedDistance(minI, minJ, j)
        BY <2>1, <3>1, <3>2
      <4>2. PICK m \in {minI, minJ} : distances'[i][j] = distances[m][j]
        BY <2>6, <4>1
      <4>3. PICK a \in Cluster(m), b \in Cluster(j) : given[a][b] <= distances[m][j]
        BY <2>4, <2>8, <4>2
      <4> QED
        BY <2>2, <3>1, <3>2, <4>2, <4>3
    <3>3. CASE j = minI /\ i # minI
      <4>1. distances'[i][j] = LinkedDistance(minI, minJ, i)
        BY <2>1, <3>1, <3>3
      <4>2. PICK m \in {minI, minJ} : distances'[i][j] = distances[i][m]
        BY <2>5, <2>6, <4>1
      <4>3. PICK a \in Cluster(i), b \in Cluster(m) : given[a][b] <= distances[i][m]
        BY <2>4, <2>8, <4>2
      <4> QED
        BY <2>2, <3>1, <3>3, <4>2, <4>3
    <3>4. CASE i # minI /\ j # minI
      <4>1. distances'[i][j] = distances[i][j]
        BY <2>1, <3>1, <3>4
      <4> QED
        BY <2>2, <2>4, <2>8, <3>1, <3>4, <4>1
    <3>5. CASE i = minI /\ j = minI
      BY <2>1, <2>7, <2>8, <3>1, <3>5, Numbers
    <3> QED
      BY <3>2, <3>3, <3>4, <3>5
  <2> QED
    BY <2>3, <2>8 DEF DistancesAreGiven, Cluster
<1> QED
  BY <1>1, <1>2

LEMMA LinkTightens ==
    ASSUME TypeOK, MatrixInv, DistancesNeverDecrease, LabelsAreFirstDocuments, TightInv,
           NEW minI \in Docs, NEW minJ \in Docs, Link(minI, minJ)
    PROVE  TightInv'
<1> DEFINE d == nnDistances[minI]
           united == Cluster(minI) \cup Cluster(minJ)
<1>1. /\ IsClosestPair(minI, minJ) /\ pc = "link"
      /\ labels[minI] = minI /\ labels[minJ] = minJ
  <2>1. IsClosestPair(minI, minJ)
    BY LinkFacts
  <2>2. pc = "link"
    BY DEF Link, ClosestPair
  <2> QED
    BY <2>1, <2>2 DEF IsClosestPair
<1>2. given' = given /\ config' = config /\ prevStepMinDistance' = d
  BY DEF Link, inputs
<1>3. /\ d \in Int /\ prevStepMinDistance \in Int /\ prevStepMinDistance <= d
      /\ config.small_threshold \in Int /\ d <= config.small_threshold
      /\ config.medium_threshold \in Int /\ config.large_threshold \in Int
  BY <1>1, ConfigType, Numbers DEF DistancesNeverDecrease, Link, TypeOK
<1>4. Cluster(minI) \in Clusters /\ Cluster(minJ) \in Clusters
  BY <1>1 DEF Clusters
<1>5. \A C \in Clusters : C \in SUBSET Docs
  BY DEF Clusters, Cluster
<1>6. \A C \in Clusters : Linked(C, d)
  BY <1>1, <1>3, <1>5, LinkedMonotone DEF TightInv, LinkedSoFar
<1>7. Linked(united, d)
  <2>1. PICK a \in Cluster(minI), b \in Cluster(minJ) : given[a][b] <= distances[minI][minJ]
    <3>1. distances[minI][minJ] < InfDistance
      BY <1>1 DEF IsClosestPair
    <3> QED
      BY <3>1 DEF TightInv, DistancesAreGiven
  <2>2. given[a][b] <= d
    BY <1>1, <2>1 DEF IsClosestPair
  <2> HIDE DEF d
  <2> QED
    BY <1>3, <1>4, <1>5, <1>6, <2>2, LinkedUnion
<1>8. Cardinality(united) = clusterSizes[minI] + clusterSizes[minJ]
  <2>1. /\ clusterSizes[minI] = Cardinality(Cluster(minI))
        /\ clusterSizes[minJ] = Cardinality(Cluster(minJ))
    BY <1>1 DEF LabelsAreFirstDocuments
  <2>2. Cluster(minI) \cap Cluster(minJ) = {}
    BY LinkUnites
  <2>3. Cardinality(Cluster(minI) \cup Cluster(minJ)) =
            Cardinality(Cluster(minI)) + Cardinality(Cluster(minJ))
    BY <2>2, SizesAdd
  <2> QED
    BY <2>1, <2>3
<1>9. united \in SUBSET Docs /\ Cardinality(united) \in Nat
  BY <1>8 DEF Cluster, TypeOK
<1>10. Tight(united)
  <2>1. IsNewClusterSizeAcceptable(Cardinality(united), d)
    BY <1>8 DEF Link, IsAcceptable
  <2>2. /\ config.small_cluster_size \in Nat /\ config.medium_cluster_size \in Nat
        /\ config.large_cluster_size \in Nat
    BY ConfigType DEF TypeOK
  <2> HIDE DEF united, d
  <2>3. \A t \in Int : d <= t => Linked(united, t)
    BY <1>3, <1>7, <1>9, LinkedMonotone
  <2> QED
    BY <1>3, <1>9, <2>1, <2>2, <2>3 DEF Tight, IsNewClusterSizeAcceptable
<1>11. \A C \in Clusters' : C = united \/ C \in Clusters
  <2>1. Clusters' = {{i \in Docs : labels'[i] = labels'[j]} : j \in Docs}
    BY DEF Clusters, Cluster
  <2>2. \A i \in Docs : labels'[i] = IF labels[i] = minJ THEN minI ELSE labels[i]
    BY LinkFacts
  <2> SUFFICES ASSUME NEW j \in Docs
               PROVE  {i \in Docs : labels'[i] = labels'[j]} \in {united} \cup Clusters
    BY <2>1
  <2>3. CASE labels[j] \in {minI, minJ}
    BY <1>1, <2>2, <2>3 DEF Cluster
  <2>4. CASE labels[j] \notin {minI, minJ}
    <3>1. {i \in Docs : labels'[i] = labels'[j]} = Cluster(labels[j])
      BY <2>2, <2>4 DEF Cluster
    <3> QED
      BY <3>1 DEF Clusters
  <2> QED
    BY <2>3, <2>4
<1>12. \A C : (Tight(C) => Tight(C)') /\ (Linked(C, d) => Linked(C, prevStepMinDistance)')
  BY <1>2 DEF Tight, Linked
<1>13. DistancesAreGiven'
  BY DistancesAreGivenStep DEF TightInv
<1> HIDE DEF united, d
<1>14. \A C \in Clusters' : Tight(C) /\ Linked(C, d)
  BY <1>6, <1>7, <1>10, <1>11 DEF TightInv
<1> QED
  BY <1>12, <1>13, <1>14 DEF TightInv, LinkedSoFar

LEMMA TightStep ==
    /\ TypeOK /\ MatrixInv /\ DistancesNeverDecrease /\ LabelsAreFirstDocuments
    /\ TightInv /\ [Next]_vars
    => TightInv'
<1> SUFFICES ASSUME TypeOK, MatrixInv, DistancesNeverDecrease, LabelsAreFirstDocuments,
                    TightInv, [Next]_vars
             PROVE  TightInv'
  OBVIOUS
<1>1. ASSUME NEW minI \in Docs, NEW minJ \in Docs, Link(minI, minJ) PROVE TightInv'
  BY <1>1, LinkTightens
<1>2. ASSUME NEW minI \in Docs, NEW minJ \in Docs, RejectLink(minI, minJ) PROVE TightInv'
  <2>1. labels' = labels /\ given' = given /\ config' = config /\ pc = "link"
    BY <1>2 DEF RejectLink, ClosestPair, inputs
  <2>2. Clusters' = Clusters /\ \A C : Tight(C) => Tight(C)'
    BY <2>1 DEF Clusters, Cluster, Tight, Linked
  <2>3. DistancesAreGiven'
    BY <1>2, DistancesAreGivenStep DEF TightInv
  <2>4. /\ prevStepMinDistance \in Int /\ prevStepMinDistance' \in Int
        /\ prevStepMinDistance <= prevStepMinDistance'
    BY <1>2, <2>1, Numbers DEF RejectLink, DistancesNeverDecrease
  <2>5. \A C \in Clusters : Linked(C, prevStepMinDistance')
    <3>1. \A C \in Clusters : C \in SUBSET Docs /\ Linked(C, prevStepMinDistance)
      BY <2>1 DEF TightInv, LinkedSoFar, Clusters, Cluster
    <3> QED
      BY <2>4, <3>1, LinkedMonotone
  <2>6. LinkedSoFar'
    BY <2>1, <2>2, <2>5 DEF LinkedSoFar, Linked
  <2> QED
    BY <2>2, <2>3, <2>6 DEF TightInv
<1>3. ASSUME UNCHANGED <<config, given, labels, distances>>,
             pc' = "link" => pc = "link" /\ prevStepMinDistance' = prevStepMinDistance
      PROVE  TightInv'
  <2>1. Clusters' = Clusters /\ \A C : Tight(C) => Tight(C)'
    BY <1>3 DEF Clusters, Cluster, Tight, Linked
  <2>2. DistancesAreGiven'
    BY <1>3 DEF TightInv, DistancesAreGiven, Cluster
  <2>3. LinkedSoFar'
    BY <1>3, <2>1 DEF TightInv, LinkedSoFar, Linked
  <2> QED
    BY <2>1, <2>2, <2>3 DEF TightInv
<1>4. ASSUME NEW minI \in Docs, StopLinking(minI) PROVE TightInv'
  BY <1>3, <1>4 DEF StopLinking, inputs
<1>5. ASSUME LevelsExhausted PROVE TightInv'
  BY <1>3, <1>5 DEF LevelsExhausted, inputs
<1>6. ASSUME UNCHANGED vars PROVE TightInv'
  BY <1>3, <1>6 DEF vars, inputs
<1> QED
  BY <1>1, <1>2, <1>4, <1>5, <1>6 DEF Next

\* The bigger a cluster, the closer its documents are linked, however it grew and
\* whatever was rejected on the way.
THEOREM BigClustersAreLinkedTightly == Spec => []BigClustersAreTight
<1>1. TightInv => BigClustersAreTight
  BY DEF TightInv, Tight, BigClustersAreTight
<1> QED
  BY TypeInit, TypeStep, MatrixInit, MatrixStep, DistancesInit, DistancesStep, LabelsInit,
     LabelsStep, TightInit, TightStep, <1>1, PTL DEF Spec

-----------------------------------------------------------------------------
(***************************************************************************)
(* Single linkage.                                                         *)
(***************************************************************************)

Names == {l \in Docs : labels[l] = l}

\* While nothing is rejected, the matrix knows of each short distance between two
\* clusters, and each level has used up one name.
MatrixIsComplete ==
    \A i, j \in Docs :
        labels[i] # labels[j] => distances[labels[i]][labels[j]] <= given[i][j]

LevelsAreLinks == level < docSize /\ Cardinality(Names) = docSize - level

ClustersAreFarApart ==
    \A i, j \in Docs : labels[i] # labels[j] => given[i][j] > config.small_threshold

SingleInv ==
    NothingIsRejected =>
        /\ MatrixIsComplete
        /\ LevelsAreLinks
        /\ pc = "returned" => ClustersAreFarApart

LEMMA DocsAreFinite == IsFiniteSet(Docs) /\ Cardinality(Docs) = docSize
BY BatchAssumption, FS_Interval DEF Docs

LEMMA SingleInit == Init => SingleInv
<1> SUFFICES ASSUME Init PROVE MatrixIsComplete /\ LevelsAreLinks /\ pc # "returned"
  BY DEF SingleInv
<1>1. /\ distances = given /\ level = 0 /\ pc = "link"
      /\ \A i \in Docs : labels[i] = i
  BY DEF Init
<1>2. MatrixIsComplete
  BY <1>1, TypeInit, Numbers DEF MatrixIsComplete
<1>3. Names = Docs
  BY <1>1 DEF Names
<1>4. docSize \in Nat \ {0}
  BY BatchAssumption
<1>5. LevelsAreLinks
  BY <1>1, <1>3, <1>4, DocsAreFinite DEF LevelsAreLinks
<1> QED
  BY <1>1, <1>2, <1>5

\* Two clusters are no more than all documents, so no link makes too big a one.
LEMMA NoRejection ==
    ASSUME TypeOK, MatrixInv, LabelsAreFirstDocuments, NothingIsRejected,
           NEW minI \in Docs, NEW minJ \in Docs, RejectLink(minI, minJ)
    PROVE  FALSE
<1>1. minI # minJ /\ labels[minI] = minI /\ labels[minJ] = minJ
  BY RejectFacts, Numbers DEF IsClosestPair
<1>2. /\ clusterSizes[minI] = Cardinality(Cluster(minI))
      /\ clusterSizes[minJ] = Cardinality(Cluster(minJ))
  BY <1>1 DEF LabelsAreFirstDocuments
<1>3. Cluster(minI) \cap Cluster(minJ) = {}
  BY <1>1 DEF Cluster
<1>4. Cardinality(Cluster(minI) \cup Cluster(minJ)) = clusterSizes[minI] + clusterSizes[minJ]
  BY <1>2, <1>3, SizesAdd
<1>5. Cluster(minI) \cup Cluster(minJ) \in SUBSET Docs
  BY DEF Cluster
<1>6. Cardinality(Cluster(minI) \cup Cluster(minJ)) <= docSize
  BY <1>5, DocsAreFinite, FS_Subset
<1>7. /\ config.small_cluster_size \in Nat /\ docSize <= config.small_cluster_size
      /\ ~config.ban_same_hosts /\ docSize \in Nat
  BY BatchAssumption, ConfigType DEF NothingIsRejected, TypeOK
<1>8. clusterSizes[minI] + clusterSizes[minJ] \in Nat
  BY DEF TypeOK
<1>9. clusterSizes[minI] + clusterSizes[minJ] <= config.small_cluster_size
  BY <1>4, <1>6, <1>7, <1>8
<1>10. IsAcceptable(minI, minJ, nnDistances[minI])
  BY <1>7, <1>9 DEF IsAcceptable, IsNewClusterSizeAcceptable
<1> QED
  BY <1>10 DEF RejectLink

LEMMA LinkKeepsSingle ==
    ASSUME TypeOK, MatrixInv, SingleInv, NothingIsRejected,
           NEW minI \in Docs, NEW minJ \in Docs, Link(minI, minJ)
    PROVE  MatrixIsComplete' /\ LevelsAreLinks'
<1>1. \A i \in Docs : labels'[i] = IF labels[i] = minJ THEN minI ELSE labels[i]
  BY LinkFacts
<1>2. minI # minJ /\ labels[minI] = minI /\ labels[minJ] = minJ
  BY LinkFacts, Numbers DEF IsClosestPair
<1>3. \A i, j \in Docs :
         distances'[i][j] =
             IF i = minJ \/ j = minJ THEN InfDistance
             ELSE IF i = minI /\ j # minI THEN LinkedDistance(minI, minJ, j)
             ELSE IF j = minI /\ i # minI THEN LinkedDistance(minI, minJ, i)
             ELSE distances[i][j]
  BY LinkFacts
<1>4. given' = given /\ level' = level + 1 /\ level + 1 < docSize
  BY DEF Link, inputs, ClosestPair
<1>5. \A k \in Docs, m \in {minI, minJ} :
         LinkedDistance(minI, minJ, k) <= distances[m][k]
  BY Numbers DEF LinkedDistance, Smaller
<1>6. \A i, j \in Docs : distances[i][j] = distances[j][i]
  BY DEF MatrixInv, Symmetric
<1>7. \A i, j \in Docs : labels[i] # labels[j] => distances[labels[i]][labels[j]] <= given[i][j]
  BY DEF SingleInv, MatrixIsComplete
<1>8. MatrixIsComplete'
  <2> SUFFICES ASSUME NEW i \in Docs, NEW j \in Docs, labels'[i] # labels'[j]
               PROVE  distances'[labels'[i]][labels'[j]] <= given[i][j]
    BY <1>4 DEF MatrixIsComplete
  <2>1. /\ labels[i] \in Docs /\ labels[j] \in Docs /\ given[i][j] \in Int
        /\ labels[i] # labels[j] /\ distances[labels[i]][labels[j]] <= given[i][j]
        /\ distances[labels[i]][labels[j]] \in Int
    BY <1>1, <1>7, Numbers
  <2>2. CASE labels[i] \in {minI, minJ}
    <3>1. labels'[i] = minI /\ labels'[j] = labels[j] /\ labels[j] \notin {minI, minJ}
      BY <1>1, <2>2
    <3>2. distances'[minI][labels[j]] = LinkedDistance(minI, minJ, labels[j])
      BY <1>2, <1>3, <2>1, <3>1
    <3>3. LinkedDistance(minI, minJ, labels[j]) <= distances[labels[i]][labels[j]]
      BY <1>5, <2>1, <2>2
    <3>4. LinkedDistance(minI, minJ, labels[j]) \in Int
      BY <2>1, Numbers DEF LinkedDistance, Smaller
    <3> QED
      BY <2>1, <3>1, <3>2, <3>3, <3>4
  <2>3. CASE labels[j] \in {minI, minJ}
    <3>1. labels'[j] = minI /\ labels'[i] = labels[i] /\ labels[i] \notin {minI, minJ}
      BY <1>1, <2>3
    <3>2. distances'[labels[i]][minI] = LinkedDistance(minI, minJ, labels[i])
      BY <1>2, <1>3, <2>1, <3>1
    <3>3. LinkedDistance(minI, minJ, labels[i]) <= distances[labels[j]][labels[i]]
      BY <1>5, <2>1, <2>3
    <3>4. LinkedDistance(minI, minJ, labels[i]) \in Int
      BY <2>1, Numbers DEF LinkedDistance, Smaller
    <3>5. distances[labels[j]][labels[i]] = distances[labels[i]][labels[j]]
      BY <1>6, <2>1
    <3> QED
      BY <2>1, <3>1, <3>2, <3>3, <3>4, <3>5
  <2>4. CASE labels[i] \notin {minI, minJ} /\ labels[j] \notin {minI, minJ}
    BY <1>1, <1>3, <2>1, <2>4
  <2> QED
    BY <2>2, <2>3, <2>4
<1>9. LevelsAreLinks'
  <2>1. Names' = Names \ {minJ}
    BY <1>1, <1>2 DEF Names
  <2>2. minJ \in Names
    BY <1>2 DEF Names
  <2>3. IsFiniteSet(Names)
    BY DocsAreFinite, FS_Subset DEF Names
  <2>4. Cardinality(Names \ {minJ}) = Cardinality(Names) - 1
    BY <2>2, <2>3, FS_RemoveElement
  <2>5. Cardinality(Names) = docSize - level /\ docSize \in Nat /\ level \in Nat
    BY BatchAssumption DEF SingleInv, LevelsAreLinks, TypeOK
  <2> QED
    BY <1>4, <2>1, <2>4, <2>5 DEF LevelsAreLinks
<1> QED
  BY <1>8, <1>9

\* When all levels are used up, one name is left.
LEMMA OneNameIsLeft ==
    ASSUME TypeOK, MatrixInv, LevelsAreLinks, level + 1 >= docSize,
           NEW i \in Docs, NEW j \in Docs
    PROVE  labels[i] = labels[j]
<1>1. labels[i] \in Names /\ labels[j] \in Names
  BY Numbers DEF MatrixInv, LabelsPrecede, Names
<1>2. IsFiniteSet(Names)
  BY DocsAreFinite, FS_Subset DEF Names
<1>3. Cardinality(Names) <= 1
  BY BatchAssumption DEF LevelsAreLinks, TypeOK
<1>4. Cardinality(Names) \in Nat /\ Cardinality(Names) # 0
  BY <1>1, <1>2, FS_CardinalityType, FS_EmptySet
<1>5. \E x : Names = {x}
  <2>1. Cardinality(Names) = 1
    BY <1>3, <1>4
  <2> QED
    BY <1>2, <2>1, FS_Singleton, Zenon
<1> QED
  BY <1>1, <1>5

LEMMA SingleStep ==
    TypeOK /\ MatrixInv /\ LabelsAreFirstDocuments /\ SingleInv /\ [Next]_vars => SingleInv'
<1> SUFFICES ASSUME TypeOK, MatrixInv, LabelsAreFirstDocuments, SingleInv, [Next]_vars,
                    NothingIsRejected'
             PROVE  /\ MatrixIsComplete' /\ LevelsAreLinks'
                    /\ pc' = "returned" => ClustersAreFarApart'
  BY DEF SingleInv
<1>1. config' = config
  BY DEF Next, StopLinking, RejectLink, Link, LevelsExhausted, inputs, vars
<1>2. /\ NothingIsRejected /\ MatrixIsComplete /\ LevelsAreLinks
      /\ pc = "returned" => ClustersAreFarApart
  BY <1>1 DEF SingleInv, NothingIsRejected
<1>3. ASSUME NEW minI \in Docs, NEW minJ \in Docs, Link(minI, minJ)
      PROVE  MatrixIsComplete' /\ LevelsAreLinks' /\ pc' # "returned"
  <2>1. pc' # "returned"
    BY <1>3 DEF Link, ClosestPair
  <2> QED
    BY <1>2, <1>3, <2>1, LinkKeepsSingle
<1>4. ASSUME NEW minI \in Docs, NEW minJ \in Docs, RejectLink(minI, minJ) PROVE FALSE
  BY <1>2, <1>4, NoRejection
<1>5. ASSUME UNCHANGED <<config, given, distances, labels, level>>
      PROVE  /\ MatrixIsComplete' /\ LevelsAreLinks'
             /\ ClustersAreFarApart => ClustersAreFarApart'
  BY <1>2, <1>5 DEF MatrixIsComplete, LevelsAreLinks, Names, ClustersAreFarApart
<1>6. ASSUME NEW minI \in Docs, StopLinking(minI)
      PROVE  MatrixIsComplete' /\ LevelsAreLinks' /\ ClustersAreFarApart'
  <2>1. UNCHANGED <<config, given, distances, labels, level>>
    BY <1>6 DEF StopLinking, inputs
  <2>2. IsMinElement(minI) /\ nnDistances[minI] > config.small_threshold
    BY <1>6 DEF StopLinking, ClosestPair
  <2>3. config.small_threshold \in Int
    BY ConfigType DEF TypeOK
  <2>4. ASSUME NEW i \in Docs, NEW j \in Docs, labels[i] # labels[j]
        PROVE  given[i][j] > config.small_threshold
    <3>1. labels[i] \in Docs /\ labels[j] \in Docs
      BY Numbers
    <3>2. nnDistances[minI] <= nnDistances[labels[i]]
      BY <2>2, <3>1, Numbers DEF IsMinElement
    <3>3. nnDistances[labels[i]] <= distances[labels[i]][labels[j]]
      BY <3>1 DEF MatrixInv, NeighboursAreNearest
    <3>4. distances[labels[i]][labels[j]] <= given[i][j]
      BY <1>2, <2>4 DEF MatrixIsComplete
    <3>5. /\ nnDistances[minI] \in Int /\ nnDistances[labels[i]] \in Int
          /\ distances[labels[i]][labels[j]] \in Int /\ given[i][j] \in Int
      BY <3>1, Numbers
    <3> QED
      BY <2>2, <2>3, <3>2, <3>3, <3>4, <3>5
  <2> QED
    BY <1>5, <2>1, <2>4 DEF ClustersAreFarApart
<1>7. ASSUME LevelsExhausted
      PROVE  MatrixIsComplete' /\ LevelsAreLinks' /\ ClustersAreFarApart'
  <2>1. UNCHANGED <<config, given, distances, labels, level>> /\ level + 1 >= docSize
    BY <1>7 DEF LevelsExhausted, inputs
  <2>2. ClustersAreFarApart
    BY <1>2, <2>1, OneNameIsLeft DEF ClustersAreFarApart
  <2> QED
    BY <1>5, <2>1, <2>2
<1>8. CASE UNCHANGED vars
  BY <1>2, <1>5, <1>8 DEF vars, inputs
<1> QED
  BY <1>3, <1>4, <1>6, <1>7, <1>8 DEF Next

\* When no size or site rejects a link, two documents end up in one cluster exactly
\* if a chain of documents within the threshold connects them.
THEOREM ResultIsSingleLinkage == Spec => []IsSingleLinkage
<1>1. TightInv /\ SingleInv => IsSingleLinkage
  BY DEF TightInv, Tight, SingleInv, ClustersAreFarApart, IsSingleLinkage
<1> QED
  BY TypeInit, TypeStep, MatrixInit, MatrixStep, DistancesInit, DistancesStep, LabelsInit,
     LabelsStep, TightInit, TightStep, SingleInit, SingleStep, <1>1, PTL DEF Spec

-----------------------------------------------------------------------------
(***************************************************************************)
(* What SlinkStitch supposes of a batch.  Its positions count from 1.      *)
(***************************************************************************)
Stitch == INSTANCE SlinkStitch WITH
    chunk_size <- docSize, intersection_size <- 0, MaxDocs <- docSize, docSize <- docSize,
    labels <- << >>, oldLabelsToNew <- {}, batchStart <- 0, prevBatchEnd <- 0, maxLabel <- 0,
    batches <- << >>, pc <- "batches"

BatchLabels == [i \in 1 .. docSize |-> labels[i - 1]]

\* The labels that ClusterBatch returns are among those that SlinkStitch's
\* ClusterBatch allows: what is proved of the stitching holds of these batches.
THEOREM BatchesCanBeStitched == Spec => [](BatchLabels \in Stitch!ClusterBatch(docSize))
<1>1. TypeOK /\ LabelsAreFirstDocuments => BatchLabels \in Stitch!ClusterBatch(docSize)
  <2> SUFFICES ASSUME TypeOK, LabelsAreFirstDocuments
               PROVE  BatchLabels \in Stitch!ClusterBatch(docSize)
    OBVIOUS
  <2>1. docSize \in Nat /\ Docs = 0 .. docSize - 1
    BY BatchAssumption DEF Docs
  <2>2. ASSUME NEW i \in 1 .. docSize
        PROVE  /\ labels[i - 1] \in 0 .. docSize - 1 /\ labels[i - 1] < i
               /\ labels[(labels[i - 1] + 1) - 1] = labels[i - 1]
    <3>1. i - 1 \in Docs
      BY <2>1
    <3>2. /\ labels[i - 1] \in Docs /\ labels[i - 1] <= i - 1
          /\ labels[labels[i - 1]] = labels[i - 1]
      BY <3>1, Numbers DEF LabelsAreFirstDocuments
    <3>3. (labels[i - 1] + 1) - 1 = labels[i - 1]
      BY <2>1, <3>2
    <3> QED
      BY <2>1, <3>2, <3>3
  <2>3. BatchLabels \in [1 .. docSize -> 0 .. docSize - 1]
    BY <2>2 DEF BatchLabels
  <2>4. ASSUME NEW i \in 1 .. docSize
        PROVE  BatchLabels[i] < i /\ BatchLabels[BatchLabels[i] + 1] = BatchLabels[i]
    <3>1. \A k \in 1 .. docSize : BatchLabels[k] = labels[k - 1]
      BY DEF BatchLabels
    <3> DEFINE l == labels[i - 1]
    <3>2. l \in 0 .. docSize - 1 /\ l < i /\ labels[(l + 1) - 1] = l
      BY <2>2
    <3>3. BatchLabels[i] = l
      BY <3>1
    <3> HIDE DEF l
    <3>4. l + 1 \in 1 .. docSize
      BY <2>1, <3>2
    <3> QED
      BY <3>1, <3>2, <3>3, <3>4
  <2> QED
    BY <2>3, <2>4 DEF Stitch!ClusterBatch
<1> QED
  BY TypeInit, TypeStep, MatrixInit, MatrixStep, LabelsInit, LabelsStep, <1>1, PTL DEF Spec
=============================================================================
