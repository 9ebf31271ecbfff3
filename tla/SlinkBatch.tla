----------------------------- MODULE SlinkBatch -----------------------------
(***************************************************************************)
(* TSlinkClustering::ClusterBatch (src/src/clustering/slink.cpp): one      *)
(* batch of documents is clustered by linking, level after level, the two  *)
(* closest clusters, until they are farther apart than a threshold.  A     *)
(* link that would make too big a cluster, or one with two documents of    *)
(* the same site, is rejected and its pair not looked at again.            *)
(*                                                                         *)
(* The loop never looks at the whole matrix for its next pair.  It keeps,  *)
(* for every document, the nearest other one, and repairs that as it goes: *)
(* the properties are about those repairs.  Only comparisons of distances  *)
(* matter, so integers stand for the floats.                               *)
(***************************************************************************)
EXTENDS Integers, FiniteSets

CONSTANTS
    docSize,        \* the number of documents in the batch
    InfDistance,    \* INF_DISTANCE
    Configs,        \* the configurations of the clustering
    Sitings         \* which site each document is from, functions on Docs

Docs == 0 .. docSize - 1

Distance == 0 .. InfDistance

\* TClusteringConfig as far as ClusterBatch reads it.  No threshold reaches
\* INF_DISTANCE.
TClusteringConfig ==
    [small_threshold : 0 .. InfDistance - 1, medium_threshold : 0 .. InfDistance - 1,
     large_threshold : 0 .. InfDistance - 1, small_cluster_size : Nat,
     medium_cluster_size : Nat, large_cluster_size : Nat, ban_same_hosts : BOOLEAN]

Sites == {s[i] : s \in Sitings, i \in Docs}

ASSUME BatchAssumption ==
    /\ docSize \in Nat \ {0}
    /\ InfDistance \in Nat \ {0}
    /\ Configs \subseteq TClusteringConfig
    /\ \A s \in Sitings : DOMAIN s = Docs

VARIABLES
    config,               \* Config
    site,                 \* the SiteName of each document
    given,                \* the distances between the documents
    distances,            \* the matrix, cluster distances replacing document distances
    labels,               \* the cluster of each document, named by a document of it
    nn,                   \* the nearest neighbour of each document
    nnDistances,          \* and how far it is
    clusterSizes,
    clusterSiteNames,
    prevStepMinDistance,
    level,                \* the loop's counter
    pc                    \* "link" in the loop, "returned" after it

inputs == <<config, site, given>>
vars == <<config, site, given, distances, labels, nn, nnDistances, clusterSizes,
          clusterSiteNames, prevStepMinDistance, level, pc>>

-----------------------------------------------------------------------------
IsNewClusterSizeAcceptable(newClusterSize, newDistance) ==
    \/ newClusterSize <= config.small_cluster_size
    \/ /\ newClusterSize <= config.medium_cluster_size
       /\ newDistance <= config.medium_threshold
    \/ /\ newClusterSize > config.medium_cluster_size
       /\ newClusterSize <= config.large_cluster_size
       /\ newDistance <= config.large_threshold

HasSameSource(minI, minJ) == clusterSiteNames[minI] \cap clusterSiteNames[minJ] # {}

\* Mutated form: the size is the one of the cluster linked to.
IsAcceptableGrowing(minI, minJ, minDistance) ==
    /\ IsNewClusterSizeAcceptable(clusterSizes[minI], minDistance)
    /\ ~(config.ban_same_hosts /\ HasSameSource(minI, minJ))

\* A link that is neither too big nor mixes documents of one site.
IsAcceptable(minI, minJ, minDistance) ==
    /\ IsNewClusterSizeAcceptable(clusterSizes[minI] + clusterSizes[minJ], minDistance)
    /\ ~(config.ban_same_hosts /\ HasSameSource(minI, minJ))

\* k is the first of the documents K that row is smallest at, and below
\* INF_DISTANCE; or no document of K is, and k is the old one.
IsNearest(k, row, K, old) ==
    \/ /\ k = old
       /\ \A l \in K : row[l] >= InfDistance
    \/ /\ k \in K
       /\ row[k] < InfDistance
       /\ \A l \in K : row[k] < row[l] \/ (row[k] = row[l] /\ k <= l)

\* Mutated form: what is left of a row without neighbours is beyond INF_DISTANCE.
NearestDistanceOfRow(k, row, K) == IF k \in K THEN row[k] ELSE InfDistance + 1

\* The distance the search for the nearest document of K ends with.
NearestDistance(k, row, K) == IF k \in K /\ row[k] < InfDistance THEN row[k] ELSE InfDistance

\* std::min_element takes the first of the smallest.
IsMinElement(i) ==
    \A j \in Docs : nnDistances[i] < nnDistances[j]
                    \/ (nnDistances[i] = nnDistances[j] /\ i <= j)

\* Row i's first smallest coefficient.
IsMinCoeff(j, row) == \A k \in Docs : row[j] < row[k] \/ (row[j] = row[k] /\ j <= k)

Smaller(a, b) == IF a <= b THEN a ELSE b

\* Mutated form: complete linkage.
Larger(a, b) == IF a >= b THEN a ELSE b
LinkedDistanceComplete(minI, minJ, k) == Larger(distances[minJ][k], distances[minI][k])

\* How far the linked cluster is from k.
LinkedDistance(minI, minJ, k) == Smaller(distances[minJ][k], distances[minI][k])

\* Mutated form: the row and column of minJ are zeroed.
LinkedMatrixZeroed(minI, minJ) ==
    [i \in Docs |-> [j \in Docs |->
        CASE i = minJ \/ j = minJ -> 0
          [] i = minI /\ j \notin {minI, minJ} -> LinkedDistance(minI, minJ, j)
          [] j = minI /\ i \notin {minI, minJ} -> LinkedDistance(minI, minJ, i)
          [] OTHER -> distances[i][j]]]

\* The matrix after minJ is linked to minI: minI's row and column are the
\* cluster's, minJ's are removed.
LinkedMatrix(minI, minJ) ==
    [i \in Docs |-> [j \in Docs |->
        CASE i = minJ \/ j = minJ -> InfDistance
          [] i = minI /\ j \notin {minI, minJ} -> LinkedDistance(minI, minJ, j)
          [] j = minI /\ i \notin {minI, minJ} -> LinkedDistance(minI, minJ, i)
          [] OTHER -> distances[i][j]]]

\* Mutated form: the documents whose neighbour was minJ are not told.
RepointedForgotten(minI, minJ, k) == IF nn[k] = minI THEN minI ELSE nn[k]

\* Who was nearest to a part of the linked cluster is nearest to the cluster.
Repointed(minI, minJ, k) == IF nn[k] \in {minI, minJ} THEN minI ELSE nn[k]

RepointedDistance(minI, minJ, k) ==
    IF nn[k] \in {minI, minJ} THEN LinkedDistance(minI, minJ, k) ELSE nnDistances[k]

\* Mutated form: the other way round.
RelabelledBackwards(minI, minJ) ==
    [i \in Docs |-> IF labels[i] = labels[minI] THEN minJ ELSE labels[i]]

\* The labels are replaced in place: behind minJ, labels[minJ] is minI already.
Relabelled(minI, minJ) ==
    [i \in Docs |->
        IF labels[i] = minJ \/ (i <= minJ /\ labels[i] = labels[minJ]) THEN minI ELSE labels[i]]

\* Mutated form: the sites of minJ's cluster are not added.
UnitedSitesForgotten(minI, minJ) == clusterSiteNames

UnitedSites(minI, minJ) ==
    IF config.ban_same_hosts
    THEN [clusterSiteNames EXCEPT ![minI] = @ \cup clusterSiteNames[minJ]]
    ELSE clusterSiteNames

-----------------------------------------------------------------------------
\* Two documents.
Pairs == UNION {{{i, j} : j \in Docs \ {i}} : i \in Docs}

\* CalcDistances and ApplyTimePenalty yield a symmetric matrix of distances
\* between 0 and INF_DISTANCE, which is what its diagonal is set to when the
\* weights of the embeddings add up to 1.
CalcDistances(between) ==
    [i \in Docs |-> [j \in Docs |-> IF i = j THEN InfDistance ELSE between[{i, j}]]]

Init ==
    /\ config \in Configs
    /\ site \in Sitings
    /\ \E between \in [Pairs -> Distance] : given = CalcDistances(between)
    /\ distances = given
    /\ labels = [i \in Docs |-> i]
    /\ nn \in [Docs -> Docs]
    /\ \A i \in Docs : IsMinCoeff(nn[i], distances[i])
    /\ nnDistances = [i \in Docs |-> distances[i][nn[i]]]
    /\ clusterSizes = [i \in Docs |-> 1]
    /\ clusterSiteNames = [i \in Docs |-> IF config.ban_same_hosts THEN {site[i]} ELSE {}]
    /\ prevStepMinDistance = 0
    /\ level = 0
    /\ pc = "link"

\* What every level starts with: the closest pair, and ENSURE's condition.
ClosestPair(minI, minJ, minDistance) ==
    /\ pc = "link"
    /\ level + 1 < docSize
    /\ IsMinElement(minI)
    /\ minJ = nn[minI]
    /\ minDistance = nnDistances[minI]
    /\ prevStepMinDistance <= minDistance

\* break: the closest pair is too far apart.
StopLinking(minI) ==
    /\ ClosestPair(minI, nn[minI], nnDistances[minI])
    /\ nnDistances[minI] > config.small_threshold
    /\ prevStepMinDistance' = nnDistances[minI]
    /\ pc' = "returned"
    /\ UNCHANGED <<inputs, distances, labels, nn, nnDistances, clusterSizes, clusterSiteNames,
                   level>>

\* The pair is separated for good, and each of the two looks for another
\* neighbour.  The level is used up.
RejectLink(minI, minJ) ==
    LET minDistance == nnDistances[minI]
        others == Docs \ {minI, minJ}
    IN  /\ ClosestPair(minI, minJ, minDistance)
        /\ minDistance <= config.small_threshold
        /\ ~IsAcceptable(minI, minJ, minDistance)
        /\ distances' = [distances EXCEPT ![minI][minJ] = InfDistance, ![minJ][minI] = InfDistance]
        /\ \E ki, kj \in Docs :
              /\ IsNearest(ki, distances[minI], others, minJ)
              /\ IsNearest(kj, distances[minJ], others, nn[minJ])
              /\ nn' = [nn EXCEPT ![minI] = ki, ![minJ] = kj]
              /\ nnDistances' =
                    [nnDistances EXCEPT ![minI] = NearestDistance(ki, distances[minI], others),
                                        ![minJ] = NearestDistance(kj, distances[minJ], others)]
        /\ prevStepMinDistance' = minDistance
        /\ level' = level + 1
        /\ UNCHANGED <<inputs, labels, clusterSizes, clusterSiteNames, pc>>

\* Link minJ to minI.
Link(minI, minJ) ==
    LET minDistance == nnDistances[minI]
        others == Docs \ {minI, minJ}
        linked == LinkedMatrix(minI, minJ)
    IN  /\ ClosestPair(minI, minJ, minDistance)
        /\ minDistance <= config.small_threshold
        /\ IsAcceptable(minI, minJ, minDistance)
        /\ labels' = Relabelled(minI, minJ)
        /\ LET size == clusterSizes[minI] + clusterSizes[minJ]
           IN  clusterSizes' = [clusterSizes EXCEPT ![minI] = size, ![minJ] = size]
        /\ clusterSiteNames' = UnitedSites(minI, minJ)
        /\ distances' = linked
        /\ \E ki \in Docs :
              /\ IsNearest(ki, linked[minI], others, minJ)
              /\ nn' = [[k \in Docs |-> Repointed(minI, minJ, k)]
                            EXCEPT ![minI] = ki, ![minJ] = nn[minJ]]
              /\ nnDistances' =
                    [[k \in Docs |-> RepointedDistance(minI, minJ, k)]
                        EXCEPT ![minI] = NearestDistance(ki, linked[minI], others),
                               ![minJ] = InfDistance]
        /\ prevStepMinDistance' = minDistance
        /\ level' = level + 1
        /\ UNCHANGED <<inputs, pc>>

\* As many levels as links are possible have passed.
LevelsExhausted ==
    /\ pc = "link"
    /\ level + 1 >= docSize
    /\ pc' = "returned"
    /\ UNCHANGED <<inputs, distances, labels, nn, nnDistances, clusterSizes, clusterSiteNames,
                   prevStepMinDistance, level>>

Next ==
    \/ \E minI \in Docs : StopLinking(minI)
    \/ \E minI, minJ \in Docs : RejectLink(minI, minJ) \/ Link(minI, minJ)
    \/ LevelsExhausted

Spec == Init /\ [][Next]_vars

-----------------------------------------------------------------------------
(***************************************************************************)
(* Properties.                                                             *)
(***************************************************************************)

\* The type invariant: indices are documents of the batch, distances are
\* between 0 and INF_DISTANCE.
TypeOK ==
    /\ config \in Configs
    /\ site \in Sitings
    /\ given \in [Docs -> [Docs -> Distance]]
    /\ distances \in [Docs -> [Docs -> Distance]]
    /\ labels \in [Docs -> Docs]
    /\ nn \in [Docs -> Docs]
    /\ nnDistances \in [Docs -> Distance]
    /\ clusterSizes \in [Docs -> Nat]
    /\ clusterSiteNames \in [Docs -> SUBSET Sites]
    /\ prevStepMinDistance \in Distance
    /\ level \in Nat
    /\ pc \in {"link", "returned"}

\* The ENSURE of the loop never throws: neither linking nor rejecting a pair
\* brings to light two clusters closer than the pair just looked at.
DistancesNeverDecrease ==
    pc = "link" => \A i \in Docs : prevStepMinDistance <= nnDistances[i]

Cluster(l) == {i \in Docs : labels[i] = l}

Clusters == {Cluster(labels[i]) : i \in Docs}

\* The pair picked from the repaired nearest neighbours is a closest pair of
\* the whole matrix, of two clusters not yet linked away, the first document
\* before the second.
PairIsClosest ==
    pc = "link" =>
        \A i \in Docs : IsMinElement(i) /\ nnDistances[i] < InfDistance =>
            /\ i < nn[i]
            /\ labels[i] = i /\ labels[nn[i]] = nn[i]
            /\ distances[i][nn[i]] = nnDistances[i]
            /\ \A j, k \in Docs : nnDistances[i] <= distances[j][k]

\* A cluster is named by its first document, and clusterSizes holds under that
\* name how many documents are labelled with it.
LabelsAreFirstDocuments ==
    \A i \in Docs :
        /\ labels[i] <= i
        /\ labels[labels[i]] = labels[i]
        /\ clusterSizes[labels[i]] = Cardinality(Cluster(labels[i]))

\* With ban_same_hosts, no cluster holds two documents of one site, however it
\* was linked together.
SitesAreDistinct ==
    config.ban_same_hosts =>
        \A i, j \in Docs : i # j /\ labels[i] = labels[j] => site[i] # site[j]

\* Whichever way the documents of C are divided, two of different sides are no
\* farther apart than the threshold.
Linked(C, threshold) ==
    \A A \in (SUBSET C) \ {{}, C} : \E i \in A, j \in C \ A : given[i][j] <= threshold

\* The bigger a cluster is, the closer its documents are linked, and none is
\* bigger than large_cluster_size (or small_cluster_size, if that is bigger).
BigClustersAreTight ==
    \A C \in Clusters :
        LET size == Cardinality(C)
        IN  /\ Linked(C, config.small_threshold)
            /\ size > 1 /\ size > config.small_cluster_size =>
                  IF size <= config.medium_cluster_size
                  THEN Linked(C, config.medium_threshold)
                  ELSE size <= config.large_cluster_size /\ Linked(C, config.large_threshold)

\* When nothing can be rejected, the result is single linkage: documents are in
\* one cluster if and only if a chain of close documents leads from one to the
\* other.
NothingIsRejected == config.small_cluster_size >= docSize /\ ~config.ban_same_hosts

IsSingleLinkage ==
    pc = "returned" /\ NothingIsRejected =>
        /\ \A C \in Clusters : Linked(C, config.small_threshold)
        /\ \A i, j \in Docs : labels[i] # labels[j] => given[i][j] > config.small_threshold
=============================================================================
