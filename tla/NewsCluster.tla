---------------------------- MODULE NewsCluster ----------------------------
(***************************************************************************)
(* TNewsCluster (src/src/cluster.cpp): what summarizing does to a cluster. *)
(* Its documents are put in the order of their weights, its importance is  *)
(* that of its best slice of time, its category is voted for.              *)
(*                                                                         *)
(* A document is its position in docs, which is also the order of the file *)
(* names; hosts and titles are numbers in the order of their spelling.     *)
(* Floating point is fixed point here, and the sigmoid is a constant.      *)
(***************************************************************************)
EXTENDS Documents, Sorting, SequencesExt

CONSTANTS
    DocumentKinds,    \* what documents look like
    Hosts,
    AgencyScore,      \* TAgencyRating::ScoreUrl, by host
    HostWeight,       \* TAlexaAgencyRating::ScoreUrl with RT_LOG, by host
    Sigmoid(_, _),    \* Sigmoid(time / 3600 + shift), positive and monotone
    One,              \* 1.0
    Tolerance         \* 0.000001

Document ==
    [FetchTime : Nat, Language : Languages, Category : Categories \ {"NC_UNDEFINED", "NC_ANY"},
     Host : Hosts, Title : Nat, Nasty : BOOLEAN,
     Relevance : Int]    \* the mean cosine with the documents of its cluster

ASSUME NewsClusterAssumption ==
    /\ Hosts \subseteq Nat
    /\ DocumentKinds \subseteq Document
    /\ AgencyScore \in [Hosts -> Nat]
    /\ HostWeight \in [Hosts -> Nat \ {0}]
    /\ One \in Nat \ {0} /\ Tolerance \in Nat \ {0}

VARIABLE docs         \* the documents to be indexed, in the order of their names

FetchTime(i) == docs[i].FetchTime
Host(i) == docs[i].Host

\* std::abs of the difference of two weights.
Distance(m, n) == IF m > n THEN m - n ELSE n - m

\* FreshestTimestamp of a cluster the documents have been added to.
AddedTimestamp(documents) == Max({FetchTime(documents[k]) : k \in DOMAIN documents})

\* Weights are doubled, so that those of nasty documents can be halved.  A mean
\* cosine, and with it a weight, can be negative; that of an embedding of norm
\* zero, which is not a number, is left out.
DocWeight(i, freshestTimestamp) ==
    (AgencyScore[Host(i)] + docs[i].Relevance)
      * Sigmoid(FetchTime(i) - freshestTimestamp, 12)
      * (IF docs[i].Nasty THEN 1 ELSE 2)

\* Mutated form: the difference is compared without its absolute value.
OutweighsSigned(i, j, freshestTimestamp) ==
    LET a == DocWeight(i, freshestTimestamp)
        b == DocWeight(j, freshestTimestamp)
    IN  IF a - b < Tolerance THEN docs[i].Title < docs[j].Title ELSE a > b

\* Weights that are close count as equal, which is not transitive.
Outweighs(i, j, freshestTimestamp) ==
    LET a == DocWeight(i, freshestTimestamp)
        b == DocWeight(j, freshestTimestamp)
    IN  IF Distance(a, b) < Tolerance THEN docs[i].Title < docs[j].Title ELSE a > b

SortByWeights(documents) ==
    StableSort(documents, LAMBDA i, j : Outweighs(i, j, AddedTimestamp(documents)))

\* Mutated form: the documents stay in the order of their weights.
DocsByTimeUnsorted(documents) == documents

\* The urls of a host differ in the path only, here in the order of the files.
DocsByTime(documents) ==
    StableSort(documents, LAMBDA i, j :
        \/ FetchTime(i) < FetchTime(j)
        \/ FetchTime(i) = FetchTime(j) /\ (Host(i) < Host(j) \/ (Host(i) = Host(j) /\ i < j)))

\* A slice starts with a document and counts the first document of each host
\* from there on.  The exponent's lower limit of -15 is part of Sigmoid.
SliceRanks(byTime) ==
    LET counted(first) == {k \in first .. Len(byTime) :
                              \A l \in first .. k - 1 : Host(byTime[l]) # Host(byTime[k])}
        score(first, k) == HostWeight[Host(byTime[k])]
                             * Sigmoid(FetchTime(byTime[first]) - FetchTime(byTime[k]), 0)
    IN  [first \in DOMAIN byTime |-> MapThenSumSet(LAMBDA k : score(first, k), counted(first))]

\* The first of the highest ranks wins: all are positive.
BestSlice(rank) ==
    CHOOSE k \in DOMAIN rank : \A l \in DOMAIN rank :
        rank[l] < rank[k] \/ (rank[l] = rank[k] /\ k <= l)

CalcImportance(documents) ==
    LET byTime == DocsByTime(documents)
        rank == SliceRanks(byTime)
        best == BestSlice(rank)
    IN  [Importance |-> rank[best], BestTimestamp |-> FetchTime(byTime[best])]

\* ECategory in the order of its values.
ECategory ==
    <<"NC_UNDEFINED", "NC_ANY", "NC_SOCIETY", "NC_ECONOMY", "NC_TECHNOLOGY", "NC_SPORTS",
      "NC_ENTERTAINMENT", "NC_SCIENCE", "NC_OTHER", "NC_NOT_NEWS">>

\* Mutated form: what is not news does not vote.
CalcCategoryOfNews(documents) ==
    LET votes(k) == Cardinality({l \in DOMAIN documents : IsNews(docs[documents[l]])
                        /\ docs[documents[l]].Category = ECategory[k]})
    IN  ECategory[CHOOSE k \in DOMAIN ECategory : \A l \in DOMAIN ECategory :
            votes(l) < votes(k) \/ (votes(l) = votes(k) /\ k <= l)]

\* The vote, without the assertion that NDEBUG removes: max_element returns the
\* first of the largest counts.
CalcCategory(documents) ==
    LET votes(k) == Cardinality({l \in DOMAIN documents :
                        docs[documents[l]].Category = ECategory[k]})
    IN  ECategory[CHOOSE k \in DOMAIN ECategory : \A l \in DOMAIN ECategory :
            votes(l) < votes(k) \/ (votes(l) = votes(k) /\ k <= l)]

\* A cluster in TSummarizer::Summarize: its documents are re-added, the heaviest
\* first, before its importance and category are calculated.
Summarized(cluster) ==
    LET documents == SortByWeights(cluster.Documents)
        slice == CalcImportance(documents)
    IN  [Documents |-> documents,
         FreshestTimestamp |-> AddedTimestamp(documents),
         Importance |-> slice.Importance,
         BestTimestamp |-> slice.BestTimestamp,
         Category |-> CalcCategory(documents)]

-----------------------------------------------------------------------------
(***************************************************************************)
(* What summarizing promises, of one summarized cluster.                   *)
(***************************************************************************)

\* The comparator allows a document in front of a heavier one only as far as the
\* tolerance adds up between them; the first one gives the cluster its title.
OrderFollowsWeights(cluster) ==
    \A k, l \in DOMAIN cluster.Documents : k < l =>
        DocWeight(cluster.Documents[l], cluster.FreshestTimestamp)
          < DocWeight(cluster.Documents[k], cluster.FreshestTimestamp) + (l - k) * Tolerance

\* Without any order of documents: a slice from a time on counts the earliest
\* document of each host that still publishes; the cluster is as important as
\* its most important slice and is dated by the earliest of these.
SliceRank(documents, time) ==
    LET due(host) == {FetchTime(i) : i \in {j \in documents :
                                               Host(j) = host /\ FetchTime(j) >= time}}
    IN  MapThenSumSet(LAMBDA host : HostWeight[host] * Sigmoid(time - Min(due(host)), 0),
                      {host \in Hosts : due(host) # {}})

ImportanceIsBestSlice(cluster) ==
    LET documents == ToSet(cluster.Documents)
        times == {FetchTime(i) : i \in documents}
        top == Max({SliceRank(documents, time) : time \in times})
    IN  /\ cluster.Importance = top
        /\ cluster.BestTimestamp = Min({time \in times : SliceRank(documents, time) = top})
=============================================================================
