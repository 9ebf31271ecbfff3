----------------------------- MODULE NewsIndex -----------------------------
(***************************************************************************)
(* From documents to answers: TClusterer::Cluster (clusterer.cpp) builds   *)
(* an index, TSummarizer::Summarize (summarizer.cpp) summarizes its        *)
(* clusters, and TRanker::Rank (ranker.cpp) answers either a /threads      *)
(* request (controller.cpp) or the mode "top" (main.cpp), while the mode   *)
(* "threads" prints the clusters as they are.                              *)
(*                                                                         *)
(* How the documents of a language are grouped is SlinkBatch's and         *)
(* SlinkStitch's subject: here it is any partition.                        *)
(***************************************************************************)
EXTENDS NewsCluster

CONSTANTS
    MaxDocs,          \* bound on the number of documents
    Clusterings,      \* the languages the clusterer is configured for
    Percentile,       \* iter_timestamp_percentile, in hundredths
    MinClusterSizes,  \* the values of min_cluster_size to consider
    Limit,            \* 1000: how many clusters /threads returns
    Periods,          \* the parameter period of /threads, an int
    QueryCategories,  \* the parameter category of /threads
    Windows,          \* the option --window_size, a uint64_t
    SaveNotNews,      \* the option --save_not_news
    Half, Wide        \* 2^31 and 2^64

ASSUME NewsIndexAssumption ==
    /\ MaxDocs \in Nat /\ Limit \in Nat
    /\ Half \in Nat \ {0} /\ Wide \in Nat /\ Wide > 4 * Half
    /\ \A n \in -Half .. 2 * Half : (n + Wide) % (2 * Half) = n % (2 * Half)
    /\ \A doc \in DocumentKinds : doc.FetchTime < Half      \* no date after 2038
    /\ Clusterings \subseteq Languages
    /\ Percentile \in 0 .. 99
    /\ QueryCategories \subseteq Categories \ {"NC_UNDEFINED"}
    /\ MinClusterSizes \subseteq Nat
    /\ Periods \subseteq -Half .. Half - 1
    /\ Windows \subseteq 0 .. Wide - Half          \* no window that wraps at once
    /\ SaveNotNews \in BOOLEAN
    /\ \A time \in -Half .. Half - 1, shift \in {0, 8, 12} : Sigmoid(time, shift) \in Nat
    /\ Sigmoid(0, 0) > 0
    /\ \A s, t \in -Half .. Half - 1 : s <= t => Sigmoid(s, 0) <= Sigmoid(t, 0)

VARIABLES
    MinClusterSize,
    stage,            \* "docs", "clusters", "index" or "answered"
    Clusters,         \* for each configured language, its clusters in order
    IterTimestamp, TrueMaxTimestamp,
    answer            \* the answer to a query, with what went into it

indexVars == <<Clusters, IterTimestamp, TrueMaxTimestamp>>
vars == <<docs, MinClusterSize, stage, indexVars, answer>>

-----------------------------------------------------------------------------
Compare(cluster, timestamp) == cluster.FreshestTimestamp < timestamp

\* std::lower_bound: binary search for the first cluster not before timestamp.
LowerBound(clusters, timestamp) ==
    LET from[range \in {r \in (1 .. Len(clusters) + 1) \X (0 .. Len(clusters)) :
                            r[1] + r[2] <= Len(clusters) + 1}] ==
            LET first == range[1]
                half == range[2] \div 2
            IN  IF range[2] = 0 THEN first
                ELSE IF Compare(clusters[first + half], timestamp)
                THEN from[<<first + half + 1, range[2] - half - 1>>]
                ELSE from[<<first, half>>]
    IN  from[<<1, Len(clusters)>>]

ToInt32(n) == ((n + Half) % (2 * Half)) - Half
ToUint64(n) == n % Wide

-----------------------------------------------------------------------------
(***************************************************************************)
(* Building the index.                                                     *)
(***************************************************************************)
\* Mutated form: the documents stay in the order of their names.
SortedDocsByName == [i \in DOMAIN docs |-> i]

\* The documents by time, those of the same time by name.  Names differ, so titles
\* are never compared.
SortedDocs ==
    StableSort([i \in DOMAIN docs |-> i], LAMBDA i, j :
        FetchTime(i) < FetchTime(j) \/ (FetchTime(i) = FetchTime(j) /\ i < j))

GetIterTimestamp(sorted) ==
    IF sorted = << >> THEN 0
    ELSE FetchTime(sorted[(Percentile * Len(sorted)) \div 100 + 1])

\* The documents of a language, the newest first.
Lang2Docs(language) ==
    Selected(Reverse(SortedDocs), LAMBDA i : docs[i].Language = language)

\* A partition of n documents: each is labelled with the first of its cluster.
Labellings(n) == {label \in [1 .. n -> 1 .. n] :
    \A i \in 1 .. n : label[i] <= i /\ label[label[i]] = label[i]}

\* The documents with a label, in their order.
Labelled(langDocs, label, first) ==
    Picked(langDocs, Ascending({k \in DOMAIN langDocs : label[k] = first}))

\* The clusters of a labelling, in the order of their first documents.
LabelledClusters(langDocs, label) ==
    LET firsts == Ascending({k \in DOMAIN langDocs : label[k] = k})
    IN  [k \in DOMAIN firsts |->
            [Documents |-> Labelled(langDocs, label, firsts[k]),
             FreshestTimestamp |-> AddedTimestamp(Labelled(langDocs, label, firsts[k])),
             Importance |-> 0,
             BestTimestamp |-> 0,
             Category |-> "NC_UNDEFINED"]]

\* Mutated form: the clusters stay in the order the clustering returns them in.
SortedClustersAsFound(clusters) == clusters

SortedClusters(clusters) ==
    StableSort(clusters, LAMBDA a, b : a.FreshestTimestamp < b.FreshestTimestamp)

-----------------------------------------------------------------------------
(***************************************************************************)
(* Ranking.                                                                *)
(***************************************************************************)

\* Mutated form: the sum is compared as an int32_t.
AgeNarrowed(BestTimestamp, iterTimestamp, window) ==
    LET clusterTime == ToInt32(BestTimestamp)
    IN  IF ToInt32(clusterTime + window) < iterTimestamp
        THEN {ToInt32(ToInt32(clusterTime + ToInt32(window)) - ToInt32(iterTimestamp))}
        ELSE {}

\* The argument of the age penalty in seconds, if there is a penalty.  The first
\* sum is a uint64_t; where the others overflow, the build wraps.
Age(BestTimestamp, iterTimestamp, window) ==
    LET clusterTime == ToInt32(BestTimestamp)
    IN  IF ToUint64(clusterTime + window) < iterTimestamp
        THEN {ToInt32(ToInt32(clusterTime + ToInt32(window)) - ToInt32(iterTimestamp))}
        ELSE {}

ClusterSize(w) == Len(w.Cluster.Documents)

\* Mutated form: only two small clusters are ordered by size.
RanksHigherIfBothSmall(a, b) ==
    LET bySize == /\ ClusterSize(a) # ClusterSize(b)
                  /\ ClusterSize(a) < MinClusterSize /\ ClusterSize(b) < MinClusterSize
    IN  IF bySize THEN ClusterSize(a) > ClusterSize(b) ELSE a.Weight > b.Weight

RanksHigher(a, b) ==
    LET bySize == /\ ClusterSize(a) # ClusterSize(b)
                  /\ ClusterSize(a) < MinClusterSize \/ ClusterSize(b) < MinClusterSize
    IN  IF bySize THEN ClusterSize(a) > ClusterSize(b) ELSE a.Weight > b.Weight

\* ComputeClusterWeightPush.
Weighted(clusters, window) ==
    [k \in DOMAIN clusters |->
        LET age == Age(clusters[k].BestTimestamp, IterTimestamp, window)
        IN  [Cluster |-> clusters[k],
             Age |-> age,
             Weight |-> clusters[k].Importance
                          * (IF age = {} THEN One ELSE Sigmoid(CHOOSE a \in age : TRUE, 8))]]

\* For each category its clusters, the highest ranked first.
Rank(weighted) ==
    LET ranked == StableSort(weighted, RanksHigher)
    IN  [category \in Categories |->
            Selected(ranked, LAMBDA w : category \in {w.Cluster.Category, "NC_ANY"})]

NoAnswer == [mode |-> "none"]

-----------------------------------------------------------------------------
Init ==
    /\ docs \in UNION {[1 .. n -> DocumentKinds] : n \in 0 .. MaxDocs}
    /\ MinClusterSize \in MinClusterSizes
    /\ stage = "docs"
    /\ Clusters = [language \in Clusterings |-> << >>]
    /\ IterTimestamp = 0
    /\ TrueMaxTimestamp = 0
    /\ answer = NoAnswer

Cluster ==
    /\ stage = "docs"
    /\ \E labels \in [Clusterings -> UNION {Labellings(n) : n \in 0 .. Len(docs)}] :
          /\ \A language \in Clusterings :
                labels[language] \in Labellings(Len(Lang2Docs(language)))
          /\ Clusters' = [language \in Clusterings |->
                SortedClusters(LabelledClusters(Lang2Docs(language), labels[language]))]
    /\ LET sorted == SortedDocs
       IN  /\ IterTimestamp' = GetIterTimestamp(sorted)
           /\ TrueMaxTimestamp' = IF sorted = << >> THEN 0 ELSE FetchTime(Last(sorted))
    /\ stage' = "clusters"
    /\ UNCHANGED <<docs, MinClusterSize, answer>>

\* TSummarizer::Summarize, and for the mode "threads" instead the end.
Summarize ==
    /\ stage = "clusters"
    /\ Clusters' = [language \in Clusterings |->
          [k \in DOMAIN Clusters[language] |-> Summarized(Clusters[language][k])]]
    /\ stage' = "index"
    /\ UNCHANGED <<docs, MinClusterSize, IterTimestamp, TrueMaxTimestamp, answer>>

LimitedRank(weighted, category) ==
    LET ranked == Rank(weighted)[category]
    IN  SubSeq(ranked, 1, IF Len(ranked) < Limit THEN Len(ranked) ELSE Limit)

FromTimestamp(window) == IF TrueMaxTimestamp > window THEN TrueMaxTimestamp - window ELSE 0

\* What a query answers and what it was asked; "weighted" went into it.
Answer(mode, period, languages, weighted, shown) ==
    /\ answer' = [mode |-> mode, period |-> period, languages |-> languages,
                  weighted |-> weighted, shown |-> shown]
    /\ stage' = "answered"
    /\ UNCHANGED <<docs, MinClusterSize, indexVars>>

Threads(period, language, category) ==
    LET window == ToUint64(period)
        clusters == Clusters[language]
        due == SubSeq(clusters, LowerBound(clusters, FromTimestamp(window)), Len(clusters))
        weighted == Weighted(due, window)
    IN  /\ stage = "index"
        /\ Answer("/threads", period, {language}, weighted,
                  [c \in {category} |-> LimitedRank(weighted, c)])

\* On the command line AnnotateAll has dropped what is not news if it is not saved.
FromCommandLine == SaveNotNews \/ \A i \in DOMAIN docs : docs[i].Category # "NC_NOT_NEWS"

ClustersOf(language) == IF language \in Clusterings THEN Clusters[language] ELSE << >>

\* The mode "top".
Top(window) ==
    LET weighted == Weighted(ClustersOf("LN_EN") \o ClustersOf("LN_RU"), window)
        rubrics == Categories \ ({"NC_UNDEFINED"} \cup IF SaveNotNews THEN {} ELSE {"NC_NOT_NEWS"})
    IN  /\ stage = "index"
        /\ FromCommandLine
        /\ Answer("top", window, {"LN_EN", "LN_RU"}, weighted,
                  [c \in rubrics |-> Rank(weighted)[c]])

\* The mode "threads" prints the clusters of all languages, and does not rank.
PrintThreads ==
    LET clusters == ClustersOf("LN_UNDEFINED") \o ClustersOf("LN_RU")
                      \o ClustersOf("LN_EN") \o ClustersOf("LN_OTHER")
    IN  /\ stage = "clusters"
        /\ FromCommandLine
        /\ Answer("threads", 0, Clusterings, << >>,
                  [c \in {"NC_ANY"} |-> [k \in DOMAIN clusters |-> [Cluster |-> clusters[k]]]])

Next ==
    \/ Cluster
    \/ Summarize
    \/ \E period \in Periods, language \in Clusterings, category \in QueryCategories :
          Threads(period, language, category)
    \/ \E window \in Windows : Top(window)
    \/ PrintThreads

Spec == Init /\ [][Next]_vars

-----------------------------------------------------------------------------
(***************************************************************************)
(* Properties.                                                             *)
(***************************************************************************)
IndexedCluster ==
    [Documents : Seq(1 .. MaxDocs) \ {<< >>}, FreshestTimestamp : 0 .. Half - 1,
     Importance : Nat \ {0}, BestTimestamp : 0 .. Half - 1,
     Category : Categories \ {"NC_UNDEFINED", "NC_ANY"}]

IsSummarized == stage = "index" \/ (stage = "answered" /\ answer.mode # "threads")

\* The type invariant.  A cluster that can be ranked has a category of its own,
\* as Rank asserts.
TypeOK ==
    /\ docs \in Seq(DocumentKinds) /\ Len(docs) <= MaxDocs
    /\ MinClusterSize \in MinClusterSizes
    /\ stage \in {"docs", "clusters", "index", "answered"}
    /\ DOMAIN Clusters = Clusterings
    /\ IsSummarized => \A l \in Clusterings : Clusters[l] \in Seq(IndexedCluster)
    /\ IterTimestamp \in 0 .. Half - 1
    /\ TrueMaxTimestamp \in 0 .. Half - 1
    /\ stage = "answered" <=> answer # NoAnswer

\* The places of a language's documents: a cluster and a place in it.
Places(language) ==
    UNION {{k} \X DOMAIN Clusters[language][k].Documents : k \in DOMAIN Clusters[language]}

\* The index shows every document of a configured language, once, in one cluster
\* of its language, and nothing else.  No document at all is newer than
\* TrueMaxTimestamp, whatever its language, and no more documents than the
\* percentile leaves out are newer than IterTimestamp.
IndexIsComplete ==
    stage # "docs" =>
        /\ \A i \in DOMAIN docs, language \in Clusterings :
              Cardinality({p \in Places(language) : Clusters[language][p[1]].Documents[p[2]] = i})
                = IF docs[i].Language = language THEN 1 ELSE 0
        /\ \A i \in DOMAIN docs : FetchTime(i) <= TrueMaxTimestamp
        /\ docs # << >> => \E i \in DOMAIN docs : FetchTime(i) = TrueMaxTimestamp
        /\ Cardinality({i \in DOMAIN docs : FetchTime(i) > IterTimestamp}) * 100
              <= (100 - Percentile) * Len(docs)

\* Which clusters a query is about: those of its languages and category that
\* have a document of the period before the newest of all documents.  A negative
\* period of /threads is no restriction, and the command line has none.
ClustersOfLanguages(languages) ==
    UNION {ToSet(Clusters[language]) : language \in languages \cap Clusterings}

IsDue(cluster, period) ==
    period < 0 \/ \E i \in ToSet(cluster.Documents) : \A j \in DOMAIN docs :
        FetchTime(j) <= FetchTime(i) + period

Due(category) ==
    {cluster \in ClustersOfLanguages(answer.languages) :
        /\ answer.mode = "/threads" => IsDue(cluster, answer.period)
        /\ category \in {cluster.Category, "NC_ANY"}}

\* An answer shows clusters the query is about, each once, and all of them if
\* there are no more than the limit.
AnswerIsExact ==
    stage = "answered" =>
        \A category \in DOMAIN answer.shown :
            LET shown == answer.shown[category]
                due == Due(category)
            IN  /\ {shown[k].Cluster : k \in DOMAIN shown} \subseteq due
                /\ \A j, k \in DOMAIN shown : j # k => shown[j].Cluster # shown[k].Cluster
                /\ Len(shown) = IF answer.mode = "/threads" /\ Cardinality(due) > Limit
                                THEN Limit
                                ELSE Cardinality(due)

\* Clusters are shown by merit: below min_cluster_size a larger cluster comes
\* first, from there on size does not count, and clusters that are equal in that
\* go by their weights.  What the limit cuts off has no more merit than what is
\* shown.
Merit(w) == [size |-> IF ClusterSize(w) < MinClusterSize THEN ClusterSize(w) ELSE MinClusterSize,
             weight |-> w.Weight]

NoMoreMerit(a, b) ==
    \/ Merit(a).size < Merit(b).size
    \/ Merit(a).size = Merit(b).size /\ Merit(a).weight <= Merit(b).weight

BestComeFirst ==
    stage = "answered" /\ answer.mode # "threads" =>
        \A category \in DOMAIN answer.shown :
            LET shown == answer.shown[category]
                cut == {w \in ToSet(answer.weighted) :
                           /\ category \in {w.Cluster.Category, "NC_ANY"}
                           /\ \A k \in DOMAIN shown : shown[k] # w}
            IN  \A k \in DOMAIN shown :
                    /\ \A j \in 1 .. k : NoMoreMerit(shown[k], shown[j])
                    /\ \A w \in cut : NoMoreMerit(w, shown[k])

\* The mixed 32 and 64 bit arithmetic is that of the integers as long as the
\* window does not reach back behind the time 0: the penalty applies to what is
\* older than the window, by how much it is older, and nothing overflows.
AgesAreExact ==
    stage = "answered" =>
        \A w \in ToSet(answer.weighted) :
            LET end == w.Cluster.BestTimestamp + answer.period
            IN  end >= 0 => w.Age = IF end < IterTimestamp THEN {end - IterTimestamp} ELSE {}

\* The order of a cluster's documents, its title, importance and date are what
\* NewsCluster promises, for every cluster that is summarized.
SummarizedClusters ==
    IF IsSummarized THEN ClustersOfLanguages(Clusterings) ELSE {}

OrdersFollowWeights == \A cluster \in SummarizedClusters : OrderFollowsWeights(cluster)

ImportancesAreBestSlices == \A cluster \in SummarizedClusters : ImportanceIsBestSlice(cluster)
=============================================================================
