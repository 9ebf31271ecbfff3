# A TLA+ model of tgcontest

tgcontest is a news aggregator in C++: it takes articles, detects their language and category, clusters
the articles of a language into stories, and ranks the stories. It runs as a command line program over a
directory of files and as an HTTP server that keeps its articles in RocksDB and re-clusters them all the time.

Paths below are relative to `src/src/`.

## The system: components, state, interactions

| component | code | state it keeps | operations | talks to |
|---|---|---|---|---|
| HTTP controller | `controller.cpp`, `controller.h` | pointers to the index, the database, annotator and ranker; the atomic `Initialized` | `Init`, `Put`, `Post`, `Delete`, `Get`, `Threads` | RocksDB (get, put, delete, KeyMayExist), annotator (call), index (atomic load), ranker (call) |
| Clustering thread | `run_server.cpp`, `server_clustering.cpp`, `hot_state.h` | `firstRun`; per round the documents read and their newest fetch time | `ReadDocs`, `RemoveStaleDocs`, `MakeIndex`, `AtomicSet`, `Init` after the first round, sleep | RocksDB (snapshot, delete), clusterer, summarizer, controller |
| RocksDB | external | documents by file name | put, delete, get, snapshot iteration, KeyMayExist | |
| Document | `db_document.*`, `proto/` | the annotated document and its protobuf and JSON forms | `IsNews`, `IsFullyIndexed`, `IsStale`, `ToProto`, `FromProto` | |
| Annotator | `annotator.*` | models, embedders, configuration; read only | `AnnotateAll`, `AnnotateHtml`, `AnnotateDocument` | thread pool, detectors, embedders |
| Clusterer, index | `clusterer.*` | one clustering per configured language | `Cluster`, iteration timestamp | SLINK |
| SLINK | `clustering/slink.cpp` | matrix, nearest neighbours, labels, sizes, sites | `Cluster` (batches, stitching), `ClusterBatch` | |
| News cluster | `cluster.*` | documents, freshest timestamp, category, importance | `AddDocument`, `CalcCategory`, `Summarize`, `CalcImportance`, `SortByWeights` | agency and Alexa ratings |
| Ranker | `ranker.*` | none | `Rank`: categories and weights within a window | |
| Summarizer, agency rating | `summarizer.*`, `agency_rating.*` | tables | `Summarize`, scores | clusters |
| Thread pool | `thread_pool.*` | task queue, `IsDone`, a mutex and a condition variable | constructor, `enqueue`, destructor | workers |
| Command line | `main.cpp` | options | the modes `languages`, `news`, `categories`, `threads`, `top`, `server`, `json` | all of the above |
| Intake of a page | `document.cpp`, `util.cpp`, `detect.cpp`, `nasty.cpp` | the `TDocument` being filled | `FromHtml`, `DateToTimestamp`, `DetectLanguage`, `ComputeDocumentNasty` | tinyxml2, fastText |
| Embedders | `embedders/` | models, read only | text to vectors | |

**What is hard.** Handler threads and the clustering thread share the database, one flag and one pointer, and
nothing else orders them. A round of clustering reads a snapshot and deletes from the live database later. The
staleness of documents is measured against the newest document, not against a clock. The process may die
anywhere, and all that survives is RocksDB; what one document does to the clustering thread, it does again after
the restart. SLINK keeps nearest neighbours incrementally instead of searching the matrix, and batches that
overlap are stitched by translating labels. The thread pool is the usual queue with a condition variable. The
documents of a cluster are sorted by a comparator with a tolerance, which is no order; dates go through unsigned
arithmetic, and titles are judged byte by byte.

**What makes each component correct.**

- Controller: answers every request; status codes are true as far as clients do not race; nothing is stored that was not
  asked for, at most once; no null pointer before `Init`.
- Clustering thread: publishes live documents of one snapshot; removes from the database what it removes from
  the index and nothing else, the known window excepted; never throws; gets to the end of its first round.
- SLINK batch: no exception from its `ENSURE`; single linkage where nothing is rejected; clusters within their
  limits of size, distance and sites where something is.
- SLINK stitching: one label per document, lookups in range, an end; a cluster of a batch ends up
  where a later batch puts the last of its documents that comes up again, so no translation is lost.
- Clusterer, news cluster, ranker: every document in one cluster; clusters sorted where `lower_bound` relies on
  it; a query shows what falls into its window, the best first; mixed widths and signs of integers do not matter.
- Thread pool, `AnnotateAll`: no wakeup is lost; every task runs once; every future becomes ready; the destructor
  returns after all tasks; the outcome, down to what is printed, does not depend on the schedule.
- Intake: a page is read as what it says or dropped, dates to the second; the scan of a title finds the titles
  that are mostly unknown symbols.

## Modules

| module | models | state and actions against the code |
|---|---|---|
| `Documents` | `db_document.h`, the enums, `ParseTtlHeader` | operators only. A document is a record of language, category, the keys of its embeddings, fetch time and ttl. `ToProto` is the round trip through the database, which keeps 32 bits of the ttl (`TtlModulus`). |
| `Annotator` | `TAnnotator::AnnotateDocument`, `ParseDbDocFromReq` | operators only. What the models answer is part of a request's `Body`. |
| `NewsServer` | `TController`, `RunServer`, `TServerClustering` | `db` is RocksDB; `wired`, `initialized` the controller's members; `hot` the `THotState`; `cpc`, `snap`, `ts`, `pending`, `firstRun` the clustering thread; `hpc`, `req`, `code` each handler's place, request and answer. One action per access to shared state: `Put`, `Post`, `Delete` run up to their first database call, then `GetCode`, `IndexDbDoc`, `DeleteLookup`, `DeleteFromDb`. |
| `NewsStore` | nothing in the code: what the server promises | an atomic store. A request takes effect at most once between being asked and answered; a view is the live part of one snapshot; only a request or being outdated in a snapshot removes a document. |
| `SlinkBatch` | `TSlinkClustering::ClusterBatch` | the local variables of the function; one action per way through the body of its loop (`StopLinking`, `RejectLink`, `Link`) and one for the loop's end. |
| `SlinkStitch` | `TSlinkClustering::Cluster` | the local variables; `Batch` is a turn of the loop, `Relabel` the pass behind it. `batches` is a history variable. |
| `ThreadPool` | `TThreadPool` | `Tasks`, `IsDone`; `worker` and `task` are where each thread is. What happens under the mutex is one step, `wait` tests and goes to sleep in one step, `notify_one` is a step after the mutex is released. |
| `AnnotateAll` | `TAnnotator::AnnotateAll`, the modes of `main.cpp` that print its result | the function's variables and place; `futures` holds the shared states. The tasks are `RunTask` of the pool's workers. Every way out runs the pool's destructor (`StopPool`, `NotifyWorkers`, `Join`); `PrintResult` is what `main` does with the documents. |
| `AnnotateInOrder` | nothing in the code: what `AnnotateAll` and these modes promise | one thread takes a document at a time, keeps it or not, stops at the first that throws, and prints the kept ones under their headings. |
| `Sorting` | `std::stable_sort` (external) and loops that pick elements in their order | operators only. What is sorted are places, the comparator is a set of pairs of them: two halves sorted by insertion and merged, as libstdc++ does it for up to 14 elements. |
| `NewsCluster` | `TNewsCluster` | operators over `docs`: `DocWeight`, `SortByWeights`, `CalcImportance`, `CalcCategory`, and `Summarized`, which is what they do to a cluster together. Weights are fixed point, the sigmoid is a constant. |
| `Intake` | `TDocument::FromHtml`, `DateToTimestamp`, `TooManyUnknownSymbols`, `DetectLanguage`, `ComputeDocumentNasty`, `ParseHtml` | `doc` is the `TDocument`, `element` the meta or paragraph at hand, `i`, `realSize`, `badSymb` the locals of the scan; one action per round of each loop and per exit. A title is its bytes. Ends in `AnnotateDocument` of `Annotator`. |
| `NewsIndex` | `TClusterer::Cluster`, `TSummarizer::Summarize`, `TRanker::Rank`, the answer of `Threads`, the modes `top` and `threads` | `docs`, `Clusters`, the two timestamps of `TClusterIndex`, and `answer`, which keeps what went into a query. A document is its position, which is the order of the file names. |
| `NewsServerProofs`, `NewsStoreProofs`, `SlinkBatchProofs`, `SlinkStitchProofs`, `AnnotateAllProofs`, `SortingProofs`, `NewsIndexProofs`, `IntakeProofs` | | theorems, below |
| `MCNewsServer`, `MCSlinkBatch`, `MCAnnotateAll`, `MCNewsIndex`, `MCIntake` | | constants for TLC |

`NewsServer` composes the controller, the clustering thread and the database with `Annotator` and `Documents`.
`SlinkStitch` stands on `SlinkBatch` through one property: `ClusterBatch` in `SlinkStitch` is any labelling that
`LabelsAreFirstDocuments` allows, and `BatchesCanBeStitched` proves that a batch is one of them. `NewsIndex` stands on
`SlinkStitch` in the same way: its clusters are any partition of a language's documents, and its `Summarize` applies
`NewsCluster` to each. `AnnotateAll` composes `ThreadPool` with `Annotator`; `Intake` puts the parsing and the
detection in front of `Annotator`. `NewsServer` instantiates `NewsStore` with a refinement mapping (`Abstract`),
`AnnotateAll` instantiates `AnnotateInOrder` (`InOrder`): what it has taken from the futures is what the one thread
has done.

Abstractions worth knowing:

- What a thread does between two accesses to shared state is part of the step before or after. Reading
  `Initialized` with acquire after its store with release makes program order visible, so the model is
  sequentially consistent there.
- An index is the set of documents it shows, with its newest fetch time; how they are grouped is `SlinkBatch`'s
  and `SlinkStitch`'s subject, and how it is queried is `NewsIndex`'s.
- `Clusterable` stands for every `at()` on the embeddings of a document while it is clustered and summarized:
  a missing key throws in the clustering thread, and an exception that leaves a `std::thread` ends the process.
- The database holds what `IndexDbDoc` wrote. `ReadDocs` therefore has no value to skip as empty or unparsable
  (`server_clustering.cpp:30`), and `FromProto` meets no key of an embedding twice (`db_document.cpp:29`).
- Two details of the code cannot show. Documents of one time are compared by their titles' lengths only if both file
  names are empty (`clusterer.cpp:33`); in the model names differ. `CalcImportance` limits its exponent to -15
  from below, which is part of what a monotone `Sigmoid` may do.
- The mutated forms beside some definitions (`...Forgotten`, `...Inverted`, ...) are plausible bugs of the code
  that the properties must notice. No specification uses them.

## Runs

| run | instance | question |
|---|---|---|
| `store` | 2 names, 1 handler, 5 bodies, 3 headers, 1 crash, empty database | Do handlers, evictions, publications and crashes keep database and index in agreement, and does it all implement `NewsStore`? |
| `races` | 2 names, 2 handlers, racing clients, old documents | Does it also when two handlers work on one name, and an eviction in between? |
| `answers` | 2 names, 2 handlers, clients that do not race, failing writes, an outdated document and one of another configuration | Are status codes true, and does the index hold live documents only? |
| `liveness` | 2 names, 1 handler, 3 bodies, one of them not fully indexed, 1 crash, fairness | Does the server open, answer, and show what is stored? |
| `notnews` | 1 name, 1 handler | Is `assert(doc.IsNews())` true of what is clustered? It is not. |
| `slink` | 4 documents, 4 distances, 3 configurations, 2 sitings | Does incremental linking do what a search of the whole matrix would, within the limits? |
| `stitch` | batches of 4 with 2 repeated, up to 8 documents | Are documents labelled once, in range, and united as the repeated documents say, over three batches? |
| `stitch_assert` | as `stitch` | Is `assert(pair.first < pair.second)` true? It is not. |
| `annotate` | 3 workers, up to 3 documents of 6 kinds, 3 input formats, the mode `categories` | Is a wakeup ever lost, a task dropped or run twice, a future never ready? Does every schedule end and print what one thread would (`AnnotateInOrder`)? |
| `index` | up to 3 documents of 16 kinds, 3 languages of which 2 are configured, 3 fetch times, 2 hosts, limit 1 | Is the index complete, are each cluster's order, importance and date right, and does a query show what it should, the best first? |
| `intake` | titles of up to 4 symbols, up to 3 metas in every order, dates in 12 forms, every element missing | Is a page read as what it says or dropped? Does the scan of the title reject what is mostly unknown and keep what is mostly known? |
| `intake_quotes` | as `intake` | Is a title nasty that begins with `«`, as the comment says? It is not. |

**Bounds, and why they are enough.** Two names give a document and the one that outdates it; a request on either
can fall into every gap of the other's eviction. Two handlers are all that `GetCode` and `IndexDbDoc` need to
race; more only repeat it. Fetch times 0 and 1 with ttl 0 give live, expired and outdating documents;
`TtlModulus` is 4 and one header asks for the age 4, so narrowing changes a ttl to 0. `MaxCrashes` bounds
`Crash`: one crash reaches every state of the database between two steps, and the process after it starts as a
first one does. The runs with crashes are `store` and `liveness`; `races` and `answers` are about handlers and have none. In `slink`, four documents are the fewest with a link between two clusters of two, a
rejected link that changes a neighbour, and a repair of a neighbour that was linked away; distances 0 to 3 give
ties, all thresholds and INF_DISTANCE. In `stitch`, eight documents give three batches and a last one cut short.
In `annotate`, three workers allow one to
work, one to sleep and one to be between both while the destructor runs; three documents are more tasks than
workers that wait. A task throws (`Unannotatable`), does not parse, or yields a document that is dropped; the
kept ones fall under two headings. In
`index`, `Half` and `Wide` are 4 and 64 for 2^31 and 2^64, three documents give clusters of the sizes 1 and 2 side by
side and one of three with weights that are pairwise within the tolerance or not (`Tolerance` 10 against weights
in quarters up to 40, one kind's negative), which is what the comparator needs to be intransitive; two hosts of different weights make
the best slice start early or late; `MCSigmoid` rises in four steps. `min_cluster_size` is 1 or 2, and the percentile is 50 because 99 selects the last of three. Fetch times stay
below `Half`: no dates after 2038. A `--window_size` that is negative or wraps at once is left out (`Windows`).
In `intake`, `Half` is 100 for 2^63 and the largest
zone 20: dates on both sides of 1970 cross it in either direction. Three metas out of 12 give every order of two
that count and one between them. Titles draw on every branch of the scan (ASCII, both halves of the Russian
alphabet, a two-byte symbol outside of it, three and four bytes, and a block whose first byte the scan takes for
three bytes); four symbols give all shares of unknown ones around a third and a half. Titles are nasty by length
below 6 and 4 bytes instead of 30 and 16.
`SYMMETRY` over handlers is used in runs of safety properties only; no property distinguishes handlers.

`CHECK_DEADLOCK FALSE` stands in the configurations of SLINK, `AnnotateAll`, `NewsIndex` and `Intake` only: a
function returns. The server never stops. That `AnnotateAll` does not hang is part of `ImplementsAnnotateInOrder`:
`EndingSpec` promises an outcome.

**Fairness** (`FairSpec`). The clustering thread loops without waiting for anybody, and so do the steps of a
handler that has accepted a request: drogon's threads and the clustering thread are scheduled by the operating
system, so each is weakly fair. Nothing obliges a client to send a request, the process to die, or anyone to
restart it, so none of these is fair. `StoredDocsSurface` ends when the process does. `BecomesReady` excuses only
that the process is killed once more, at most `MaxCrashes` times: a clustering thread that throws on a document it
finds in the database violates it, as it would throw again at every start. `RequestsAreAnswered` says that a handler
comes to its callback, at least once; that no path calls it twice is how the handlers' actions are written.
`AnnotateAll`'s own thread and each worker are weakly fair; a spurious wakeup may happen and is not fair, so a
notification that is missing is noticed. `ImplementsAnnotateInOrder` needs at least one worker: with none
(`hardware_concurrency()` may return 0) the first `get()` never returns.

**Findings.** `notnews`: the server stores and clusters NC_NOT_NEWS documents, which `CalcCategory` asserts away
(`cluster.cpp:183`); `AnnotateAll` filters them, the server's path does not. `stitch_assert`: the labels of two
consecutive batches share one value (`slink.cpp:96` adds the maximum, not one more), against the assertion of
`slink.cpp:117`. Both assertions are compiled out by NDEBUG; then a cluster of "not news" is served, and two
clusters of different batches can be united by chance. `intake_quotes`: `nasty.cpp:18` looks for `«` (its comment
says) by comparing one byte with 0xab, but titles are UTF-8, where the first byte of `«` is 0xc2.

Some behaviours are known to the authors or permitted and are therefore modelled and not reported: a request may
overwrite another's document between `GetCode` and `IndexDbDoc` and report the older code (TODO at
`controller.cpp:101`), bloom filters may turn 201 into 204 and 404 into 204 (TODO at 102), an eviction may remove
a version written after its snapshot, and `/threads` throws for a language without a clustering (TODO at 201).
`AnswersAreTrue` is checked for clients with one request per name at a time for that reason (`SerialClients`).

`AnnotateAll` in the mode `languages` keeps no document: `AnnotateDocument` returns before it computes embeddings
(`annotator.cpp:171`) and `IsFullyIndexed` asks for one (`annotator.cpp:130`). Nothing in the repository says what
the mode should print, so this is an observation: it prints an empty list, and the headings of that mode in
`Printed` are never used. `/threads` with a negative period returns all clusters of the
language; `AnswerIsExact` states that, as it does for every window that reaches back behind the time 0, which `AgesAreExact`
leaves out. `FromProto` fills the description from
the text (`db_document.cpp:15`); nothing in the server reads the description afterwards. The scan of a title counts an unknown symbol of two
bytes twice where its second byte looks like the start of one, and loses its place behind U+0700 to U+07FF, which it
takes for three bytes; `RejectionIsAboutUnknowns` states what remains true, for titles that are UTF-8 and without
that block. A page
without `article:published_time` has the fetch time 0, which any other document outdates. An author element without
text makes `GetText()` a null pointer (`document.cpp:197`); the model ends there (`pc` is `"dead"`). The order of a
cluster's documents, under a comparator that is not transitive, is right up to one tolerance for each place
between two documents (`OrderFollowsWeights`).

## Theorems

All proofs are for any constants that satisfy the modules' assumptions: any number of names, handlers, bodies,
headers, crashes, documents, distances, workers, any fault of the database.

| theorem | states | argument |
|---|---|---|
| `TypeCorrect` | `TypeOK` | inductive with `RequestsTyped`: a handler past its checks holds a request, and one that will index holds a document |
| `HandlersAreWired` | `ReadyMeansWired` | inductive with `WiringInv`, the order in which the clustering thread publishes, wires and opens |
| `FreshestDocSurvives` | `FreshestSurvives` | `RoundInv`: during a round, `ts` is the maximum of the snapshot's fetch times; the document that has it is not stale because ttls are natural numbers |
| `LossOnlyInRace` | `LossNeedsRace` | `RoundInv`: an untouched name holds what the snapshot holds, so what is deleted there was stale |
| `AnswersTellTheTruth` | `AnswersAreTrue` | `AnswerInv`: busy handlers work on different names (`SerialClients`, the theorem's assumption), so a name found free stays free until the handler writes; the clustering thread only deletes |
| `IndexHoldsLiveDocs` | `IndexIsLive` | at publication from `FreshestSurvives` and `Fresh`; no other step changes `hot` |
| `IndexAgreesWithStore` | `IndexMirrorsStore`, `RoundMirrorsStore` | `RoundInv` carries the agreement through the deletions; publication needs `pending` empty |
| `RequestsNeverPoison` | `StoreStaysClusterable` | assumes that each configured language has an embedder for each key its clustering weighs, and a database that starts so. `IsFullyIndexed` alone does not imply it: the run `answers` starts from a document of another configuration, and its server dies at every start |
| `ServerImplementsStore` | `ImplementsNewsStore` | step by step: a handler's checks are `Ask`, its last database call `Apply` or `Decline`, a deletion of a stale document `Evict`, the publication `PublishView`, a crash `Forget`, all else stutters; needs that the database holds storable documents only and that a handler's place tells its method |
| `LoopTypeCorrect`, `DocumentsAreLabelledOnce`, `LookupsAreInRange`, `LoopEnds` | `TypeOK`, `EachDocumentLabelledOnce`, `RepeatedAreInBatch`, `LoopMakesProgress` of `SlinkStitch` | `LoopInv`: the labels end where the last batch did, and a batch that is not the last is full, so the next one starts behind 0 and has more documents than it repeats. Needs `intersection_size < chunk_size` |
| `LastRepetitionCounts` | `ClustersFollowLastRepetition` | inductive with `RepetitionInv`: a translation is that of the last document so far that has its label and is repeated, in the order of the loop, and every repeated document's label is translated; the last pass applies that once |
| `StitchingKeepsTogether` | `TogetherInBatchIsTogether`, a weaker and simpler promise that no run checks | inductive with `LabelsAreOfFirstBatch`: until the last pass a document has the label of its first batch, at the position that batch gave it; the last pass maps equal labels to equal ones |
| `TypeCorrect`, `ClosestPairIsFound`, `EnsureNeverThrows` | `TypeOK`, `PairIsClosest`, `DistancesNeverDecrease` of `SlinkBatch` | `MatrixInv`: the matrix is symmetric, has distances between names of clusters only, and `nnDistances` holds the minimum of each row and `nn` where it is (`NeighboursAreNearest`). A link or a rejection makes nothing closer than the pair it looked at, so the minimum cannot fall. Needs thresholds below `INF_DISTANCE` |
| `LabelsNameClusters`, `NoSiteTwice` | `LabelsAreFirstDocuments`, `SitesAreDistinct` | the pair of a level are two names, the smaller first, so the relabelling in place does what a simultaneous one would; sizes and, with `SitesAreKnown`, site names add up over disjoint clusters |
| `BigClustersAreLinkedTightly` | `BigClustersAreTight` | `TightInv`: between two clusters some two documents are as close as the matrix says, and all that was linked so far is linked at the distance of the level before, so a new cluster is linked at the distance its acceptance was judged by |
| `ResultIsSingleLinkage` | `IsSingleLinkage` | `SingleInv`, while nothing is rejected: the matrix knows of every short distance between clusters, and each level uses up one name, so one cluster is left when the levels are |
| `BatchesCanBeStitched` | the labels of `SlinkBatch` are among `SlinkStitch`'s `ClusterBatch` | from `LabelsAreFirstDocuments`; with it, what is proved of the stitching holds of these batches |
| `TypeCorrect`, `EachTaskRunsOnce` | `TypeOK`, `TasksRunOnce` of `AnnotateAll` | what is queued or at work was enqueued; the queue, the workers and the finished futures hold each task once (`OnceInv`) |
| `PoolIsEmptied` | `PoolIsDrained` | `DrainInv`: a worker leaves only a stopped and empty pool, and the function only when every worker has. Needs a worker: with none (`hardware_concurrency()` may be 0) nothing drains the queue |
| `NoWakeupIsLost` | `NoTaskSleeps` | `SleepInv`: while a worker sleeps, each queued task has a worker on its way to the queue or a notification due; counts workers, so the pool must be finite |
| `PagesAreRead` | `ParsedIsPage` | inductive invariant `ReadInv`: after `k` metas, each text is that of the last complete one of its property among the first `k`, none of them had a bad date, and what is behind the metas is reached only if they all were read |
| `TypeCorrect` | `TypeOK` of `Intake` | inductive with `NotScanned`: until the scan starts, its counters are 0. Dates are natural numbers because `DateToTimestamp` ends in a comparison with 0 |
| `ScanApproximates` | `RejectionIsAboutUnknowns` | `ScanInv`: at the start of a symbol the scan has counted the known symbols once and each unknown one once or twice; between the two bytes of an unknown one it still owes its second count. A rejection compares these counts |
| `DateIsExact` | `DateToTimestamp` gives `Moment`, for every width of `time_t` and every date that stays within it | the unsigned sum differs from the signed one by the modulus or not at all, and the conversion back undoes it |
| `AnnotatesAsOneThread` | `InOrder!Spec`, the safety part of `ImplementsAnnotateInOrder` | inductive with `OrderInv`: a future that is not pending holds what its document comes to, the result holds wanted documents of the input, and an exception has its reason in the file or in the next document. Taking a result is `Annotate` or a stutter, printing is `Throw` or `PrintResult`, all else stutters |
| `SortedPlacesRespect` | what `Sorting` returns: each place once, none directly behind one that it is before | insertion and merging keep both, for every comparator that does not order two elements both ways; nothing else is assumed of it, least of all transitivity |
| `TypeCorrect`, `IndexCompletes` | `TypeOK`, `IndexIsComplete` of `NewsIndex` | `IndexInv`: the clusters of a language are a partition of its documents (`Partitions`) in the order of their freshest ones (`InOrder`), and no more documents than the percentile leaves are behind `IterTimestamp` |
| `OrdersFollow` | `OrdersFollowWeights` | `IndexInv` with `IsSummary`; the sort puts no document directly behind one it outweighs, so each place in between costs one tolerance |
| `ImportancesAreExact` | `ImportancesAreBestSlices` | the first document of a host from a place on is its earliest from that time on, so a slice counts what `SliceRank` sums; of documents of one time the first has the largest slice |
| `AnswersAreExact`, `BestAreFirst`, `AnswersHaveExactAges` | `AnswerIsExact`, `BestComeFirst`, `AgesAreExact` | `AnswerFits`, from `IndexInv` when the answer is given: the binary search ends at the first cluster of the window because the clusters are `InOrder`; merit is transitive although `RanksHigher` is written with sizes and weights (`MeritRanks`), so the sort orders all pairs and not only neighbours |
| `AgeIsExact` | `AgesAreExact` for one cluster | the conversions to 32 bits keep what fits, and give a negative period back; the unsigned sum wraps back to the mathematical one when that is not negative |

Assumptions worth knowing. `NewsIndex` assumes of the sigmoid that it is a natural number (fixed point) for every
shift the code uses, positive at 0 and monotone, and of hosts that they are numbers in the order of their spelling.
`AnnotateAll` assumes that no category model has a label for NC_ANY, which is a query's: `ranker.cpp:56` asserts it,
and in the mode `categories` a document of it would be printed nowhere. `Sorting` is the algorithm for up to 14
elements; the theorems take it for any number, so they show that the code is right if the sort leaves no element
directly behind one that it is before, which every sort does where the comparator is a strict weak order. That of
`SortByWeights` is none, and `OrdersFollow` is about this algorithm.

Inductions. The library's theorems of induction cannot be used with the provers at hand, so `SortingProofs` has its own: a
least counterexample exists because the natural numbers are well-founded (`MeasureInduction`), and a recursive
function satisfies its equation if it recurs to smaller measures (`RecursiveFunctionExists`). Insertion, merging,
sums over sets and the binary search are proved that way; nothing proved here is `RECURSIVE`.

Only model-checked: the liveness properties `BecomesReady`, `RequestsAreAnswered`, `StoredDocsSurface` and the
ending of `ImplementsAnnotateInOrder`, because fairness is out of the prover's reach. Two properties are proved
only, and runs check stronger ones: `RoundMirrorsStore` is the step on the way to `IndexMirrorsStore`, and
`TogetherInBatchIsTogether` follows from `ClustersFollowLastRepetition`.

## Not modelled, and why

By lines, most of the repository is vendored: `json.hpp` and tinyxml2 are nine tenths of the C++ code, and they are
external here, like drogon, RocksDB, fastText, ONNX and Eigen: RocksDB is an atomic map with snapshots, a page is
its elements, a model's answer is an input. Of the program's own code: the embedders and tokenizers (linear algebra
and calls of models, nothing shared); `CalcFeatures` and the country shares of a cluster, which only debug output
reads; `FromJson` and `ToJson`, which copy fields one by one; the loading of configurations and models; the
arithmetic of distances, where only comparisons matter to what is modelled (that Eigen's product of a matrix with its
own transpose is exactly symmetric, and that the embeddings' weights add up to 1, is assumed); weights that are not
a number, which an embedding of norm 0 would give a document (`cluster.cpp:39`) and for which no order is right. Loss of power (unsynced writes), and
the joinable thread at the end of `RunServer`, end the process and are not told apart from its death. The layout of
output.

## Plan

1. Done: `Documents`, `Annotator`, `NewsStore`, `NewsServer` with proofs; `SlinkBatch`; `SlinkStitch` with proofs.
2. Done: `ThreadPool`, `AnnotateAll`, `NewsIndex` with the theorem about its arithmetic.
3. Done: `AnnotateInOrder` and the modes of `main.cpp`; `NewsCluster`; `Intake` with proofs.
4. Done: the theorems of `SlinkBatch`, `SlinkStitch` and `AnnotateAll`, and `BatchesCanBeStitched`, which joins the
   first two; `AnswersTellTheTruth`.
5. Done: `Sorting`; the theorems of `NewsIndex`, the types and the scan of `Intake`, and `AnnotatesAsOneThread`.
   Every invariant and action property that a run checks is a theorem now.
6. Left: `NewsIndex` with `SlinkStitch` on one set of documents.
