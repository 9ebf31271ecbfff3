----------------------------- MODULE SlinkStitch -----------------------------
(***************************************************************************)
(* TSlinkClustering::Cluster (src/src/clustering/slink.cpp): the documents *)
(* are clustered in batches of chunk_size, each of which repeats the last  *)
(* intersection_size documents of the one before.  A document's label is   *)
(* the one its first batch gave it; when all batches are done, a label     *)
(* that a repeated document had is translated to the one the next batch    *)
(* gave it, and documents of equal labels become a cluster.                *)
(*                                                                         *)
(* ClusterBatch is SlinkBatch's: it labels a batch with the positions of   *)
(* the clusters' first documents (LabelsAreFirstDocuments there), and      *)
(* which documents it puts together is arbitrary here.                     *)
(***************************************************************************)
EXTENDS Integers, Sequences

CONSTANTS
    chunk_size,
    intersection_size,
    MaxDocs             \* how many documents there may be

ASSUME StitchAssumption ==
    /\ chunk_size \in Nat
    /\ intersection_size \in Nat
    /\ intersection_size < chunk_size
    /\ MaxDocs \in Nat

VARIABLES
    docSize,          \* the number of documents
    labels,           \* the labels of the documents clustered so far
    oldLabelsToNew,   \* the pairs of a translated label and its translation
    batchStart,       \* how many documents precede the next batch
    prevBatchEnd,     \* how many documents the batches so far have seen
    maxLabel,         \* the largest label of the batch before
    batches,          \* history: where each batch started and its labels
    pc                \* "batches" in the loop, "relabelled" after it

vars == <<docSize, labels, oldLabelsToNew, batchStart, prevBatchEnd, maxLabel, batches, pc>>

-----------------------------------------------------------------------------
Smaller(a, b) == IF a <= b THEN a ELSE b

\* What ClusterBatch can return for n documents.
ClusterBatch(n) ==
    {l \in [1 .. n -> 0 .. n - 1] : \A i \in 1 .. n : l[i] < i /\ l[l[i] + 1] = l[i]}

\* A batch's labels are moved up by the largest label of the batch before.
Shifted(batch) == [i \in DOMAIN batch |-> batch[i] + maxLabel]

\* Mutated form: the last batch is not cut to the documents there are.
batchSizeUnclipped == chunk_size

batchSize == Smaller(docSize - batchStart, chunk_size)

\* The positions in the batch of documents that already have a label.
Repeated == {i \in 1 .. intersection_size : batchStart + i <= Len(labels)}

\* oldLabelsToNew[oldLabel] is assigned document after document: the last one
\* with an old label decides its translation.
Translations(newLabels) ==
    {<<labels[batchStart + i], newLabels[i]>> :
        i \in {j \in Repeated :
                 \A k \in Repeated : labels[batchStart + k] = labels[batchStart + j] => k <= j}}

\* Mutated form: as with emplace, a label keeps the translation it has.
OverwrittenNever(translations) ==
    oldLabelsToNew \cup {t \in translations : \A u \in oldLabelsToNew : u[1] # t[1]}

\* A later translation of a label replaces an earlier one.
Overwritten(translations) ==
    translations \cup {t \in oldLabelsToNew : \A u \in translations : u[1] # t[1]}

\* Mutated form: the last repeated document gets a second label.
AddedTwice(newLabels) ==
    IF batchStart = 0
    THEN newLabels
    ELSE SubSeq(newLabels, Smaller(intersection_size, 1), Len(newLabels))

\* The labels of the documents no batch before had.
Added(newLabels) ==
    IF batchStart = 0
    THEN newLabels
    ELSE SubSeq(newLabels, intersection_size + 1, Len(newLabels))

\* Mutated forms: the next batch repeats nothing; it starts where this one did.
NextBatchStartUnrepeated == batchStart + batchSize
NextBatchStartKept == batchStart

NextBatchStart == batchStart + batchSize - intersection_size

Init ==
    /\ docSize \in 0 .. MaxDocs
    /\ labels = << >>
    /\ oldLabelsToNew = {}
    /\ batchStart = 0
    /\ prevBatchEnd = 0
    /\ maxLabel = 0
    /\ batches = << >>
    /\ pc = "batches"

\* One turn of the loop.
Batch(newLabels) ==
    /\ pc = "batches"
    /\ prevBatchEnd < docSize
    /\ \E i \in DOMAIN newLabels :
          /\ \A j \in DOMAIN newLabels : newLabels[j] <= newLabels[i]
          /\ maxLabel' = newLabels[i]
    /\ oldLabelsToNew' = Overwritten(Translations(newLabels))
    /\ labels' = labels \o Added(newLabels)
    /\ prevBatchEnd' = batchStart + batchSize
    /\ batchStart' = NextBatchStart
    /\ batches' = Append(batches, [start |-> batchStart, labels |-> newLabels])
    /\ UNCHANGED <<docSize, pc>>

\* One pass over the labels after the loop: a translation is not translated
\* again.
Relabel ==
    /\ pc = "batches"
    /\ prevBatchEnd >= docSize
    /\ \E translate \in {[i \in DOMAIN labels |->
                            LET translated == {t \in oldLabelsToNew : t[1] = labels[i]}
                            IN  IF translated = {} THEN labels[i]
                                ELSE (CHOOSE t \in translated : TRUE)[2]]} :
          labels' = translate
    /\ pc' = "relabelled"
    /\ UNCHANGED <<docSize, oldLabelsToNew, batchStart, prevBatchEnd, maxLabel, batches>>

Next ==
    \/ \E batch \in ClusterBatch(batchSize) : Batch(Shifted(batch))
    \/ Relabel

Spec == Init /\ [][Next]_vars

-----------------------------------------------------------------------------
(***************************************************************************)
(* Properties.                                                             *)
(***************************************************************************)

\* The type invariant.  batchStart is -intersection_size at the least: behind
\* the last batch, where nothing reads it.
TypeOK ==
    /\ docSize \in 0 .. MaxDocs
    /\ labels \in Seq(Nat)
    /\ oldLabelsToNew \in SUBSET (Nat \X Nat)
    /\ batchStart \in Int /\ batchStart >= -intersection_size
    /\ prevBatchEnd \in 0 .. docSize
    /\ maxLabel \in Nat
    /\ batches \in Seq([start : Nat, labels : Seq(Nat)])
    /\ pc \in {"batches", "relabelled"}

\* Whatever the sizes, the batches label each document exactly once, in order:
\* the assertion labels.size() == docs.size() behind the loop.
EachDocumentLabelledOnce ==
    /\ Len(labels) = prevBatchEnd
    /\ pc = "relabelled" => Len(labels) = docSize

\* The repeated documents that the translation looks up with newLabels.at() are
\* all in the batch, and there are intersection_size of them.
RepeatedAreInBatch ==
    pc = "batches" /\ 0 < prevBatchEnd /\ prevBatchEnd < docSize =>
        /\ Repeated = 1 .. intersection_size
        /\ intersection_size < batchSize

\* The position in a batch of the first document that no batch before had.
First(b) == IF b = 1 THEN 1 ELSE intersection_size + 1

\* Documents that the first batch they are in puts together are in one cluster
\* in the end: no document is given another one's label.
TogetherInBatchIsTogether ==
    pc = "relabelled" =>
        \A b \in DOMAIN batches :
            LET l == batches[b].labels
            IN  \A i, j \in First(b) .. Len(l) :
                   l[i] = l[j] => labels[batches[b].start + i] = labels[batches[b].start + j]

\* The label that a document got from the first batch it is in.
IsFirstLabel(label, document) ==
    \E b \in DOMAIN batches : \E i \in First(b) .. Len(batches[b].labels) :
        batches[b].start + i = document /\ batches[b].labels[i] = label

\* Where documents come up again: batches but the first, and positions in them,
\* in the order in which the loop gets there.
Repetitions == (DOMAIN batches \ {1}) \X (1 .. intersection_size)

Document(r) == batches[r[1]].start + r[2]

IsBefore(r, s) == r[1] < s[1] \/ (r[1] = s[1] /\ r[2] < s[2])

IsLastOf(r, label) ==
    /\ IsFirstLabel(label, Document(r))
    /\ \A s \in Repetitions :
          IsFirstLabel(label, Document(s)) => s = r \/ IsBefore(s, r)

\* A cluster of a batch ends up where a later batch puts its last document that
\* comes up again, and stays by itself if none does, over however many batches
\* its documents spread.  Clusters of two batches are thereby united wherever the
\* second batch has the last word on the first one's.
ClustersFollowLastRepetition ==
    pc = "relabelled" =>
        \A b \in DOMAIN batches : \A i \in First(b) .. Len(batches[b].labels) :
            LET label == batches[b].labels[i]
                document == batches[b].start + i
            IN  \/ /\ \A r \in Repetitions : ~IsFirstLabel(label, Document(r))
                   /\ labels[document] = label
                \/ \E r \in Repetitions :
                      /\ IsLastOf(r, label)
                      /\ labels[document] = batches[r[1]].labels[r[2]]

\* Every turn of the loop gets to documents no turn before saw, so the loop ends
\* for any number of documents.
LoopMakesProgress == [][prevBatchEnd' > prevBatchEnd \/ pc' = "relabelled"]_vars

\* assert(pair.first < pair.second): a label is only ever translated to a
\* larger one, a label of a later batch.
TranslationsGoForward == \A t \in oldLabelsToNew : t[1] < t[2]
=============================================================================
