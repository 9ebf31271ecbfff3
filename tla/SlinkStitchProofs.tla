-------------------------- MODULE SlinkStitchProofs --------------------------
(***************************************************************************)
(* For every number of documents, every chunk_size and every smaller       *)
(* intersection_size, TSlinkClustering::Cluster labels each document once, *)
(* looks up only repeated documents that are in the batch, ends, and puts  *)
(* every cluster of a batch where the last repetition of it says.          *)
(***************************************************************************)
EXTENDS SlinkStitch, SortingProofs

\* Where the loop is: behind a batch that is not the last, the next batch starts
\* intersection_size before the end of what has been labelled.
LoopInv ==
    /\ Len(labels) = prevBatchEnd
    /\ prevBatchEnd = 0 => batchStart = 0
    /\ prevBatchEnd > 0 => batchStart = prevBatchEnd - intersection_size
    /\ 0 < prevBatchEnd /\ prevBatchEnd < docSize => batchStart > 0
    /\ pc = "relabelled" => prevBatchEnd = docSize

\* Before a batch, what is left is at least one document more than is repeated,
\* and the batch ends within the documents.
LEMMA BatchSizeBounds ==
    ASSUME TypeOK, LoopInv, prevBatchEnd < docSize
    PROVE  /\ batchSize \in Nat \ {0}
           /\ batchStart \in Nat
           /\ batchStart + batchSize <= docSize
           /\ batchStart > 0 => batchSize > intersection_size
           /\ batchStart = 0 <=> prevBatchEnd = 0
           /\ batchStart + batchSize < docSize => batchSize = chunk_size
BY StitchAssumption DEF TypeOK, LoopInv, batchSize, Smaller

\* A batch's labels are natural numbers, one for each of its documents.
LEMMA ShiftedTyped ==
    ASSUME TypeOK, LoopInv, prevBatchEnd < docSize, NEW batch \in ClusterBatch(batchSize)
    PROVE  /\ Shifted(batch) \in [1 .. batchSize -> Nat]
           /\ Shifted(batch) \in Seq(Nat)
           /\ Len(Shifted(batch)) = batchSize
<1>1. batchSize \in Nat
  BY BatchSizeBounds
<1>2. batch \in [1 .. batchSize -> Nat]
  BY <1>1 DEF ClusterBatch
<1>3. Shifted(batch) \in [1 .. batchSize -> Nat]
  BY <1>2 DEF Shifted, TypeOK
<1>. QED
  BY <1>1, <1>3

\* The labels a batch adds are those of the documents behind the last one seen.
LEMMA AddedLength ==
    ASSUME TypeOK, LoopInv, prevBatchEnd < docSize,
           NEW newLabels \in Seq(Nat), Len(newLabels) = batchSize
    PROVE  /\ Added(newLabels) \in Seq(Nat)
           /\ Len(Added(newLabels)) = batchStart + batchSize - prevBatchEnd
<1>1. CASE batchStart = 0
  BY <1>1, BatchSizeBounds DEF Added
<1>2. CASE batchStart > 0
  <2>1. /\ intersection_size + 1 \in 1 .. Len(newLabels)
        /\ batchStart = prevBatchEnd - intersection_size
    BY <1>2, BatchSizeBounds, StitchAssumption DEF LoopInv, TypeOK
  <2>2. /\ SubSeq(newLabels, intersection_size + 1, Len(newLabels)) \in Seq(Nat)
        /\ Len(SubSeq(newLabels, intersection_size + 1, Len(newLabels)))
              = Len(newLabels) - (intersection_size + 1) + 1
    BY <2>1, SubSeqProperties, StitchAssumption
  <2>. QED
    BY <1>2, <2>1, <2>2, BatchSizeBounds, StitchAssumption DEF Added, TypeOK
<1>. QED
  BY <1>1, <1>2, BatchSizeBounds DEF TypeOK

\* A translation is a pair of labels.
LEMMA TranslationsTyped ==
    ASSUME TypeOK, LoopInv, prevBatchEnd < docSize,
           NEW newLabels \in [1 .. batchSize -> Nat]
    PROVE  Translations(newLabels) \subseteq Nat \X Nat
<1>. SUFFICES ASSUME NEW i \in Repeated
              PROVE  labels[batchStart + i] \in Nat /\ newLabels[i] \in Nat
  BY DEF Translations
<1>1. /\ i \in 1 .. intersection_size
      /\ batchStart + i \in 1 .. Len(labels)
  BY BatchSizeBounds, StitchAssumption DEF Repeated, TypeOK
<1>2. batchStart > 0 /\ i <= batchSize
  BY <1>1, BatchSizeBounds, StitchAssumption DEF LoopInv, TypeOK
<1>3. labels[batchStart + i] \in Nat
  BY <1>1 DEF TypeOK
<1>4. i \in 1 .. batchSize
  BY <1>1, <1>2, BatchSizeBounds, StitchAssumption
<1>. QED
  BY <1>3, <1>4

\* Every batch keeps the types and the place in the documents.
LEMMA BatchKeeps ==
    ASSUME TypeOK, LoopInv, NEW batch \in ClusterBatch(batchSize), Batch(Shifted(batch))
    PROVE  (TypeOK /\ LoopInv)'
<1>. DEFINE new == Shifted(batch)
<1>1. prevBatchEnd < docSize /\ pc = "batches"
  BY DEF Batch
<1>2. new \in [1 .. batchSize -> Nat] /\ new \in Seq(Nat) /\ Len(new) = batchSize
  BY <1>1, ShiftedTyped
<1>3. /\ Added(new) \in Seq(Nat)
      /\ Len(Added(new)) = batchStart + batchSize - prevBatchEnd
  BY <1>1, <1>2, AddedLength
<1>4. /\ labels' = labels \o Added(new)
      /\ prevBatchEnd' = batchStart + batchSize
      /\ batchStart' = batchStart + batchSize - intersection_size
      /\ batches' = Append(batches, [start |-> batchStart, labels |-> new])
      /\ oldLabelsToNew' =
            Translations(new) \cup {t \in oldLabelsToNew : \A u \in Translations(new) : u[1] # t[1]}
      /\ UNCHANGED <<docSize, pc>>
  BY DEF Batch, NextBatchStart, Overwritten
<1>5. maxLabel' \in Nat
  BY <1>2 DEF Batch
<1>. HIDE DEF new
<1>6. labels' \in Seq(Nat) /\ Len(labels') = batchStart + batchSize
  <2>1. /\ labels \in Seq(Nat) /\ Len(labels) = prevBatchEnd
        /\ prevBatchEnd \in Int /\ batchStart \in Int /\ batchSize \in Int
    BY <1>1, BatchSizeBounds DEF TypeOK, LoopInv
  <2>2. /\ labels \o Added(new) \in Seq(Nat)
        /\ Len(labels \o Added(new)) = Len(labels) + Len(Added(new))
    BY <2>1, <1>3, ConcatProperties
  <2>. QED
    BY <1>3, <1>4, <2>1, <2>2
<1>7. oldLabelsToNew' \in SUBSET (Nat \X Nat)
  BY <1>1, <1>2, <1>4, TranslationsTyped DEF TypeOK
<1>8. batches' \in Seq([start : Nat, labels : Seq(Nat)])
  BY <1>1, <1>2, <1>4, BatchSizeBounds, AppendProperties DEF TypeOK
<1>9. /\ docSize' \in 0 .. MaxDocs
      /\ batchStart' \in Int /\ batchStart' >= -intersection_size
      /\ prevBatchEnd' \in 0 .. docSize'
      /\ pc' \in {"batches", "relabelled"}
  BY <1>1, <1>4, BatchSizeBounds, StitchAssumption DEF TypeOK
<1>10. LoopInv'
  <2>1. /\ batchStart \in Nat /\ batchSize \in Nat \ {0}
        /\ batchStart + batchSize < docSize => batchSize = chunk_size
    BY <1>1, BatchSizeBounds
  <2>2. /\ Len(labels') = prevBatchEnd'
        /\ prevBatchEnd' > 0
        /\ batchStart' = prevBatchEnd' - intersection_size
    <3>1. Len(labels') = prevBatchEnd'
      BY <1>4, <1>6
    <3>2. /\ prevBatchEnd' = batchStart + batchSize
          /\ batchStart' = batchStart + batchSize - intersection_size
      BY <1>4
    <3>3. prevBatchEnd' > 0 /\ batchStart' = prevBatchEnd' - intersection_size
      BY <3>2, <2>1, StitchAssumption
    <3>. QED
      BY <3>1, <3>3
  <2>3. prevBatchEnd' < docSize' => batchStart' > 0
    BY <1>4, <2>1, StitchAssumption
  <2>. QED
    BY <1>1, <1>4, <2>2, <2>3 DEF LoopInv
<1>. QED
  BY <1>5, <1>6, <1>7, <1>8, <1>9, <1>10 DEF TypeOK

\* The pass over the labels gives each document a label.
LEMMA RelabelKeeps ==
    ASSUME TypeOK, LoopInv, Relabel
    PROVE  (TypeOK /\ LoopInv)'
<1>1. PICK translate \in {[i \in DOMAIN labels |->
                           LET translated == {t \in oldLabelsToNew : t[1] = labels[i]}
                           IN  IF translated = {} THEN labels[i]
                               ELSE (CHOOSE t \in translated : TRUE)[2]]} :
             labels' = translate
  BY DEF Relabel
<1>2. ASSUME NEW i \in DOMAIN labels
      PROVE  labels'[i] \in Nat
  <2>1. labels[i] \in Nat
    BY <1>2 DEF TypeOK
  <2>2. CASE {t \in oldLabelsToNew : t[1] = labels[i]} = {}
    BY <1>1, <2>1, <2>2
  <2>3. CASE {t \in oldLabelsToNew : t[1] = labels[i]} # {}
    <3>1. (CHOOSE t \in {t \in oldLabelsToNew : t[1] = labels[i]} : TRUE) \in Nat \X Nat
      BY <2>3 DEF TypeOK
    <3>. QED
      BY <1>1, <2>3, <3>1
  <2>. QED
    BY <2>2, <2>3
<1>3. labels' \in Seq(Nat) /\ Len(labels') = Len(labels)
  <2>1. labels \in Seq(Nat) /\ DOMAIN labels = 1 .. Len(labels) /\ Len(labels) \in Nat
    BY DEF TypeOK
  <2>2. labels' \in [1 .. Len(labels) -> Nat]
    BY <1>1, <1>2, <2>1
  <2>. QED
    BY <2>1, <2>2
<1>. QED
  BY <1>3 DEF TypeOK, LoopInv, Relabel

\* The types and the place in the documents are kept throughout.
LEMMA LoopInvariant == Spec => [](TypeOK /\ LoopInv)
<1>1. Init => TypeOK /\ LoopInv
  <2>. SUFFICES ASSUME Init
                PROVE  TypeOK /\ LoopInv
    OBVIOUS
  <2>1. labels \in Seq(Nat) /\ Len(labels) = 0
    BY EmptySeq DEF Init
  <2>2. batches \in Seq([start : Nat, labels : Seq(Nat)])
    BY EmptySeq DEF Init
  <2>. QED
    BY <2>1, <2>2, StitchAssumption DEF Init, TypeOK, LoopInv
<1>2. TypeOK /\ LoopInv /\ [Next]_vars => (TypeOK /\ LoopInv)'
  <2>. SUFFICES ASSUME TypeOK, LoopInv, [Next]_vars
                PROVE  (TypeOK /\ LoopInv)'
    OBVIOUS
  <2>1. ASSUME NEW batch \in ClusterBatch(batchSize), Batch(Shifted(batch))
        PROVE  (TypeOK /\ LoopInv)'
    BY <2>1, BatchKeeps
  <2>2. CASE Relabel
    BY <2>2, RelabelKeeps
  <2>3. CASE UNCHANGED vars
    BY <2>3 DEF vars, TypeOK, LoopInv
  <2>. QED
    BY <2>1, <2>2, <2>3 DEF Next
<1>. QED
  BY <1>1, <1>2, PTL DEF Spec

\* The labels, their translations and the loop's positions keep their types.
THEOREM LoopTypeCorrect == Spec => []TypeOK
BY LoopInvariant, PTL

\* labels.size() == docs.size() behind the loop, whatever the sizes.
THEOREM DocumentsAreLabelledOnce == Spec => []EachDocumentLabelledOnce
<1>1. TypeOK /\ LoopInv => EachDocumentLabelledOnce
  BY DEF TypeOK, LoopInv, EachDocumentLabelledOnce
<1>. QED
  BY <1>1, LoopInvariant, PTL

\* newLabels.at() never throws: the batch has every repeated document.
THEOREM LookupsAreInRange == Spec => []RepeatedAreInBatch
<1>1. TypeOK /\ LoopInv => RepeatedAreInBatch
  <2>. SUFFICES ASSUME TypeOK, LoopInv, pc = "batches", 0 < prevBatchEnd, prevBatchEnd < docSize
                PROVE  Repeated = 1 .. intersection_size /\ intersection_size < batchSize
    BY DEF RepeatedAreInBatch
  <2>1. batchStart + intersection_size = Len(labels) /\ batchStart > 0
    BY StitchAssumption DEF LoopInv, TypeOK
  <2>2. Repeated = 1 .. intersection_size
    BY <2>1, StitchAssumption DEF Repeated, TypeOK
  <2>. QED
    BY <2>1, <2>2, BatchSizeBounds, StitchAssumption
<1>. QED
  BY <1>1, LoopInvariant, PTL

\* Every batch sees documents no batch before it saw: the loop ends.
THEOREM LoopEnds == Spec => LoopMakesProgress
<1>1. TypeOK /\ LoopInv /\ [Next]_vars
         => [prevBatchEnd' > prevBatchEnd \/ pc' = "relabelled"]_vars
  <2>. SUFFICES ASSUME TypeOK, LoopInv, Next
                PROVE  prevBatchEnd' > prevBatchEnd \/ pc' = "relabelled"
    OBVIOUS
  <2>1. ASSUME NEW batch \in ClusterBatch(batchSize), Batch(Shifted(batch))
        PROVE  prevBatchEnd' > prevBatchEnd
    BY <2>1, BatchSizeBounds, StitchAssumption DEF Batch, TypeOK, LoopInv
  <2>2. CASE Relabel
    BY <2>2 DEF Relabel
  <2>. QED
    BY <2>1, <2>2 DEF Next
<1>. QED
  BY <1>1, LoopInvariant, PTL DEF Spec, LoopMakesProgress

-----------------------------------------------------------------------------
\* Until the pass over the labels, a document's label is the one its first batch
\* gave it.
LabelsAreOfFirstBatch ==
    pc = "batches" =>
        \A b \in DOMAIN batches :
            \A i \in First(b) .. Len(batches[b].labels) :
                /\ batches[b].start + i \in DOMAIN labels
                /\ labels[batches[b].start + i] = batches[b].labels[i]

StitchInv ==
    /\ batches = << >> <=> prevBatchEnd = 0
    /\ LabelsAreOfFirstBatch
    /\ TogetherInBatchIsTogether

LEMMA AddedAreLast ==
    ASSUME TypeOK, LoopInv, prevBatchEnd < docSize,
           NEW newLabels \in Seq(Nat), Len(newLabels) = batchSize,
           NEW i \in 1 .. batchSize, i > prevBatchEnd - batchStart
    PROVE  /\ batchStart + i \in DOMAIN (labels \o Added(newLabels))
           /\ (labels \o Added(newLabels))[batchStart + i] = newLabels[i]
<1>1. /\ labels \in Seq(Nat) /\ Len(labels) = prevBatchEnd /\ prevBatchEnd \in Nat
      /\ batchStart \in Nat /\ batchSize \in Nat
  BY BatchSizeBounds DEF TypeOK, LoopInv
<1>2. /\ Added(newLabels) \in Seq(Nat)
      /\ Len(Added(newLabels)) = batchStart + batchSize - prevBatchEnd
  BY AddedLength
<1> DEFINE k == batchStart + i - prevBatchEnd
<1>3. k \in 1 .. Len(Added(newLabels))
  BY <1>1, <1>2
<1>4. /\ batchStart + i \in DOMAIN (labels \o Added(newLabels))
      /\ (labels \o Added(newLabels))[batchStart + i] = Added(newLabels)[k]
  <2>1. batchStart + i \in 1 .. Len(labels) + Len(Added(newLabels)) /\ batchStart + i > Len(labels)
    BY <1>1, <1>3
  <2> QED
    BY <1>1, <1>2, <2>1, ConcatProperties
<1>5. Added(newLabels)[k] = newLabels[i]
  <2>1. CASE batchStart = 0
    BY <1>1, <2>1, BatchSizeBounds DEF Added, LoopInv
  <2>2. CASE batchStart # 0
    <3>1. prevBatchEnd = batchStart + intersection_size /\ intersection_size \in Nat
      BY <1>1, <2>2, BatchSizeBounds, StitchAssumption DEF LoopInv
    <3>2. Added(newLabels) = SubSeq(newLabels, intersection_size + 1, Len(newLabels))
      BY <2>2 DEF Added
    <3>3. k \in 1 .. Len(newLabels) - (intersection_size + 1) + 1
      BY <1>1, <1>2, <1>3, <3>1
    <3>4. SubSeq(newLabels, intersection_size + 1, Len(newLabels))[k]
             = newLabels[intersection_size + 1 + k - 1]
      <4>1. /\ intersection_size + 1 \in 1 .. Len(newLabels) + 1
            /\ Len(newLabels) \in intersection_size + 1 - 1 .. Len(newLabels)
        BY <3>1, <3>3
      <4> HIDE DEF k
      <4> QED
        BY <3>3, <4>1, SubSeqProperties
    <3>5. intersection_size + 1 + k - 1 = i
      BY <1>1, <3>1
    <3> QED
      BY <3>2, <3>4, <3>5
  <2> QED
    BY <2>1, <2>2
<1> QED
  BY <1>4, <1>5

LEMMA BatchStitches ==
    ASSUME TypeOK, LoopInv, StitchInv, NEW batch \in ClusterBatch(batchSize),
           Batch(Shifted(batch))
    PROVE  StitchInv'
<1> DEFINE new == Shifted(batch)
           last == Len(batches) + 1
<1>1. prevBatchEnd < docSize /\ pc = "batches"
  BY DEF Batch
<1>2. new \in Seq(Nat) /\ Len(new) = batchSize
  BY <1>1, ShiftedTyped
<1>3. /\ labels' = labels \o Added(new) /\ pc' = "batches"
      /\ prevBatchEnd' = batchStart + batchSize
      /\ batches' = Append(batches, [start |-> batchStart, labels |-> new])
  BY <1>1 DEF Batch
<1> HIDE DEF new
<1>4. batches \in Seq([start : Nat, labels : Seq(Nat)]) /\ Len(batches) \in Nat
  BY DEF TypeOK
<1>5. /\ batches' \in Seq([start : Nat, labels : Seq(Nat)])
      /\ Len(batches') = last /\ batches'[last] = [start |-> batchStart, labels |-> new]
      /\ \A b \in DOMAIN batches : batches'[b] = batches[b]
      /\ DOMAIN batches' = DOMAIN batches \cup {last}
  <2>1. batchStart \in Nat
    BY <1>1, BatchSizeBounds
  <2> QED
    BY <1>2, <1>3, <1>4, <2>1, AppendProperties
<1>6. batches' # << >> /\ prevBatchEnd' # 0
  BY <1>1, <1>3, <1>4, <1>5, BatchSizeBounds
<1>7. ASSUME NEW b \in DOMAIN batches, NEW i \in First(b) .. Len(batches[b].labels)
      PROVE  /\ batches[b].start + i \in DOMAIN labels'
             /\ labels'[batches[b].start + i] = batches[b].labels[i]
  <2>1. /\ batches[b].start + i \in DOMAIN labels
        /\ labels[batches[b].start + i] = batches[b].labels[i]
    BY <1>1, <1>7 DEF StitchInv, LabelsAreOfFirstBatch
  <2>2. labels \in Seq(Nat) /\ Added(new) \in Seq(Nat)
    BY <1>1, <1>2, AddedLength DEF TypeOK
  <2>3. \A k \in DOMAIN labels : k \in DOMAIN labels' /\ labels'[k] = labels[k]
    BY <1>3, <2>2, ConcatProperties
  <2> QED
    BY <2>1, <2>3
<1>8. ASSUME NEW i \in First(last) .. Len(new)
      PROVE  batchStart + i \in DOMAIN labels' /\ labels'[batchStart + i] = new[i]
  <2>1. prevBatchEnd - batchStart = IF last = 1 THEN 0 ELSE intersection_size
    <3>1. last = 1 <=> prevBatchEnd = 0
      BY <1>4, EmptySeq DEF StitchInv
    <3> QED
      BY <3>1, StitchAssumption DEF LoopInv, TypeOK
  <2>2. i \in 1 .. batchSize /\ i > prevBatchEnd - batchStart
    BY <1>2, <1>8, <2>1, StitchAssumption DEF First
  <2> QED
    BY <1>1, <1>2, <1>3, <2>2, AddedAreLast
<1>9. ASSUME NEW b \in DOMAIN batches', NEW i \in First(b) .. Len(batches'[b].labels)
      PROVE  /\ batches'[b].start + i \in DOMAIN labels'
             /\ labels'[batches'[b].start + i] = batches'[b].labels[i]
  <2>1. CASE b \in DOMAIN batches
    BY <1>5, <1>7, <1>9, <2>1
  <2>2. CASE b = last
    BY <1>5, <1>8, <1>9, <2>2
  <2> QED
    BY <1>5, <2>1, <2>2
<1> QED
  BY <1>3, <1>6, <1>9 DEF StitchInv, LabelsAreOfFirstBatch, TogetherInBatchIsTogether, First

\* Equal labels have equal translations.
LEMMA RelabelStitches ==
    ASSUME TypeOK, LoopInv, StitchInv, Relabel
    PROVE  StitchInv'
<1>1. /\ pc = "batches" /\ pc' = "relabelled" /\ batches' = batches
      /\ prevBatchEnd' = prevBatchEnd
  BY DEF Relabel
<1> DEFINE translation(label) ==
        LET translated == {t \in oldLabelsToNew : t[1] = label}
        IN  IF translated = {} THEN label ELSE (CHOOSE t \in translated : TRUE)[2]
<1>2. labels' = [i \in DOMAIN labels |-> translation(labels[i])]
  BY DEF Relabel
<1> HIDE DEF translation
<1>3. \A i, j \in DOMAIN labels : labels[i] = labels[j] => labels'[i] = labels'[j]
  BY <1>2
<1>4. ASSUME NEW b \in DOMAIN batches,
             NEW i \in First(b) .. Len(batches[b].labels),
             NEW j \in First(b) .. Len(batches[b].labels),
             batches[b].labels[i] = batches[b].labels[j]
      PROVE  labels'[batches[b].start + i] = labels'[batches[b].start + j]
  <2>1. /\ batches[b].start + i \in DOMAIN labels /\ batches[b].start + j \in DOMAIN labels
        /\ labels[batches[b].start + i] = labels[batches[b].start + j]
    BY <1>1, <1>4 DEF StitchInv, LabelsAreOfFirstBatch
  <2> QED
    BY <1>3, <2>1
<1>5. TogetherInBatchIsTogether'
  BY <1>1, <1>4 DEF TogetherInBatchIsTogether, First
<1> QED
  BY <1>1, <1>5 DEF StitchInv, LabelsAreOfFirstBatch

\* Two documents that the first batch they are in puts together stay together,
\* whatever the batches behind it and the translation of labels do.
THEOREM StitchingKeepsTogether == Spec => []TogetherInBatchIsTogether
<1>1. Init => StitchInv
  BY EmptySeq DEF Init, StitchInv, LabelsAreOfFirstBatch, TogetherInBatchIsTogether
<1>2. TypeOK /\ LoopInv /\ StitchInv /\ [Next]_vars => StitchInv'
  <2> SUFFICES ASSUME TypeOK, LoopInv, StitchInv, [Next]_vars
               PROVE  StitchInv'
    OBVIOUS
  <2>1. ASSUME NEW batch \in ClusterBatch(batchSize), Batch(Shifted(batch))
        PROVE  StitchInv'
    BY <2>1, BatchStitches
  <2>2. CASE Relabel
    BY <2>2, RelabelStitches
  <2>3. CASE UNCHANGED vars
    BY <2>3 DEF vars, StitchInv, LabelsAreOfFirstBatch, TogetherInBatchIsTogether
  <2> QED
    BY <2>1, <2>2, <2>3 DEF Next
<1>3. StitchInv => TogetherInBatchIsTogether
  BY DEF StitchInv
<1> QED
  BY <1>1, <1>2, <1>3, LoopInvariant, PTL DEF Spec

-----------------------------------------------------------------------------
\* Until the pass over the labels, a repetition is about a label if its document
\* has it, and this one is the last that is.
IsLastAbout(r, label) ==
    /\ labels[Document(r)] = label
    /\ \A s \in Repetitions : labels[Document(s)] = label => s = r \/ IsBefore(s, r)

\* Every label is of a first batch, every repetition of a document that has been
\* labelled, every translation of a last repetition, and no repetition is without
\* a translation of its label.
RepetitionInv ==
    /\ \A r \in Repetitions : Document(r) \in DOMAIN labels
    /\ pc = "batches" =>
          /\ \A d \in DOMAIN labels : IsFirstLabel(labels[d], d)
          /\ \A t \in oldLabelsToNew : \E r \in Repetitions :
                IsLastAbout(r, t[1]) /\ t[2] = batches[r[1]].labels[r[2]]
          /\ \A r \in Repetitions : \E t \in oldLabelsToNew : t[1] = labels[Document(r)]
    /\ ClustersFollowLastRepetition

\* The labels of all repeated documents are translated.
LEMMA RepeatedAreTranslated ==
    ASSUME TypeOK, LoopInv, prevBatchEnd < docSize, NEW newLabels, NEW k \in Repeated
    PROVE  \E u \in Translations(newLabels) : u[1] = labels[batchStart + k]
<1> DEFINE T == {j \in Repeated : labels[batchStart + j] = labels[batchStart + k]}
<1>1. T # {} /\ \A j \in T : j \in 0 .. intersection_size
  BY StitchAssumption DEF Repeated
<1>2. PICK i \in T : \A j \in T : j <= i
  BY <1>1, GreatestElement, StitchAssumption
<1>3. /\ i \in Repeated /\ labels[batchStart + i] = labels[batchStart + k]
      /\ \A j \in Repeated : labels[batchStart + j] = labels[batchStart + i] => j <= i
  BY <1>2
<1>4. <<labels[batchStart + i], newLabels[i]>> \in Translations(newLabels)
  BY <1>3 DEF Translations
<1> QED
  BY <1>3, <1>4

\* What a batch does to the labels and the history.
LEMMA BatchAppends ==
    ASSUME TypeOK, LoopInv, StitchInv, NEW batch \in ClusterBatch(batchSize),
           Batch(Shifted(batch))
    PROVE  /\ pc = "batches" /\ pc' = "batches" /\ prevBatchEnd < docSize
           /\ oldLabelsToNew' = Overwritten(Translations(Shifted(batch)))
           /\ Len(batches) \in Nat /\ DOMAIN batches = 1 .. Len(batches)
           /\ DOMAIN batches' = 1 .. Len(batches) + 1
           /\ \A b \in DOMAIN batches : batches'[b] = batches[b]
           /\ batches'[Len(batches) + 1] = [start |-> batchStart, labels |-> Shifted(batch)]
           /\ DOMAIN labels = 1 .. prevBatchEnd
           /\ DOMAIN labels' = 1 .. batchStart + batchSize
           /\ \A d \in DOMAIN labels : d \in DOMAIN labels' /\ labels'[d] = labels[d]
           /\ Len(Shifted(batch)) = batchSize
           /\ \A i \in 1 .. batchSize :
                 i > prevBatchEnd - batchStart => labels'[batchStart + i] = Shifted(batch)[i]
           /\ prevBatchEnd - batchStart = IF Len(batches) = 0 THEN 0 ELSE intersection_size
           /\ Repeated = IF Len(batches) = 0 THEN {} ELSE 1 .. intersection_size
<1> DEFINE new == Shifted(batch)
<1>1. prevBatchEnd < docSize /\ pc = "batches"
  BY DEF Batch
<1>2. new \in Seq(Nat) /\ Len(new) = batchSize
  BY <1>1, ShiftedTyped
<1>3. /\ labels' = labels \o Added(new) /\ pc' = "batches"
      /\ oldLabelsToNew' = Overwritten(Translations(new))
      /\ batches' = Append(batches, [start |-> batchStart, labels |-> new])
  BY <1>1 DEF Batch
<1> HIDE DEF new
<1>4. batches \in Seq([start : Nat, labels : Seq(Nat)]) /\ Len(batches) \in Nat
  BY DEF TypeOK
<1>5. /\ DOMAIN batches = 1 .. Len(batches)
      /\ DOMAIN batches' = 1 .. Len(batches) + 1
      /\ \A b \in DOMAIN batches : batches'[b] = batches[b]
      /\ batches'[Len(batches) + 1] = [start |-> batchStart, labels |-> new]
  <2>1. batchStart \in Nat
    BY <1>1, BatchSizeBounds
  <2> QED
    BY <1>2, <1>3, <1>4, <2>1, AppendProperties
<1>6. /\ labels \in Seq(Nat) /\ Len(labels) = prevBatchEnd /\ prevBatchEnd \in Nat
      /\ batchStart \in Nat /\ batchSize \in Nat
  BY <1>1, BatchSizeBounds DEF TypeOK, LoopInv
<1>7. /\ Added(new) \in Seq(Nat)
      /\ Len(Added(new)) = batchStart + batchSize - prevBatchEnd
  BY <1>1, <1>2, AddedLength
<1>8. /\ DOMAIN labels = 1 .. prevBatchEnd
      /\ DOMAIN labels' = 1 .. batchStart + batchSize
      /\ \A d \in DOMAIN labels : d \in DOMAIN labels' /\ labels'[d] = labels[d]
  <2>1. Len(labels \o Added(new)) = batchStart + batchSize
    BY <1>6, <1>7, ConcatProperties
  <2> QED
    BY <1>3, <1>6, <1>7, <2>1, ConcatProperties
<1>9. \A i \in 1 .. batchSize :
         i > prevBatchEnd - batchStart => labels'[batchStart + i] = new[i]
  BY <1>1, <1>2, <1>3, AddedAreLast
<1>10. Len(batches) = 0 <=> prevBatchEnd = 0
  BY <1>4, EmptySeq DEF StitchInv
<1>11. prevBatchEnd - batchStart = IF Len(batches) = 0 THEN 0 ELSE intersection_size
  BY <1>6, <1>10, StitchAssumption DEF LoopInv
<1>12. Repeated = IF Len(batches) = 0 THEN {} ELSE 1 .. intersection_size
  BY <1>6, <1>10, <1>11, StitchAssumption DEF Repeated, LoopInv
<1> QED
  BY <1>1, <1>2, <1>3, <1>4, <1>5, <1>8, <1>9, <1>11, <1>12 DEF new

\* A batch's repetitions come behind those of the batches before it.
LEMMA RepetitionsGrow ==
    ASSUME TypeOK, LoopInv, StitchInv, NEW batch \in ClusterBatch(batchSize),
           Batch(Shifted(batch))
    PROVE  /\ \A r \in Repetitions :
                 r \in Repetitions' /\ Document(r)' = Document(r) /\ r[1] \in DOMAIN batches
                 /\ r[1] < Len(batches) + 1
           /\ \A r \in Repetitions' : r \in Repetitions \/
                 \E k \in Repeated : /\ r = <<Len(batches) + 1, k>>
                                    /\ Document(r)' = batchStart + k
           /\ \A k \in Repeated :
                 /\ batchStart + k \in DOMAIN labels
                 /\ \E r \in Repetitions' : /\ r = <<Len(batches) + 1, k>>
                                           /\ Document(r)' = batchStart + k
<1> DEFINE last == Len(batches) + 1
<1>1. /\ Len(batches) \in Nat /\ DOMAIN batches = 1 .. Len(batches)
      /\ DOMAIN batches' = 1 .. last
      /\ \A b \in DOMAIN batches : batches'[b] = batches[b]
      /\ batches'[last] = [start |-> batchStart, labels |-> Shifted(batch)]
      /\ Repeated = IF Len(batches) = 0 THEN {} ELSE 1 .. intersection_size
  BY BatchAppends
<1>2. \A r \in Repetitions : r \in Repetitions' /\ Document(r)' = Document(r)
         /\ r[1] \in DOMAIN batches /\ r[1] < last
  BY <1>1 DEF Repetitions, Document
<1>3. ASSUME NEW r \in Repetitions', r \notin Repetitions
      PROVE  \E k \in Repeated : r = <<last, k>> /\ Document(r)' = batchStart + k
  <2>1. PICK b \in DOMAIN batches' \ {1}, k \in 1 .. intersection_size : r = <<b, k>>
    BY <1>3 DEF Repetitions
  <2>2. b = last
    BY <1>1, <1>3, <2>1 DEF Repetitions
  <2>3. k \in Repeated
    BY <1>1, <2>1, <2>2
  <2> QED
    BY <1>1, <2>1, <2>2, <2>3 DEF Document
<1>4. ASSUME NEW k \in Repeated
      PROVE  /\ batchStart + k \in DOMAIN labels
             /\ \E r \in Repetitions' : r = <<last, k>> /\ Document(r)' = batchStart + k
  <2>1. last # 1 /\ k \in 1 .. intersection_size
    BY <1>1, <1>4
  <2>2. <<last, k>> \in Repetitions'
    BY <1>1, <2>1 DEF Repetitions
  <2>3. batchStart + k <= Len(labels) /\ batchStart \in Nat /\ prevBatchEnd < docSize
    BY <1>4, BatchAppends, BatchSizeBounds DEF Repeated
  <2>4. batchStart + k \in DOMAIN labels
    BY <2>1, <2>3, StitchAssumption DEF TypeOK
  <2>5. PICK r : r = <<last, k>>
    OBVIOUS
  <2>6. r \in Repetitions' /\ Document(r)' = batchStart + k
    BY <1>1, <2>2, <2>5 DEF Document
  <2> QED
    BY <2>4, <2>5, <2>6
<1> QED
  BY <1>2, <1>3, <1>4

LEMMA BatchKeepsRepetitions ==
    ASSUME TypeOK, LoopInv, StitchInv, RepetitionInv, NEW batch \in ClusterBatch(batchSize),
           Batch(Shifted(batch))
    PROVE  RepetitionInv'
<1> DEFINE new == Shifted(batch)
           last == Len(batches) + 1
<1>1. /\ pc = "batches" /\ pc' = "batches" /\ prevBatchEnd < docSize
      /\ oldLabelsToNew' = Overwritten(Translations(new))
      /\ Len(batches) \in Nat /\ DOMAIN batches = 1 .. Len(batches)
      /\ DOMAIN batches' = 1 .. last
      /\ \A b \in DOMAIN batches : batches'[b] = batches[b]
      /\ batches'[last] = [start |-> batchStart, labels |-> new]
      /\ DOMAIN labels = 1 .. prevBatchEnd
      /\ DOMAIN labels' = 1 .. batchStart + batchSize
      /\ \A d \in DOMAIN labels : d \in DOMAIN labels' /\ labels'[d] = labels[d]
      /\ Len(new) = batchSize
      /\ \A i \in 1 .. batchSize :
            i > prevBatchEnd - batchStart => labels'[batchStart + i] = new[i]
      /\ prevBatchEnd - batchStart = IF Len(batches) = 0 THEN 0 ELSE intersection_size
  BY BatchAppends
<1>2. /\ \A r \in Repetitions : r \in Repetitions' /\ Document(r)' = Document(r)
            /\ r[1] \in DOMAIN batches /\ r[1] < last
      /\ \A r \in Repetitions' : r \in Repetitions \/
            \E k \in Repeated : r = <<last, k>> /\ Document(r)' = batchStart + k
      /\ \A k \in Repeated :
            /\ batchStart + k \in DOMAIN labels
            /\ \E r \in Repetitions' : r = <<last, k>> /\ Document(r)' = batchStart + k
  BY RepetitionsGrow
<1> HIDE DEF new
<1>3. /\ prevBatchEnd \in Nat /\ batchStart \in Nat /\ batchSize \in Nat
      /\ intersection_size \in Nat /\ Repeated \subseteq 1 .. intersection_size
  BY <1>1, BatchSizeBounds, StitchAssumption DEF TypeOK, Repeated
<1>4. ASSUME NEW r \in Repetitions'
      PROVE  /\ Document(r)' \in DOMAIN labels /\ Document(r)' \in DOMAIN labels'
             /\ labels'[Document(r)'] = labels[Document(r)']
  <2>1. Document(r)' \in DOMAIN labels
    <3>1. CASE r \in Repetitions
      BY <1>2, <3>1 DEF RepetitionInv
    <3>2. CASE r \notin Repetitions
      BY <1>2, <1>4, <3>2
    <3> QED
      BY <3>1, <3>2
  <2> QED
    BY <1>1, <2>1
<1>5. ASSUME NEW d \in DOMAIN labels'
      PROVE  IsFirstLabel(labels[d], d)'
  <2> SUFFICES \E b \in DOMAIN batches' : \E i \in First(b) .. Len(batches'[b].labels) :
                  batches'[b].start + i = d /\ batches'[b].labels[i] = labels'[d]
    BY DEF IsFirstLabel, First
  <2>1. CASE d \in DOMAIN labels
    <3>1. PICK b \in DOMAIN batches : \E i \in First(b) .. Len(batches[b].labels) :
             batches[b].start + i = d /\ batches[b].labels[i] = labels[d]
      BY <1>1, <2>1 DEF RepetitionInv, IsFirstLabel
    <3>2. b \in DOMAIN batches' /\ batches'[b] = batches[b] /\ labels'[d] = labels[d]
      BY <1>1, <2>1, <3>1
    <3> QED
      BY <3>1, <3>2
  <2>2. CASE d \notin DOMAIN labels
    <3> DEFINE i == d - batchStart
    <3>1. i \in 1 .. batchSize /\ i > prevBatchEnd - batchStart /\ batchStart + i = d
      BY <1>1, <1>3, <2>2
    <3>2. i \in First(last) .. Len(new)
      BY <1>1, <1>3, <3>1 DEF First
    <3>3. labels'[d] = new[i]
      BY <1>1, <3>1
    <3>4. last \in DOMAIN batches' /\ batches'[last].start = batchStart
          /\ batches'[last].labels = new
      BY <1>1
    <3> HIDE DEF i
    <3> QED
      BY <3>1, <3>2, <3>3, <3>4
  <2> QED
    BY <2>1, <2>2
<1>6. ASSUME NEW t \in oldLabelsToNew'
      PROVE  \E r \in Repetitions' :
                IsLastAbout(r, t[1])' /\ t[2] = batches'[r[1]].labels[r[2]]
  <2>1. CASE t \in Translations(new)
    <3>1. PICK i \in Repeated :
             /\ t = <<labels[batchStart + i], new[i]>>
             /\ \A k \in Repeated : labels[batchStart + k] = labels[batchStart + i] => k <= i
      BY <2>1 DEF Translations
    <3>2. PICK r \in Repetitions' : r = <<last, i>> /\ Document(r)' = batchStart + i
      BY <1>2
    <3>3. r \in Repetitions' /\ labels'[Document(r)'] = t[1]
      BY <1>4, <3>1, <3>2
    <3>4. t[2] = batches'[r[1]].labels[r[2]]
      BY <1>1, <3>1, <3>2
    <3>5. ASSUME NEW s \in Repetitions', labels'[Document(s)'] = t[1]
          PROVE  s = r \/ IsBefore(s, r)
      <4>1. CASE s \in Repetitions
        BY <1>2, <3>2, <4>1 DEF IsBefore
      <4>2. CASE \E k \in Repeated : s = <<last, k>> /\ Document(s)' = batchStart + k
        <5>1. PICK k \in Repeated : s = <<last, k>> /\ Document(s)' = batchStart + k
          BY <4>2
        <5>2. labels[batchStart + k] = labels[batchStart + i]
          BY <1>4, <3>1, <3>5, <5>1
        <5>3. k <= i /\ k \in Int /\ i \in Int
          BY <1>3, <3>1, <5>1, <5>2
        <5> QED
          BY <3>2, <5>1, <5>3 DEF IsBefore
      <4> QED
        BY <1>2, <4>1, <4>2
    <3> QED
      BY <3>3, <3>4, <3>5 DEF IsLastAbout, IsBefore
  <2>2. CASE t \in oldLabelsToNew /\ \A u \in Translations(new) : u[1] # t[1]
    <3>1. PICK r \in Repetitions :
             IsLastAbout(r, t[1]) /\ t[2] = batches[r[1]].labels[r[2]]
      BY <1>1, <2>2 DEF RepetitionInv
    <3>2. r \in Repetitions' /\ labels'[Document(r)'] = t[1]
      BY <1>2, <1>4, <3>1 DEF IsLastAbout
    <3>3. t[2] = batches'[r[1]].labels[r[2]]
      BY <1>1, <1>2, <3>1
    <3>4. ASSUME NEW s \in Repetitions', labels'[Document(s)'] = t[1]
          PROVE  s = r \/ IsBefore(s, r)
      <4>1. CASE s \in Repetitions
        BY <1>2, <1>4, <3>1, <3>4, <4>1 DEF IsLastAbout
      <4>2. CASE \E k \in Repeated : s = <<last, k>> /\ Document(s)' = batchStart + k
        <5>1. PICK k \in Repeated : s = <<last, k>> /\ Document(s)' = batchStart + k
          BY <4>2
        <5>2. labels[batchStart + k] = t[1]
          BY <1>4, <3>4, <5>1
        <5>3. \E u \in Translations(new) : u[1] = labels[batchStart + k]
          BY <1>1, <5>1, RepeatedAreTranslated
        <5> QED
          BY <2>2, <5>2, <5>3
      <4> QED
        BY <1>2, <4>1, <4>2
    <3> QED
      BY <3>2, <3>3, <3>4 DEF IsLastAbout, IsBefore
  <2> QED
    BY <1>1, <1>6, <2>1, <2>2 DEF Overwritten
<1>7. ASSUME NEW r \in Repetitions'
      PROVE  \E t \in oldLabelsToNew' : t[1] = labels'[Document(r)']
  <2>1. CASE r \in Repetitions
    <3>1. PICK t \in oldLabelsToNew : t[1] = labels[Document(r)]
      BY <1>1, <2>1 DEF RepetitionInv
    <3>2. t[1] = labels'[Document(r)']
      BY <1>2, <1>4, <2>1, <3>1
    <3> QED
      BY <1>1, <3>1, <3>2 DEF Overwritten
  <2>2. CASE \E k \in Repeated : r = <<last, k>> /\ Document(r)' = batchStart + k
    <3>1. PICK k \in Repeated : r = <<last, k>> /\ Document(r)' = batchStart + k
      BY <2>2
    <3>2. PICK u \in Translations(new) : u[1] = labels[batchStart + k]
      BY <1>1, <3>1, RepeatedAreTranslated
    <3>3. u \in oldLabelsToNew'
      BY <1>1, <3>2 DEF Overwritten
    <3> QED
      BY <1>4, <3>1, <3>2, <3>3
  <2> QED
    BY <1>2, <2>1, <2>2
<1>8. ClustersFollowLastRepetition'
  BY <1>1 DEF ClustersFollowLastRepetition
<1> QED
  BY <1>4, <1>5, <1>6, <1>7, <1>8 DEF RepetitionInv

\* The pass over the labels finds the translation of the last repetition, or none
\* where there was no repetition.
LEMMA RelabelFollowsRepetitions ==
    ASSUME TypeOK, LoopInv, StitchInv, RepetitionInv, Relabel
    PROVE  RepetitionInv'
<1>1. /\ pc = "batches" /\ pc' = "relabelled" /\ batches' = batches
  BY DEF Relabel
<1>2. labels' = [i \in DOMAIN labels |->
                   LET translated == {t \in oldLabelsToNew : t[1] = labels[i]}
                   IN  IF translated = {} THEN labels[i]
                       ELSE (CHOOSE t \in translated : TRUE)[2]]
  BY DEF Relabel
<1>3. \A r \in Repetitions' : r \in Repetitions /\ Document(r)' = Document(r)
         /\ Document(r) \in DOMAIN labels'
  BY <1>1, <1>2 DEF RepetitionInv, Repetitions, Document
<1>4. ASSUME NEW label, NEW d \in DOMAIN labels
      PROVE  IsFirstLabel(label, d) <=> labels[d] = label
  <2>1. IsFirstLabel(label, d) => labels[d] = label
    BY <1>1 DEF IsFirstLabel, StitchInv, LabelsAreOfFirstBatch
  <2>2. IsFirstLabel(labels[d], d)
    BY <1>1, <1>4 DEF RepetitionInv
  <2> QED
    BY <2>1, <2>2
<1>5. ASSUME NEW b \in DOMAIN batches, NEW i \in First(b) .. Len(batches[b].labels)
      PROVE  LET label == batches[b].labels[i]
                 document == batches[b].start + i
             IN  \/ /\ \A r \in Repetitions : ~IsFirstLabel(label, Document(r))
                    /\ labels'[document] = label
                 \/ \E r \in Repetitions :
                       /\ IsLastOf(r, label)
                       /\ labels'[document] = batches[r[1]].labels[r[2]]
  <2> DEFINE label == batches[b].labels[i]
             document == batches[b].start + i
             translated == {t \in oldLabelsToNew : t[1] = label}
  <2>1. document \in DOMAIN labels /\ labels[document] = label
    BY <1>1, <1>5 DEF StitchInv, LabelsAreOfFirstBatch
  <2> HIDE DEF label, document
  <2>2. labels'[document]
           = IF translated = {} THEN label ELSE (CHOOSE t \in translated : TRUE)[2]
    BY <1>2, <2>1
  <2>3. CASE translated = {}
    <3>1. ASSUME NEW r \in Repetitions, IsFirstLabel(label, Document(r))
          PROVE  FALSE
      <4>1. labels[Document(r)] = label
        BY <1>4, <3>1 DEF RepetitionInv
      <4>2. \E t \in oldLabelsToNew : t[1] = label
        BY <1>1, <3>1, <4>1 DEF RepetitionInv
      <4> QED
        BY <2>3, <4>2
    <3> QED
      BY <2>2, <2>3, <3>1 DEF label, document
  <2>4. CASE translated # {}
    <3>1. PICK t \in oldLabelsToNew : t[1] = label /\ labels'[document] = t[2]
      BY <2>2, <2>4
    <3>2. PICK r \in Repetitions :
             IsLastAbout(r, label) /\ t[2] = batches[r[1]].labels[r[2]]
      BY <1>1, <3>1 DEF RepetitionInv
    <3>3. IsLastOf(r, label)
      <4>1. IsFirstLabel(label, Document(r))
        BY <1>4, <3>2 DEF RepetitionInv, IsLastAbout
      <4>2. \A s \in Repetitions :
               IsFirstLabel(label, Document(s)) => s = r \/ IsBefore(s, r)
        BY <1>4, <3>2 DEF RepetitionInv, IsLastAbout
      <4> QED
        BY <4>1, <4>2 DEF IsLastOf
    <3> QED
      BY <3>1, <3>2, <3>3 DEF label, document
  <2> QED
    BY <2>3, <2>4
<1>6. ClustersFollowLastRepetition'
  <2>1. Repetitions' = Repetitions
    BY <1>1 DEF Repetitions
  <2>2. ASSUME NEW r
        PROVE  Document(r)' = Document(r)
    BY <1>1 DEF Document
  <2>3. ASSUME NEW label, NEW d
        PROVE  IsFirstLabel(label, d)' <=> IsFirstLabel(label, d)
    BY <1>1 DEF IsFirstLabel, First
  <2>4. ASSUME NEW r, NEW label
        PROVE  IsFirstLabel(label, Document(r))' <=> IsFirstLabel(label, Document(r))
    BY <1>1 DEF IsFirstLabel, First, Document
  <2>5. ASSUME NEW r, NEW label
        PROVE  IsLastOf(r, label)' <=> IsLastOf(r, label)
    BY <2>1, <2>4 DEF IsLastOf, IsBefore
  <2> QED
    BY <1>1, <1>5, <2>1, <2>2, <2>3, <2>4, <2>5 DEF ClustersFollowLastRepetition, First
<1> QED
  BY <1>1, <1>3, <1>6 DEF RepetitionInv

\* Every cluster of a batch ends up where the last repetition of it says, through
\* any number of batches: no translation is lost, and none but the last counts.
THEOREM LastRepetitionCounts == Spec => []ClustersFollowLastRepetition
<1>1. Init => StitchInv /\ RepetitionInv
  <2> SUFFICES ASSUME Init
               PROVE  StitchInv /\ RepetitionInv
    OBVIOUS
  <2>1. /\ pc = "batches" /\ labels = << >> /\ batches = << >> /\ oldLabelsToNew = {}
        /\ prevBatchEnd = 0
    BY DEF Init
  <2>2. Repetitions = {} /\ DOMAIN labels = {} /\ DOMAIN batches = {}
    BY <2>1 DEF Repetitions
  <2> QED
    BY <2>1, <2>2 DEF StitchInv, LabelsAreOfFirstBatch, TogetherInBatchIsTogether,
                      RepetitionInv, ClustersFollowLastRepetition
<1>2. TypeOK /\ LoopInv /\ StitchInv /\ RepetitionInv /\ [Next]_vars
         => StitchInv' /\ RepetitionInv'
  <2> SUFFICES ASSUME TypeOK, LoopInv, StitchInv, RepetitionInv, [Next]_vars
               PROVE  StitchInv' /\ RepetitionInv'
    OBVIOUS
  <2>1. ASSUME NEW batch \in ClusterBatch(batchSize), Batch(Shifted(batch))
        PROVE  StitchInv' /\ RepetitionInv'
    BY <2>1, BatchStitches, BatchKeepsRepetitions
  <2>2. CASE Relabel
    BY <2>2, RelabelStitches, RelabelFollowsRepetitions
  <2>3. CASE UNCHANGED vars
    BY <2>3 DEF vars, StitchInv, LabelsAreOfFirstBatch, TogetherInBatchIsTogether, RepetitionInv,
                ClustersFollowLastRepetition, IsLastOf, IsLastAbout, IsFirstLabel, Repetitions,
                Document, First
  <2> QED
    BY <2>1, <2>2, <2>3 DEF Next
<1>3. RepetitionInv => ClustersFollowLastRepetition
  BY DEF RepetitionInv
<1> QED
  BY <1>1, <1>2, <1>3, LoopInvariant, PTL DEF Spec
=============================================================================
