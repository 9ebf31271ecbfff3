------------------------- MODULE AnnotateAllProofs -------------------------
(***************************************************************************)
(* Theorems about AnnotateAll, for any number of workers and documents:    *)
(* its types, that each task runs once, that none is left to sleeping      *)
(* workers, that the pool is empty when the function is left, and that the *)
(* result is that of one thread (the safety part of AnnotateInOrder).      *)
(***************************************************************************)
EXTENDS AnnotateAll, SortingProofs, FiniteSetTheorems, TLAPS

\* What is queued or at work is a document of the input that has been enqueued.
TasksAreInputs ==
    /\ \A k \in DOMAIN Tasks : Tasks[k] \in 1 .. enqueued
    /\ \A w \in Workers : task[w] # NoTask => task[w] \in 1 .. enqueued

TypeInv == TypeOK /\ TasksAreInputs

-----------------------------------------------------------------------------
\* The input of the function is a sequence of bodies.
LEMMA InputIsSeq ==
    ASSUME NEW f \in Inputs
    PROVE  /\ f \in Seq(Body)
           /\ Len(f) \in 0 .. MaxInputs
           /\ DOMAIN f = 1 .. Len(f)
<1>1. PICK n \in 0 .. MaxInputs : f \in [1 .. n -> Bodies]
  BY DEF Inputs
<1>2. n \in Nat /\ Bodies \subseteq Body
  BY AnnotateAllAssumption
<1>3. f \in Seq(Body)
  BY <1>1, <1>2
<1>4. Len(f) = n
  BY <1>1, <1>2, <1>3
<1> QED
  BY <1>1, <1>3, <1>4

\* What AnnotateDocument returns is a document.
LEMMA AnnotateDocumentType ==
    ASSUME NEW body \in Body
    PROVE  AnnotateDocument(body) \in AnnotatedDocument
<1> DEFINE annotated == Mode # "languages" /\ body.longEnough
           category == IF annotated /\ body.detectedLanguage \in CategoryDetectors
                       THEN body.detectedCategory ELSE "NC_UNDEFINED"
           embeddings == {key \in EmbeddingKeys :
                             annotated /\ <<body.detectedLanguage, key>> \in Embedders}
<1>1. /\ body.detectedLanguage \in Languages /\ body.detectedCategory \in Categories
      /\ body.FetchTime \in Nat
  BY DEF Body
<1>2. category \in Categories
  BY <1>1 DEF Categories
<1>3. embeddings \in SUBSET EmbeddingKeys
  OBVIOUS
<1>4. AnnotateDocument(body) =
        [Language |-> body.detectedLanguage, Category |-> category,
         Embeddings |-> embeddings, FetchTime |-> body.FetchTime, Ttl |-> 0]
  BY DEF AnnotateDocument
<1> HIDE DEF category, embeddings
<1> QED
  BY <1>1, <1>2, <1>3, <1>4 DEF AnnotatedDocument

\* What a task leaves in its future.
LEMMA AnnotateHtmlType ==
    ASSUME input \in Inputs, NEW i \in TaskIds, i \in 1 .. Len(input)
    PROVE  AnnotateHtml(i) \in Future /\ AnnotateHtml(i).state # "pending"
<1>1. input[i] \in Body
  BY InputIsSeq
<1>2. AnnotateDocument(input[i]) \in AnnotatedDocument
  BY <1>1, AnnotateDocumentType
<1> DEFINE result == {[FileName |-> i, doc |-> d] : d \in ParseDbDocFromReq(input[i])}
<1>3. result \in SUBSET Annotated
  BY <1>2 DEF ParseDbDocFromReq, Annotated
<1>4. \/ AnnotateHtml(i) = [state |-> "thrown", result |-> {}]
      \/ AnnotateHtml(i) = [state |-> "ready", result |-> result]
  BY DEF AnnotateHtml
<1> HIDE DEF result
<1> QED
  BY <1>3, <1>4 DEF Future

-----------------------------------------------------------------------------
LEMMA TypeInit == Init => TypeInv
<1> SUFFICES ASSUME Init PROVE TypeInv
  OBVIOUS
<1>1. PoolTypeOK
  <2>1. /\ Tasks = << >> /\ IsDone = FALSE
        /\ worker = [w \in Workers |-> "lock"] /\ task = [w \in Workers |-> NoTask]
    BY DEF Init, PoolInit
  <2>2. worker \in [Workers -> WorkerStates] /\ task \in [Workers -> TaskIds \cup {NoTask}]
    BY <2>1 DEF WorkerStates
  <2>3. \A w \in Workers : task[w] # NoTask <=> worker[w] = "run"
    BY <2>1
  <2>4. Tasks \in Seq(TaskIds)
    BY <2>1
  <2> QED
    BY <2>1, <2>2, <2>3, <2>4 DEF PoolTypeOK
<1>2. input \in Inputs /\ Len(input) \in 0 .. MaxInputs
  BY InputIsSeq DEF Init
<1>3. futures \in [TaskIds -> Future]
  BY DEF Init, Pending, Future
<1>4. docs \in Seq(Annotated) /\ DOMAIN output = {} /\ DOMAIN Tasks = {}
  BY DEF Init, PoolInit
<1>5. TypeOK
  <2>1. /\ inputFormat \in InputFormats /\ pc = "parse" /\ enqueued = 0 /\ taken = 0
        /\ threw = FALSE
    BY DEF Init
  <2>2. enqueued \in 0 .. Len(input) /\ taken \in 0 .. enqueued
    BY <1>2, <2>1
  <2>3. DOMAIN output \subseteq Categories \cup Languages \cup {"articles"}
    BY <1>4
  <2> QED
    BY <1>1, <1>2, <1>3, <1>4, <2>1, <2>2, <2>3 DEF TypeOK
<1>6. TasksAreInputs
  BY <1>4 DEF Init, PoolInit, TasksAreInputs
<1> QED
  BY <1>5, <1>6 DEF TypeInv

-----------------------------------------------------------------------------
\* The pool's actions keep its types.
LEMMA PoolTypeStep ==
    ASSUME PoolTypeOK,
           \/ \E t \in TaskIds : Enqueue(t)
           \/ NotifyOne \/ Stop \/ NotifyAll
           \/ \E w \in Workers : Wait(w) \/ WakeUp(w) \/ Return(w) \/ Take(w) \/ Finish(w)
           \/ UNCHANGED poolVars
    PROVE  PoolTypeOK'
<1>1. /\ Tasks \in Seq(TaskIds)
      /\ IsDone \in BOOLEAN
      /\ worker \in [Workers -> WorkerStates]
      /\ task \in [Workers -> TaskIds \cup {NoTask}]
      /\ \A w \in Workers : task[w] # NoTask <=> worker[w] = "run"
  BY DEF PoolTypeOK
<1>2. ASSUME NEW t \in TaskIds, Enqueue(t) PROVE PoolTypeOK'
  <2>1. Tasks' \in Seq(TaskIds) /\ UNCHANGED <<IsDone, worker, task>>
    BY <1>1, <1>2 DEF Enqueue
  <2> QED
    BY <1>1, <2>1 DEF PoolTypeOK
<1>3. ASSUME NotifyOne PROVE PoolTypeOK'
  <2>1. UNCHANGED <<Tasks, IsDone, task>>
    BY <1>3 DEF NotifyOne
  <2>2. CASE UNCHANGED worker
    BY <1>1, <2>1, <2>2 DEF PoolTypeOK
  <2>3. CASE \E w \in At("wait") : worker' = [worker EXCEPT ![w] = "lock"]
    <3>1. PICK w \in Workers : worker[w] = "wait" /\ worker' = [worker EXCEPT ![w] = "lock"]
      BY <2>3 DEF At
    <3> QED
      BY <1>1, <2>1, <3>1 DEF PoolTypeOK, WorkerStates
  <2> QED
    BY <1>3, <2>2, <2>3 DEF NotifyOne
<1>4. ASSUME Stop PROVE PoolTypeOK'
  <2>1. IsDone' = TRUE /\ UNCHANGED <<Tasks, worker, task>>
    BY <1>4 DEF Stop
  <2> QED
    BY <1>1, <2>1 DEF PoolTypeOK
<1>5. ASSUME NotifyAll PROVE PoolTypeOK'
  <2>1. /\ UNCHANGED <<Tasks, IsDone, task>>
        /\ worker' = [w \in Workers |-> IF worker[w] = "wait" THEN "lock" ELSE worker[w]]
    BY <1>5 DEF NotifyAll
  <2>2. worker' \in [Workers -> WorkerStates]
    BY <1>1, <2>1 DEF WorkerStates
  <2>3. \A w \in Workers : worker'[w] = "run" <=> worker[w] = "run"
    BY <1>1, <2>1
  <2> QED
    BY <1>1, <2>1, <2>2, <2>3 DEF PoolTypeOK
<1>6. ASSUME NEW w \in Workers, Wait(w) \/ WakeUp(w) \/ Return(w) PROVE PoolTypeOK'
  <2>1. /\ UNCHANGED <<Tasks, IsDone, task>>
        /\ worker[w] # "run"
        /\ \E state \in WorkerStates \ {"run"} : worker' = [worker EXCEPT ![w] = state]
    BY <1>6 DEF Wait, WakeUp, Return, WorkerStates
  <2> QED
    BY <1>1, <2>1 DEF PoolTypeOK
<1>7. ASSUME NEW w \in Workers, Take(w) PROVE PoolTypeOK'
  <2>1. /\ Tasks # << >> /\ Tasks' = Tail(Tasks) /\ IsDone' = IsDone
        /\ task' = [task EXCEPT ![w] = Head(Tasks)]
        /\ worker' = [worker EXCEPT ![w] = "run"]
    BY <1>7 DEF Take
  <2>2. Head(Tasks) \in TaskIds /\ Tail(Tasks) \in Seq(TaskIds)
    BY <1>1, <2>1
  <2>3. Head(Tasks) # NoTask
    BY <2>2, PoolAssumption
  <2> QED
    BY <1>1, <2>1, <2>2, <2>3 DEF PoolTypeOK, WorkerStates
<1>8. ASSUME NEW w \in Workers, Finish(w) PROVE PoolTypeOK'
  <2>1. /\ UNCHANGED <<Tasks, IsDone>>
        /\ task' = [task EXCEPT ![w] = NoTask]
        /\ worker' = [worker EXCEPT ![w] = "lock"]
    BY <1>8 DEF Finish
  <2> QED
    BY <1>1, <2>1 DEF PoolTypeOK, WorkerStates
<1>9. ASSUME UNCHANGED poolVars PROVE PoolTypeOK'
  BY <1>1, <1>9 DEF PoolTypeOK, poolVars
<1> QED
  BY <1>2, <1>3, <1>4, <1>5, <1>6, <1>7, <1>8, <1>9

\* What the function's own steps, and the tasks, do to its variables.
CallTypeOK ==
    /\ input \in Inputs
    /\ inputFormat \in InputFormats
    /\ pc \in {"parse", "enqueue", "notify", "stop", "notifyAll", "join", "returned", "printed"}
    /\ enqueued \in 0 .. Len(input)
    /\ futures \in [TaskIds -> Future]
    /\ taken \in 0 .. enqueued
    /\ docs \in Seq(Annotated)
    /\ threw \in BOOLEAN
    /\ DOMAIN output \subseteq Categories \cup Languages \cup {"articles"}

LEMMA TakeResultType ==
    ASSUME CallTypeOK, TakeResult
    PROVE  CallTypeOK'
<1>1. /\ enqueued = Len(input) /\ taken < Len(input) /\ Len(input) \in 0 .. MaxInputs
      /\ UNCHANGED <<input, inputFormat, enqueued, futures, output>>
  BY InputIsSeq DEF TakeResult, CallTypeOK
<1>2. taken \in Nat /\ taken + 1 \in TaskIds /\ taken + 1 \in 0 .. enqueued
  BY <1>1, AnnotateAllAssumption DEF CallTypeOK
<1>3. futures[taken + 1].result \in SUBSET Annotated
  BY <1>2 DEF CallTypeOK, Future
<1>4. docs' \in Seq(Annotated) /\ taken' \in 0 .. enqueued
  <2>1. taken' \in {taken, taken + 1}
    BY DEF TakeResult
  <2>2. \/ docs' = docs
        \/ \E a \in futures[taken + 1].result : docs' = Append(docs, a)
    BY DEF TakeResult
  <2>3. docs \in Seq(Annotated) /\ taken \in 0 .. enqueued
    BY DEF CallTypeOK
  <2> QED
    BY <1>2, <1>3, <2>1, <2>2, <2>3
<1>5. pc' \in {"enqueue", "stop"} /\ threw' \in BOOLEAN
  BY DEF TakeResult, CallTypeOK
<1> QED
  BY <1>1, <1>4, <1>5 DEF CallTypeOK

LEMMA PrintResultType ==
    ASSUME CallTypeOK, PrintResult
    PROVE  CallTypeOK'
<1>1. /\ pc' = "printed" /\ output' = IF threw THEN << >> ELSE Printed
      /\ UNCHANGED <<input, inputFormat, enqueued, futures, taken, docs, threw>>
  BY DEF PrintResult
<1>2. DOMAIN Printed \subseteq Categories \cup Languages \cup {"articles"}
  <2>1. CASE Mode = "categories"
    BY <2>1 DEF Printed, Rubrics
  <2>2. CASE Mode = "languages"
    <3>1. \A k \in DOMAIN docs : docs[k].doc.Language \in Languages
      <4>1. \A k \in DOMAIN docs : docs[k] \in Annotated
        BY DEF CallTypeOK
      <4>2. \A a \in Annotated : a.doc.Language \in Languages
        BY DEF Annotated, AnnotatedDocument
      <4> QED
        BY <4>1, <4>2
    <3> QED
      BY <2>2, <3>1 DEF Printed
  <2>3. CASE Mode \in {"news", "json"}
    BY <2>3 DEF Printed
  <2>4. CASE Mode \notin {"categories", "languages", "news", "json"}
    BY <2>4 DEF Printed
  <2> QED
    BY <2>1, <2>2, <2>3, <2>4
<1>3. DOMAIN output' \subseteq Categories \cup Languages \cup {"articles"}
  BY <1>1, <1>2
<1> QED
  BY <1>1, <1>3 DEF CallTypeOK

LEMMA TypeStep == TypeInv /\ [Next]_vars => TypeInv'
<1> SUFFICES ASSUME TypeInv, [Next]_vars PROVE TypeInv'
  OBVIOUS
<1>1. PoolTypeOK /\ CallTypeOK /\ TasksAreInputs
  BY DEF TypeInv, TypeOK, CallTypeOK
<1>2. SUFFICES PoolTypeOK' /\ CallTypeOK' /\ TasksAreInputs'
  BY DEF TypeInv, TypeOK, CallTypeOK
<1>3. Len(input) \in 0 .. MaxInputs /\ TaskIds = 1 .. MaxInputs /\ MaxInputs \in Nat
  BY <1>1, InputIsSeq, AnnotateAllAssumption DEF CallTypeOK
<1>4. Tasks \in Seq(TaskIds) /\ task \in [Workers -> TaskIds \cup {NoTask}]
  BY <1>1 DEF PoolTypeOK
<1>5. /\ enqueued \in Nat /\ taken \in Nat /\ enqueued <= Len(input) /\ taken <= enqueued
  BY <1>1, <1>3 DEF CallTypeOK
<1>6. CASE Parse
  <2>1. UNCHANGED poolVars /\ UNCHANGED enqueued
    BY <1>6 DEF Parse
  <2>2. CallTypeOK'
    BY <1>1, <1>6 DEF CallTypeOK, Parse
  <2> QED
    BY <1>1, <2>1, <2>2, PoolTypeStep DEF TasksAreInputs, poolVars
<1>7. CASE EnqueueNext
  <2>1. /\ enqueued < Len(input) /\ Enqueue(enqueued + 1) /\ enqueued' = enqueued + 1
        /\ pc' = "notify"
        /\ UNCHANGED <<input, inputFormat, futures, taken, docs, threw, output>>
    BY <1>7 DEF EnqueueNext
  <2>2. enqueued + 1 \in TaskIds
    BY <1>3, <1>5, <2>1
  <2>3. PoolTypeOK'
    BY <1>1, <2>1, <2>2, PoolTypeStep
  <2>4. enqueued' \in 0 .. Len(input) /\ taken \in 0 .. enqueued'
    BY <1>3, <1>5, <2>1
  <2>5. CallTypeOK'
    BY <1>1, <2>1, <2>4 DEF CallTypeOK
  <2>6. Tasks' = Append(Tasks, enqueued + 1) /\ task' = task
    BY <2>1 DEF Enqueue
  <2>7. TasksAreInputs'
    BY <1>1, <1>4, <1>5, <2>1, <2>6 DEF TasksAreInputs
  <2> QED
    BY <2>3, <2>5, <2>7
<1>8. CASE Notify
  <2>1. NotifyOne /\ pc' = "enqueue"
        /\ UNCHANGED <<input, inputFormat, enqueued, futures, taken, docs, threw, output>>
    BY <1>8 DEF Notify
  <2>2. UNCHANGED <<Tasks, task>>
    BY <2>1 DEF NotifyOne
  <2>3. CallTypeOK' /\ TasksAreInputs'
    BY <1>1, <2>1, <2>2 DEF CallTypeOK, TasksAreInputs
  <2> QED
    BY <1>1, <2>1, <2>3, PoolTypeStep
<1>9. CASE TakeResult
  <2>1. UNCHANGED poolVars /\ UNCHANGED enqueued
    BY <1>9 DEF TakeResult
  <2>2. CallTypeOK'
    BY <1>1, <1>9, TakeResultType
  <2> QED
    BY <1>1, <2>1, <2>2, PoolTypeStep DEF TasksAreInputs, poolVars
<1>10. CASE StopPool
  <2>1. Stop /\ pc' = "notifyAll"
        /\ UNCHANGED <<input, inputFormat, enqueued, futures, taken, docs, threw, output>>
    BY <1>10 DEF StopPool
  <2>2. UNCHANGED <<Tasks, task>>
    BY <2>1 DEF Stop
  <2>3. CallTypeOK' /\ TasksAreInputs'
    BY <1>1, <2>1, <2>2 DEF CallTypeOK, TasksAreInputs
  <2> QED
    BY <1>1, <2>1, <2>3, PoolTypeStep
<1>11. CASE NotifyWorkers
  <2>1. NotifyAll /\ pc' = "join"
        /\ UNCHANGED <<input, inputFormat, enqueued, futures, taken, docs, threw, output>>
    BY <1>11 DEF NotifyWorkers
  <2>2. UNCHANGED <<Tasks, task>>
    BY <2>1 DEF NotifyAll
  <2>3. CallTypeOK' /\ TasksAreInputs'
    BY <1>1, <2>1, <2>2 DEF CallTypeOK, TasksAreInputs
  <2> QED
    BY <1>1, <2>1, <2>3, PoolTypeStep
<1>12. CASE Join
  <2>1. UNCHANGED poolVars /\ UNCHANGED enqueued
    BY <1>12 DEF Join
  <2>2. CallTypeOK'
    BY <1>1, <1>12 DEF CallTypeOK, Join
  <2> QED
    BY <1>1, <2>1, <2>2, PoolTypeStep DEF TasksAreInputs, poolVars
<1>13. CASE PrintResult
  <2>1. UNCHANGED poolVars /\ UNCHANGED enqueued
    BY <1>13 DEF PrintResult
  <2>2. CallTypeOK'
    BY <1>1, <1>13, PrintResultType
  <2> QED
    BY <1>1, <2>1, <2>2, PoolTypeStep DEF TasksAreInputs, poolVars
<1>14. ASSUME NEW w \in Workers,
              (Wait(w) \/ Return(w) \/ WakeUp(w)) /\ UNCHANGED callVars
       PROVE  PoolTypeOK' /\ CallTypeOK' /\ TasksAreInputs'
  <2>1. UNCHANGED callVars /\ UNCHANGED <<Tasks, task>>
    BY <1>14 DEF Wait, Return, WakeUp
  <2>2. CallTypeOK' /\ TasksAreInputs'
    BY <1>1, <2>1 DEF CallTypeOK, TasksAreInputs, callVars
  <2> QED
    BY <1>1, <1>14, <2>2, PoolTypeStep
<1>15. ASSUME NEW w \in Workers, Take(w), UNCHANGED callVars
       PROVE  PoolTypeOK' /\ CallTypeOK' /\ TasksAreInputs'
  <2>1. /\ Tasks # << >> /\ Tasks' = Tail(Tasks) /\ task' = [task EXCEPT ![w] = Head(Tasks)]
        /\ enqueued' = enqueued
    BY <1>15 DEF Take, callVars
  <2>2. /\ Head(Tasks) = Tasks[1] /\ 1 \in DOMAIN Tasks
        /\ \A k \in DOMAIN Tail(Tasks) : k + 1 \in DOMAIN Tasks /\ Tail(Tasks)[k] = Tasks[k + 1]
    BY <1>4, <2>1
  <2>3. TasksAreInputs'
    BY <1>1, <1>4, <2>1, <2>2 DEF TasksAreInputs
  <2>4. CallTypeOK'
    BY <1>1, <1>15 DEF CallTypeOK, callVars
  <2> QED
    BY <1>1, <1>15, <2>3, <2>4, PoolTypeStep
<1>16. ASSUME NEW w \in Workers, RunTask(w)
       PROVE  PoolTypeOK' /\ CallTypeOK' /\ TasksAreInputs'
  <2>1. /\ Finish(w) /\ futures' = [futures EXCEPT ![task[w]] = AnnotateHtml(task[w])]
        /\ UNCHANGED <<input, inputFormat, pc, enqueued, taken, docs, threw, output>>
    BY <1>16 DEF RunTask, Argument
  <2>2. worker[w] = "run" /\ task' = [task EXCEPT ![w] = NoTask] /\ Tasks' = Tasks
    BY <2>1 DEF Finish
  <2>3. task[w] # NoTask
    BY <1>1, <2>2 DEF PoolTypeOK
  <2>4. task[w] \in TaskIds /\ task[w] \in 1 .. Len(input)
    BY <1>1, <1>3, <1>4, <1>5, <2>3 DEF TasksAreInputs
  <2>5. AnnotateHtml(task[w]) \in Future
    BY <1>1, <2>4, AnnotateHtmlType DEF CallTypeOK
  <2>6. CallTypeOK'
    BY <1>1, <2>1, <2>4, <2>5 DEF CallTypeOK
  <2>7. TasksAreInputs'
    BY <1>1, <1>4, <2>1, <2>2 DEF TasksAreInputs
  <2> QED
    BY <1>1, <2>1, <2>6, <2>7, PoolTypeStep
<1>17. CASE UNCHANGED vars
  <2>1. UNCHANGED poolVars /\ UNCHANGED callVars
    BY <1>17 DEF vars
  <2>2. CallTypeOK' /\ TasksAreInputs'
    BY <1>1, <2>1 DEF CallTypeOK, TasksAreInputs, callVars, poolVars
  <2> QED
    BY <1>1, <2>1, <2>2, PoolTypeStep
<1> QED
  BY <1>6, <1>7, <1>8, <1>9, <1>10, <1>11, <1>12, <1>13, <1>14, <1>15, <1>16, <1>17
  DEF Next, CallerStep, WorkerStep

\* Every variable of the function and of its pool holds a value of its type.
THEOREM TypeCorrect == Spec => []TypeOK
<1>1. TypeInv => TypeOK
  BY DEF TypeInv
<1> QED
  BY TypeInit, TypeStep, <1>1, PTL DEF Spec

-----------------------------------------------------------------------------
(***************************************************************************)
(* Each task is in one place.                                              *)
(***************************************************************************)

\* No two places hold one task, a task that is done is in none of them, and one
\* that was enqueued is done or in one of them.
PlacesAreDistinct ==
    /\ \A j, k \in DOMAIN Tasks : Tasks[j] = Tasks[k] => j = k
    /\ \A v, w \in Workers : task[v] # NoTask /\ task[v] = task[w] => v = w
    /\ \A k \in DOMAIN Tasks, w \in Workers : Tasks[k] # task[w]

DoneIsNowhere ==
    \A i \in TaskIds : futures[i].state # "pending" =>
        /\ i <= enqueued
        /\ \A k \in DOMAIN Tasks : Tasks[k] # i
        /\ \A w \in Workers : task[w] # i

EnqueuedIsSomewhere ==
    \A i \in TaskIds : i <= enqueued =>
        \/ futures[i].state # "pending"
        \/ \E k \in DOMAIN Tasks : Tasks[k] = i
        \/ \E w \in Workers : task[w] = i

OnceInv == PlacesAreDistinct /\ DoneIsNowhere /\ EnqueuedIsSomewhere

LEMMA OnceInit == Init => OnceInv
<1> SUFFICES ASSUME Init PROVE OnceInv
  OBVIOUS
<1>1. /\ DOMAIN Tasks = {} /\ enqueued = 0 /\ TaskIds \subseteq Nat \ {0}
      /\ \A w \in Workers : task[w] = NoTask
      /\ \A i \in TaskIds : futures[i].state = "pending"
  BY AnnotateAllAssumption DEF Init, PoolInit, Pending
<1> QED
  BY <1>1 DEF OnceInv, PlacesAreDistinct, DoneIsNowhere, EnqueuedIsSomewhere

LEMMA OnceStep == TypeInv /\ OnceInv /\ [Next]_vars => OnceInv'
<1> SUFFICES ASSUME TypeInv, OnceInv, [Next]_vars PROVE OnceInv'
  OBVIOUS
<1>1. /\ Tasks \in Seq(TaskIds) /\ task \in [Workers -> TaskIds \cup {NoTask}]
      /\ futures \in [TaskIds -> Future] /\ input \in Inputs /\ enqueued \in Nat
      /\ enqueued <= Len(input) /\ TaskIds \subseteq Nat /\ TasksAreInputs
      /\ NoTask \notin TaskIds
  BY InputIsSeq, AnnotateAllAssumption, PoolAssumption DEF TypeInv, TypeOK, PoolTypeOK
<1>2. PlacesAreDistinct /\ DoneIsNowhere /\ EnqueuedIsSomewhere
  BY DEF OnceInv
<1>3. CASE UNCHANGED <<Tasks, task, futures, enqueued>>
  BY <1>2, <1>3 DEF OnceInv, PlacesAreDistinct, DoneIsNowhere, EnqueuedIsSomewhere
<1>4. CASE EnqueueNext
  <2>1. /\ Tasks' = Append(Tasks, enqueued + 1) /\ enqueued' = enqueued + 1
        /\ UNCHANGED <<task, futures>> /\ enqueued < Len(input)
    BY <1>4 DEF EnqueueNext, Enqueue
  <2>2. enqueued + 1 \in TaskIds
    BY <1>1, <2>1, InputIsSeq, AnnotateAllAssumption
  <2>3. /\ DOMAIN Tasks' = DOMAIN Tasks \cup {Len(Tasks) + 1}
        /\ \A k \in DOMAIN Tasks : Tasks'[k] = Tasks[k]
        /\ Tasks'[Len(Tasks) + 1] = enqueued + 1
    BY <1>1, <2>1, <2>2
  <2>4. /\ \A k \in DOMAIN Tasks : Tasks[k] # enqueued + 1
        /\ \A w \in Workers : task[w] # enqueued + 1
    BY <1>1, <2>2 DEF TasksAreInputs
  <2>5. PlacesAreDistinct'
    BY <1>2, <2>1, <2>3, <2>4 DEF PlacesAreDistinct
  <2>6. DoneIsNowhere'
    BY <1>1, <1>2, <2>1, <2>3 DEF DoneIsNowhere
  <2>7. EnqueuedIsSomewhere'
    BY <1>1, <1>2, <2>1, <2>3 DEF EnqueuedIsSomewhere
  <2> QED
    BY <2>5, <2>6, <2>7 DEF OnceInv
<1>5. ASSUME NEW v \in Workers, Take(v), UNCHANGED callVars
      PROVE  OnceInv'
  <2>1. /\ Tasks # << >> /\ Tasks' = Tail(Tasks) /\ task' = [task EXCEPT ![v] = Head(Tasks)]
        /\ worker[v] = "lock" /\ UNCHANGED <<futures, enqueued>>
    BY <1>5 DEF Take, callVars
  <2>2. task[v] = NoTask
    BY <2>1 DEF TypeInv, TypeOK, PoolTypeOK
  <2>3. /\ 1 \in DOMAIN Tasks /\ Head(Tasks) = Tasks[1]
        /\ DOMAIN Tail(Tasks) = {k \in Nat : k + 1 \in DOMAIN Tasks /\ k # 0}
        /\ \A k \in DOMAIN Tail(Tasks) : Tail(Tasks)[k] = Tasks[k + 1]
        /\ DOMAIN Tasks \subseteq Nat \ {0}
    BY <1>1, <2>1
  <2>4. /\ task'[v] = Tasks[1]
        /\ \A w \in Workers : w # v => task'[w] = task[w]
    BY <1>1, <2>1, <2>3
  <2>5. \A k \in DOMAIN Tasks : k = 1 \/ (k - 1 \in DOMAIN Tasks' /\ Tasks'[k - 1] = Tasks[k])
    <3> SUFFICES ASSUME NEW k \in DOMAIN Tasks, k # 1
                 PROVE  k - 1 \in DOMAIN Tasks' /\ Tasks'[k - 1] = Tasks[k]
      OBVIOUS
    <3>1. k - 1 \in Nat /\ k - 1 # 0 /\ (k - 1) + 1 = k
      BY <2>3
    <3> QED
      BY <2>1, <2>3, <3>1
  <2>6. PlacesAreDistinct'
    <3>1. \A j, k \in DOMAIN Tasks' : Tasks'[j] = Tasks'[k] => j = k
      BY <1>2, <2>1, <2>3 DEF PlacesAreDistinct
    <3>2. \A k \in DOMAIN Tasks', w \in Workers : Tasks'[k] # task'[w]
      BY <1>2, <2>1, <2>3, <2>4 DEF PlacesAreDistinct
    <3>3. \A u, w \in Workers : task'[u] # NoTask /\ task'[u] = task'[w] => u = w
      BY <1>2, <2>3, <2>4 DEF PlacesAreDistinct
    <3> QED
      BY <3>1, <3>2, <3>3 DEF PlacesAreDistinct
  <2>7. DoneIsNowhere'
    BY <1>2, <2>1, <2>3, <2>4 DEF DoneIsNowhere
  <2>8. EnqueuedIsSomewhere'
    <3> SUFFICES ASSUME NEW i \in TaskIds, i <= enqueued, futures[i].state = "pending"
                 PROVE  \/ \E k \in DOMAIN Tasks' : Tasks'[k] = i
                        \/ \E w \in Workers : task'[w] = i
      BY <2>1 DEF EnqueuedIsSomewhere
    <3>1. CASE \E w \in Workers : task[w] = i
      BY <1>1, <2>2, <2>4, <3>1
    <3>2. CASE \E k \in DOMAIN Tasks : Tasks[k] = i
      BY <2>4, <2>5, <3>2
    <3> QED
      BY <1>2, <3>1, <3>2 DEF EnqueuedIsSomewhere
  <2> QED
    BY <2>6, <2>7, <2>8 DEF OnceInv
<1>6. ASSUME NEW v \in Workers, RunTask(v)
      PROVE  OnceInv'
  <2>1. /\ Finish(v) /\ futures' = [futures EXCEPT ![task[v]] = AnnotateHtml(task[v])]
        /\ UNCHANGED enqueued
    BY <1>6 DEF RunTask, Argument
  <2>2. worker[v] = "run" /\ task' = [task EXCEPT ![v] = NoTask] /\ Tasks' = Tasks
    BY <2>1 DEF Finish
  <2>3. task[v] # NoTask /\ task[v] \in TaskIds
    BY <1>1, <2>2 DEF TypeInv, TypeOK, PoolTypeOK
  <2>4. task[v] \in 1 .. enqueued /\ task[v] \in 1 .. Len(input)
    BY <1>1, <2>3, InputIsSeq DEF TasksAreInputs
  <2>5. AnnotateHtml(task[v]).state # "pending"
    BY <1>1, <2>3, <2>4, AnnotateHtmlType
  <2>6. /\ futures'[task[v]].state # "pending"
        /\ \A i \in TaskIds : i # task[v] => futures'[i] = futures[i]
        /\ task'[v] = NoTask
        /\ \A w \in Workers : w # v => task'[w] = task[w]
    BY <1>1, <2>1, <2>2, <2>3, <2>5
  <2>7. PlacesAreDistinct'
    BY <1>1, <1>2, <2>2, <2>6 DEF PlacesAreDistinct
  <2>8. DoneIsNowhere'
    <3> SUFFICES ASSUME NEW i \in TaskIds, futures'[i].state # "pending"
                 PROVE  /\ i <= enqueued
                        /\ \A k \in DOMAIN Tasks : Tasks[k] # i
                        /\ \A w \in Workers : task'[w] # i
      BY <2>1, <2>2 DEF DoneIsNowhere
    <3>1. CASE i = task[v]
      BY <1>1, <1>2, <2>3, <2>4, <2>6, <3>1 DEF PlacesAreDistinct
    <3>2. CASE i # task[v]
      BY <1>1, <1>2, <2>6, <3>2 DEF DoneIsNowhere
    <3> QED
      BY <3>1, <3>2
  <2>9. EnqueuedIsSomewhere'
    BY <1>1, <1>2, <2>1, <2>2, <2>6 DEF EnqueuedIsSomewhere
  <2> QED
    BY <2>7, <2>8, <2>9 DEF OnceInv
<1>7. \/ UNCHANGED <<Tasks, task, futures, enqueued>>
      \/ EnqueueNext
      \/ \E v \in Workers : Take(v) /\ UNCHANGED callVars
      \/ \E v \in Workers : RunTask(v)
  <2>1. CASE CallerStep
    BY <2>1 DEF CallerStep, Parse, Notify, NotifyOne, TakeResult, StopPool, Stop, NotifyWorkers,
                NotifyAll, Join, PrintResult, poolVars
  <2>2. CASE \E w \in Workers : WorkerStep(w)
    BY <2>2 DEF WorkerStep, Wait, Return, callVars
  <2>3. CASE \E w \in Workers : WakeUp(w) /\ UNCHANGED callVars
    BY <2>3 DEF WakeUp, callVars
  <2>4. CASE UNCHANGED vars
    BY <2>4 DEF vars, poolVars, callVars
  <2> QED
    BY <2>1, <2>2, <2>3, <2>4 DEF Next
<1> QED
  BY <1>3, <1>4, <1>5, <1>6, <1>7

LEMMA OnceInvImplies == TypeInv /\ OnceInv => TasksRunOnce
<1> SUFFICES ASSUME TypeInv, OnceInv, NEW i \in TaskIds
             PROVE  LET queued == {k \in DOMAIN Tasks : Tasks[k] = i}
                        running == {w \in Workers : task[w] = i}
                        done == {j \in {i} : futures[j].state # "pending"}
                    IN  Cardinality(queued) + Cardinality(running) + Cardinality(done)
                          = IF i <= enqueued THEN 1 ELSE 0
  BY DEF TasksRunOnce
<1> DEFINE queued == {k \in DOMAIN Tasks : Tasks[k] = i}
           running == {w \in Workers : task[w] = i}
           done == {j \in {i} : futures[j].state # "pending"}
<1> SUFFICES Cardinality(queued) + Cardinality(running) + Cardinality(done)
               = IF i <= enqueued THEN 1 ELSE 0
  OBVIOUS
<1>1. /\ TasksAreInputs /\ enqueued \in Nat /\ i \in Nat /\ i # NoTask
      /\ PlacesAreDistinct /\ DoneIsNowhere /\ EnqueuedIsSomewhere
  BY InputIsSeq, AnnotateAllAssumption, PoolAssumption DEF TypeInv, TypeOK, OnceInv
<1>2. Cardinality({}) = 0 /\ \A x : Cardinality({x}) = 1
  BY FS_EmptySet, FS_Singleton
<1>3. CASE i > enqueued
  <2>1. queued = {} /\ running = {} /\ done = {}
    BY <1>1, <1>3 DEF TasksAreInputs, DoneIsNowhere
  <2> QED
    BY <1>1, <1>2, <1>3, <2>1
<1>4. CASE i <= enqueued /\ futures[i].state # "pending"
  <2>1. queued = {} /\ running = {} /\ done = {i}
    BY <1>1, <1>4 DEF DoneIsNowhere
  <2>2. Cardinality(queued) = 0 /\ Cardinality(running) = 0 /\ Cardinality(done) = 1
    BY <1>2, <2>1
  <2> HIDE DEF queued, running, done
  <2> QED
    BY <1>4, <2>2
<1>5. CASE i <= enqueued /\ futures[i].state = "pending" /\ queued # {}
  <2>1. PICK k \in DOMAIN Tasks : Tasks[k] = i
    BY <1>5
  <2>2. queued = {k} /\ running = {} /\ done = {}
    BY <1>1, <1>5, <2>1 DEF PlacesAreDistinct
  <2>3. Cardinality(queued) = 1 /\ Cardinality(running) = 0 /\ Cardinality(done) = 0
    BY <1>2, <2>2
  <2> HIDE DEF queued, running, done
  <2> QED
    BY <1>5, <2>3
<1>6. CASE i <= enqueued /\ futures[i].state = "pending" /\ queued = {}
  <2>1. PICK w \in Workers : task[w] = i
    BY <1>1, <1>6 DEF EnqueuedIsSomewhere
  <2>2. running = {w} /\ done = {}
    BY <1>1, <1>6, <2>1 DEF PlacesAreDistinct
  <2>3. Cardinality(queued) = 0 /\ Cardinality(running) = 1 /\ Cardinality(done) = 0
    BY <1>2, <2>2, <1>6
  <2> HIDE DEF queued, running, done
  <2> QED
    BY <1>6, <2>3
<1> QED
  BY <1>1, <1>3, <1>4, <1>5, <1>6

\* However the threads interleave, a task that was enqueued is in the queue, with
\* one worker or done, and in one of these places only.
THEOREM EachTaskRunsOnce == Spec => []TasksRunOnce
<1> QED
  BY TypeInit, TypeStep, OnceInit, OnceStep, OnceInvImplies, PTL DEF Spec

-----------------------------------------------------------------------------
(***************************************************************************)
(* The pool is drained, and nobody sleeps behind the destructor.           *)
(***************************************************************************)

\* A worker only leaves a stopped and empty pool, and the function only leaves
\* when every worker has.
DrainInv ==
    /\ IsDone <=> pc \in {"notifyAll", "join", "returned", "printed"}
    /\ \A w \in Workers : worker[w] = "returned" => IsDone /\ Tasks = << >>
    /\ pc \in {"returned", "printed"} => \A w \in Workers : worker[w] = "returned"
    /\ pc \in {"join", "returned", "printed"} => \A w \in Workers : worker[w] # "wait"

LEMMA DrainInit == Init => DrainInv
BY DEF Init, PoolInit, DrainInv

LEMMA DrainStep == TypeInv /\ DrainInv /\ [Next]_vars => DrainInv'
<1> SUFFICES ASSUME TypeInv, DrainInv, [Next]_vars PROVE DrainInv'
  OBVIOUS
<1>1. worker \in [Workers -> WorkerStates] /\ IsDone \in BOOLEAN
  BY DEF TypeInv, TypeOK, PoolTypeOK
<1>2. CASE Parse \/ TakeResult \/ UNCHANGED vars
  <2>1. /\ UNCHANGED <<Tasks, IsDone, worker>>
        /\ \/ pc \in {"parse", "enqueue"} /\ pc' \in {"parse", "enqueue", "stop"}
           \/ UNCHANGED pc
    BY <1>2 DEF Parse, TakeResult, vars, poolVars, callVars
  <2> QED
    BY <2>1 DEF DrainInv
<1>3. CASE EnqueueNext
  BY <1>3 DEF DrainInv, EnqueueNext, Enqueue
<1>4. CASE Notify
  <2>1. /\ pc = "notify" /\ pc' = "enqueue" /\ UNCHANGED <<Tasks, IsDone>>
        /\ \A w \in Workers : worker'[w] = "returned" => worker[w] = "returned"
    BY <1>1, <1>4 DEF Notify, NotifyOne, At
  <2> QED
    BY <2>1 DEF DrainInv
<1>5. CASE StopPool
  BY <1>5 DEF DrainInv, StopPool, Stop
<1>6. CASE NotifyWorkers
  <2>1. /\ pc = "notifyAll" /\ pc' = "join" /\ UNCHANGED <<Tasks, IsDone>>
        /\ \A w \in Workers : /\ worker'[w] # "wait"
                              /\ worker'[w] = "returned" => worker[w] = "returned"
    BY <1>1, <1>6 DEF NotifyWorkers, NotifyAll
  <2> QED
    BY <2>1 DEF DrainInv
<1>7. CASE Join
  BY <1>7 DEF DrainInv, Join, Joined, At, poolVars
<1>8. CASE PrintResult
  BY <1>8 DEF DrainInv, PrintResult, poolVars
<1>9. ASSUME NEW v \in Workers,
             \/ (Wait(v) \/ Return(v) \/ Take(v) \/ WakeUp(v)) /\ UNCHANGED callVars
             \/ RunTask(v)
      PROVE  DrainInv'
  <2>1. UNCHANGED <<IsDone, pc>>
    BY <1>9 DEF Wait, Return, Take, WakeUp, RunTask, Finish, callVars
  <2>2. /\ worker[v] \in {"lock", "wait", "run"}
        /\ \A w \in Workers : w # v => worker'[w] = worker[w]
    BY <1>1, <1>9 DEF Wait, Return, Take, WakeUp, RunTask, Finish
  <2>3. worker'[v] = "wait" => ~IsDone
    BY <1>1, <1>9 DEF Wait, Return, Take, WakeUp, RunTask, Finish
  <2>4. worker'[v] = "returned" => IsDone /\ Tasks = << >> /\ Tasks' = Tasks
    BY <1>1, <1>9 DEF Wait, Return, Take, WakeUp, RunTask, Finish
  <2>5. Tasks' = Tasks \/ Tasks # << >>
    BY <1>9 DEF Wait, Return, Take, WakeUp, RunTask, Finish
  <2> QED
    BY <2>1, <2>2, <2>3, <2>4, <2>5 DEF DrainInv
<1> QED
  BY <1>2, <1>3, <1>4, <1>5, <1>6, <1>7, <1>8, <1>9 DEF Next, CallerStep, WorkerStep

\* With a worker to join, the pool is empty and every task done when the function
\* returns or throws.
THEOREM PoolIsEmptied ==
    ASSUME Workers # {}
    PROVE  Spec => []PoolIsDrained
<1>1. TypeInv /\ OnceInv /\ DrainInv => PoolIsDrained
  <2> SUFFICES ASSUME TypeInv, OnceInv, DrainInv, pc = "returned"
               PROVE  /\ Tasks = << >>
                      /\ \A w \in Workers : worker[w] = "returned"
                      /\ \A i \in 1 .. enqueued : futures[i].state # "pending"
    BY DEF PoolIsDrained
  <2>1. Tasks = << >> /\ \A w \in Workers : worker[w] = "returned"
    BY DEF DrainInv
  <2>2. \A w \in Workers : task[w] = NoTask
    BY <2>1 DEF TypeInv, TypeOK, PoolTypeOK
  <2>3. 1 .. enqueued \subseteq TaskIds /\ NoTask \notin TaskIds /\ enqueued \in Nat
    BY InputIsSeq, AnnotateAllAssumption, PoolAssumption DEF TypeInv, TypeOK
  <2>4. DOMAIN Tasks = {}
    BY <2>1
  <2>5. \A i \in 1 .. enqueued : futures[i].state # "pending"
    BY <2>2, <2>3, <2>4 DEF OnceInv, EnqueuedIsSomewhere
  <2> QED
    BY <2>1, <2>5
<1> QED
  BY TypeInit, TypeStep, OnceInit, OnceStep, DrainInit, DrainStep, <1>1, PTL DEF Spec

-----------------------------------------------------------------------------
(***************************************************************************)
(* No wakeup is lost.                                                      *)
(***************************************************************************)

Due == IF pc = "notify" THEN 1 ELSE 0

\* While a worker sleeps, each queued task has a worker on its way to the queue
\* or a notification that is due.
SleepInv == At("wait") # {} => Len(Tasks) <= Cardinality(At("lock")) + Due

\* A worker that goes to the lock is one more there, one that leaves it is one less.
LEMMA LockCount ==
    ASSUME IsFiniteSet(Workers), worker \in [Workers -> WorkerStates], NEW w \in Workers
    PROVE  /\ Cardinality(At("lock")) \in Nat
           /\ worker' = [worker EXCEPT ![w] = "lock"] /\ worker[w] # "lock" =>
                 Cardinality(At("lock")') = Cardinality(At("lock")) + 1
           /\ worker' = [worker EXCEPT ![w] = "run"] /\ worker[w] = "lock" =>
                 Cardinality(At("lock")') = Cardinality(At("lock")) - 1
<1>1. IsFiniteSet(At("lock"))
  BY FS_Subset DEF At
<1>2. Cardinality(At("lock")) \in Nat
  BY <1>1, FS_CardinalityType
<1>3. ASSUME worker' = [worker EXCEPT ![w] = "lock"], worker[w] # "lock"
      PROVE  Cardinality(At("lock")') = Cardinality(At("lock")) + 1
  <2>1. At("lock")' = At("lock") \cup {w} /\ w \notin At("lock")
    BY <1>3 DEF At
  <2> QED
    BY <1>1, <2>1, FS_AddElement
<1>4. ASSUME worker' = [worker EXCEPT ![w] = "run"], worker[w] = "lock"
      PROVE  Cardinality(At("lock")') = Cardinality(At("lock")) - 1
  <2>1. At("lock")' = At("lock") \ {w} /\ w \in At("lock")
    BY <1>4 DEF At
  <2> QED
    BY <1>1, <2>1, FS_RemoveElement
<1> QED
  BY <1>2, <1>3, <1>4

LEMMA SleepInit == Init => SleepInv
BY DEF Init, PoolInit, SleepInv, At

LEMMA SleepStep ==
    ASSUME IsFiniteSet(Workers)
    PROVE  TypeInv /\ SleepInv /\ [Next]_vars => SleepInv'
<1> SUFFICES ASSUME TypeInv, SleepInv, [Next]_vars PROVE SleepInv'
  OBVIOUS
<1>1. /\ worker \in [Workers -> WorkerStates] /\ Tasks \in Seq(TaskIds) /\ Len(Tasks) \in Nat
      /\ Due \in Nat
  BY DEF TypeInv, TypeOK, PoolTypeOK, Due
<1>2. IsFiniteSet(At("lock")) /\ Cardinality(At("lock")) \in Nat
  BY FS_Subset, FS_CardinalityType DEF At
<1>3. CASE Parse \/ TakeResult \/ StopPool \/ Join \/ PrintResult \/ UNCHANGED vars
  <2>1. UNCHANGED <<Tasks, worker>> /\ (pc # "notify" \/ UNCHANGED pc)
    BY <1>3 DEF Parse, TakeResult, StopPool, Stop, Join, PrintResult, vars, poolVars, callVars
  <2>2. At("wait")' = At("wait") /\ At("lock")' = At("lock")
    BY <2>1 DEF At
  <2>3. Due' \in Nat /\ Due <= Due'
    BY <2>1 DEF Due
  <2> QED
    BY <1>1, <1>2, <2>1, <2>2, <2>3 DEF SleepInv
<1>4. CASE EnqueueNext
  <2>1. /\ \E t : Tasks' = Append(Tasks, t)
        /\ UNCHANGED worker /\ pc = "enqueue" /\ pc' = "notify"
    BY <1>4 DEF EnqueueNext, Enqueue
  <2>2. At("wait")' = At("wait") /\ At("lock")' = At("lock")
    BY <2>1 DEF At
  <2>3. Len(Tasks') = Len(Tasks) + 1 /\ Due = 0 /\ Due' = 1
    BY <1>1, <2>1 DEF Due
  <2> QED
    BY <1>1, <1>2, <2>2, <2>3 DEF SleepInv
<1>5. CASE Notify
  <2>1. NotifyOne /\ Tasks' = Tasks /\ Due = 1 /\ Due' = 0
    BY <1>5 DEF Notify, NotifyOne, Due
  <2>2. CASE At("wait") = {}
    BY <2>1, <2>2 DEF NotifyOne, SleepInv, At
  <2>3. CASE At("wait") # {}
    <3>1. PICK w \in Workers : worker[w] = "wait" /\ worker' = [worker EXCEPT ![w] = "lock"]
      BY <2>1, <2>3 DEF NotifyOne, At
    <3>2. Cardinality(At("lock")') = Cardinality(At("lock")) + 1
      BY <1>1, <3>1, LockCount
    <3> QED
      BY <1>1, <1>2, <2>1, <2>3, <3>2 DEF SleepInv
  <2> QED
    BY <2>2, <2>3
<1>6. CASE NotifyWorkers
  <2>1. At("wait")' = {}
    BY <1>6 DEF NotifyWorkers, NotifyAll, At
  <2> QED
    BY <2>1 DEF SleepInv
<1>7. ASSUME NEW w \in Workers, (Wait(w) \/ Return(w)) /\ UNCHANGED callVars
      PROVE  SleepInv'
  <2>1. Len(Tasks') = 0
    BY <1>7 DEF Wait, Return
  <2>2. IsFiniteSet(At("lock")') /\ Cardinality(At("lock")') \in Nat
    BY FS_Subset, FS_CardinalityType DEF At
  <2>3. Due' \in Nat
    BY DEF Due
  <2> QED
    BY <2>1, <2>2, <2>3 DEF SleepInv
<1>8. ASSUME NEW w \in Workers, WakeUp(w) /\ UNCHANGED callVars
      PROVE  SleepInv'
  <2>1. /\ worker[w] = "wait" /\ worker' = [worker EXCEPT ![w] = "lock"]
        /\ Tasks' = Tasks /\ Due' = Due
    BY <1>8 DEF WakeUp, callVars, Due
  <2>2. Cardinality(At("lock")') = Cardinality(At("lock")) + 1 /\ At("wait") # {}
    BY <1>1, <2>1, LockCount DEF At
  <2> QED
    BY <1>1, <1>2, <2>1, <2>2 DEF SleepInv
<1>9. ASSUME NEW w \in Workers, Take(w), UNCHANGED callVars
      PROVE  SleepInv'
  <2>1. /\ worker[w] = "lock" /\ worker' = [worker EXCEPT ![w] = "run"]
        /\ Tasks # << >> /\ Tasks' = Tail(Tasks) /\ Due' = Due
    BY <1>9 DEF Take, callVars, Due
  <2>2. /\ Cardinality(At("lock")') = Cardinality(At("lock")) - 1
        /\ At("wait")' = At("wait")
    BY <1>1, <2>1, LockCount DEF At
  <2>3. Len(Tasks') = Len(Tasks) - 1
    BY <1>1, <2>1
  <2> QED
    BY <1>1, <1>2, <2>1, <2>2, <2>3 DEF SleepInv
<1>10. ASSUME NEW w \in Workers, RunTask(w)
       PROVE  SleepInv'
  <2>1. /\ worker[w] = "run" /\ worker' = [worker EXCEPT ![w] = "lock"]
        /\ Tasks' = Tasks /\ Due' = Due
    BY <1>10 DEF RunTask, Finish, Due
  <2>2. /\ Cardinality(At("lock")') = Cardinality(At("lock")) + 1
        /\ At("wait")' = At("wait")
    BY <1>1, <2>1, LockCount DEF At
  <2> QED
    BY <1>1, <1>2, <2>1, <2>2 DEF SleepInv
<1> QED
  BY <1>3, <1>4, <1>5, <1>6, <1>7, <1>8, <1>9, <1>10 DEF Next, CallerStep, WorkerStep

\* No task is left to sleeping workers, for any finite number of them.
THEOREM NoWakeupIsLost ==
    ASSUME IsFiniteSet(Workers)
    PROVE  Spec => []NoTaskSleeps
<1>1. SleepInv /\ DrainInv => NoTaskSleeps
  BY DEF SleepInv, DrainInv, NoTaskSleeps, Due, At
<1>2. TypeInv /\ SleepInv /\ [Next]_vars => SleepInv'
  BY SleepStep
<1> QED
  BY TypeInit, TypeStep, DrainInit, DrainStep, SleepInit, <1>1, <1>2, PTL DEF Spec
-----------------------------------------------------------------------------
(***************************************************************************)
(* The function does what one thread would: AnnotateInOrder.               *)
(***************************************************************************)

\* The documents kept so far, by their places in the input.
Kept == [k \in DOMAIN docs |-> docs[k].FileName]

Outcome == IF pc # "printed" THEN "running" ELSE IF threw THEN "threw" ELSE "printed"

\* A future that is not pending holds what the document comes to.
FuturesFit == \A i \in TaskIds : futures[i].state # "pending" => futures[i] = AnnotateHtml(i)

\* The result consists of wanted documents of the input, annotated.
Fits(a) ==
    /\ a.FileName \in DOMAIN input
    /\ a.doc = AnnotateDocument(input[a.FileName])
    /\ IsWanted(a.doc)

DocsFit == \A k \in DOMAIN docs : Fits(docs[k])

\* The next document makes the function throw.
NextThrows == taken < Len(input) /\ InOrder!Throws(input[taken + 1])

\* An exception has its reason in the input, and without one all of it is done.
CallFits ==
    /\ pc = "parse" => ~threw
    /\ pc \in {"enqueue", "notify"} => ~InOrder!BadFile /\ ~threw
    /\ pc = "stop" => threw
    /\ pc \in {"notifyAll", "join", "returned"} /\ ~threw => ~InOrder!BadFile /\ taken = Len(input)
    /\ threw => InOrder!BadFile \/ NextThrows
    /\ pc # "printed" => output = << >>

OrderInv == FuturesFit /\ DocsFit /\ CallFits

-----------------------------------------------------------------------------
\* Both modules annotate a document alike, and want the same ones.
LEMMA SameAnnotation ==
    ASSUME NEW body
    PROVE  InOrder!AnnotateDocument(body) = AnnotateDocument(body)
BY DEF InOrder!AnnotateDocument, AnnotateDocument, InOrder!EmbeddingKeys, EmbeddingKeys

LEMMA SameWanted ==
    ASSUME NEW body
    PROVE  InOrder!IsWanted(body) <=> body.parses /\ IsWanted(AnnotateDocument(body))
<1> DEFINE doc == AnnotateDocument(body)
<1>1. InOrder!AnnotateDocument(body) = doc
  BY SameAnnotation
<1> HIDE DEF doc
<1>2. InOrder!IsWanted(body) <=>
        /\ body.parses
        /\ doc.Language \in RequestedLanguages \ {"LN_UNDEFINED"}
        /\ doc.Embeddings # {}
        /\ doc.Category # "NC_UNDEFINED"
        /\ doc.Category = "NC_NOT_NEWS" => SaveNotNews
  BY <1>1 DEF InOrder!IsWanted
<1>3. IsWanted(doc) <=>
        /\ doc.Language \in RequestedLanguages
        /\ doc.Language # "LN_UNDEFINED" /\ doc.Category # "NC_UNDEFINED" /\ doc.Embeddings # {}
        /\ doc.Category \notin {"NC_NOT_NEWS", "NC_UNDEFINED"} \/ SaveNotNews
  BY DEF IsWanted, IsFullyIndexed, IsNews
<1>4. SaveNotNews \in BOOLEAN
  BY AnnotateAllAssumption
<1> QED
  BY <1>2, <1>3, <1>4 DEF doc

\* What a task finds of its document.
LEMMA AnnotateHtmlResult ==
    ASSUME NEW i
    PROVE  /\ InOrder!Throws(input[i]) => AnnotateHtml(i).state = "thrown"
           /\ AnnotateHtml(i).state = "thrown" => InOrder!Throws(input[i])
           /\ ~InOrder!Throws(input[i]) =>
                AnnotateHtml(i).result =
                  IF input[i].parses THEN {[FileName |-> i, doc |-> AnnotateDocument(input[i])]} ELSE {}
<1> DEFINE body == input[i]
           result == {[FileName |-> i, doc |-> d] : d \in ParseDbDocFromReq(body)}
<1>1. InOrder!Throws(body) <=> body.parses /\ body \in Unannotatable
  BY DEF InOrder!Throws
<1>2. AnnotateHtml(i) = IF body \in Unannotatable /\ body.parses
                        THEN [state |-> "thrown", result |-> {}]
                        ELSE [state |-> "ready", result |-> result]
  BY DEF AnnotateHtml
<1>3. result = IF body.parses THEN {[FileName |-> i, doc |-> AnnotateDocument(body)]} ELSE {}
  BY DEF ParseDbDocFromReq
<1> HIDE DEF body, result
<1>4. CASE InOrder!Throws(body)
  BY <1>1, <1>2, <1>4 DEF body
<1>5. CASE ~InOrder!Throws(body)
  BY <1>1, <1>2, <1>3, <1>5 DEF body
<1> QED
  BY <1>4, <1>5

\* The instance has its own names for the operators of the library.
LEMMA SameAscending ==
    ASSUME NEW P
    PROVE  InOrder!Ascending(P) = Ascending(P)
BY DEF InOrder!Ascending, Ascending, InOrder!Cardinality, Cardinality

\* What is picked from the documents kept is what is picked from their places.
LEMMA FilesPicked ==
    ASSUME NEW P, docs \in Seq(Annotated), P \in SUBSET DOMAIN docs
    PROVE  [k \in DOMAIN Picked(docs, Ascending(P)) |-> Picked(docs, Ascending(P))[k].FileName]
             = InOrder!Picked(Kept, InOrder!Ascending(P))
<1> DEFINE a == Ascending(P)
<1>1. InOrder!Ascending(P) = a
  BY SameAscending
<1>2. DOMAIN docs = 1 .. Len(docs) /\ Len(docs) \in Nat
  OBVIOUS
<1>3. Arranges(a, P)
  BY <1>2, AscendingArranges
<1>4. \A k \in DOMAIN a : a[k] \in DOMAIN docs
  BY <1>3, ArrangedParts
<1> HIDE DEF a
<1>5. Picked(docs, a) = [k \in DOMAIN a |-> docs[a[k]]]
  BY DEF Picked
<1>6. InOrder!Picked(Kept, a) = [k \in DOMAIN a |-> Kept[a[k]]]
  BY DEF InOrder!Picked
<1>7. \A k \in DOMAIN a : Kept[a[k]] = docs[a[k]].FileName
  BY <1>4 DEF Kept
<1>8. [k \in DOMAIN Picked(docs, a) |-> Picked(docs, a)[k].FileName]
        = [k \in DOMAIN a |-> docs[a[k]].FileName]
  BY <1>5
<1>9. InOrder!Picked(Kept, a) = [k \in DOMAIN a |-> docs[a[k]].FileName]
  BY <1>6, <1>7
<1>10. [k \in DOMAIN Picked(docs, a) |-> Picked(docs, a)[k].FileName] = InOrder!Picked(Kept, a)
  BY <1>8, <1>9
<1> QED
  BY <1>1, <1>10 DEF a

\* The places in docs of what is printed under a heading.
Under(heading) == {k \in DOMAIN docs : InOrder!Heading(input[docs[k].FileName]) = heading}

ListedInOrder(heading) ==
    InOrder!Selected(Kept, LAMBDA i : InOrder!Heading(input[i]) = heading)

LEMMA ListedPicked ==
    ASSUME NEW heading
    PROVE  ListedInOrder(heading) = InOrder!Picked(Kept, InOrder!Ascending(Under(heading)))
<1> DEFINE P == {k \in DOMAIN Kept : InOrder!Heading(input[Kept[k]]) = heading}
<1>1. P = Under(heading)
  BY DEF Under, Kept
<1>2. ListedInOrder(heading) = InOrder!Picked(Kept, InOrder!Ascending(P))
  BY DEF ListedInOrder, InOrder!Selected
<1> QED
  BY <1>1, <1>2

\* The heading of a kept document, by the modes that print.
LEMMA HeadingOfKept ==
    ASSUME DocsFit, NEW k \in DOMAIN docs
    PROVE  LET heading == InOrder!Heading(input[docs[k].FileName])
           IN  /\ Mode = "categories" => heading = docs[k].doc.Category
               /\ Mode = "languages" => heading = docs[k].doc.Language
               /\ Mode \notin {"categories", "languages"} => heading = "articles"
<1> DEFINE body == input[docs[k].FileName]
<1>1. docs[k].doc = InOrder!AnnotateDocument(body)
  BY SameAnnotation DEF DocsFit, Fits
<1> HIDE DEF body
<1>2. /\ Mode = "categories" => InOrder!Heading(body) = InOrder!AnnotateDocument(body).Category
      /\ Mode = "languages" => InOrder!Heading(body) = InOrder!AnnotateDocument(body).Language
      /\ Mode \notin {"categories", "languages"} => InOrder!Heading(body) = "articles"
  BY DEF InOrder!Heading
<1> QED
  BY <1>1, <1>2 DEF body

\* A kept document has a heading that is printed.
LEMMA KeptHasHeading ==
    ASSUME TypeInv, DocsFit, NEW k \in DOMAIN docs, InOrder!Prints
    PROVE  InOrder!Heading(input[docs[k].FileName]) \in DOMAIN Printed
<1> DEFINE doc == docs[k].doc
           body == input[docs[k].FileName]
<1>1. doc = AnnotateDocument(body) /\ IsWanted(doc) /\ docs[k].FileName \in DOMAIN input
  BY DEF DocsFit, Fits
<1>2. doc.Category \in Categories
  <2>1. docs[k] \in Annotated
    BY DEF TypeInv, TypeOK
  <2> QED
    BY <2>1 DEF Annotated, AnnotatedDocument
<1>3. doc.Category \in {body.detectedCategory, "NC_UNDEFINED"}
  <2>1. AnnotateDocument(body).Category \in {body.detectedCategory, "NC_UNDEFINED"}
    BY DEF AnnotateDocument
  <2> QED
    BY <1>1, <2>1
<1>4. body.detectedCategory # "NC_ANY"
  <2>1. input \in Inputs
    BY DEF TypeInv, TypeOK
  <2>2. body \in Bodies
    BY <1>1, <2>1 DEF Inputs
  <2> QED
    BY <2>2, AnnotateAllAssumption
<1>5. doc.Category \notin {"NC_UNDEFINED", "NC_ANY"}
  BY <1>1, <1>3, <1>4 DEF IsWanted, IsFullyIndexed
<1>6. doc.Category = "NC_NOT_NEWS" => SaveNotNews
  BY <1>1 DEF IsWanted, IsNews
<1>7. doc.Category \in Rubrics
  <2>1. CASE SaveNotNews
    BY <1>2, <1>5, <2>1 DEF Rubrics
  <2>2. CASE ~SaveNotNews
    BY <1>2, <1>5, <1>6, <2>2 DEF Rubrics
  <2> QED
    BY <2>1, <2>2
<1>8. CASE Mode = "categories"
  <2>1. DOMAIN Printed = Rubrics
    BY <1>8 DEF Printed
  <2> QED
    BY <1>7, <1>8, <2>1, HeadingOfKept
<1>9. CASE Mode = "languages"
  <2>1. DOMAIN Printed = {docs[j].doc.Language : j \in DOMAIN docs}
    BY <1>9 DEF Printed
  <2> QED
    BY <1>9, <2>1, HeadingOfKept
<1>10. CASE Mode \in {"news", "json"}
  <2>1. DOMAIN Printed = {"articles"}
    BY <1>10 DEF Printed
  <2> QED
    BY <1>10, <2>1, HeadingOfKept
<1> QED
  BY <1>8, <1>9, <1>10 DEF InOrder!Prints

\* Under each heading that is printed stands what AnnotateInOrder lists there.
LEMMA PrintedListsInOrder ==
    ASSUME TypeInv, DocsFit, NEW heading \in DOMAIN Printed
    PROVE  Printed[heading] = ListedInOrder(heading)
<1> DEFINE ByCategory == {k \in DOMAIN docs : docs[k].doc.Category = heading}
           ByLanguage == {k \in DOMAIN docs : docs[k].doc.Language = heading}
           Files0(P) == [k \in DOMAIN Picked(docs, Ascending(P)) |-> Picked(docs, Ascending(P))[k].FileName]
<1>1. docs \in Seq(Annotated)
  BY DEF TypeInv, TypeOK
<1>2. ASSUME NEW P, P = Under(heading)
      PROVE  Files0(P) = ListedInOrder(heading)
  <2>1. P \in SUBSET DOMAIN docs
    BY <1>2 DEF Under
  <2> QED
    BY <1>1, <1>2, <2>1, FilesPicked, ListedPicked
<1>3. CASE Mode = "categories"
  <2>1. Printed = [category \in Rubrics |-> Files(LAMBDA doc : doc.Category = category)]
    BY <1>3 DEF Printed
  <2>2. heading \in Rubrics
    BY <2>1
  <2>3. Printed[heading] = Files(LAMBDA doc : doc.Category = heading)
    BY <2>1, <2>2 DEF Files
  <2>4. Printed[heading] = Files0(ByCategory)
    BY <2>3 DEF Files, Selected
  <2>5. ByCategory = Under(heading)
    BY <1>3, HeadingOfKept DEF Under
  <2> QED
    BY <1>2, <2>4, <2>5
<1>4. CASE Mode = "languages"
  <2>1. Printed = [language \in {docs[k].doc.Language : k \in DOMAIN docs} |->
                     Files(LAMBDA doc : doc.Language = language)]
    BY <1>4 DEF Printed
  <2>2. heading \in {docs[k].doc.Language : k \in DOMAIN docs}
    BY <2>1
  <2>3. Printed[heading] = Files(LAMBDA doc : doc.Language = heading)
    BY <2>1, <2>2 DEF Files
  <2>4. Printed[heading] = Files0(ByLanguage)
    BY <2>3 DEF Files, Selected
  <2>5. ByLanguage = Under(heading)
    BY <1>4, HeadingOfKept DEF Under
  <2> QED
    BY <1>2, <2>4, <2>5
<1>5. CASE Mode \in {"news", "json"}
  <2>1. Printed = [h \in {"articles"} |-> Files(LAMBDA doc : TRUE)]
    BY <1>5 DEF Printed
  <2>2. heading = "articles" /\ Printed[heading] = Files(LAMBDA doc : TRUE)
    BY <2>1 DEF Files
  <2>3. Printed[heading] = Files0({k \in DOMAIN docs : TRUE})
    BY <2>2 DEF Files, Selected
  <2>4. {k \in DOMAIN docs : TRUE} = Under(heading)
    BY <1>5, <2>2, HeadingOfKept DEF Under
  <2> QED
    BY <1>2, <2>3, <2>4
<1>6. CASE Mode \notin {"categories", "languages", "news", "json"}
  <2>1. Printed = << >>
    BY <1>6 DEF Printed
  <2> QED
    BY <2>1
<1> QED
  BY <1>3, <1>4, <1>5, <1>6

-----------------------------------------------------------------------------
LEMMA OrderInit == Init => OrderInv
<1> SUFFICES ASSUME Init PROVE OrderInv
  OBVIOUS
<1>1. /\ pc = "parse" /\ threw = FALSE /\ docs = << >> /\ output = << >>
      /\ futures = [i \in TaskIds |-> Pending]
  BY DEF Init
<1>2. FuturesFit
  BY <1>1 DEF FuturesFit, Pending
<1>3. DocsFit
  BY <1>1 DEF DocsFit
<1>4. CallFits
  BY <1>1 DEF CallFits
<1> QED
  BY <1>2, <1>3, <1>4 DEF OrderInv

\* What a future says of the next document, and what becomes of the result.
LEMMA NextResult ==
    ASSUME TypeInv, OrderInv, TakeResult
    PROVE  LET i == taken + 1 IN
           \/ /\ ~InOrder!Throws(input[i])
              /\ taken' = i /\ UNCHANGED <<pc, threw>>
              /\ IF InOrder!IsWanted(input[i])
                 THEN docs' = Append(docs, [FileName |-> i, doc |-> AnnotateDocument(input[i])])
                 ELSE docs' = docs
           \/ /\ InOrder!Throws(input[i])
              /\ pc' = "stop" /\ threw' = TRUE /\ UNCHANGED <<taken, docs>>
<1> DEFINE i == taken + 1
           future == futures[i]
           body == input[i]
           annotated == [FileName |-> i, doc |-> AnnotateDocument(body)]
<1>1. i \in TaskIds
  <2>1. taken \in Nat /\ taken < Len(input) /\ Len(input) \in 0 .. MaxInputs
    BY InputIsSeq DEF TypeInv, TypeOK, TakeResult
  <2> QED
    BY <2>1, AnnotateAllAssumption
<1>2. \/ /\ future.state = "ready" /\ taken' = i /\ UNCHANGED <<pc, threw>>
         /\ IF \E a \in future.result : IsWanted(a.doc)
            THEN \E a \in future.result : docs' = Append(docs, a)
            ELSE UNCHANGED docs
      \/ future.state = "thrown" /\ pc' = "stop" /\ threw' = TRUE /\ UNCHANGED <<taken, docs>>
  BY DEF TakeResult
<1>3. future = AnnotateHtml(i)
  BY <1>1, <1>2 DEF OrderInv, FuturesFit
<1>4. /\ InOrder!Throws(body) <=> future.state = "thrown"
      /\ ~InOrder!Throws(body) => future.result = IF body.parses THEN {annotated} ELSE {}
  BY <1>3, AnnotateHtmlResult
<1>5. InOrder!IsWanted(body) <=> body.parses /\ IsWanted(annotated.doc)
  BY SameWanted
<1> HIDE DEF i, future, body, annotated
<1>6. CASE future.state = "thrown"
  BY <1>2, <1>4, <1>6 DEF i, body
<1>7. CASE future.state # "thrown"
  <2>1. /\ ~InOrder!Throws(body) /\ taken' = i /\ UNCHANGED <<pc, threw>>
        /\ future.result = IF body.parses THEN {annotated} ELSE {}
        /\ IF \E a \in future.result : IsWanted(a.doc)
           THEN \E a \in future.result : docs' = Append(docs, a)
           ELSE docs' = docs
    BY <1>2, <1>4, <1>7
  <2>2. CASE InOrder!IsWanted(body)
    BY <1>5, <2>1, <2>2 DEF i, body, annotated
  <2>3. CASE ~InOrder!IsWanted(body)
    BY <1>5, <2>1, <2>3 DEF i, body, annotated
  <2> QED
    BY <2>2, <2>3
<1> QED
  BY <1>6, <1>7

LEMMA FuturesStep == TypeInv /\ FuturesFit /\ [Next]_vars => FuturesFit'
<1> SUFFICES ASSUME TypeInv, FuturesFit, [Next]_vars PROVE FuturesFit'
  OBVIOUS
<1>1. CASE UNCHANGED <<futures, input>>
  BY <1>1 DEF FuturesFit, AnnotateHtml
<1>2. ASSUME NEW w \in Workers, RunTask(w)
      PROVE  FuturesFit'
  <2>1. /\ futures' = [futures EXCEPT ![task[w]] = AnnotateHtml(task[w])] /\ input' = input
        /\ futures \in [TaskIds -> Future]
    BY <1>2 DEF RunTask, Argument, TypeInv, TypeOK
  <2>2. \A i \in TaskIds : futures'[i] = IF i = task[w] THEN AnnotateHtml(i) ELSE futures[i]
    BY <2>1
  <2>3. \A i : AnnotateHtml(i)' = AnnotateHtml(i)
    BY <2>1 DEF AnnotateHtml
  <2> QED
    BY <2>2, <2>3 DEF FuturesFit
<1> QED
  BY <1>1, <1>2 DEF Next, CallerStep, WorkerStep, Parse, EnqueueNext, Notify, TakeResult, StopPool,
     NotifyWorkers, Join, PrintResult, vars, callVars

LEMMA DocsStep == TypeInv /\ OrderInv /\ [Next]_vars => DocsFit'
<1> SUFFICES ASSUME TypeInv, OrderInv, [Next]_vars PROVE DocsFit'
  OBVIOUS
<1>1. DocsFit /\ docs \in Seq(Annotated)
  BY DEF TypeInv, TypeOK, OrderInv
<1>2. CASE UNCHANGED <<docs, input>>
  <2>1. \A k \in DOMAIN docs : Fits(docs[k])' <=> Fits(docs[k])
    BY <1>2 DEF Fits
  <2> QED
    BY <1>1, <1>2, <2>1 DEF DocsFit
<1>3. CASE TakeResult
  <2> DEFINE i == taken + 1
             a == [FileName |-> i, doc |-> AnnotateDocument(input[i])]
  <2>1. input' = input /\ i \in DOMAIN input
    <3>1. /\ taken \in Nat /\ taken < Len(input) /\ Len(input) \in Nat
          /\ DOMAIN input = 1 .. Len(input)
      BY <1>3, InputIsSeq DEF TypeInv, TypeOK, TakeResult
    <3> QED
      BY <1>3, <3>1 DEF TakeResult
  <2>2. \/ docs' = docs
        \/ InOrder!IsWanted(input[i]) /\ docs' = Append(docs, a)
    BY <1>3, NextResult
  <2>3. CASE docs' = docs
    BY <1>2, <2>1, <2>3
  <2>4. CASE InOrder!IsWanted(input[i]) /\ docs' = Append(docs, a)
    <3>1. a.FileName = i /\ a.doc = AnnotateDocument(input[i])
      OBVIOUS
    <3>2. IsWanted(a.doc)
      BY <2>4, <3>1, SameWanted
    <3> HIDE DEF a
    <3>3. Fits(a)
      BY <2>1, <3>1, <3>2 DEF Fits
    <3>4. \A b : Fits(b)' <=> Fits(b)
      BY <2>1 DEF Fits
    <3>5. docs \in Seq(Annotated \cup {a})
      BY <1>1
    <3>6. \A k \in DOMAIN docs' : docs'[k] = a \/ (k \in DOMAIN docs /\ docs'[k] = docs[k])
      BY <2>4, <3>5
    <3> QED
      BY <1>1, <3>3, <3>4, <3>6 DEF DocsFit
  <2> QED
    BY <2>2, <2>3, <2>4
<1> QED
  BY <1>2, <1>3 DEF Next, CallerStep, WorkerStep, Parse, EnqueueNext, Notify, RunTask, StopPool,
     NotifyWorkers, Join, PrintResult, vars, callVars

LEMMA CallStep == TypeInv /\ OrderInv /\ [Next]_vars => CallFits'
<1> SUFFICES ASSUME TypeInv, OrderInv, [Next]_vars PROVE CallFits'
  OBVIOUS
<1>1. CallFits
  BY DEF OrderInv
<1>2. \/ TakeResult
      \/ UNCHANGED <<input, inputFormat, taken>>
  BY DEF Next, CallerStep, WorkerStep, Parse, EnqueueNext, Notify, RunTask, StopPool,
     NotifyWorkers, Join, PrintResult, vars, callVars
<1>3. UNCHANGED <<input, inputFormat>> /\ (InOrder!BadFile' <=> InOrder!BadFile)
  <2>1. UNCHANGED <<input, inputFormat>>
    BY <1>2 DEF TakeResult
  <2> QED
    BY <2>1 DEF InOrder!BadFile
<1>4. taken' = taken => (NextThrows' <=> NextThrows)
  BY <1>3 DEF NextThrows, InOrder!Throws
<1>5. CASE Parse
  <2>1. /\ pc = "parse" /\ UNCHANGED <<taken, output>>
        /\ IF InOrder!BadFile THEN pc' = "stop" /\ threw' = TRUE
           ELSE pc' = "enqueue" /\ UNCHANGED threw
    BY <1>5 DEF Parse, InOrder!BadFile
  <2> QED
    BY <1>1, <1>3, <1>4, <2>1 DEF CallFits
<1>6. CASE EnqueueNext \/ Notify \/ NotifyWorkers \/ Join
  <2>1. /\ \/ pc = "enqueue" /\ pc' = "notify"
           \/ pc = "notify" /\ pc' = "enqueue"
           \/ pc = "notifyAll" /\ pc' = "join"
           \/ pc = "join" /\ pc' = "returned"
        /\ UNCHANGED <<taken, threw, output>>
    BY <1>6 DEF EnqueueNext, Notify, NotifyWorkers, Join
  <2> QED
    BY <1>1, <1>3, <1>4, <2>1 DEF CallFits
<1>7. CASE TakeResult
  <2>1. /\ pc = "enqueue" /\ taken < Len(input) /\ UNCHANGED output
        /\ \/ UNCHANGED <<pc, threw>>
           \/ InOrder!Throws(input[taken + 1]) /\ pc' = "stop" /\ threw' = TRUE /\ UNCHANGED taken
    BY <1>7, NextResult DEF TakeResult
  <2> QED
    BY <1>1, <1>3, <1>4, <2>1 DEF CallFits, NextThrows
<1>8. CASE StopPool
  <2>1. /\ pc' = "notifyAll" /\ UNCHANGED <<taken, threw, output>>
        /\ pc = "stop" \/ (pc = "enqueue" /\ taken = Len(input))
    BY <1>8 DEF StopPool
  <2> QED
    BY <1>1, <1>3, <1>4, <2>1 DEF CallFits
<1>9. CASE PrintResult
  <2>1. pc' = "printed" /\ UNCHANGED <<taken, threw>>
    BY <1>9 DEF PrintResult
  <2> QED
    BY <1>1, <1>3, <1>4, <2>1 DEF CallFits
<1>10. CASE UNCHANGED <<pc, taken, threw, output>>
  BY <1>1, <1>3, <1>4, <1>10 DEF CallFits
<1> QED
  BY <1>5, <1>6, <1>7, <1>8, <1>9, <1>10 DEF Next, CallerStep, WorkerStep, RunTask, vars, callVars

-----------------------------------------------------------------------------
\* The mapped variables, and the steps that leave them alone.
LEMMA Stutters ==
    ASSUME UNCHANGED <<input, inputFormat, taken, docs, output>>, Outcome' = Outcome
    PROVE  UNCHANGED InOrder!vars
BY DEF InOrder!vars, Outcome

LEMMA AnnotatesInOrder ==
    ASSUME TypeInv, OrderInv, TakeResult
    PROVE  InOrder!Annotate \/ UNCHANGED InOrder!vars
<1> DEFINE i == taken + 1
           a == [FileName |-> i, doc |-> AnnotateDocument(input[i])]
<1>1. /\ pc = "enqueue" /\ taken < Len(input) /\ ~InOrder!BadFile
      /\ UNCHANGED <<input, inputFormat, output>> /\ docs \in Seq(Annotated)
  BY DEF TakeResult, OrderInv, CallFits, TypeInv, TypeOK
<1>2. CASE ~InOrder!Throws(input[i])
  <2>1. /\ taken' = i /\ UNCHANGED <<pc, threw>>
        /\ IF InOrder!IsWanted(input[i]) THEN docs' = Append(docs, a) ELSE docs' = docs
    BY <1>2, NextResult
  <2>2. Kept' = IF InOrder!IsWanted(input[i]) THEN Append(Kept, i) ELSE Kept
    <3>1. CASE InOrder!IsWanted(input[i])
      <4>1. docs' = Append(docs, a) /\ a.FileName = i
        BY <2>1, <3>1
      <4> HIDE DEF a, i
      <4> DEFINE n == Len(docs)
      <4>2. n \in Nat /\ DOMAIN docs = 1 .. n
        BY <1>1
      <4>3. /\ DOMAIN docs' = 1 .. n + 1
            /\ \A k \in 1 .. n + 1 : docs'[k] = IF k = n + 1 THEN a ELSE docs[k]
        <5>1. docs \in Seq(Annotated \cup {a})
          BY <1>1
        <5> QED
          BY <4>1, <5>1
      <4>4. Kept = [k \in 1 .. n |-> docs[k].FileName] /\ Len(Kept) = n
        BY <4>2 DEF Kept
      <4>5. Append(Kept, i) = [k \in 1 .. n + 1 |-> IF k = n + 1 THEN i ELSE Kept[k]]
        BY <4>2, <4>4
      <4>6. Kept' = [k \in 1 .. n + 1 |-> docs'[k].FileName]
        BY <4>2, <4>3 DEF Kept
      <4>7. \A k \in 1 .. n + 1 : docs'[k].FileName = IF k = n + 1 THEN i ELSE Kept[k]
        BY <4>1, <4>2, <4>3, <4>4
      <4>8. Kept' = Append(Kept, i)
        BY <4>5, <4>6, <4>7
      <4> QED
        BY <3>1, <4>8
    <3>2. CASE ~InOrder!IsWanted(input[i])
      BY <2>1, <3>2 DEF Kept
    <3> QED
      BY <3>1, <3>2
  <2>3. pc # "printed" /\ pc' # "printed"
    BY <1>1, <2>1
  <2> QED
    BY <1>1, <1>2, <2>1, <2>2, <2>3 DEF InOrder!Annotate, Kept
<1>3. CASE InOrder!Throws(input[i])
  <2>1. pc' = "stop" /\ UNCHANGED <<taken, docs>>
    BY <1>3, NextResult
  <2>2. Outcome' = Outcome
    BY <1>1, <2>1 DEF Outcome
  <2> QED
    BY <1>1, <2>1, <2>2, Stutters
<1> QED
  BY <1>2, <1>3

LEMMA PrintsInOrder ==
    ASSUME TypeInv, OrderInv, PrintResult
    PROVE  InOrder!Throw \/ InOrder!PrintResult
<1>1. /\ pc = "returned" /\ pc' = "printed" /\ output' = IF threw THEN << >> ELSE Printed
      /\ UNCHANGED <<input, inputFormat, taken, docs, threw>> /\ output = << >>
  BY DEF PrintResult, OrderInv, CallFits
<1>2. CASE threw
  <2>1. InOrder!BadFile \/ NextThrows
    BY <1>2 DEF OrderInv, CallFits
  <2>2. InOrder!Throw
    BY <1>1, <1>2, <2>1 DEF InOrder!Throw, NextThrows
  <2> QED
    BY <2>2
<1>3. CASE ~threw
  <2>1. ~InOrder!BadFile /\ taken = Len(input) /\ output' = Printed
    BY <1>1, <1>3 DEF OrderInv, CallFits
  <2>2. InOrder!Prints =>
           \A k \in DOMAIN Kept : InOrder!Heading(input[Kept[k]]) \in DOMAIN output'
    BY <2>1, KeptHasHeading DEF OrderInv, Kept
  <2>3. \A heading \in DOMAIN output' : output'[heading] = ListedInOrder(heading)
    BY <2>1, PrintedListsInOrder DEF OrderInv
  <2>4. ~InOrder!Prints => output' = << >>
    <3>1. CASE Mode \notin {"categories", "languages", "news", "json"}
      BY <2>1, <3>1 DEF Printed
    <3> QED
      BY <3>1 DEF InOrder!Prints
  <2>5. InOrder!PrintResult
    BY <1>1, <1>3, <2>1, <2>2, <2>3, <2>4 DEF InOrder!PrintResult, ListedInOrder, Kept
  <2> QED
    BY <2>5
<1> QED
  BY <1>2, <1>3

LEMMA OrderMaps == TypeInv /\ OrderInv /\ [Next]_vars => [InOrder!Next]_InOrder!vars
<1> SUFFICES ASSUME TypeInv, OrderInv, [Next]_vars
             PROVE  InOrder!Next \/ UNCHANGED InOrder!vars
  OBVIOUS
<1>1. CASE TakeResult
  BY <1>1, AnnotatesInOrder DEF InOrder!Next
<1>2. CASE PrintResult
  BY <1>2, PrintsInOrder DEF InOrder!Next
<1>3. CASE /\ UNCHANGED <<input, inputFormat, taken, docs, output>>
           /\ (pc # "printed" /\ pc' # "printed") \/ UNCHANGED <<pc, threw>>
  BY <1>3, Stutters DEF Outcome
<1> QED
  BY <1>1, <1>2, <1>3 DEF Next, CallerStep, WorkerStep, Parse, EnqueueNext, Notify, RunTask,
     StopPool, NotifyWorkers, Join, vars, callVars

LEMMA OrderStep == TypeInv /\ OrderInv /\ [Next]_vars => OrderInv'
BY FuturesStep, DocsStep, CallStep DEF OrderInv

\* Whatever the schedule of the pool, what the function keeps, throws and prints is
\* what one thread would that takes the documents one after the other.  (That it
\* comes to an end, the rest of ImplementsAnnotateInOrder, needs fairness.)
THEOREM AnnotatesAsOneThread == Spec => InOrder!Spec
<1>1. Init => InOrder!Init
  BY DEF Init, InOrder!Init
<1> QED
  BY TypeInit, TypeStep, OrderInit, OrderStep, OrderMaps, <1>1, PTL DEF Spec, InOrder!Spec
=============================================================================
