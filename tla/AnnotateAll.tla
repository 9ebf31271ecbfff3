---------------------------- MODULE AnnotateAll ----------------------------
(***************************************************************************)
(* TAnnotator::AnnotateAll (src/src/annotator.cpp): the command line       *)
(* program annotates its input on a thread pool, one task for each         *)
(* document, collects the futures in the order of the input, and drops the *)
(* documents it does not want.  The pool is a local of the function: its   *)
(* destructor runs on every way out, exceptions included.  Then main.cpp   *)
(* prints the result, in the modes that do not cluster it.                 *)
(***************************************************************************)
EXTENDS ThreadPool, Annotator, Sorting

CONSTANTS
    MaxInputs,           \* how many documents the input may have
    Bodies,              \* the documents it may consist of
    Unannotatable,       \* those that a model throws an exception on
    RequestedLanguages,  \* Languages of TAnnotator: the option --languages
    SaveNotNews          \* the option --save_not_news

ASSUME AnnotateAllAssumption ==
    /\ MaxInputs \in Nat
    /\ TaskIds = 1 .. MaxInputs
    /\ Bodies \subseteq Body
    /\ \A body \in Bodies : body.detectedCategory # "NC_ANY"   \* it is only a query's (ranker.cpp:56)
    /\ Unannotatable \subseteq Bodies
    /\ RequestedLanguages \subseteq Languages
    /\ SaveNotNews \in BOOLEAN

VARIABLES
    input,       \* the documents, in order
    inputFormat,
    pc,          \* where the function is
    enqueued,    \* how many documents have a task
    futures,     \* what the task of each document has come to
    taken,       \* how many futures the function has taken the result of
    docs,        \* the result so far
    threw,       \* whether the function ends with an exception
    output       \* for each heading, the files printed under it

callVars == <<input, inputFormat, pc, enqueued, futures, taken, docs, threw, output>>
vars == <<poolVars, callVars>>

-----------------------------------------------------------------------------
InputFormats == {"IF_JSON", "IF_JSONL", "IF_HTML"}

Inputs == UNION {[1 .. n -> Bodies] : n \in 0 .. MaxInputs}

\* An annotated document with its file.
Annotated == [FileName : TaskIds, doc : AnnotatedDocument]

\* The shared state of a future: a result is a document or none.
Future == [state : {"pending", "ready", "thrown"}, result : SUBSET Annotated]

Pending == [state |-> "pending", result |-> {}]

\* A task annotates one document, which for IF_HTML it parses first.
AnnotateHtml(i) ==
    IF input[i] \in Unannotatable /\ input[i].parses
    THEN [state |-> "thrown", result |-> {}]
    ELSE [state |-> "ready",
          result |-> {[FileName |-> i, doc |-> d] : d \in ParseDbDocFromReq(input[i])}]

\* The documents that are not dropped.
IsWanted(doc) ==
    /\ doc.Language \in RequestedLanguages
    /\ IsFullyIndexed(doc)
    /\ IsNews(doc) \/ SaveNotNews

Init ==
    /\ PoolInit
    /\ input \in Inputs
    /\ inputFormat \in InputFormats
    /\ pc = "parse"
    /\ enqueued = 0
    /\ futures = [i \in TaskIds |-> Pending]
    /\ taken = 0
    /\ docs = << >>
    /\ threw = FALSE
    /\ output = << >>

-----------------------------------------------------------------------------
\* JSON is parsed as a whole before the first task; a bad one throws.
Parse ==
    /\ pc = "parse"
    /\ IF inputFormat # "IF_HTML" /\ \E i \in DOMAIN input : ~input[i].parses
       THEN pc' = "stop" /\ threw' = TRUE
       ELSE pc' = "enqueue" /\ UNCHANGED threw
    /\ UNCHANGED <<poolVars, input, inputFormat, enqueued, futures, taken, docs, output>>

EnqueueNext ==
    /\ pc = "enqueue"
    /\ enqueued < Len(input)
    /\ Enqueue(enqueued + 1)
    /\ enqueued' = enqueued + 1
    /\ pc' = "notify"
    /\ UNCHANGED <<input, inputFormat, futures, taken, docs, threw, output>>

Notify ==
    /\ pc = "notify"
    /\ NotifyOne
    /\ pc' = "enqueue"
    /\ UNCHANGED <<input, inputFormat, enqueued, futures, taken, docs, threw, output>>

\* get() waits for the next task of the input, and throws what the task threw.
TakeResult ==
    /\ pc = "enqueue"
    /\ enqueued = Len(input)
    /\ taken < Len(input)
    /\ LET future == futures[taken + 1]
       IN  \/ /\ future.state = "ready"
              /\ taken' = taken + 1
              /\ IF \E a \in future.result : IsWanted(a.doc)
                 THEN \E a \in future.result : docs' = Append(docs, a)
                 ELSE UNCHANGED docs
              /\ UNCHANGED <<pc, threw>>
           \/ /\ future.state = "thrown"
              /\ pc' = "stop"
              /\ threw' = TRUE
              /\ UNCHANGED <<taken, docs>>
    /\ UNCHANGED <<poolVars, input, inputFormat, enqueued, futures, output>>

\* The function is left, by return or by exception: the pool is destroyed.
StopPool ==
    /\ \/ pc = "stop"
       \/ pc = "enqueue" /\ enqueued = Len(input) /\ taken = Len(input)
    /\ Stop
    /\ pc' = "notifyAll"
    /\ UNCHANGED <<input, inputFormat, enqueued, futures, taken, docs, threw, output>>

NotifyWorkers ==
    /\ pc = "notifyAll"
    /\ NotifyAll
    /\ pc' = "join"
    /\ UNCHANGED <<input, inputFormat, enqueued, futures, taken, docs, threw, output>>

Join ==
    /\ pc = "join"
    /\ Joined
    /\ pc' = "returned"
    /\ UNCHANGED <<poolVars, input, inputFormat, enqueued, futures, taken, docs, threw, output>>

\* What a mode prints; an exception leaves nothing to print.
Files(IsListed(_)) ==
    LET listed == Selected(docs, LAMBDA a : IsListed(a.doc))
    IN  [k \in DOMAIN listed |-> listed[k].FileName]

Rubrics == Categories \ ({"NC_UNDEFINED", "NC_ANY"} \cup IF SaveNotNews THEN {} ELSE {"NC_NOT_NEWS"})

Printed ==
    CASE Mode = "categories" ->
            [category \in Rubrics |-> Files(LAMBDA doc : doc.Category = category)]
      [] Mode = "languages" ->
            [language \in {docs[k].doc.Language : k \in DOMAIN docs} |->
                Files(LAMBDA doc : doc.Language = language)]
      [] Mode \in {"news", "json"} -> [heading \in {"articles"} |-> Files(LAMBDA doc : TRUE)]
      [] OTHER -> << >>

PrintResult ==
    /\ pc = "returned"
    /\ pc' = "printed"
    /\ output' = IF threw THEN << >> ELSE Printed
    /\ UNCHANGED <<poolVars, input, inputFormat, enqueued, futures, taken, docs, threw>>

\* Mutated form: the task refers to the variable of the loop that enqueues.
ArgumentByReference(w) == enqueued

\* std::bind copies the document into the task.
Argument(w) == task[w]

\* The last of a worker's task is its result going into the future.
RunTask(w) ==
    /\ Finish(w)
    /\ futures' = [futures EXCEPT ![task[w]] = AnnotateHtml(Argument(w))]
    /\ UNCHANGED <<input, inputFormat, pc, enqueued, taken, docs, threw, output>>

-----------------------------------------------------------------------------
CallerStep ==
    Parse \/ EnqueueNext \/ Notify \/ TakeResult \/ StopPool \/ NotifyWorkers \/ Join \/ PrintResult

WorkerStep(w) ==
    \/ (Wait(w) \/ Return(w) \/ Take(w)) /\ UNCHANGED callVars
    \/ RunTask(w)

Next ==
    \/ CallerStep
    \/ \E w \in Workers : WorkerStep(w)
    \/ \E w \in Workers : WakeUp(w) /\ UNCHANGED callVars

Spec == Init /\ [][Next]_vars

\* Running threads keep running; nothing obliges a wait to return unnotified.
FairSpec ==
    /\ Spec
    /\ WF_vars(CallerStep)
    /\ \A w \in Workers : WF_vars(WorkerStep(w))

-----------------------------------------------------------------------------
(***************************************************************************)
(* Properties.                                                             *)
(***************************************************************************)

\* The type invariant.
TypeOK ==
    /\ PoolTypeOK
    /\ input \in Inputs
    /\ inputFormat \in InputFormats
    /\ pc \in {"parse", "enqueue", "notify", "stop", "notifyAll", "join", "returned", "printed"}
    /\ enqueued \in 0 .. Len(input)
    /\ futures \in [TaskIds -> Future]
    /\ taken \in 0 .. enqueued
    /\ docs \in Seq(Annotated)
    /\ threw \in BOOLEAN
    /\ DOMAIN output \subseteq Categories \cup Languages \cup {"articles"}

\* Every task that was enqueued is in exactly one place: once in the queue, with
\* one worker, or done.  None is lost between the threads, and none runs twice.
TasksRunOnce ==
    \A i \in TaskIds :
        LET queued == {k \in DOMAIN Tasks : Tasks[k] = i}
            running == {w \in Workers : task[w] = i}
            done == {j \in {i} : futures[j].state # "pending"}
        IN  Cardinality(queued) + Cardinality(running) + Cardinality(done)
              = IF i <= enqueued THEN 1 ELSE 0

\* No worker sleeps through a task: while one is asleep, there are no more tasks
\* queued than workers on their way to the queue and notifications due.  Behind
\* the destructor's notify_all, none is asleep.
NoTaskSleeps ==
    /\ At("wait") # {} =>
          Len(Tasks) <= Cardinality(At("lock")) + (IF pc = "notify" THEN 1 ELSE 0)
    /\ pc \in {"join", "returned", "printed"} => At("wait") = {}

\* However the function is left, when it is left no thread of the pool is there
\* any more, and every task that was enqueued has been run to its end.
PoolIsDrained ==
    pc = "returned" =>
        /\ Tasks = << >>
        /\ \A w \in Workers : worker[w] = "returned"
        /\ \A i \in 1 .. enqueued : futures[i].state # "pending"

\* Whatever the schedule: the calls end, and they do what one thread would do that
\* takes one document after the other.
InOrder == INSTANCE AnnotateInOrder WITH
    next <- taken,
    docs <- [k \in DOMAIN docs |-> docs[k].FileName],
    outcome <- IF pc # "printed" THEN "running" ELSE IF threw THEN "threw" ELSE "printed"

ImplementsAnnotateInOrder == InOrder!EndingSpec
=============================================================================
