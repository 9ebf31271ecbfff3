----------------------------- MODULE NewsServer -----------------------------
(***************************************************************************)
(* The server: drogon's handler threads running TController's methods      *)
(* (src/src/controller.cpp) against RocksDB, and the clustering thread of  *)
(* RunServer (src/src/run_server.cpp), which turns a snapshot of the       *)
(* database into the index the handlers serve and deletes what went stale  *)
(* (src/src/server_clustering.cpp).                                        *)
(*                                                                         *)
(* Each operation on RocksDB, on the atomic flag Initialized and on the    *)
(* atomic pointer to the index is a step of its own; everything a thread   *)
(* does between two of them touches only its own locals.  The release      *)
(* store to Initialized is read with an acquire load, so the handlers see  *)
(* the stores before it in program order.                                  *)
(***************************************************************************)
EXTENDS Annotator, FiniteSets

CONSTANTS
    Keys,            \* the file names
    Handlers,        \* the handler threads of drogon
    Bodies,          \* the bodies clients send
    Headers,         \* the Cache-Control headers clients send
    Clusterings,     \* the languages the clusterer is configured for
    RequiredKeys,    \* the embedding keys each clustering and its summary look up
    OldDocs,         \* documents an earlier run of the server may have left
    SerialClients,   \* clients never have two requests on one file name at once
    DbFaults,        \* a write or delete of RocksDB may fail
    MaxCrashes,      \* how often the process may be killed
    NoDoc,           \* the absence of a document
    Null             \* the null pointer; no request

VARIABLES
    db,           \* RocksDB: the document under each file name
    up,           \* whether the process runs
    wired,        \* Index, Db, Annotator and Ranker of the controller are set
    initialized,  \* Initialized of the controller
    hot,          \* THotState: the published index
    firstRun,     \* the local of the clustering thread
    cpc,          \* where the clustering thread is
    snap,         \* the documents ReadDocs read
    ts,           \* the timestamp ReadDocs returned
    pending,      \* the stale documents RemoveStaleDocs has yet to delete
    hpc,          \* where each handler is
    req,          \* the request each handler works on
    code,         \* the status each handler will answer, or answered last
    touched,      \* history: file names handlers wrote since the last snapshot
    crashes       \* bounds Crash

clusteringVars == <<firstRun, cpc, snap, ts, pending>>
handlerVars == <<hpc, req, code>>
processVars == <<up, wired, initialized, hot>>
vars == <<db, up, wired, initialized, hot, firstRun, cpc, snap, ts, pending,
          hpc, req, code, touched, crashes>>

-----------------------------------------------------------------------------
Empty == [k \in Keys |-> NoDoc]

Present(s) == {k \in Keys : s[k] # NoDoc}

FetchTimes(s) == {s[k].FetchTime : k \in Present(s)}

\* std::max over the documents, starting from 0.
IsMaxFetchTime(t, s) ==
    /\ t \in FetchTimes(s) \cup {0}
    /\ \A u \in FetchTimes(s) : u <= t

\* Mutated form: the condition is inverted.
StaleKeysInverted(s, timestamp) == {k \in Present(s) : ~IsStale(s[k], timestamp)}

StaleKeys(s, timestamp) == {k \in Present(s) : IsStale(s[k], timestamp)}

\* Mutated forms: docs.erase is forgotten; it is stricter than the deletion.
FreshUnfiltered(s, timestamp) == s
FreshBeforeExpiry(s, timestamp) ==
    [k \in Keys |-> IF s[k] # NoDoc /\ IsStaleAtExpiry(s[k], timestamp) THEN NoDoc ELSE s[k]]

\* What docs.erase(remove_if(...)) leaves of the documents.
Fresh(s, timestamp) ==
    [k \in Keys |-> IF k \in StaleKeys(s, timestamp) THEN NoDoc ELSE s[k]]

\* The documents that reach a clustering of their language.
Clustered(s) ==
    [k \in Keys |-> IF s[k] # NoDoc /\ s[k].Language \in Clusterings THEN s[k] ELSE NoDoc]

\* Mutated form: a missing key goes unnoticed, as with operator[].
ClusterableAlways(s) == TRUE

\* CalcDistances looks every weighed key up in every document, with at(); so
\* does TNewsCluster::Summarize with the key of the language.
Clusterable(s) ==
    \A k \in Present(Clustered(s)) : RequiredKeys[s[k].Language] \subseteq s[k].Embeddings

\* What can be in the database: what an earlier run left there and what the
\* clients' requests can put there.
StorableDocs ==
    OldDocs \cup {ToProto(WithTtl(AnnotateDocument(body), header.age)) :
                    body \in Bodies, header \in Headers}

\* TClusterIndex, without the grouping of the documents into clusters.
TClusterIndex == [Docs : [Keys -> TDbDocument \cup {NoDoc}], TrueMaxTimestamp : Nat]

HandlerStates == {"idle", "getCode", "indexDbDoc", "keyMayExist", "delete"}

Codes == {"none", "k200OK", "k201Created", "k204NoContent", "k400BadRequest", "k404NotFound",
          "k500InternalServerError", "k503ServiceUnavailable", "thrown"}

Requests == [method : {"Put", "Post", "Delete"}, fname : Keys,
             dbDoc : AnnotatedDocument \cup {NoDoc}, isIndexed : BOOLEAN]

ASSUME ServerAssumption ==
    /\ Bodies \subseteq Body
    /\ Headers \subseteq CacheControl
    /\ Clusterings \subseteq Languages
    /\ RequiredKeys \in [Clusterings -> SUBSET EmbeddingKeys]
    /\ OldDocs \subseteq TDbDocument
    /\ SerialClients \in BOOLEAN
    /\ DbFaults \in BOOLEAN
    /\ MaxCrashes \in Nat
    /\ NoDoc \notin AnnotatedDocument
    /\ Null \notin TClusterIndex \cup Requests
    /\ Null \notin [key : Keys, value : TDbDocument \cup {NoDoc}]

-----------------------------------------------------------------------------
\* Every local and every member lives in the process; RocksDB survives it.
ProcessStart ==
    /\ wired' = FALSE
    /\ initialized' = FALSE
    /\ hot' = Null
    /\ firstRun' = TRUE
    /\ cpc' = "readDocs"
    /\ snap' = Empty
    /\ ts' = 0
    /\ pending' = {}
    /\ hpc' = [h \in Handlers |-> "idle"]
    /\ req' = [h \in Handlers |-> Null]
    /\ code' = [h \in Handlers |-> "none"]
    /\ touched' = {}

Init ==
    /\ db \in [Keys -> OldDocs \cup {NoDoc}]
    /\ up = TRUE
    /\ wired = FALSE
    /\ initialized = FALSE
    /\ hot = Null
    /\ firstRun = TRUE
    /\ cpc = "readDocs"
    /\ snap = Empty
    /\ ts = 0
    /\ pending = {}
    /\ hpc = [h \in Handlers |-> "idle"]
    /\ req = [h \in Handlers |-> Null]
    /\ code = [h \in Handlers |-> "none"]
    /\ touched = {}
    /\ crashes = 0

-----------------------------------------------------------------------------
(***************************************************************************)
(* The handlers.                                                           *)
(***************************************************************************)
Answer(h, status) ==
    /\ hpc' = [hpc EXCEPT ![h] = "idle"]
    /\ req' = [req EXCEPT ![h] = Null]
    /\ code' = [code EXCEPT ![h] = status]

\* Continue the request r of handler h at pc, with the status to answer so far.
Proceed(h, pc, r, status) ==
    /\ hpc' = [hpc EXCEPT ![h] = pc]
    /\ req' = [req EXCEPT ![h] = r]
    /\ code' = [code EXCEPT ![h] = status]

\* A client's request on fname reaches an idle handler.
Arrives(h, fname) ==
    /\ up
    /\ hpc[h] = "idle"
    /\ SerialClients => \A g \in Handlers : hpc[g] # "idle" => req[g].fname # fname

IsNotReady == ~initialized

\* Up to the check for a fully indexed document.
Put(h, fname, header, body) ==
    LET ttl == ParseTtlHeader(header)
        doc == ParseDbDocFromReq(body)
    IN  /\ Arrives(h, fname)
        /\ \/ /\ IsNotReady
              /\ Answer(h, "k503ServiceUnavailable")
           \/ /\ ~IsNotReady
              /\ ttl = {} \/ ttl = {NoCache} \/ doc = {}
              /\ Answer(h, "k400BadRequest")
           \/ /\ ~IsNotReady
              /\ \E t \in ttl \ {NoCache}, d \in doc :
                    \/ /\ ~IsFullyIndexed(d)
                       /\ Answer(h, "k204NoContent")
                    \/ /\ IsFullyIndexed(d)
                       /\ Proceed(h, "getCode",
                                  [method |-> "Put", fname |-> fname,
                                   dbDoc |-> WithTtl(d, t), isIndexed |-> TRUE],
                                  "none")
        /\ UNCHANGED <<db, processVars, clusteringVars, touched, crashes>>

Post(h, fname, header, body) ==
    LET ttl == ParseTtlHeader(header)
        doc == ParseDbDocFromReq(body)
    IN  /\ Arrives(h, fname)
        /\ \/ /\ IsNotReady
              /\ Answer(h, "k503ServiceUnavailable")
           \/ /\ ~IsNotReady
              /\ ttl = {} \/ doc = {}
              /\ Answer(h, "k400BadRequest")
           \/ /\ ~IsNotReady
              /\ \E t \in ttl, d \in doc :
                    LET isIndexed == IsFullyIndexed(d) /\ t # NoCache
                    IN  Proceed(h, "getCode",
                                [method |-> "Post", fname |-> fname,
                                 dbDoc |-> IF isIndexed THEN WithTtl(d, t) ELSE d,
                                 isIndexed |-> isIndexed],
                                "none")
        /\ UNCHANGED <<db, processVars, clusteringVars, touched, crashes>>

\* KeyMayExist consults the memtable and the bloom filters: it may say yes of
\* an absent key, never no of a present one.
KeyMayExist(fname) == IF db[fname] # NoDoc THEN {TRUE} ELSE BOOLEAN

ExistedCode(method) == IF method = "Put" THEN "k204NoContent" ELSE "k200OK"

\* Mutated form: the created and the existed code are swapped.
IndexedCodeSwapped(method, mayExist) ==
    IF mayExist THEN "k201Created" ELSE ExistedCode(method)

IndexedCode(method, mayExist) ==
    IF mayExist THEN ExistedCode(method) ELSE "k201Created"

GetCode(h) ==
    /\ up
    /\ hpc[h] = "getCode"
    /\ \E mayExist \in KeyMayExist(req[h].fname) :
          IF req[h].isIndexed
          THEN Proceed(h, "indexDbDoc", req[h], IndexedCode(req[h].method, mayExist))
          ELSE Answer(h, "k200OK")
    /\ UNCHANGED <<db, processVars, clusteringVars, touched, crashes>>

\* Mutated form: the request is not finished with its write.
IndexDbDocRepeated(h) ==
    /\ up
    /\ hpc[h] = "indexDbDoc"
    /\ db' = [db EXCEPT ![req[h].fname] = ToProto(req[h].dbDoc)]
    /\ touched' = touched \cup {req[h].fname}
    /\ UNCHANGED <<processVars, clusteringVars, handlerVars, crashes>>

IndexDbDoc(h) ==
    /\ up
    /\ hpc[h] = "indexDbDoc"
    /\ \/ /\ db' = [db EXCEPT ![req[h].fname] = ToProto(req[h].dbDoc)]
          /\ touched' = touched \cup {req[h].fname}
          /\ Answer(h, code[h])
       \/ /\ DbFaults
          /\ Answer(h, "k500InternalServerError")
          /\ UNCHANGED <<db, touched>>
    /\ UNCHANGED <<processVars, clusteringVars, crashes>>

Delete(h, fname) ==
    /\ Arrives(h, fname)
    /\ \/ /\ IsNotReady
          /\ Answer(h, "k503ServiceUnavailable")
       \/ /\ ~IsNotReady
          /\ Proceed(h, "keyMayExist",
                     [method |-> "Delete", fname |-> fname, dbDoc |-> NoDoc,
                      isIndexed |-> FALSE],
                     "none")
    /\ UNCHANGED <<db, processVars, clusteringVars, touched, crashes>>

\* Mutated form: the callback is forgotten when there is nothing to delete.
DeleteLookupUnanswered(h) ==
    /\ up
    /\ hpc[h] = "keyMayExist"
    /\ \E mayExist \in KeyMayExist(req[h].fname) :
          Proceed(h, IF mayExist THEN "delete" ELSE "returned", req[h], "k204NoContent")
    /\ UNCHANGED <<db, processVars, clusteringVars, touched, crashes>>

DeleteLookup(h) ==
    /\ up
    /\ hpc[h] = "keyMayExist"
    /\ \E mayExist \in KeyMayExist(req[h].fname) :
          IF mayExist
          THEN Proceed(h, "delete", req[h], "k204NoContent")
          ELSE Answer(h, "k404NotFound")
    /\ UNCHANGED <<db, processVars, clusteringVars, touched, crashes>>

DeleteFromDb(h) ==
    /\ up
    /\ hpc[h] = "delete"
    /\ \/ /\ db' = [db EXCEPT ![req[h].fname] = NoDoc]
          /\ touched' = touched \cup {req[h].fname}
          /\ Answer(h, code[h])
       \/ /\ DbFaults
          /\ Answer(h, "k500InternalServerError")
          /\ UNCHANGED <<db, touched>>
    /\ UNCHANGED <<processVars, clusteringVars, crashes>>

\* The debug handler reads one document: it answers 200 whether or not it is there.
Get(h) ==
    /\ up
    /\ hpc[h] = "idle"
    /\ Answer(h, IF IsNotReady THEN "k503ServiceUnavailable" ELSE "k200OK")
    /\ UNCHANGED <<db, processVars, clusteringVars, touched, crashes>>

\* The handler's only access to shared state is the AtomicGet of the index.
Threads(h, parametersParse, lang) ==
    /\ up
    /\ hpc[h] = "idle"
    /\ Answer(h, CASE IsNotReady -> "k503ServiceUnavailable"
                   [] ~IsNotReady /\ ~(parametersParse /\ lang # "LN_UNDEFINED")
                        -> "k400BadRequest"
                   [] ~IsNotReady /\ parametersParse /\ lang # "LN_UNDEFINED"
                        -> IF lang \in Clusterings THEN "k200OK" ELSE "thrown")
    /\ UNCHANGED <<db, processVars, clusteringVars, touched, crashes>>

-----------------------------------------------------------------------------
(***************************************************************************)
(* The clustering thread.                                                  *)
(***************************************************************************)

\* One iteration over a RocksDB snapshot; then RemoveStaleDocs starts.  All that
\* is stored was written by IndexDbDoc, so it parses.
ReadDocs ==
    /\ up
    /\ cpc = "readDocs"
    /\ \E t \in FetchTimes(db) \cup {0} :
          /\ IsMaxFetchTime(t, db)
          /\ ts' = t
          /\ pending' = StaleKeys(db, t)
    /\ snap' = db
    /\ cpc' = "removeStaleDocs"
    /\ touched' = {}
    /\ UNCHANGED <<db, processVars, firstRun, handlerVars, crashes>>

\* The delete is by file name, whatever is stored there by now, and its status
\* is dropped.
RemoveStaleDoc(k) ==
    /\ up
    /\ cpc = "removeStaleDocs"
    /\ k \in pending
    /\ pending' = pending \ {k}
    /\ \/ db' = [db EXCEPT ![k] = NoDoc]
       \/ DbFaults /\ UNCHANGED db
    /\ UNCHANGED <<processVars, firstRun, cpc, snap, ts, handlerVars, touched, crashes>>

AfterPublication == IF firstRun THEN "wireController" ELSE "sleep"

\* Cluster and Summarize work on the remaining documents, and AtomicSet
\* publishes the result.
Publish ==
    LET docs == Fresh(snap, ts)
    IN  /\ up
        /\ cpc = "removeStaleDocs"
        /\ pending = {}
        /\ Clusterable(docs)
        /\ \E t \in FetchTimes(docs) \cup {0} :
              /\ IsMaxFetchTime(t, docs)
              /\ hot' = [Docs |-> Clustered(docs), TrueMaxTimestamp |-> t]
        /\ cpc' = AfterPublication
        /\ snap' = Empty
        /\ ts' = 0
        /\ UNCHANGED <<db, up, wired, initialized, firstRun, pending, handlerVars, touched,
                       crashes>>

\* An exception in the clustering thread ends the process.
ClusterThrows ==
    /\ up
    /\ cpc = "removeStaleDocs"
    /\ pending = {}
    /\ ~Clusterable(Fresh(snap, ts))
    /\ up' = FALSE
    /\ ProcessStart
    /\ UNCHANGED <<db, crashes>>

\* Mutated form: Init stores Initialized before the pointers.
WireControllerFlagFirst ==
    /\ up
    /\ cpc = "wireController"
    /\ initialized' = TRUE
    /\ cpc' = "setInitialized"
    /\ UNCHANGED <<db, up, wired, hot, firstRun, snap, ts, pending, handlerVars, touched,
                   crashes>>

\* TController::Init up to the store to Initialized.
WireController ==
    /\ up
    /\ cpc = "wireController"
    /\ wired' = TRUE
    /\ cpc' = "setInitialized"
    /\ UNCHANGED <<db, up, initialized, hot, firstRun, snap, ts, pending, handlerVars, touched,
                   crashes>>

SetInitialized ==
    /\ up
    /\ cpc = "setInitialized"
    /\ initialized' = TRUE
    /\ firstRun' = FALSE
    /\ cpc' = "sleep"
    /\ UNCHANGED <<db, up, wired, hot, snap, ts, pending, handlerVars, touched, crashes>>

Sleep ==
    /\ up
    /\ cpc = "sleep"
    /\ cpc' = "readDocs"
    /\ UNCHANGED <<db, processVars, firstRun, snap, ts, pending, handlerVars, touched, crashes>>

-----------------------------------------------------------------------------
(***************************************************************************)
(* The process dies and is started again.                                  *)
(***************************************************************************)
Crash ==
    /\ up
    /\ crashes < MaxCrashes
    /\ crashes' = crashes + 1
    /\ up' = FALSE
    /\ ProcessStart
    /\ UNCHANGED db

Restart ==
    /\ ~up
    /\ up' = TRUE
    /\ UNCHANGED <<db, wired, initialized, hot, clusteringVars, handlerVars, touched, crashes>>

-----------------------------------------------------------------------------
HandlerStep(h) == GetCode(h) \/ IndexDbDoc(h) \/ DeleteLookup(h) \/ DeleteFromDb(h)

ClusteringStep ==
    \/ ReadDocs
    \/ \E k \in Keys : RemoveStaleDoc(k)
    \/ Publish
    \/ ClusterThrows
    \/ WireController
    \/ SetInitialized
    \/ Sleep

ClientRequest(h) ==
    \/ \E fname \in Keys, header \in Headers, body \in Bodies :
          Put(h, fname, header, body) \/ Post(h, fname, header, body)
    \/ \E fname \in Keys : Delete(h, fname)
    \/ Get(h)
    \/ \E parametersParse \in BOOLEAN, lang \in Languages :
          Threads(h, parametersParse, lang)

Next ==
    \/ \E h \in Handlers : ClientRequest(h) \/ HandlerStep(h)
    \/ ClusteringStep
    \/ Crash
    \/ Restart

Spec == Init /\ [][Next]_vars

\* Every running thread keeps running; nothing obliges clients to send or the
\* process to die, and nothing here restarts it.
Fairness ==
    /\ WF_vars(ClusteringStep)
    /\ \A h \in Handlers : WF_vars(HandlerStep(h))

FairSpec == Spec /\ Fairness

-----------------------------------------------------------------------------
(***************************************************************************)
(* Properties.                                                             *)
(***************************************************************************)

\* The type invariant: every variable of the server holds a value its C++
\* counterpart can hold.
TypeOK ==
    /\ db \in [Keys -> TDbDocument \cup {NoDoc}]
    /\ up \in BOOLEAN
    /\ wired \in BOOLEAN
    /\ initialized \in BOOLEAN
    /\ hot \in TClusterIndex \cup {Null}
    /\ firstRun \in BOOLEAN
    /\ cpc \in {"readDocs", "removeStaleDocs", "wireController", "setInitialized", "sleep"}
    /\ snap \in [Keys -> TDbDocument \cup {NoDoc}]
    /\ ts \in Nat
    /\ pending \subseteq Keys
    /\ hpc \in [Handlers -> HandlerStates]
    /\ req \in [Handlers -> Requests \cup {Null}]
    /\ code \in [Handlers -> Codes]
    /\ touched \subseteq Keys
    /\ crashes \in 0 .. MaxCrashes

\* No handler gets past IsNotReady before the controller's pointers are set and
\* a first index is published: Index->AtomicGet() is never null in Threads, and
\* Db and Annotator are never null in Put, Post and Delete.
ReadyMeansWired ==
    initialized \/ (\E h \in Handlers : hpc[h] # "idle") => wired /\ hot # Null

\* The newest document of a snapshot is never stale, so evicting the stale ones
\* leaves the index's TrueMaxTimestamp at the time the staleness was judged by,
\* and a database with documents never yields an index without any.
FreshestSurvives ==
    cpc = "removeStaleDocs" => IsMaxFetchTime(ts, Fresh(snap, ts))

\* While RemoveStaleDocs runs, the database and the snapshot differ only on the
\* stale documents already deleted and on what a client has written since.
RoundMirrorsStore ==
    cpc = "removeStaleDocs" /\ ~DbFaults =>
        \A k \in Keys \ touched :
            db[k] = IF k \in StaleKeys(snap, ts) \ pending THEN NoDoc ELSE snap[k]

\* From its publication until the next snapshot, the index shows exactly what
\* the database holds under every name that no client wrote since the snapshot:
\* what MakeIndex drops from the index it has also deleted, and the reverse.
IndexMirrorsStore ==
    cpc # "removeStaleDocs" /\ hot # Null /\ ~DbFaults =>
        \A k \in Keys \ touched : hot.Docs[k] = Clustered(db)[k]

\* A published index holds no document that had expired when the newest one in
\* it was fetched, none newer than its TrueMaxTimestamp, from which Threads
\* subtracts, and none of a language, or without an embedding, the clusterer
\* does not handle.
IndexIsLive ==
    hot # Null =>
        \A k \in Present(hot.Docs) :
              /\ ~IsStale(hot.Docs[k], hot.TrueMaxTimestamp)
              /\ hot.Docs[k].FetchTime <= hot.TrueMaxTimestamp
              /\ hot.Docs[k].Language \in Clusterings
              /\ RequiredKeys[hot.Docs[k].Language] \subseteq hot.Docs[k].Embeddings

\* Nothing a client sends makes the clustering thread throw: the documents that
\* IsFullyIndexed lets into the database have every embedding the clusterer of
\* their language looks up.
StoreStaysClusterable == Clusterable(db)

\* The clustering thread removes a live document only if a client wrote it after
\* the snapshot was taken: the window between ReadDocs and RemoveStaleDocs is
\* the only way to lose one.
LossNeedsRace ==
    [][\A k \in Keys :
          db[k] # NoDoc /\ db'[k] = NoDoc /\ UNCHANGED handlerVars
              => k \in touched \/ IsStale(db[k], ts)]_vars

\* A client that is alone on its file name is told the truth: 201 means that the
\* name was free and the document is there now, 404 that there is nothing under
\* the name, 500 that nothing changed.
AnswersAreTrue ==
    [][\A h \in Handlers :
          up' /\ hpc[h] # "idle" /\ hpc'[h] = "idle" =>
              LET k == req[h].fname
              IN  CASE code'[h] = "k201Created" -> db[k] = NoDoc /\ db'[k] # NoDoc
                    [] code'[h] = "k404NotFound" -> db[k] = NoDoc
                    [] code'[h] = "k500InternalServerError" -> db' = db
                    [] OTHER -> TRUE]_vars

\* A running server gets through its first round of clustering, also one that
\* starts on the documents of an earlier run, and opens to clients.  That it is
\* killed once more is an excuse, that its clustering thread throws is none: a
\* document that makes it throw would do so again at every start.
BecomesReady ==
    \A n \in 0 .. MaxCrashes :
        (up /\ crashes = n) ~> (initialized \/ crashes > n)

\* Every request gets an answer, at least one, while the process lives.
RequestsAreAnswered ==
    \A h \in Handlers : (hpc[h] # "idle") ~> (hpc[h] = "idle")

\* A document of a clustered language reaches the index clients see, unless it
\* is replaced, deleted or evicted first or the process ends.  (One that ends the
\* process does so again at the next start, against BecomesReady.)
StoredDocsSurface ==
    \A k \in Keys : \A d \in StorableDocs :
        (up /\ db[k] = d /\ d.Language \in Clusterings)
            ~> (~up \/ db[k] # d \/ (hot # Null /\ hot.Docs[k] = d))

\* TNewsCluster::CalcCategory asserts of every clustered document that it is
\* news; nothing on the server's way there filters the others out.
ClusteredDocsAreNews ==
    hot # Null => \A k \in Present(hot.Docs) : IsNews(hot.Docs[k])

-----------------------------------------------------------------------------
(***************************************************************************)
(* The server implements NewsStore.  A request that will store or delete   *)
(* has been asked from the moment its handler is past its checks.          *)
(***************************************************************************)
Asked == [h \in Handlers |->
    CASE hpc[h] = "idle" -> Null
      [] hpc[h] # "idle" /\ req[h].method = "Delete"
            -> [key |-> req[h].fname, value |-> NoDoc]
      [] hpc[h] # "idle" /\ req[h].method # "Delete"
            -> IF req[h].isIndexed
               THEN [key |-> req[h].fname, value |-> ToProto(req[h].dbDoc)]
               ELSE Null]

View == IF hot = Null THEN Null ELSE hot.Docs

Abstract == INSTANCE NewsStore WITH
    Clients <- Handlers,
    Stored <- StorableDocs,
    Shown <- {d \in StorableDocs : d.Language \in Clusterings},
    Nothing <- Null,
    store <- db,
    asked <- Asked,
    snapshot <- snap,
    view <- View

\* The steps of the handlers and of the clustering thread, crashes included,
\* are steps of the atomic store or change nothing it can see.
ImplementsNewsStore == Abstract!StoreSpec
=============================================================================
