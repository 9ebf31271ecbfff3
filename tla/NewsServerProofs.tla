-------------------------- MODULE NewsServerProofs --------------------------
(***************************************************************************)
(* Proofs about NewsServer for every set of file names, handlers, bodies   *)
(* and headers, with any number of crashes and any fault of the database.  *)
(***************************************************************************)
EXTENDS NewsServer, TLAPS

(***************************************************************************)
(* What the helpers return.                                                *)
(***************************************************************************)

\* The marker of an absent document is not a document.
LEMMA NoDocIsNoDocument == NoDoc \notin TDbDocument
BY ServerAssumption, TtlModulusAssumption DEF TDbDocument, AnnotatedDocument

\* The annotator returns a document whatever the body.
LEMMA AnnotateTyped ==
    ASSUME NEW body \in Bodies
    PROVE  AnnotateDocument(body) \in AnnotatedDocument
BY ServerAssumption DEF AnnotateDocument, AnnotatedDocument, Body, Categories

\* A parsed header is an integer; a negative one is allowed.
LEMMA HeaderTyped ==
    ASSUME NEW header \in Headers
    PROVE  ParseTtlHeader(header) \subseteq Int
BY ServerAssumption DEF ParseTtlHeader, CacheControl, NoCache

\* Setting the ttl of a document leaves a document.
LEMMA WithTtlTyped ==
    ASSUME NEW d \in AnnotatedDocument, NEW t \in Int
    PROVE  WithTtl(d, t) \in AnnotatedDocument
BY DEF WithTtl, AnnotatedDocument

\* Narrowing the ttl on the way into the database yields a storable document.
LEMMA ToProtoTyped ==
    ASSUME NEW d \in AnnotatedDocument
    PROVE  ToProto(d) \in TDbDocument
<1>1. d.Ttl \in Int
  BY DEF AnnotatedDocument
<1>2. d.Ttl % TtlModulus \in 0 .. TtlModulus - 1
  BY <1>1, TtlModulusAssumption
<1> QED
  BY <1>2 DEF ToProto, AnnotatedDocument, TDbDocument

\* A database state, or a snapshot of one.
Contents == [Keys -> TDbDocument \cup {NoDoc}]

\* What is present is a document.
LEMMA PresentTyped ==
    ASSUME NEW s \in Contents, NEW k \in Present(s)
    PROVE  /\ k \in Keys
           /\ s[k] \in TDbDocument
           /\ s[k].FetchTime \in Nat
           /\ s[k].Ttl \in Nat
BY TtlModulusAssumption DEF Contents, Present, TDbDocument

\* Fetch times are natural numbers.
LEMMA FetchTimesTyped ==
    ASSUME NEW s \in Contents
    PROVE  FetchTimes(s) \subseteq Nat
BY PresentTyped DEF FetchTimes

\* Filtering leaves the contents of a database.
LEMMA FilteredTyped ==
    ASSUME NEW s \in Contents, NEW t \in Nat
    PROVE  /\ Empty \in Contents
           /\ StaleKeys(s, t) \subseteq Keys
           /\ Fresh(s, t) \in Contents
           /\ Clustered(s) \in Contents
BY DEF Contents, Empty, StaleKeys, Present, Fresh, Clustered

-----------------------------------------------------------------------------
(***************************************************************************)
(* Types.  A handler past its checks holds a request, and a handler that   *)
(* will index holds a document.                                            *)
(***************************************************************************)
RequestsTyped ==
    \A h \in Handlers : hpc[h] # "idle" =>
        /\ req[h] \in Requests
        /\ hpc[h] \in {"getCode", "indexDbDoc"} => req[h].dbDoc \in AnnotatedDocument

TypeInv == TypeOK /\ RequestsTyped

\* The part of the types the handlers change.
HandlersTyped ==
    /\ hpc \in [Handlers -> HandlerStates]
    /\ req \in [Handlers -> Requests \cup {Null}]
    /\ code \in [Handlers -> Codes]
    /\ RequestsTyped

\* An answer leaves the handler idle and the others as they were.
LEMMA AnswerTyped ==
    ASSUME HandlersTyped, NEW h \in Handlers, NEW status \in Codes, Answer(h, status)
    PROVE  HandlersTyped'
BY DEF HandlersTyped, RequestsTyped, Answer, HandlerStates

\* So does going on with a well-formed request.
LEMMA ProceedTyped ==
    ASSUME HandlersTyped, NEW h \in Handlers, NEW status \in Codes,
           NEW pc \in HandlerStates \ {"idle"}, NEW r \in Requests,
           pc \in {"getCode", "indexDbDoc"} => r.dbDoc \in AnnotatedDocument,
           Proceed(h, pc, r, status)
    PROVE  HandlersTyped'
BY DEF HandlersTyped, RequestsTyped, Proceed

\* The documents of a request are annotated documents, with any ttl.
LEMMA RequestDocTyped ==
    ASSUME NEW body \in Bodies, NEW header \in Headers,
           NEW d \in ParseDbDocFromReq(body), NEW t \in ParseTtlHeader(header)
    PROVE  d \in AnnotatedDocument /\ WithTtl(d, t) \in AnnotatedDocument
<1>1. d \in AnnotatedDocument
  BY AnnotateTyped DEF ParseDbDocFromReq
<1> QED
  BY <1>1, HeaderTyped, WithTtlTyped

\* The handlers' own steps keep their state typed.
LEMMA HandlerStepTyped ==
    ASSUME HandlersTyped, NEW h \in Handlers, ClientRequest(h) \/ HandlerStep(h)
    PROVE  HandlersTyped'
<1> USE DEF Codes
<1>1. ASSUME NEW fname \in Keys, NEW header \in Headers, NEW body \in Bodies,
             Put(h, fname, header, body)
      PROVE  HandlersTyped'
  <2>1. CASE \E status \in Codes : Answer(h, status)
    BY <2>1, AnswerTyped
  <2>2. ASSUME NEW t \in ParseTtlHeader(header), NEW d \in ParseDbDocFromReq(body),
               Proceed(h, "getCode", [method |-> "Put", fname |-> fname,
                                      dbDoc |-> WithTtl(d, t), isIndexed |-> TRUE], "none")
        PROVE  HandlersTyped'
    BY <2>2, RequestDocTyped, ProceedTyped DEF Requests, HandlerStates
  <2> QED
    BY <1>1, <2>1, <2>2 DEF Put
<1>2. ASSUME NEW fname \in Keys, NEW header \in Headers, NEW body \in Bodies,
             Post(h, fname, header, body)
      PROVE  HandlersTyped'
  <2>1. CASE \E status \in Codes : Answer(h, status)
    BY <2>1, AnswerTyped
  <2>2. ASSUME NEW t \in ParseTtlHeader(header), NEW d \in ParseDbDocFromReq(body),
               NEW isIndexed \in BOOLEAN,
               Proceed(h, "getCode", [method |-> "Post", fname |-> fname,
                                      dbDoc |-> IF isIndexed THEN WithTtl(d, t) ELSE d,
                                      isIndexed |-> isIndexed], "none")
        PROVE  HandlersTyped'
    BY <2>2, RequestDocTyped, ProceedTyped DEF Requests, HandlerStates
  <2>3. ASSUME NEW t \in ParseTtlHeader(header), NEW d \in ParseDbDocFromReq(body)
        PROVE  (IsFullyIndexed(d) /\ t # NoCache) \in BOOLEAN
    BY DEF IsFullyIndexed
  <2> QED
    BY <1>2, <2>1, <2>2, <2>3 DEF Post
<1>3. CASE GetCode(h)
  <2>1. PICK mayExist \in BOOLEAN :
          IF req[h].isIndexed
          THEN Proceed(h, "indexDbDoc", req[h], IndexedCode(req[h].method, mayExist))
          ELSE Answer(h, "k200OK")
    BY <1>3 DEF GetCode, KeyMayExist
  <2>2. req[h] \in Requests /\ req[h].dbDoc \in AnnotatedDocument
    BY <1>3 DEF GetCode, HandlersTyped, RequestsTyped
  <2>3. IndexedCode(req[h].method, mayExist) \in Codes
    BY DEF IndexedCode, ExistedCode
  <2> QED
    BY <2>1, <2>2, <2>3, AnswerTyped, ProceedTyped DEF HandlerStates
<1>4. CASE IndexDbDoc(h)
  <2>1. code[h] \in Codes
    BY DEF HandlersTyped
  <2> QED
    BY <1>4, <2>1, AnswerTyped DEF IndexDbDoc
<1>5. ASSUME NEW fname \in Keys, Delete(h, fname)
      PROVE  HandlersTyped'
  <2>1. [method |-> "Delete", fname |-> fname, dbDoc |-> NoDoc, isIndexed |-> FALSE]
            \in Requests
    BY DEF Requests
  <2> QED
    BY <1>5, <2>1, AnswerTyped, ProceedTyped DEF Delete, HandlerStates
<1>6. CASE DeleteLookup(h)
  <2>1. req[h] \in Requests
    BY <1>6 DEF DeleteLookup, HandlersTyped, RequestsTyped
  <2> QED
    BY <1>6, <2>1, AnswerTyped, ProceedTyped DEF DeleteLookup, HandlerStates
<1>7. CASE DeleteFromDb(h)
  <2>1. code[h] \in Codes
    BY DEF HandlersTyped
  <2> QED
    BY <1>7, <2>1, AnswerTyped DEF DeleteFromDb
<1>8. CASE Get(h)
  BY <1>8, AnswerTyped DEF Get
<1>9. ASSUME NEW parametersParse \in BOOLEAN, NEW lang \in Languages,
             Threads(h, parametersParse, lang)
      PROVE  HandlersTyped'
  BY <1>9, AnswerTyped DEF Threads
<1> QED
  BY <1>1, <1>2, <1>3, <1>4, <1>5, <1>6, <1>7, <1>8, <1>9 DEF ClientRequest, HandlerStep

\* What a step of a handler, or a request reaching it, does to the rest: nothing
\* at all, or one write to the database under one name, which it notes.
LEMMA HandlerStepEffect ==
    ASSUME HandlersTyped, NEW h \in Handlers, ClientRequest(h) \/ HandlerStep(h)
    PROVE  /\ UNCHANGED <<processVars, clusteringVars, crashes>>
           /\ \/ UNCHANGED <<db, touched>>
              \/ \E f \in Keys, v \in TDbDocument \cup {NoDoc} :
                    /\ db' = [db EXCEPT ![f] = v]
                    /\ touched' = touched \cup {f}
<1>1. CASE ClientRequest(h)
  BY <1>1 DEF ClientRequest, Put, Post, Delete, Get, Threads
<1>2. CASE GetCode(h)
  BY <1>2 DEF GetCode
<1>3. CASE IndexDbDoc(h)
  <2>1. req[h].fname \in Keys /\ req[h].dbDoc \in AnnotatedDocument
    BY <1>3 DEF IndexDbDoc, HandlersTyped, RequestsTyped, Requests
  <2>2. ToProto(req[h].dbDoc) \in TDbDocument
    BY <2>1, ToProtoTyped
  <2> QED
    BY <1>3, <2>1, <2>2 DEF IndexDbDoc
<1>4. CASE DeleteLookup(h)
  BY <1>4 DEF DeleteLookup
<1>5. CASE DeleteFromDb(h)
  <2>1. req[h].fname \in Keys
    BY <1>5 DEF DeleteFromDb, HandlersTyped, RequestsTyped, Requests
  <2> QED
    BY <1>5, <2>1 DEF DeleteFromDb
<1> QED
  BY <1>1, <1>2, <1>3, <1>4, <1>5 DEF HandlerStep

\* The rest of the state, which the clustering thread and the process change.
ProcessTyped ==
    /\ db \in Contents
    /\ up \in BOOLEAN
    /\ wired \in BOOLEAN
    /\ initialized \in BOOLEAN
    /\ hot \in TClusterIndex \cup {Null}
    /\ firstRun \in BOOLEAN
    /\ cpc \in {"readDocs", "removeStaleDocs", "wireController", "setInitialized", "sleep"}
    /\ snap \in Contents
    /\ ts \in Nat
    /\ pending \subseteq Keys
    /\ touched \subseteq Keys
    /\ crashes \in 0 .. MaxCrashes

\* TypeInv is the typing of the handlers' state and of everything else.
LEMMA TypeInvParts == TypeInv <=> HandlersTyped /\ ProcessTyped
BY DEF TypeInv, TypeOK, HandlersTyped, ProcessTyped, Contents

\* A process that starts has well-typed members and locals.
LEMMA ProcessStartTyped ==
    ASSUME ProcessTyped, ProcessStart, db' = db, up' \in BOOLEAN, crashes' \in 0 .. MaxCrashes
    PROVE  TypeInv'
<1>1. Empty \in Contents
  BY DEF Empty, Contents
<1>2. ProcessTyped'
  BY <1>1 DEF ProcessTyped, ProcessStart
<1>3. HandlersTyped'
  BY DEF ProcessStart, HandlersTyped, RequestsTyped, HandlerStates, Codes
<1> QED
  BY <1>2, <1>3, TypeInvParts DEF TypeInv, TypeOK, HandlersTyped, ProcessTyped, Contents

\* A server that starts for the first time is well typed.
LEMMA TypeInvInit == Init => TypeInv
<1> SUFFICES ASSUME Init PROVE TypeInv
  OBVIOUS
<1>1. Empty \in Contents /\ db \in Contents
  BY ServerAssumption DEF Init, Empty, Contents
<1>2. crashes \in 0 .. MaxCrashes /\ ts \in Nat
  BY ServerAssumption DEF Init
<1>3. ProcessTyped
  BY <1>1, <1>2 DEF ProcessTyped, Init
<1>4. HandlersTyped
  BY DEF Init, HandlersTyped, RequestsTyped, HandlerStates, Codes
<1> QED
  BY <1>3, <1>4, TypeInvParts

\* Every step, of a handler, of the clustering thread or of the process, keeps the types.
LEMMA TypeInvNext == TypeInv /\ [Next]_vars => TypeInv'
<1> SUFFICES ASSUME TypeInv, [Next]_vars PROVE TypeInv'
  OBVIOUS
<1> USE DEF Contents
<1>0. HandlersTyped /\ ProcessTyped
  BY TypeInvParts
<1>a. UNCHANGED handlerVars => HandlersTyped'
  BY <1>0 DEF handlerVars, HandlersTyped, RequestsTyped
<1>1. ASSUME NEW h \in Handlers, ClientRequest(h) \/ HandlerStep(h)
      PROVE  TypeInv'
  <2>1. HandlersTyped'
    BY <1>0, <1>1, HandlerStepTyped
  <2>2. ProcessTyped'
    BY <1>0, <1>1, HandlerStepEffect DEF ProcessTyped, processVars, clusteringVars
  <2> QED
    BY <2>1, <2>2 DEF TypeInv, TypeOK, HandlersTyped, ProcessTyped
<1>2. CASE ReadDocs
  <2>1. PICK t \in FetchTimes(db) \cup {0} : ts' = t /\ pending' = StaleKeys(db, t)
    BY <1>2 DEF ReadDocs
  <2>2. t \in Nat
    BY <1>0, FetchTimesTyped DEF ProcessTyped
  <2>3. StaleKeys(db, t) \subseteq Keys
    BY DEF StaleKeys, Present
  <2>4. ProcessTyped'
    BY <1>0, <1>2, <2>1, <2>2, <2>3 DEF ReadDocs, ProcessTyped, processVars
  <2> QED
    BY <1>2, <1>a, <2>4 DEF ReadDocs, TypeInv, TypeOK, HandlersTyped, ProcessTyped
<1>3. ASSUME NEW k \in Keys, RemoveStaleDoc(k)
      PROVE  TypeInv'
  <2>1. ProcessTyped'
    BY <1>0, <1>3 DEF RemoveStaleDoc, ProcessTyped, processVars
  <2> QED
    BY <1>3, <1>a, <2>1 DEF RemoveStaleDoc, TypeInv, TypeOK, HandlersTyped, ProcessTyped
<1>4. CASE Publish
  <2>1. Fresh(snap, ts) \in Contents /\ Empty \in Contents
    BY <1>0, FilteredTyped DEF ProcessTyped
  <2>2. Clustered(Fresh(snap, ts)) \in Contents
    BY <2>1, FilteredTyped
  <2>3. FetchTimes(Fresh(snap, ts)) \cup {0} \subseteq Nat
    BY <2>1, FetchTimesTyped
  <2>4. hot' \in TClusterIndex
    BY <1>4, <2>2, <2>3 DEF Publish, TClusterIndex
  <2>5. ProcessTyped'
    BY <1>0, <1>4, <2>1, <2>4 DEF Publish, ProcessTyped, AfterPublication
  <2> QED
    BY <1>4, <1>a, <2>5 DEF Publish, TypeInv, TypeOK, HandlersTyped, ProcessTyped
<1>5. CASE ClusterThrows
  BY <1>0, <1>5, ProcessStartTyped DEF ClusterThrows, ProcessTyped
<1>6. CASE WireController \/ SetInitialized \/ Sleep
  <2>1. ProcessTyped'
    BY <1>0, <1>6 DEF WireController, SetInitialized, Sleep, ProcessTyped, processVars
  <2> QED
    BY <1>6, <1>a, <2>1 DEF WireController, SetInitialized, Sleep, TypeInv, TypeOK,
                           HandlersTyped, ProcessTyped
<1>7. CASE Crash
  <2>1. crashes' \in 0 .. MaxCrashes
    BY <1>0, <1>7, ServerAssumption DEF Crash, ProcessTyped
  <2> QED
    BY <1>0, <1>7, <2>1, ProcessStartTyped DEF Crash
<1>8. CASE Restart
  <2>1. ProcessTyped'
    BY <1>0, <1>8 DEF Restart, ProcessTyped, clusteringVars
  <2> QED
    BY <1>8, <1>a, <2>1 DEF Restart, TypeInv, TypeOK, HandlersTyped, ProcessTyped
<1>9. CASE UNCHANGED vars
  BY <1>9 DEF vars, TypeInv, TypeOK, RequestsTyped
<1> QED
  BY <1>1, <1>2, <1>3, <1>4, <1>5, <1>6, <1>7, <1>8, <1>9 DEF Next, ClusteringStep

\* Every variable keeps its type, and every handler that is past its checks
\* holds a well-formed request.
THEOREM TypeCorrect == Spec => []TypeOK
<1>1. TypeInv => TypeOK
  BY DEF TypeInv
<1> QED
  BY <1>1, TypeInvInit, TypeInvNext, PTL DEF Spec

-----------------------------------------------------------------------------
(***************************************************************************)
(* Opening to clients.  Initialized is set last, after the first index and *)
(* the pointers, and only while it is set do handlers get past their first *)
(* check.                                                                  *)
(***************************************************************************)
WiringInv ==
    /\ ReadyMeansWired
    /\ \A h \in Handlers : hpc[h] # "idle" => initialized
    /\ cpc \in {"wireController", "setInitialized"} => hot # Null
    /\ cpc = "setInitialized" => wired

\* A handler leaves "idle" only if the controller is initialized.
LEMMA ArrivalsAreReady ==
    ASSUME NEW h \in Handlers, ClientRequest(h), TypeInv,
           \A g \in Handlers : hpc[g] # "idle" => initialized
    PROVE  /\ UNCHANGED <<processVars, clusteringVars>>
           /\ \A g \in Handlers : hpc'[g] # "idle" => initialized
<1> USE DEF TypeInv, TypeOK
<1>1. ASSUME NEW fname \in Keys, NEW header \in Headers, NEW body \in Bodies,
             Put(h, fname, header, body) \/ Post(h, fname, header, body)
      PROVE  \A g \in Handlers : hpc'[g] # "idle" => initialized
  BY <1>1 DEF Put, Post, IsNotReady, Answer, Proceed
<1>2. ASSUME NEW fname \in Keys, Delete(h, fname)
      PROVE  \A g \in Handlers : hpc'[g] # "idle" => initialized
  BY <1>2 DEF Delete, IsNotReady, Answer, Proceed
<1>3. ASSUME Get(h) \/ \E p \in BOOLEAN, lang \in Languages : Threads(h, p, lang)
      PROVE  \A g \in Handlers : hpc'[g] # "idle" => initialized
  BY <1>3 DEF Get, Threads, Answer
<1>4. UNCHANGED <<processVars, clusteringVars>>
  BY DEF ClientRequest, Put, Post, Delete, Get, Threads
<1> QED
  BY <1>1, <1>2, <1>3, <1>4 DEF ClientRequest

\* A handler in the middle of a request leaves the other handlers alone.
LEMMA StepsOfBusyHandlers ==
    ASSUME NEW h \in Handlers, HandlerStep(h), TypeInv
    PROVE  /\ hpc[h] # "idle"
           /\ \A g \in Handlers : hpc'[g] # "idle" => hpc[g] # "idle"
           /\ UNCHANGED <<processVars, clusteringVars>>
BY DEF HandlerStep, GetCode, IndexDbDoc, DeleteLookup, DeleteFromDb, Answer, Proceed, TypeInv,
       TypeOK

\* What is published is an index of live documents of the snapshot.
LEMMA PublishedTyped ==
    ASSUME TypeInv, Publish
    PROVE  hot' \in TClusterIndex
<1>1. Fresh(snap, ts) \in Contents
  BY FilteredTyped DEF TypeInv, TypeOK, Contents
<1>2. Clustered(Fresh(snap, ts)) \in Contents
  BY <1>1, FilteredTyped
<1>3. FetchTimes(Fresh(snap, ts)) \cup {0} \subseteq Nat
  BY <1>1, FetchTimesTyped
<1> QED
  BY <1>2, <1>3 DEF Publish, TClusterIndex, Contents

\* No step opens the server before its pointers are set, or unsets them.
LEMMA WiringNext == TypeInv /\ WiringInv /\ [Next]_vars => WiringInv'
<1> SUFFICES ASSUME TypeInv, WiringInv, [Next]_vars PROVE WiringInv'
  OBVIOUS
<1> USE DEF WiringInv, ReadyMeansWired
<1>1. ASSUME NEW h \in Handlers, ClientRequest(h)
      PROVE  WiringInv'
  BY <1>1, ArrivalsAreReady DEF processVars, clusteringVars
<1>2. ASSUME NEW h \in Handlers, HandlerStep(h)
      PROVE  WiringInv'
  BY <1>2, StepsOfBusyHandlers DEF processVars, clusteringVars
<1>3. CASE ReadDocs
  BY <1>3 DEF ReadDocs, processVars, handlerVars
<1>4. ASSUME NEW k \in Keys, RemoveStaleDoc(k)
      PROVE  WiringInv'
  BY <1>4 DEF RemoveStaleDoc, processVars, handlerVars
<1>5. CASE Publish
  <2>1. hot' # Null
    BY <1>5, PublishedTyped, ServerAssumption
  <2> QED
    BY <1>5, <2>1 DEF Publish, AfterPublication, handlerVars
<1>6. CASE ClusterThrows \/ Crash
  BY <1>6 DEF ClusterThrows, Crash, ProcessStart
<1>7. CASE WireController
  BY <1>7 DEF WireController, handlerVars
<1>8. CASE SetInitialized
  BY <1>8 DEF SetInitialized, handlerVars
<1>9. CASE Sleep \/ Restart
  BY <1>9 DEF Sleep, Restart, processVars, clusteringVars, handlerVars
<1>10. CASE UNCHANGED vars
  BY <1>10 DEF vars
<1> QED
  BY <1>1, <1>2, <1>3, <1>4, <1>5, <1>6, <1>7, <1>8, <1>9, <1>10 DEF Next, ClusteringStep

\* No handler dereferences a null pointer of the controller or a null index.
THEOREM HandlersAreWired == Spec => []ReadyMeansWired
<1>1. Init => WiringInv
  BY DEF Init, WiringInv, ReadyMeansWired
<1>2. WiringInv => ReadyMeansWired
  BY DEF WiringInv
<1> QED
  BY <1>1, <1>2, TypeInvInit, TypeInvNext, WiringNext, PTL DEF Spec

-----------------------------------------------------------------------------
(***************************************************************************)
(* A round of clustering.                                                  *)
(***************************************************************************)

\* The newest document of a database is not stale, so the maximum of the fetch
\* times survives the removal of the stale documents.
LEMMA MaxSurvives ==
    ASSUME NEW s \in Contents, NEW t \in Nat, IsMaxFetchTime(t, s)
    PROVE  IsMaxFetchTime(t, Fresh(s, t))
<1>1. \A k \in Present(Fresh(s, t)) : k \in Present(s) /\ Fresh(s, t)[k] = s[k]
  BY DEF Fresh, Present
<1>2. \A u \in FetchTimes(Fresh(s, t)) : u <= t
  BY <1>1 DEF FetchTimes, IsMaxFetchTime
<1>3. ASSUME NEW k \in Present(s), t = s[k].FetchTime
      PROVE  t \in FetchTimes(Fresh(s, t))
  <2>1. k \notin StaleKeys(s, t)
    BY <1>3, PresentTyped DEF StaleKeys, IsStale
  <2>2. k \in Present(Fresh(s, t)) /\ Fresh(s, t)[k] = s[k]
    BY <2>1 DEF Fresh, Present
  <2> QED
    BY <1>3, <2>2 DEF FetchTimes
<1> QED
  BY <1>2, <1>3 DEF IsMaxFetchTime, FetchTimes

\* What the clustering thread knows during a round.  A name no handler touched
\* still holds what the snapshot holds, or nothing if it was stale and visited.
RoundInv ==
    cpc = "removeStaleDocs" =>
        /\ IsMaxFetchTime(ts, snap)
        /\ pending \subseteq StaleKeys(snap, ts)
        /\ \A k \in Keys \ touched :
              \/ db[k] = snap[k]
              \/ k \in StaleKeys(snap, ts) \ pending /\ db[k] = NoDoc
        /\ ~DbFaults => \A k \in (StaleKeys(snap, ts) \ pending) \ touched : db[k] = NoDoc

\* The round's invariant implies the two properties stated of a round.
LEMMA RoundInvGives ==
    ASSUME TypeInv, RoundInv
    PROVE  FreshestSurvives /\ RoundMirrorsStore
<1>1. FreshestSurvives
  BY MaxSurvives DEF RoundInv, FreshestSurvives, TypeInv, TypeOK, Contents
<1>2. RoundMirrorsStore
  BY DEF RoundInv, RoundMirrorsStore
<1> QED
  BY <1>1, <1>2

\* Every step keeps what a clustering round knows about its snapshot.
LEMMA RoundNext == TypeInv /\ RoundInv /\ [Next]_vars => RoundInv'
<1> SUFFICES ASSUME TypeInv, RoundInv, [Next]_vars PROVE RoundInv'
  OBVIOUS
<1>1. ASSUME NEW h \in Handlers, ClientRequest(h) \/ HandlerStep(h)
      PROVE  RoundInv'
  <2>1. UNCHANGED clusteringVars
    BY <1>1, HandlerStepEffect, TypeInvParts
  <2>2. \A k \in Keys \ touched' : k \notin touched /\ db'[k] = db[k]
    BY <1>1, HandlerStepEffect, TypeInvParts DEF ProcessTyped, Contents
  <2> QED
    BY <2>1, <2>2 DEF RoundInv, clusteringVars, StaleKeys, Present
<1>2. CASE ReadDocs
  <2>1. IsMaxFetchTime(ts, snap)'
    BY <1>2 DEF ReadDocs, IsMaxFetchTime, FetchTimes, Present
  <2>2. pending' = StaleKeys(snap, ts)'
    BY <1>2 DEF ReadDocs, StaleKeys, Present
  <2> QED
    BY <1>2, <2>1, <2>2 DEF ReadDocs, RoundInv
<1>3. ASSUME NEW k \in Keys, RemoveStaleDoc(k)
      PROVE  RoundInv'
  <2>1. /\ UNCHANGED <<cpc, snap, ts, touched>>
        /\ cpc = "removeStaleDocs"
        /\ k \in pending
        /\ pending' = pending \ {k}
        /\ db' = [db EXCEPT ![k] = NoDoc] \/ (DbFaults /\ UNCHANGED db)
    BY <1>3 DEF RemoveStaleDoc
  <2>2. StaleKeys(snap, ts)' = StaleKeys(snap, ts) /\ IsMaxFetchTime(ts, snap)'
    BY <2>1 DEF StaleKeys, Present, RoundInv, IsMaxFetchTime, FetchTimes
  <2>3. k \in StaleKeys(snap, ts) \ pending'
    BY <2>1 DEF RoundInv
  <2>4. StaleKeys(snap, ts) \ pending' = (StaleKeys(snap, ts) \ pending) \cup {k}
    BY <2>1, <2>3
  <2>5. db \in [Keys -> TDbDocument \cup {NoDoc}]
    BY DEF TypeInv, TypeOK
  <2>6. ASSUME NEW j \in Keys \ touched
        PROVE  \/ db'[j] = snap[j]
               \/ j \in StaleKeys(snap, ts) \ pending' /\ db'[j] = NoDoc
    BY <2>1, <2>3, <2>4, <2>5 DEF RoundInv
  <2>7. ASSUME ~DbFaults, NEW j \in (StaleKeys(snap, ts) \ pending') \ touched
        PROVE  db'[j] = NoDoc
    <3>1. j \in Keys
      BY DEF StaleKeys, Present
    <3> QED
      BY <2>1, <2>4, <2>5, <2>7, <3>1 DEF RoundInv
  <2>8. pending' \subseteq StaleKeys(snap, ts)
    BY <2>1 DEF RoundInv
  <2> QED
    BY <2>1, <2>2, <2>6, <2>7, <2>8 DEF RoundInv
<1>4. CASE Publish
  BY <1>4 DEF Publish, AfterPublication, RoundInv
<1>5. CASE ClusterThrows \/ Crash
  BY <1>5 DEF ClusterThrows, Crash, ProcessStart, RoundInv
<1>6. CASE WireController \/ SetInitialized \/ Sleep
  BY <1>6 DEF WireController, SetInitialized, Sleep, RoundInv
<1>7. CASE Restart
  BY <1>7 DEF Restart, clusteringVars, RoundInv, IsMaxFetchTime, FetchTimes, StaleKeys, Present
<1>8. CASE UNCHANGED vars
  BY <1>8 DEF vars, RoundInv, IsMaxFetchTime, FetchTimes, StaleKeys, Present
<1> QED
  BY <1>1, <1>2, <1>3, <1>4, <1>5, <1>6, <1>7, <1>8 DEF Next, ClusteringStep

\* Judging staleness by the newest document never evicts that document.
THEOREM FreshestDocSurvives == Spec => []FreshestSurvives
<1>1. Init => RoundInv
  BY DEF Init, RoundInv
<1> QED
  BY <1>1, TypeInvInit, TypeInvNext, RoundNext, RoundInvGives, PTL DEF Spec

\* The clustering thread loses a live document only to a write that came after
\* its snapshot.
THEOREM LossOnlyInRace == Spec => LossNeedsRace
<1>1. Init => RoundInv
  BY DEF Init, RoundInv
<1>2. ASSUME TypeInv, RoundInv, [Next]_vars, NEW k \in Keys, db[k] # NoDoc, db'[k] = NoDoc,
             UNCHANGED handlerVars
      PROVE  k \in touched \/ IsStale(db[k], ts)
  <2> USE DEF TypeInv, TypeOK
  <2>1. ASSUME NEW h \in Handlers, ClientRequest(h) \/ HandlerStep(h)
        PROVE  FALSE
    <3>1. CASE ClientRequest(h)
      BY <1>2, <3>1 DEF ClientRequest, Put, Post, Delete, Get, Threads
    <3>2. CASE HandlerStep(h)
      <4>1. CASE IndexDbDoc(h) \/ DeleteFromDb(h)
        BY <1>2, <4>1 DEF IndexDbDoc, DeleteFromDb, Answer, handlerVars
      <4>2. CASE GetCode(h) \/ DeleteLookup(h)
        BY <1>2, <4>2 DEF GetCode, DeleteLookup
      <4> QED
        BY <3>2, <4>1, <4>2 DEF HandlerStep
    <3> QED
      BY <2>1, <3>1, <3>2
  <2>2. ASSUME NEW j \in Keys, RemoveStaleDoc(j)
        PROVE  k \in touched \/ IsStale(db[k], ts)
    <3>1. j = k /\ k \in pending /\ cpc = "removeStaleDocs"
      BY <1>2, <2>2 DEF RemoveStaleDoc
    <3>2. k \in StaleKeys(snap, ts)
      BY <1>2, <3>1 DEF RoundInv
    <3>3. k \in touched \/ db[k] = snap[k]
      BY <1>2, <3>1 DEF RoundInv
    <3> QED
      BY <3>2, <3>3 DEF StaleKeys
  <2>3. CASE db' = db
    BY <1>2, <2>3
  <2>4. CASE ReadDocs \/ Publish \/ ClusterThrows \/ WireController \/ SetInitialized \/ Sleep
             \/ Crash \/ Restart \/ UNCHANGED vars
    BY <2>3, <2>4 DEF ReadDocs, Publish, ClusterThrows, WireController, SetInitialized, Sleep,
                      Crash, Restart, vars
  <2> QED
    BY <1>2, <2>1, <2>2, <2>4 DEF Next, ClusteringStep
<1>3. TypeInv /\ RoundInv /\ [Next]_vars =>
        [\A k \in Keys : db[k] # NoDoc /\ db'[k] = NoDoc /\ UNCHANGED handlerVars
              => k \in touched \/ IsStale(db[k], ts)]_vars
  BY <1>2
<1> QED
  BY <1>1, <1>3, TypeInvInit, TypeInvNext, RoundNext, PTL DEF Spec, LossNeedsRace

-----------------------------------------------------------------------------
(***************************************************************************)
(* The published index.                                                    *)
(***************************************************************************)
IndexInv == IndexMirrorsStore /\ IndexIsLive

\* What a publication puts in the index: the live documents of the snapshot in
\* a clustered language, with the time of the newest of all.
LEMMA PublishedIndex ==
    ASSUME TypeInv, RoundInv, Publish
    PROVE  /\ hot'.Docs = Clustered(Fresh(snap, ts))
           /\ hot'.TrueMaxTimestamp = ts
           /\ Fresh(snap, ts) \in Contents
           /\ ts \in Nat
           /\ IsMaxFetchTime(ts, Fresh(snap, ts))
<1>1. snap \in Contents /\ ts \in Nat
  BY DEF TypeInv, TypeOK, Contents
<1>2. Fresh(snap, ts) \in Contents
  BY <1>1, FilteredTyped
<1>3. IsMaxFetchTime(ts, Fresh(snap, ts))
  BY <1>1, MaxSurvives DEF RoundInv, Publish
<1>4. PICK t \in FetchTimes(Fresh(snap, ts)) \cup {0} :
          /\ IsMaxFetchTime(t, Fresh(snap, ts))
          /\ hot' = [Docs |-> Clustered(Fresh(snap, ts)), TrueMaxTimestamp |-> t]
  BY DEF Publish
<1>5. t = ts
  <2>1. FetchTimes(Fresh(snap, ts)) \subseteq Nat
    BY <1>2, FetchTimesTyped
  <2> QED
    BY <1>1, <1>3, <1>4, <2>1 DEF IsMaxFetchTime
<1> QED
  BY <1>1, <1>2, <1>3, <1>4, <1>5

\* The index Publish sets holds live, clusterable documents only.
LEMMA PublishIsLive ==
    ASSUME TypeInv, RoundInv, Publish
    PROVE  IndexIsLive'
<1> DEFINE docs == Fresh(snap, ts)
<1>1. SUFFICES ASSUME NEW k \in Present(hot'.Docs)
               PROVE  /\ ~IsStale(hot'.Docs[k], hot'.TrueMaxTimestamp)
                      /\ hot'.Docs[k].FetchTime <= hot'.TrueMaxTimestamp
                      /\ hot'.Docs[k].Language \in Clusterings
                      /\ RequiredKeys[hot'.Docs[k].Language] \subseteq hot'.Docs[k].Embeddings
  BY DEF IndexIsLive, Present
<1>2. k \in Keys /\ Clustered(docs)[k] # NoDoc
  BY <1>1, PublishedIndex DEF Present
<1>3. docs[k] # NoDoc /\ docs[k].Language \in Clusterings /\ Clustered(docs)[k] = docs[k]
  BY <1>2 DEF Clustered
<1>4. docs[k] = snap[k] /\ k \notin StaleKeys(snap, ts)
  BY <1>2, <1>3 DEF Fresh
<1>5. ~IsStale(docs[k], ts)
  BY <1>2, <1>3, <1>4 DEF StaleKeys, Present
<1>6. docs[k].FetchTime <= ts
  BY <1>2, <1>3, PublishedIndex DEF IsMaxFetchTime, FetchTimes, Present
<1>7. RequiredKeys[docs[k].Language] \subseteq docs[k].Embeddings
  BY <1>2 DEF Publish, Clusterable, Present
<1> QED
  BY <1>3, <1>5, <1>6, <1>7, PublishedIndex

\* The index Publish sets agrees with the database on the untouched names.
LEMMA PublishMirrors ==
    ASSUME TypeInv, RoundInv, Publish
    PROVE  IndexMirrorsStore'
<1> SUFFICES ASSUME ~DbFaults, NEW k \in Keys \ touched
             PROVE  hot'.Docs[k] = Clustered(db)[k]
  BY DEF IndexMirrorsStore, Publish, Clustered
<1>1. db[k] = Fresh(snap, ts)[k]
  BY DEF Publish, RoundInv, Fresh
<1> QED
  BY <1>1, PublishedIndex DEF Clustered

\* Every step keeps what is known about the published index.
LEMMA IndexNext == TypeInv /\ RoundInv /\ IndexInv /\ [Next]_vars => IndexInv'
<1> SUFFICES ASSUME TypeInv, RoundInv, IndexInv, [Next]_vars PROVE IndexInv'
  OBVIOUS
<1> USE DEF IndexInv
<1>1. ASSUME UNCHANGED hot PROVE IndexIsLive'
  BY <1>1 DEF IndexIsLive, Present
<1>2. ASSUME UNCHANGED <<hot, db, touched>>, cpc # "removeStaleDocs" \/ cpc' = "removeStaleDocs"
      PROVE  IndexInv'
  BY <1>1, <1>2 DEF IndexMirrorsStore, Clustered
<1>3. ASSUME NEW h \in Handlers, ClientRequest(h) \/ HandlerStep(h)
      PROVE  IndexInv'
  <2>1. UNCHANGED <<hot, cpc>>
    BY <1>3, HandlerStepEffect, TypeInvParts DEF processVars, clusteringVars
  <2>2. \A k \in Keys \ touched' : k \notin touched /\ db'[k] = db[k]
    BY <1>3, HandlerStepEffect, TypeInvParts DEF ProcessTyped, Contents
  <2> QED
    BY <1>1, <2>1, <2>2 DEF IndexMirrorsStore, Clustered
<1>4. CASE ReadDocs \/ \E k \in Keys : RemoveStaleDoc(k)
  <2>1. UNCHANGED hot /\ cpc' = "removeStaleDocs"
    BY <1>4 DEF ReadDocs, RemoveStaleDoc, processVars
  <2> QED
    BY <1>1, <2>1 DEF IndexMirrorsStore
<1>5. CASE Publish
  BY <1>5, PublishIsLive, PublishMirrors
<1>6. CASE ClusterThrows \/ Crash
  BY <1>6 DEF ClusterThrows, Crash, ProcessStart, IndexMirrorsStore, IndexIsLive
<1>7. CASE WireController \/ SetInitialized \/ Sleep
  BY <1>2, <1>7 DEF WireController, SetInitialized, Sleep, processVars
<1>8. CASE Restart \/ UNCHANGED vars
  BY <1>2, <1>8 DEF Restart, clusteringVars, vars
<1> QED
  BY <1>3, <1>4, <1>5, <1>6, <1>7, <1>8 DEF Next, ClusteringStep

\* The invariants of the types, the round and the index hold together.
LEMMA IndexInvariant == Spec => [](TypeInv /\ RoundInv /\ IndexInv)
<1>1. Init => RoundInv /\ IndexInv
  BY DEF Init, RoundInv, IndexInv, IndexMirrorsStore, IndexIsLive
<1> QED
  BY <1>1, TypeInvInit, TypeInvNext, RoundNext, IndexNext, PTL DEF Spec

\* Clients are never shown an expired, a postdated or an unclustered document.
THEOREM IndexHoldsLiveDocs == Spec => []IndexIsLive
<1>1. IndexInv => IndexIsLive
  BY DEF IndexInv
<1> QED
  BY <1>1, IndexInvariant, PTL

\* The index and the database agree on every name nobody wrote since the snapshot.
THEOREM IndexAgreesWithStore == Spec => [](IndexMirrorsStore /\ RoundMirrorsStore)
<1>1. TypeInv /\ RoundInv /\ IndexInv => IndexMirrorsStore /\ RoundMirrorsStore
  BY RoundInvGives DEF IndexInv
<1> QED
  BY <1>1, IndexInvariant, PTL

-----------------------------------------------------------------------------
(***************************************************************************)
(* Documents the clusterer can handle.                                     *)
(***************************************************************************)

\* The annotator computes every embedding the clusterers weigh.
ConfigurationsMatch ==
    \A lang \in Clusterings : \A key \in RequiredKeys[lang] : <<lang, key>> \in Embedders

HasRequiredKeys(doc) ==
    doc.Language \in Clusterings => RequiredKeys[doc.Language] \subseteq doc.Embeddings

\* A request about to be indexed carries a document the clusterer can handle.
IndexedRequestsFit ==
    \A h \in Handlers :
        /\ hpc[h] = "getCode" /\ req[h].isIndexed => HasRequiredKeys(req[h].dbDoc)
        /\ hpc[h] = "indexDbDoc" => HasRequiredKeys(req[h].dbDoc)

StoreFits == \A k \in Keys : db[k] # NoDoc => HasRequiredKeys(db[k])

\* Fitting, document by document, is what Clusterable asks of the database.
LEMMA FitsIsClusterable == StoreFits <=> StoreStaysClusterable
BY DEF StoreFits, StoreStaysClusterable, Clusterable, Clustered, Present, HasRequiredKeys

\* A fully indexed document went through every embedder of its language.
LEMMA FullyIndexedFits ==
    ASSUME ConfigurationsMatch, NEW body \in Bodies, NEW d \in ParseDbDocFromReq(body),
           IsFullyIndexed(d), NEW t
    PROVE  HasRequiredKeys(WithTtl(d, t))
<1>1. d = AnnotateDocument(body)
  BY DEF ParseDbDocFromReq
<1>2. Mode # "languages" /\ body.longEnough
  BY <1>1 DEF IsFullyIndexed, AnnotateDocument
<1>3. d.Language \in Clusterings => RequiredKeys[d.Language] \subseteq d.Embeddings
  BY <1>1, <1>2, ServerAssumption DEF ConfigurationsMatch, AnnotateDocument
<1>4. /\ WithTtl(d, t).Language = d.Language
      /\ WithTtl(d, t).Embeddings = d.Embeddings
  BY <1>1 DEF WithTtl, AnnotateDocument
<1> QED
  BY <1>3, <1>4 DEF HasRequiredKeys

\* Every step writes only documents the clusterer can look up.
LEMMA FitNext ==
    ASSUME ConfigurationsMatch
    PROVE  TypeInv /\ IndexedRequestsFit /\ StoreFits /\ [Next]_vars
              => IndexedRequestsFit' /\ StoreFits'
<1> SUFFICES ASSUME TypeInv, IndexedRequestsFit, StoreFits, [Next]_vars
             PROVE  IndexedRequestsFit' /\ StoreFits'
  OBVIOUS
<1> USE DEF TypeInv, TypeOK, IndexedRequestsFit, StoreFits
<1>1. ASSUME NEW h \in Handlers, NEW fname \in Keys, NEW header \in Headers, NEW body \in Bodies,
             Put(h, fname, header, body)
      PROVE  IndexedRequestsFit' /\ StoreFits'
  <2>1. CASE \E status : Answer(h, status)
    BY <1>1, <2>1 DEF Put, Answer
  <2>2. ASSUME NEW t, NEW d \in ParseDbDocFromReq(body), IsFullyIndexed(d),
               Proceed(h, "getCode", [method |-> "Put", fname |-> fname,
                                      dbDoc |-> WithTtl(d, t), isIndexed |-> TRUE], "none")
        PROVE  IndexedRequestsFit' /\ StoreFits'
    <3>1. HasRequiredKeys(WithTtl(d, t))
      BY <2>2, FullyIndexedFits
    <3> QED
      BY <1>1, <2>2, <3>1 DEF Put, Proceed
  <2> QED
    BY <1>1, <2>1, <2>2 DEF Put
<1>2. ASSUME NEW h \in Handlers, NEW fname \in Keys, NEW header \in Headers, NEW body \in Bodies,
             Post(h, fname, header, body)
      PROVE  IndexedRequestsFit' /\ StoreFits'
  <2>1. CASE \E status : Answer(h, status)
    BY <1>2, <2>1 DEF Post, Answer
  <2>2. ASSUME NEW t, NEW d \in ParseDbDocFromReq(body), NEW isIndexed,
               isIndexed = (IsFullyIndexed(d) /\ t # NoCache),
               Proceed(h, "getCode", [method |-> "Post", fname |-> fname,
                                      dbDoc |-> IF isIndexed THEN WithTtl(d, t) ELSE d,
                                      isIndexed |-> isIndexed], "none")
        PROVE  IndexedRequestsFit' /\ StoreFits'
    <3>1. isIndexed => HasRequiredKeys(WithTtl(d, t))
      BY <2>2, FullyIndexedFits
    <3> QED
      BY <1>2, <2>2, <3>1 DEF Post, Proceed
  <2> QED
    BY <1>2, <2>1, <2>2 DEF Post
<1>3. ASSUME NEW h \in Handlers, GetCode(h)
      PROVE  IndexedRequestsFit' /\ StoreFits'
  BY <1>3 DEF GetCode, Answer, Proceed
<1>4. ASSUME NEW h \in Handlers, IndexDbDoc(h)
      PROVE  IndexedRequestsFit' /\ StoreFits'
  <2>1. HasRequiredKeys(ToProto(req[h].dbDoc))
    <3>1. HasRequiredKeys(req[h].dbDoc) /\ req[h].dbDoc \in AnnotatedDocument
      BY <1>4 DEF IndexDbDoc, RequestsTyped
    <3>2. /\ ToProto(req[h].dbDoc).Language = req[h].dbDoc.Language
          /\ ToProto(req[h].dbDoc).Embeddings = req[h].dbDoc.Embeddings
      BY <3>1 DEF ToProto, AnnotatedDocument
    <3> QED
      BY <3>1, <3>2 DEF HasRequiredKeys
  <2> QED
    BY <1>4, <2>1 DEF IndexDbDoc, Answer
<1>5. ASSUME NEW h \in Handlers,
             \/ \E fname \in Keys : Delete(h, fname)
             \/ DeleteLookup(h)
             \/ DeleteFromDb(h)
             \/ Get(h)
             \/ \E p \in BOOLEAN, lang \in Languages : Threads(h, p, lang)
      PROVE  IndexedRequestsFit' /\ StoreFits'
  BY <1>5 DEF Delete, DeleteLookup, DeleteFromDb, Get, Threads, Answer, Proceed
<1>6. CASE ReadDocs \/ Publish \/ WireController \/ SetInitialized \/ Sleep \/ Restart
             \/ UNCHANGED vars
  BY <1>6 DEF ReadDocs, Publish, WireController, SetInitialized, Sleep, Restart, handlerVars, vars
<1>7. ASSUME NEW k \in Keys, RemoveStaleDoc(k)
      PROVE  IndexedRequestsFit' /\ StoreFits'
  BY <1>7 DEF RemoveStaleDoc, handlerVars
<1>8. CASE ClusterThrows \/ Crash
  BY <1>8 DEF ClusterThrows, Crash, ProcessStart
<1> QED
  BY <1>1, <1>2, <1>3, <1>4, <1>5, <1>6, <1>7, <1>8
  DEF Next, ClusteringStep, ClientRequest, HandlerStep

\* If the annotator computes what the clusterers weigh, and nothing older is in
\* the database, no sequence of requests makes the clustering thread throw.
THEOREM RequestsNeverPoison ==
    ASSUME ConfigurationsMatch, \A d \in OldDocs : HasRequiredKeys(d)
    PROVE  Spec => []StoreStaysClusterable
<1>1. Init => IndexedRequestsFit /\ StoreFits
  BY DEF Init, IndexedRequestsFit, StoreFits
<1> QED
  BY <1>1, TypeInvInit, TypeInvNext, FitNext, FitsIsClusterable, PTL DEF Spec

-----------------------------------------------------------------------------
(***************************************************************************)
(* The answers.  A handler decides its status before it writes; with one   *)
(* request on a name at a time nobody fills that name in between: the      *)
(* clustering thread can only empty it.                                    *)
(***************************************************************************)
RequestsAreSerial ==
    \A g, h \in Handlers :
        g # h /\ hpc[g] # "idle" /\ hpc[h] # "idle" => req[g].fname # req[h].fname

StatusStillTrue ==
    \A h \in Handlers :
        /\ hpc[h] = "indexDbDoc" =>
              /\ code[h] \in {"k200OK", "k201Created", "k204NoContent"}
              /\ code[h] = "k201Created" => db[req[h].fname] = NoDoc
        /\ hpc[h] = "delete" => code[h] = "k204NoContent"

AnswerInv == RequestsAreSerial /\ StatusStillTrue

\* What a client is told when the request of a busy handler ends.
AnswerIsTrue(h) ==
    up' /\ hpc[h] # "idle" /\ hpc'[h] = "idle" =>
        LET k == req[h].fname
        IN  CASE code'[h] = "k201Created" -> db[k] = NoDoc /\ db'[k] # NoDoc
              [] code'[h] = "k404NotFound" -> db[k] = NoDoc
              [] code'[h] = "k500InternalServerError" -> db' = db
              [] OTHER -> TRUE

\* A step that leaves the handlers alone, or ends the process, answers nobody.
LEMMA OthersDoNotAnswer ==
    ASSUME NEW h \in Handlers, ~up' \/ UNCHANGED hpc
    PROVE  AnswerIsTrue(h)
BY DEF AnswerIsTrue

\* A request that reaches an idle handler writes nothing, is answered at once or
\* starts its work, and then on a name no busy handler works on.
LEMMA ArrivalEffect ==
    ASSUME TypeInv, SerialClients, NEW h \in Handlers, ClientRequest(h)
    PROVE  /\ db' = db
           /\ hpc[h] = "idle"
           /\ \A g \in Handlers \ {h} :
                 hpc'[g] = hpc[g] /\ req'[g] = req[g] /\ code'[g] = code[g]
           /\ hpc'[h] \in {"idle", "getCode", "keyMayExist"}
           /\ hpc'[h] # "idle" =>
                 \A g \in Handlers : hpc[g] # "idle" => req[g].fname # req'[h].fname
<1> USE DEF TypeInv, TypeOK
<1>1. ASSUME NEW fname \in Keys, NEW header \in Headers, NEW body \in Bodies,
             Put(h, fname, header, body) \/ Post(h, fname, header, body)
      PROVE  /\ Arrives(h, fname) /\ db' = db
             /\ \/ \E status : Answer(h, status)
                \/ \E r, status : Proceed(h, "getCode", r, status) /\ r.fname = fname
  <2>1. CASE Put(h, fname, header, body)
    <3>1. CASE \E status : Answer(h, status)
      BY <2>1, <3>1 DEF Put
    <3>2. ASSUME NEW t, NEW d,
                 Proceed(h, "getCode", [method |-> "Put", fname |-> fname,
                                        dbDoc |-> WithTtl(d, t), isIndexed |-> TRUE], "none")
          PROVE  \E r, status : Proceed(h, "getCode", r, status) /\ r.fname = fname
      BY <3>2
    <3> QED
      BY <2>1, <3>1, <3>2 DEF Put
  <2>2. CASE Post(h, fname, header, body)
    <3>1. CASE \E status : Answer(h, status)
      BY <2>2, <3>1 DEF Post
    <3>2. ASSUME NEW doc, NEW isIndexed,
                 Proceed(h, "getCode", [method |-> "Post", fname |-> fname,
                                        dbDoc |-> doc, isIndexed |-> isIndexed], "none")
          PROVE  \E r, status : Proceed(h, "getCode", r, status) /\ r.fname = fname
      BY <3>2
    <3> QED
      BY <2>2, <3>1, <3>2 DEF Post
  <2> QED
    BY <1>1, <2>1, <2>2
<1>2. ASSUME NEW fname \in Keys, Delete(h, fname)
      PROVE  /\ Arrives(h, fname) /\ db' = db
             /\ \/ \E status : Answer(h, status)
                \/ \E r, status : Proceed(h, "keyMayExist", r, status) /\ r.fname = fname
  <2>1. CASE Answer(h, "k503ServiceUnavailable")
    BY <1>2, <2>1 DEF Delete
  <2>2. CASE Proceed(h, "keyMayExist", [method |-> "Delete", fname |-> fname,
                                        dbDoc |-> NoDoc, isIndexed |-> FALSE], "none")
    BY <1>2, <2>2 DEF Delete
  <2> QED
    BY <1>2, <2>1, <2>2 DEF Delete
<1>3. ASSUME NEW fname \in Keys, Arrives(h, fname), db' = db,
             \/ \E status : Answer(h, status)
             \/ \E pc \in {"getCode", "keyMayExist"} : \E r, status :
                   Proceed(h, pc, r, status) /\ r.fname = fname
      PROVE  /\ db' = db
             /\ hpc[h] = "idle"
             /\ \A g \in Handlers \ {h} :
                   hpc'[g] = hpc[g] /\ req'[g] = req[g] /\ code'[g] = code[g]
             /\ hpc'[h] \in {"idle", "getCode", "keyMayExist"}
             /\ hpc'[h] # "idle" =>
                   \A g \in Handlers : hpc[g] # "idle" => req[g].fname # req'[h].fname
  <2>1. CASE \E status : Answer(h, status)
    BY <1>3, <2>1 DEF Answer, Arrives
  <2>2. ASSUME NEW pc \in {"getCode", "keyMayExist"}, NEW r, NEW status,
               Proceed(h, pc, r, status), r.fname = fname
        PROVE  /\ \A g \in Handlers \ {h} :
                     hpc'[g] = hpc[g] /\ req'[g] = req[g] /\ code'[g] = code[g]
               /\ hpc'[h] = pc /\ req'[h] = r
    BY <2>2 DEF Proceed
  <2> QED
    BY <1>3, <2>1, <2>2 DEF Arrives
<1>4. CASE Get(h) \/ \E p \in BOOLEAN, lang \in Languages : Threads(h, p, lang)
  BY <1>4 DEF Get, Threads, Answer
<1> QED
  BY <1>1, <1>2, <1>3, <1>4 DEF ClientRequest

\* Every step keeps the busy handlers apart and the statuses they chose true.
LEMMA AnswerInvNext ==
    ASSUME SerialClients
    PROVE  TypeInv /\ AnswerInv /\ [Next]_vars => AnswerInv'
<1> SUFFICES ASSUME TypeInv, AnswerInv, [Next]_vars PROVE AnswerInv'
  OBVIOUS
<1> USE DEF TypeInv, TypeOK
<1>1. ASSUME NEW h \in Handlers, ClientRequest(h)
      PROVE  AnswerInv'
  BY <1>1, ArrivalEffect DEF AnswerInv, RequestsAreSerial, StatusStillTrue
<1>2. ASSUME NEW h \in Handlers,
             \A g \in Handlers \ {h} :
                hpc'[g] = hpc[g] /\ req'[g] = req[g] /\ code'[g] = code[g],
             hpc'[h] # "idle" => hpc[h] # "idle" /\ req'[h] = req[h],
             \A g \in Handlers \ {h} :
                hpc[g] # "idle" => db'[req[g].fname] = db[req[g].fname],
             hpc'[h] = "indexDbDoc" =>
                /\ code'[h] \in {"k200OK", "k201Created", "k204NoContent"}
                /\ code'[h] = "k201Created" => db'[req[h].fname] = NoDoc,
             hpc'[h] = "delete" => code'[h] = "k204NoContent"
      PROVE  AnswerInv'
  <2>1. RequestsAreSerial'
    BY <1>2 DEF AnswerInv, RequestsAreSerial
  <2>2. StatusStillTrue'
    BY <1>2 DEF AnswerInv, StatusStillTrue
  <2> QED
    BY <2>1, <2>2 DEF AnswerInv
<1>a. ASSUME NEW h \in Handlers, NEW status, Answer(h, status),
             \A g \in Handlers \ {h} :
                hpc[g] # "idle" => db'[req[g].fname] = db[req[g].fname]
      PROVE  AnswerInv'
  <2>1. hpc'[h] = "idle"
    BY <1>a DEF Answer
  <2>2. \A g \in Handlers \ {h} :
           hpc'[g] = hpc[g] /\ req'[g] = req[g] /\ code'[g] = code[g]
    BY <1>a DEF Answer
  <2>3. RequestsAreSerial'
    BY <2>1, <2>2 DEF AnswerInv, RequestsAreSerial
  <2>4. StatusStillTrue'
    BY <1>a, <2>1, <2>2 DEF AnswerInv, StatusStillTrue
  <2> QED
    BY <2>3, <2>4 DEF AnswerInv
<1>3. ASSUME NEW h \in Handlers, GetCode(h)
      PROVE  AnswerInv'
  <2>1. PICK mayExist \in KeyMayExist(req[h].fname) :
          IF req[h].isIndexed
          THEN Proceed(h, "indexDbDoc", req[h], IndexedCode(req[h].method, mayExist))
          ELSE Answer(h, "k200OK")
    BY <1>3 DEF GetCode
  <2>2. /\ IndexedCode(req[h].method, mayExist)
              \in {"k200OK", "k201Created", "k204NoContent"}
        /\ IndexedCode(req[h].method, mayExist) = "k201Created" => db[req[h].fname] = NoDoc
    BY DEF IndexedCode, ExistedCode, KeyMayExist
  <2>3. db' = db /\ hpc[h] = "getCode"
    BY <1>3 DEF GetCode
  <2>4. CASE Answer(h, "k200OK")
    BY <1>a, <2>3, <2>4
  <2>5. CASE Proceed(h, "indexDbDoc", req[h], IndexedCode(req[h].method, mayExist))
    BY <1>2, <2>2, <2>3, <2>5 DEF Proceed
  <2> QED
    BY <2>1, <2>4, <2>5
<1>4. ASSUME NEW h \in Handlers, IndexDbDoc(h) \/ DeleteFromDb(h)
      PROVE  AnswerInv'
  <2>1. hpc[h] # "idle" /\ \E status : Answer(h, status)
    BY <1>4 DEF IndexDbDoc, DeleteFromDb
  <2>2. db' = db \/ \E v : db' = [db EXCEPT ![req[h].fname] = v]
    BY <1>4 DEF IndexDbDoc, DeleteFromDb
  <2>3. ASSUME NEW g \in Handlers \ {h}, hpc[g] # "idle"
        PROVE  db'[req[g].fname] = db[req[g].fname]
    <3>1. req[g].fname # req[h].fname
      BY <2>1, <2>3 DEF AnswerInv, RequestsAreSerial
    <3>2. req[g].fname \in Keys
      BY <2>3 DEF RequestsTyped, Requests
    <3> QED
      BY <2>2, <3>1, <3>2
  <2> QED
    BY <1>a, <2>1, <2>3
<1>5. ASSUME NEW h \in Handlers, DeleteLookup(h)
      PROVE  AnswerInv'
  <2>1. db' = db /\ hpc[h] = "keyMayExist"
    BY <1>5 DEF DeleteLookup
  <2>2. CASE Answer(h, "k404NotFound")
    BY <1>a, <2>1, <2>2
  <2>3. CASE Proceed(h, "delete", req[h], "k204NoContent")
    BY <1>2, <2>1, <2>3 DEF Proceed
  <2> QED
    BY <1>5, <2>2, <2>3 DEF DeleteLookup
<1>6. ASSUME NEW k \in Keys, RemoveStaleDoc(k)
      PROVE  AnswerInv'
  <2>1. UNCHANGED handlerVars /\ (db' = db \/ db' = [db EXCEPT ![k] = NoDoc])
    BY <1>6 DEF RemoveStaleDoc
  <2>2. \A j \in Keys : db[j] = NoDoc => db'[j] = NoDoc
    BY <2>1
  <2>3. \A h \in Handlers : hpc[h] # "idle" => req[h].fname \in Keys
    BY DEF RequestsTyped, Requests
  <2> QED
    BY <2>1, <2>2, <2>3 DEF handlerVars, AnswerInv, RequestsAreSerial, StatusStillTrue
<1>7. CASE ReadDocs \/ Publish \/ WireController \/ SetInitialized \/ Sleep \/ Restart
             \/ UNCHANGED vars
  <2>1. UNCHANGED <<db, handlerVars>>
    BY <1>7 DEF ReadDocs, Publish, WireController, SetInitialized, Sleep, Restart, handlerVars,
                vars
  <2> QED
    BY <2>1 DEF handlerVars, AnswerInv, RequestsAreSerial, StatusStillTrue
<1>8. CASE ClusterThrows \/ Crash
  BY <1>8 DEF ClusterThrows, Crash, ProcessStart, AnswerInv, RequestsAreSerial, StatusStillTrue
<1> QED
  BY <1>1, <1>3, <1>4, <1>5, <1>6, <1>7, <1>8 DEF Next, ClusteringStep, HandlerStep

\* Every answer, given at any step of any thread, is a true one.
LEMMA AnswersOfSteps ==
    ASSUME SerialClients, TypeInv, AnswerInv, [Next]_vars, NEW h \in Handlers
    PROVE  AnswerIsTrue(h)
<1> USE DEF TypeInv, TypeOK
<1>1. ASSUME NEW g \in Handlers, ClientRequest(g)
      PROVE  AnswerIsTrue(h)
  BY <1>1, ArrivalEffect DEF AnswerIsTrue
<1>2. ASSUME NEW g \in Handlers, HandlerStep(g), g # h
      PROVE  AnswerIsTrue(h)
  <2>1. hpc'[h] = hpc[h]
    <3>1. \/ \E status : Answer(g, status)
          \/ \E pc, r, status : Proceed(g, pc, r, status)
      <4>1. CASE GetCode(g)
        BY <4>1 DEF GetCode
      <4>2. CASE IndexDbDoc(g) \/ DeleteFromDb(g)
        BY <4>2 DEF IndexDbDoc, DeleteFromDb
      <4>3. CASE DeleteLookup(g)
        BY <4>3 DEF DeleteLookup
      <4> QED
        BY <1>2, <4>1, <4>2, <4>3 DEF HandlerStep
    <3> QED
      BY <1>2, <3>1 DEF Answer, Proceed
  <2> QED
    BY <2>1 DEF AnswerIsTrue
<1>3. CASE GetCode(h)
  <2>1. CASE Answer(h, "k200OK")
    BY <2>1 DEF Answer, AnswerIsTrue
  <2>2. CASE \E r, status : Proceed(h, "indexDbDoc", r, status)
    BY <2>2 DEF Proceed, AnswerIsTrue
  <2> QED
    BY <1>3, <2>1, <2>2 DEF GetCode
<1>4. CASE IndexDbDoc(h)
  <2>1. /\ hpc[h] = "indexDbDoc"
        /\ req[h].fname \in Keys
        /\ req[h].dbDoc \in AnnotatedDocument
    BY <1>4 DEF IndexDbDoc, RequestsTyped, Requests
  <2>2. ToProto(req[h].dbDoc) # NoDoc
    BY <2>1, ToProtoTyped, NoDocIsNoDocument
  <2>3. CASE db' = [db EXCEPT ![req[h].fname] = ToProto(req[h].dbDoc)] /\ Answer(h, code[h])
    <3>1. code'[h] = code[h] /\ db'[req[h].fname] # NoDoc
      BY <2>1, <2>2, <2>3 DEF Answer
    <3>2. /\ code[h] \in {"k200OK", "k201Created", "k204NoContent"}
          /\ code[h] = "k201Created" => db[req[h].fname] = NoDoc
      BY <2>1 DEF AnswerInv, StatusStillTrue
    <3> QED
      BY <3>1, <3>2 DEF AnswerIsTrue
  <2>4. CASE db' = db /\ Answer(h, "k500InternalServerError")
    BY <2>4 DEF Answer, AnswerIsTrue
  <2> QED
    BY <1>4, <2>3, <2>4 DEF IndexDbDoc
<1>5. CASE DeleteLookup(h)
  <2>1. PICK mayExist \in KeyMayExist(req[h].fname) :
          IF mayExist
          THEN Proceed(h, "delete", req[h], "k204NoContent")
          ELSE Answer(h, "k404NotFound")
    BY <1>5 DEF DeleteLookup
  <2>2. CASE mayExist
    BY <2>1, <2>2 DEF Proceed, AnswerIsTrue
  <2>3. CASE ~mayExist
    <3>1. db[req[h].fname] = NoDoc
      BY <2>3 DEF KeyMayExist
    <3>2. code'[h] = "k404NotFound"
      BY <2>1, <2>3 DEF Answer
    <3> QED
      BY <3>1, <3>2 DEF AnswerIsTrue
  <2> QED
    BY <2>2, <2>3
<1>6. CASE DeleteFromDb(h)
  <2>1. code[h] = "k204NoContent"
    BY <1>6 DEF DeleteFromDb, AnswerInv, StatusStillTrue
  <2>2. CASE Answer(h, code[h])
    BY <2>1, <2>2 DEF Answer, AnswerIsTrue
  <2>3. CASE db' = db /\ Answer(h, "k500InternalServerError")
    BY <2>3 DEF Answer, AnswerIsTrue
  <2> QED
    BY <1>6, <2>2, <2>3 DEF DeleteFromDb
<1>7. CASE ReadDocs \/ (\E k \in Keys : RemoveStaleDoc(k)) \/ Publish \/ WireController
             \/ SetInitialized \/ Sleep \/ Restart \/ UNCHANGED vars
  BY <1>7, OthersDoNotAnswer
  DEF ReadDocs, RemoveStaleDoc, Publish, WireController, SetInitialized, Sleep, Restart,
      handlerVars, vars
<1>8. CASE ClusterThrows \/ Crash
  BY <1>8, OthersDoNotAnswer DEF ClusterThrows, Crash
<1> QED
  BY <1>1, <1>2, <1>3, <1>4, <1>5, <1>6, <1>7, <1>8 DEF Next, ClusteringStep, HandlerStep

\* With one request on a file name at a time, 201, 404 and 500 mean what they
\* say, whatever the clustering thread deletes meanwhile, whenever the bloom
\* filters err, a write fails or the process dies.
THEOREM AnswersTellTheTruth ==
    ASSUME SerialClients
    PROVE  Spec => AnswersAreTrue
<1>1. Init => AnswerInv
  BY DEF Init, AnswerInv, RequestsAreSerial, StatusStillTrue
<1>2. TypeInv /\ AnswerInv /\ [Next]_vars => [\A h \in Handlers : AnswerIsTrue(h)]_vars
  BY AnswersOfSteps
<1>3. Spec => [][\A h \in Handlers : AnswerIsTrue(h)]_vars
  BY <1>1, <1>2, TypeInvInit, TypeInvNext, AnswerInvNext, PTL DEF Spec
<1> QED
  BY <1>3 DEF AnswersAreTrue, AnswerIsTrue
=============================================================================
