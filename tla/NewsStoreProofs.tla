-------------------------- MODULE NewsStoreProofs --------------------------
(***************************************************************************)
(* The server implements the atomic store of NewsStore, for every value of *)
(* the constants.                                                          *)
(***************************************************************************)
EXTENDS NewsServerProofs

StorableContents == [Keys -> StorableDocs \cup {NoDoc}]

\* Everything that can be stored is a document.
LEMMA StorableTyped == StorableDocs \subseteq TDbDocument
<1>1. ASSUME NEW body \in Bodies, NEW header \in Headers
      PROVE  ToProto(WithTtl(AnnotateDocument(body), header.age)) \in TDbDocument
  <2>1. header.age \in Int
    BY ServerAssumption DEF CacheControl
  <2> QED
    BY <2>1, AnnotateTyped, WithTtlTyped, ToProtoTyped
<1> QED
  BY <1>1, ServerAssumption DEF StorableDocs

\* A ttl other than the one of no-cache is the age the header gives.
LEMMA RequestStorable ==
    ASSUME NEW body \in Bodies, NEW header \in Headers,
           NEW d \in ParseDbDocFromReq(body), NEW t \in ParseTtlHeader(header), t # NoCache
    PROVE  ToProto(WithTtl(d, t)) \in StorableDocs
<1>1. d = AnnotateDocument(body)
  BY DEF ParseDbDocFromReq
<1>2. t = header.age
  BY ServerAssumption DEF ParseTtlHeader, CacheControl
<1> QED
  BY <1>1, <1>2 DEF StorableDocs

(***************************************************************************)
(* What relates a handler's place to its request, and bounds the database  *)
(* by what can be stored.                                                  *)
(***************************************************************************)
RequestShape(pc, r) ==
    /\ pc = "indexDbDoc" => r.isIndexed
    /\ pc \in {"getCode", "indexDbDoc"} =>
          r.method # "Delete" /\ (r.isIndexed => ToProto(r.dbDoc) \in StorableDocs)
    /\ pc \in {"keyMayExist", "delete"} => r.method = "Delete"

StorableInv ==
    /\ \A h \in Handlers : hpc[h] # "idle" => RequestShape(hpc[h], req[h])
    /\ db \in StorableContents
    /\ snap \in StorableContents

\* What Answer does to the three variables of a handler, and to no other handler.
LEMMA AnswerShape ==
    ASSUME TypeInv, StorableInv, NEW h \in Handlers, NEW status, Answer(h, status)
    PROVE  \A g \in Handlers : hpc'[g] # "idle" => RequestShape(hpc'[g], req'[g])
BY DEF TypeInv, TypeOK, StorableInv, Answer

\* What Proceed does to the three variables of a handler, and to no other handler.
LEMMA ProceedShape ==
    ASSUME TypeInv, StorableInv, NEW h \in Handlers, NEW status, NEW pc, NEW r,
           RequestShape(pc, r), Proceed(h, pc, r, status)
    PROVE  \A g \in Handlers : hpc'[g] # "idle" => RequestShape(hpc'[g], req'[g])
BY DEF TypeInv, TypeOK, StorableInv, Proceed

\* Every step keeps the database and the requests within what clients can store.
LEMMA StorableNext == TypeInv /\ StorableInv /\ [Next]_vars => StorableInv'
<1> SUFFICES ASSUME TypeInv, StorableInv, [Next]_vars PROVE StorableInv'
  OBVIOUS
<1>a. UNCHANGED <<db, snap>> => db' \in StorableContents /\ snap' \in StorableContents
  BY DEF StorableInv
<1>b. UNCHANGED handlerVars =>
        \A g \in Handlers : hpc'[g] # "idle" => RequestShape(hpc'[g], req'[g])
  BY DEF StorableInv, handlerVars
<1>1. ASSUME NEW h \in Handlers, NEW fname \in Keys, NEW header \in Headers, NEW body \in Bodies,
             Put(h, fname, header, body)
      PROVE  StorableInv'
  <2>1. UNCHANGED <<db, snap>>
    BY <1>1 DEF Put, clusteringVars
  <2>2. ASSUME NEW t \in ParseTtlHeader(header) \ {NoCache}, NEW d \in ParseDbDocFromReq(body)
        PROVE  RequestShape("getCode", [method |-> "Put", fname |-> fname,
                                        dbDoc |-> WithTtl(d, t), isIndexed |-> TRUE])
    BY RequestStorable DEF RequestShape
  <2> QED
    BY <1>1, <1>a, <2>1, <2>2, AnswerShape, ProceedShape DEF Put, StorableInv
<1>2. ASSUME NEW h \in Handlers, NEW fname \in Keys, NEW header \in Headers, NEW body \in Bodies,
             Post(h, fname, header, body)
      PROVE  StorableInv'
  <2>1. UNCHANGED <<db, snap>>
    BY <1>2 DEF Post, clusteringVars
  <2>2. ASSUME NEW t \in ParseTtlHeader(header), NEW d \in ParseDbDocFromReq(body),
               NEW isIndexed \in BOOLEAN, isIndexed => t # NoCache
        PROVE  RequestShape("getCode", [method |-> "Post", fname |-> fname,
                                        dbDoc |-> IF isIndexed THEN WithTtl(d, t) ELSE d,
                                        isIndexed |-> isIndexed])
    BY <2>2, RequestStorable DEF RequestShape
  <2>3. \A d, t : (IsFullyIndexed(d) /\ t # NoCache) \in BOOLEAN
    BY DEF IsFullyIndexed
  <2> QED
    BY <1>2, <1>a, <2>1, <2>2, <2>3, AnswerShape, ProceedShape DEF Post, StorableInv
<1>3. ASSUME NEW h \in Handlers, GetCode(h)
      PROVE  StorableInv'
  <2>1. UNCHANGED <<db, snap>>
    BY <1>3 DEF GetCode, clusteringVars
  <2>2. req[h].isIndexed => RequestShape("indexDbDoc", req[h])
    BY <1>3 DEF GetCode, StorableInv, RequestShape
  <2> QED
    BY <1>3, <1>a, <2>1, <2>2, AnswerShape, ProceedShape DEF GetCode, StorableInv
<1>4. ASSUME NEW h \in Handlers, IndexDbDoc(h)
      PROVE  StorableInv'
  <2>1. ToProto(req[h].dbDoc) \in StorableDocs
    BY <1>4 DEF IndexDbDoc, StorableInv, RequestShape
  <2>2. db' \in StorableContents /\ UNCHANGED snap
    BY <1>4, <2>1 DEF IndexDbDoc, StorableInv, StorableContents, clusteringVars
  <2> QED
    BY <1>4, <2>2, AnswerShape DEF IndexDbDoc, StorableInv
<1>5. ASSUME NEW h \in Handlers, NEW fname \in Keys, Delete(h, fname)
      PROVE  StorableInv'
  <2>1. UNCHANGED <<db, snap>>
    BY <1>5 DEF Delete, clusteringVars
  <2>2. RequestShape("keyMayExist", [method |-> "Delete", fname |-> fname, dbDoc |-> NoDoc,
                                     isIndexed |-> FALSE])
    BY DEF RequestShape
  <2> QED
    BY <1>5, <1>a, <2>1, <2>2, AnswerShape, ProceedShape DEF Delete, StorableInv
<1>6. ASSUME NEW h \in Handlers, DeleteLookup(h)
      PROVE  StorableInv'
  <2>1. UNCHANGED <<db, snap>>
    BY <1>6 DEF DeleteLookup, clusteringVars
  <2>2. RequestShape("delete", req[h])
    BY <1>6 DEF DeleteLookup, StorableInv, RequestShape
  <2> QED
    BY <1>6, <1>a, <2>1, <2>2, AnswerShape, ProceedShape DEF DeleteLookup, StorableInv
<1>7. ASSUME NEW h \in Handlers, DeleteFromDb(h)
      PROVE  StorableInv'
  <2>1. db' \in StorableContents /\ UNCHANGED snap
    BY <1>7 DEF DeleteFromDb, StorableInv, StorableContents, clusteringVars
  <2> QED
    BY <1>7, <2>1, AnswerShape DEF DeleteFromDb, StorableInv
<1>8. ASSUME NEW h \in Handlers,
             Get(h) \/ \E p \in BOOLEAN, lang \in Languages : Threads(h, p, lang)
      PROVE  StorableInv'
  BY <1>8, <1>a, AnswerShape DEF Get, Threads, clusteringVars, StorableInv
<1>9. ASSUME NEW k \in Keys, RemoveStaleDoc(k)
      PROVE  StorableInv'
  <2>1. db' \in StorableContents /\ UNCHANGED snap
    BY <1>9 DEF RemoveStaleDoc, StorableInv, StorableContents
  <2> QED
    BY <1>9, <1>b, <2>1 DEF RemoveStaleDoc, StorableInv
<1>10. CASE ReadDocs \/ Publish \/ WireController \/ SetInitialized \/ Sleep \/ Restart
              \/ UNCHANGED vars
  <2>1. db' \in StorableContents /\ snap' \in StorableContents
    BY <1>10 DEF ReadDocs, Publish, WireController, SetInitialized, Sleep, Restart, vars,
                 clusteringVars, StorableInv, StorableContents, Empty
  <2> QED
    BY <1>10, <1>b, <2>1 DEF ReadDocs, Publish, WireController, SetInitialized, Sleep, Restart,
                             vars, handlerVars, StorableInv
<1>11. CASE ClusterThrows \/ Crash
  BY <1>11 DEF ClusterThrows, Crash, ProcessStart, StorableInv, StorableContents, Empty
<1> QED
  BY <1>1, <1>2, <1>3, <1>4, <1>5, <1>6, <1>7, <1>8, <1>9, <1>10, <1>11
  DEF Next, ClusteringStep, ClientRequest, HandlerStep

-----------------------------------------------------------------------------
(***************************************************************************)
(* The mapping of a handler's state to what its client asked.              *)
(***************************************************************************)
AskedOf(pc, r) ==
    CASE pc = "idle" -> Null
      [] pc # "idle" /\ r.method = "Delete" -> [key |-> r.fname, value |-> NoDoc]
      [] pc # "idle" /\ r.method # "Delete"
            -> IF r.isIndexed THEN [key |-> r.fname, value |-> ToProto(r.dbDoc)] ELSE Null

\* The refinement mapping looks at each handler by itself.
LEMMA AskedPointwise == Asked = [h \in Handlers |-> AskedOf(hpc[h], req[h])]
BY DEF Asked, AskedOf

\* A step of one handler changes what that handler asks and nothing else.
LEMMA AnswerMapped ==
    ASSUME TypeInv, NEW h \in Handlers, NEW status, Answer(h, status)
    PROVE  Asked' = [Asked EXCEPT ![h] = Null]
BY AskedPointwise DEF Answer, AskedOf, TypeInv, TypeOK, Asked

\* A handler that goes on asks what its request asks; the others ask what they asked.
LEMMA ProceedMapped ==
    ASSUME TypeInv, NEW h \in Handlers, NEW status, NEW pc, NEW r, Proceed(h, pc, r, status)
    PROVE  Asked' = [Asked EXCEPT ![h] = AskedOf(pc, r)]
BY DEF Proceed, AskedOf, TypeInv, TypeOK, Asked

\* An idle handler asks nothing, a request being read is one of NewsStore's.
LEMMA AskedTyped ==
    ASSUME TypeInv, NEW r \in Requests, NEW pc, pc # "idle", RequestShape(pc, r),
           pc \in {"getCode", "indexDbDoc", "keyMayExist", "delete"}
    PROVE  AskedOf(pc, r) = Null \/ AskedOf(pc, r) \in Abstract!Request
<1>1. r.method = "Delete" => AskedOf(pc, r) = [key |-> r.fname, value |-> NoDoc]
  BY DEF AskedOf
<1>2. r.method # "Delete" /\ r.isIndexed
        => AskedOf(pc, r) = [key |-> r.fname, value |-> ToProto(r.dbDoc)]
  BY DEF AskedOf
<1>3. r.method # "Delete" /\ ~r.isIndexed => AskedOf(pc, r) = Null
  BY DEF AskedOf
<1>4. r.method # "Delete" /\ r.isIndexed => ToProto(r.dbDoc) \in StorableDocs
  BY DEF RequestShape
<1> QED
  BY <1>1, <1>2, <1>3, <1>4 DEF Abstract!Request, Requests

\* A request is not the null pointer.
LEMMA AskedIsNotNull == \A r \in Abstract!Request : r # Null
BY StorableTyped, ServerAssumption DEF Abstract!Request

\* A request reaching an idle handler is refused unseen or asked.
LEMMA ArrivalImplements ==
    ASSUME TypeInv, StorableInv, StorableInv', TypeInv', NEW h \in Handlers, hpc[h] = "idle",
           UNCHANGED <<db, snap, hot>>,
           \/ \E status : Answer(h, status)
           \/ \E status : \E pc \in HandlerStates \ {"idle"}, r \in Requests : Proceed(h, pc, r, status)
    PROVE  [Abstract!StoreNext]_(Abstract!storeVars)
<1>1. Asked[h] = Null
  BY DEF Asked
<1>2. CASE \E status : Answer(h, status)
  <2>1. Asked' = Asked
    BY <1>1, <1>2, AnswerMapped DEF Asked
  <2> QED
    BY <2>1 DEF Abstract!storeVars, View
<1>3. CASE \E status : \E pc \in HandlerStates \ {"idle"}, r \in Requests : Proceed(h, pc, r, status)
  <2>0. PICK status : \E pc \in HandlerStates \ {"idle"}, r \in Requests : Proceed(h, pc, r, status)
    BY <1>3
  <2>1. PICK pc \in HandlerStates \ {"idle"}, r \in Requests : Proceed(h, pc, r, status)
    BY <2>0
  <2>2. hpc'[h] = pc /\ req'[h] = r
    BY <2>1 DEF Proceed, TypeInv, TypeOK
  <2>3. RequestShape(pc, r)
    BY <2>2 DEF StorableInv
  <2>4. AskedOf(pc, r) = Null \/ AskedOf(pc, r) \in Abstract!Request
    BY <2>3, AskedTyped DEF HandlerStates
  <2>5. Asked' = [Asked EXCEPT ![h] = AskedOf(pc, r)]
    BY <2>1, ProceedMapped
  <2>6. CASE AskedOf(pc, r) = Null
    <3>1. Asked' = Asked
      BY <1>1, <2>5, <2>6 DEF Asked
    <3> QED
      BY <3>1 DEF Abstract!storeVars, View
  <2>7. CASE AskedOf(pc, r) \in Abstract!Request
    BY <1>1, <2>5, <2>7 DEF Abstract!Ask, Abstract!StoreNext, View
  <2> QED
    BY <2>4, <2>6, <2>7
<1> QED
  BY <1>2, <1>3

\* Looking the file name up does not change what is asked, unless it answers.
LEMMA LookupImplements ==
    ASSUME TypeInv, StorableInv, NEW h \in Handlers, GetCode(h) \/ DeleteLookup(h)
    PROVE  [Abstract!StoreNext]_(Abstract!storeVars)
<1>1. UNCHANGED <<db, snap, hot>>
  BY DEF GetCode, DeleteLookup, processVars, clusteringVars
<1>2. CASE \E status : \E pc \in HandlerStates \ {"idle"} : Proceed(h, pc, req[h], status)
  <2>1. hpc[h] # "idle"
    BY DEF GetCode, DeleteLookup
  <2>2. \A pc \in HandlerStates \ {"idle"} : AskedOf(pc, req[h]) = Asked[h]
    BY <2>1 DEF AskedOf, Asked
  <2>3. Asked' = [Asked EXCEPT ![h] = Asked[h]]
    BY <1>2, <2>2, ProceedMapped
  <2>4. Asked' = Asked
    BY <2>3 DEF Asked
  <2> QED
    BY <1>1, <2>4 DEF Abstract!storeVars, View
<1>3. CASE \E status : Answer(h, status)
  <2>1. Asked' = [Asked EXCEPT ![h] = Null]
    BY <1>3, AnswerMapped
  <2>2. CASE Asked[h] = Null
    <3>1. Asked' = Asked
      BY <2>1, <2>2 DEF Asked
    <3> QED
      BY <1>1, <3>1 DEF Abstract!storeVars, View
  <2>3. CASE Asked[h] # Null
    BY <1>1, <2>1, <2>3 DEF Abstract!Decline, Abstract!StoreNext, View
  <2> QED
    BY <2>2, <2>3
<1> QED
  BY <1>2, <1>3 DEF GetCode, DeleteLookup, HandlerStates

\* The write to the database is the effect of the request, the failed write its
\* refusal.
LEMMA WriteImplements ==
    ASSUME TypeInv, StorableInv, NEW h \in Handlers, IndexDbDoc(h) \/ DeleteFromDb(h)
    PROVE  [Abstract!StoreNext]_(Abstract!storeVars)
<1>1. hpc[h] \in {"indexDbDoc", "delete"} /\ req[h] \in Requests /\ RequestShape(hpc[h], req[h])
  BY DEF IndexDbDoc, DeleteFromDb, TypeInv, RequestsTyped, StorableInv
<1>2. UNCHANGED <<snap, hot>>
  BY DEF IndexDbDoc, DeleteFromDb, processVars, clusteringVars
<1>3. Asked' = [Asked EXCEPT ![h] = Null]
  BY AnswerMapped DEF IndexDbDoc, DeleteFromDb
<1>4. Asked[h] = AskedOf(hpc[h], req[h])
  BY AskedPointwise
<1>5. /\ hpc[h] = "indexDbDoc"
            => Asked[h] = [key |-> req[h].fname, value |-> ToProto(req[h].dbDoc)]
      /\ hpc[h] = "delete" => Asked[h] = [key |-> req[h].fname, value |-> NoDoc]
  BY <1>1, <1>4 DEF RequestShape, AskedOf
<1>6. Asked[h] # Null
  <2>1. AskedOf(hpc[h], req[h]) = Null \/ AskedOf(hpc[h], req[h]) \in Abstract!Request
    BY <1>1, AskedTyped
  <2>2. hpc[h] = "indexDbDoc" => ToProto(req[h].dbDoc) \in StorableDocs
    BY <1>1 DEF RequestShape
  <2>3. Asked[h] \in Abstract!Request
    BY <1>1, <1>5, <2>2 DEF Abstract!Request, Requests
  <2> QED
    BY <2>3, AskedIsNotNull
<1>7. CASE db' = [db EXCEPT ![Asked[h].key] = Asked[h].value]
  BY <1>2, <1>3, <1>6, <1>7 DEF Abstract!Apply, Abstract!StoreNext, View
<1>8. CASE UNCHANGED db
  BY <1>2, <1>3, <1>6, <1>8 DEF Abstract!Decline, Abstract!StoreNext, View
<1>9. db' = [db EXCEPT ![Asked[h].key] = Asked[h].value] \/ UNCHANGED db
  <2>1. CASE IndexDbDoc(h)
    BY <1>5, <2>1 DEF IndexDbDoc
  <2>2. CASE DeleteFromDb(h)
    BY <1>5, <2>2 DEF DeleteFromDb
  <2> QED
    BY <2>1, <2>2
<1> QED
  BY <1>7, <1>8, <1>9

\* Being stale at the newest fetch time of a snapshot is being outdated in it.
LEMMA StaleIsOutdated ==
    ASSUME NEW s \in Contents, NEW t \in Nat, IsMaxFetchTime(t, s), NEW k \in Keys
    PROVE  k \in StaleKeys(s, t) <=> Abstract!Outdated(s, k)
<1>1. CASE k \notin Present(s)
  BY <1>1 DEF StaleKeys, Present, Abstract!Outdated
<1>2. CASE k \in Present(s)
  <2>1. s[k].FetchTime \in Nat /\ s[k].Ttl \in Nat
    BY <1>2, PresentTyped
  <2>2. ASSUME k \in StaleKeys(s, t) PROVE Abstract!Outdated(s, k)
    <3>1. t \in FetchTimes(s)
      BY <2>1, <2>2 DEF IsMaxFetchTime, StaleKeys, IsStale
    <3> QED
      BY <1>2, <2>2, <3>1 DEF FetchTimes, StaleKeys, Present, IsStale, Abstract!Outdated,
                               Abstract!IsStale
  <2>3. ASSUME Abstract!Outdated(s, k) PROVE k \in StaleKeys(s, t)
    <3>1. PICK j \in Present(s) : IsStale(s[k], s[j].FetchTime)
      BY <2>3 DEF Abstract!Outdated, Present, IsStale, Abstract!IsStale
    <3>2. s[j].FetchTime \in Nat /\ s[j].FetchTime <= t
      BY PresentTyped DEF IsMaxFetchTime, FetchTimes
    <3>3. IsStale(s[k], t)
      BY <2>1, <3>1, <3>2 DEF IsStale
    <3> QED
      BY <1>2, <3>3 DEF StaleKeys
  <2> QED
    BY <2>2, <2>3
<1> QED
  BY <1>1, <1>2

\* The published documents are the live part of the snapshot.
LEMMA PublishImplements ==
    ASSUME TypeInv, RoundInv, StorableInv, Publish
    PROVE  Abstract!PublishView
<1>1. snap \in Contents /\ ts \in Nat /\ IsMaxFetchTime(ts, snap)
  BY DEF TypeInv, TypeOK, Contents, RoundInv, Publish
<1>2. View' = Clustered(Fresh(snap, ts))
  <2>1. hot' # Null
    BY PublishedTyped, ServerAssumption
  <2> QED
    BY <2>1, PublishedIndex DEF View
<1>3. ASSUME NEW k \in Keys
      PROVE  Clustered(Fresh(snap, ts))[k] = Abstract!Live(snap)[k]
  <2>1. snap[k] \in StorableDocs \cup {NoDoc}
    BY DEF StorableInv, StorableContents
  <2>2. k \in StaleKeys(snap, ts) <=> Abstract!Outdated(snap, k)
    BY <1>1, StaleIsOutdated
  <2>3. NoDoc \notin StorableDocs
    BY StorableTyped, NoDocIsNoDocument
  <2> QED
    BY <2>1, <2>2, <2>3 DEF Clustered, Fresh, Abstract!Live
<1>4. View' = Abstract!Live(snap)
  BY <1>2, <1>3 DEF Clustered, Abstract!Live
<1>5. UNCHANGED <<db, Asked>> /\ snap' = Abstract!NoDocs
  BY DEF Publish, handlerVars, Asked, Empty, Abstract!NoDocs
<1> QED
  BY <1>4, <1>5 DEF Abstract!PublishView

\* Whatever ends the process, the abstract store keeps its documents only.
LEMMA ProcessEndImplements ==
    ASSUME ClusterThrows \/ Crash
    PROVE  Abstract!Forget
BY DEF ClusterThrows, Crash, ProcessStart, Asked, View, Empty, Abstract!Forget,
       Abstract!NoRequests, Abstract!NoDocs

\* Every step of the server is a step of NewsStore or changes nothing it sees.
LEMMA StepImplements ==
    TypeInv /\ RoundInv /\ StorableInv /\ [Next]_vars
        => [Abstract!StoreNext]_(Abstract!storeVars)
<1> SUFFICES ASSUME TypeInv, RoundInv, StorableInv, [Next]_vars
             PROVE  [Abstract!StoreNext]_(Abstract!storeVars)
  OBVIOUS
<1>a. TypeInv' /\ StorableInv'
  BY TypeInvNext, StorableNext
<1>1. ASSUME NEW h \in Handlers, ClientRequest(h)
      PROVE  [Abstract!StoreNext]_(Abstract!storeVars)
  <2>1. hpc[h] = "idle" /\ UNCHANGED <<db, snap, hot>>
    BY <1>1 DEF ClientRequest, Put, Post, Delete, Get, Threads, Arrives, processVars,
                clusteringVars
  <2>2. \/ \E status : Answer(h, status)
        \/ \E pc \in HandlerStates \ {"idle"} : \E r, status : Proceed(h, pc, r, status)
    <3>1. ASSUME NEW fname \in Keys, NEW header \in Headers, NEW body \in Bodies,
                 Put(h, fname, header, body)
          PROVE  \/ \E status : Answer(h, status)
                 \/ \E r, status : Proceed(h, "getCode", r, status)
      BY <3>1, Zenon DEF Put
    <3>2. ASSUME NEW fname \in Keys, NEW header \in Headers, NEW body \in Bodies,
                 Post(h, fname, header, body)
          PROVE  \/ \E status : Answer(h, status)
                 \/ \E r, status : Proceed(h, "getCode", r, status)
      BY <3>2, Zenon DEF Post
    <3>3. ASSUME NEW fname \in Keys, Delete(h, fname)
          PROVE  \/ \E status : Answer(h, status)
                 \/ \E r, status : Proceed(h, "keyMayExist", r, status)
      BY <3>3, Zenon DEF Delete
    <3>4. ASSUME Get(h) \/ \E p \in BOOLEAN, lang \in Languages : Threads(h, p, lang)
          PROVE  \E status : Answer(h, status)
      BY <3>4, Zenon DEF Get, Threads
    <3>5. "getCode" \in HandlerStates \ {"idle"} /\ "keyMayExist" \in HandlerStates \ {"idle"}
      BY DEF HandlerStates
    <3> QED
      BY <1>1, <3>1, <3>2, <3>3, <3>4, <3>5 DEF ClientRequest
  <2>3. ASSUME NEW pc \in HandlerStates \ {"idle"}, NEW r, NEW status, Proceed(h, pc, r, status)
        PROVE  r \in Requests
    <3>1. hpc'[h] = pc /\ req'[h] = r
      BY <2>3 DEF Proceed, TypeInv, TypeOK
    <3> QED
      BY <1>a, <3>1 DEF TypeInv, RequestsTyped
  <2> QED
    BY <1>a, <2>1, <2>2, <2>3, ArrivalImplements
<1>2. ASSUME NEW h \in Handlers, HandlerStep(h)
      PROVE  [Abstract!StoreNext]_(Abstract!storeVars)
  BY <1>2, LookupImplements, WriteImplements DEF HandlerStep
<1>3. CASE ReadDocs
  BY <1>3 DEF ReadDocs, processVars, handlerVars, Asked, View, Abstract!TakeSnapshot,
              Abstract!StoreNext
<1>4. ASSUME NEW k \in Keys, RemoveStaleDoc(k)
      PROVE  [Abstract!StoreNext]_(Abstract!storeVars)
  <2>1. UNCHANGED <<snap, Asked, View>>
    BY <1>4 DEF RemoveStaleDoc, processVars, handlerVars, Asked, View
  <2>2. Abstract!Outdated(snap, k)
    BY <1>4, StaleIsOutdated DEF RemoveStaleDoc, RoundInv, TypeInv, TypeOK, Contents
  <2>3. CASE db' = [db EXCEPT ![k] = NoDoc]
    BY <2>1, <2>2, <2>3 DEF Abstract!Evict, Abstract!StoreNext
  <2>4. CASE UNCHANGED db
    BY <2>1, <2>4 DEF Abstract!storeVars
  <2> QED
    BY <1>4, <2>3, <2>4 DEF RemoveStaleDoc
<1>5. CASE Publish
  BY <1>5, PublishImplements DEF Abstract!StoreNext
<1>6. CASE ClusterThrows \/ Crash
  BY <1>6, ProcessEndImplements DEF Abstract!StoreNext
<1>7. CASE WireController \/ SetInitialized \/ Sleep \/ Restart \/ UNCHANGED vars
  <2>1. UNCHANGED <<db, snap, hot, hpc, req>>
    BY <1>7 DEF WireController, SetInitialized, Sleep, Restart, vars, processVars,
                clusteringVars, handlerVars
  <2> QED
    BY <2>1 DEF Asked, View, Abstract!storeVars
<1> QED
  BY <1>1, <1>2, <1>3, <1>4, <1>5, <1>6, <1>7 DEF Next, ClusteringStep

\* The server's initial states map to initial states of NewsStore.
LEMMA InitImplements == Init => StorableInv /\ RoundInv /\ Abstract!StoreInit
<1> SUFFICES ASSUME Init PROVE StorableInv /\ RoundInv /\ Abstract!StoreInit
  OBVIOUS
<1>1. db \in StorableContents /\ snap \in StorableContents
  BY DEF Init, StorableContents, StorableDocs, Empty
<1>2. StorableInv /\ RoundInv
  BY <1>1 DEF Init, StorableInv, RoundInv
<1>3. Abstract!StoreInit
  BY <1>1 DEF Init, StorableContents, Asked, View, Empty, Abstract!StoreInit,
              Abstract!NoRequests, Abstract!NoDocs
<1> QED
  BY <1>2, <1>3

\* The handlers, the clustering thread and the crashes, step by step, are an
\* atomic store with a view of the live part of one snapshot.
THEOREM ServerImplementsStore == Spec => ImplementsNewsStore
<1>1. TypeInv /\ StorableInv /\ [Next]_vars => StorableInv'
  BY StorableNext
<1> QED
  BY <1>1, InitImplements, TypeInvInit, TypeInvNext, RoundNext, StepImplements, PTL
  DEF Spec, ImplementsNewsStore, Abstract!StoreSpec
=============================================================================
