----------------------------- MODULE NewsStore -----------------------------
(***************************************************************************)
(* What the server promises its clients, without its handlers' steps, its  *)
(* clustering thread or any clock of its own.  A request to write or erase *)
(* a document takes effect at most once, in one step, between being asked  *)
(* and being answered.  The view is always the live part of one            *)
(* instantaneous snapshot of the store.  Nothing but a request, or being   *)
(* outdated in a snapshot, ever removes a document; a document is outdated *)
(* in a snapshot when another one there was fetched after it expired.      *)
(***************************************************************************)
EXTENDS Documents

CONSTANTS
    Keys,        \* the file names
    Clients,     \* who sends requests, one at a time each
    Stored,      \* the documents a client can store
    Shown,       \* the documents a view may show: those in a clustered language
    NoDoc,       \* the absence of a document
    Nothing      \* no request; no view

VARIABLES
    store,       \* the documents, by file name
    asked,       \* each client's request that has had no effect yet
    snapshot,    \* the copy the next view is made from
    view         \* what clients are shown

storeVars == <<store, asked, snapshot, view>>

\* Erasing a document is writing NoDoc.
Request == [key : Keys, value : Stored \cup {NoDoc}]

NoDocs == [k \in Keys |-> NoDoc]

NoRequests == [c \in Clients |-> Nothing]

\* s[k] expired before some document of s was fetched.
Outdated(s, k) ==
    /\ s[k] # NoDoc
    /\ \E j \in Keys : s[j] # NoDoc /\ IsStale(s[k], s[j].FetchTime)

\* The documents of s worth showing.
Live(s) == [k \in Keys |-> IF Outdated(s, k) \/ s[k] \notin Shown THEN NoDoc ELSE s[k]]

StoreInit ==
    /\ store \in [Keys -> Stored \cup {NoDoc}]
    /\ asked = NoRequests
    /\ snapshot = NoDocs
    /\ view = Nothing

Ask(c) ==
    /\ asked[c] = Nothing
    /\ \E r \in Request : asked' = [asked EXCEPT ![c] = r]
    /\ UNCHANGED <<store, snapshot, view>>

Apply(c) ==
    /\ asked[c] # Nothing
    /\ store' = [store EXCEPT ![asked[c].key] = asked[c].value]
    /\ asked' = [asked EXCEPT ![c] = Nothing]
    /\ UNCHANGED <<snapshot, view>>

Decline(c) ==
    /\ asked[c] # Nothing
    /\ asked' = [asked EXCEPT ![c] = Nothing]
    /\ UNCHANGED <<store, snapshot, view>>

TakeSnapshot ==
    /\ snapshot' = store
    /\ UNCHANGED <<store, asked, view>>

\* Eviction goes by the snapshot: it may hit a younger version of the document.
Evict(k) ==
    /\ Outdated(snapshot, k)
    /\ store' = [store EXCEPT ![k] = NoDoc]
    /\ UNCHANGED <<asked, snapshot, view>>

PublishView ==
    /\ view' = Live(snapshot)
    /\ snapshot' = NoDocs
    /\ UNCHANGED <<store, asked>>

\* A crash loses everything but the store.
Forget ==
    /\ asked' = NoRequests
    /\ snapshot' = NoDocs
    /\ view' = Nothing
    /\ UNCHANGED store

StoreNext ==
    \/ \E c \in Clients : Ask(c) \/ Apply(c) \/ Decline(c)
    \/ TakeSnapshot
    \/ \E k \in Keys : Evict(k)
    \/ PublishView
    \/ Forget

StoreSpec == StoreInit /\ [][StoreNext]_storeVars
=============================================================================
