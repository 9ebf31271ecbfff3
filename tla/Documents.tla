----------------------------- MODULE Documents -----------------------------
(***************************************************************************)
(* The annotated document, src/src/db_document.h, and what survives of it  *)
(* when it is written to RocksDB and read back.                            *)
(*                                                                         *)
(* A document is abstracted to the fields the server and the clusterer     *)
(* branch on.  The text, the title and the links are payload.  An          *)
(* embedding is represented by its key alone: what the server can get      *)
(* wrong is that a key is missing, not the numbers stored under it.        *)
(***************************************************************************)
EXTENDS Integers

CONSTANT TtlModulus   \* 2^32: the width of the ttl field of the stored document

ASSUME TtlModulusAssumption == TtlModulus \in Nat \ {0}

Languages == {"LN_UNDEFINED", "LN_RU", "LN_EN", "LN_OTHER"}

Categories ==
    {"NC_UNDEFINED", "NC_ANY", "NC_SOCIETY", "NC_ECONOMY", "NC_TECHNOLOGY", "NC_SPORTS",
     "NC_ENTERTAINMENT", "NC_SCIENCE", "NC_OTHER", "NC_NOT_NEWS"}

EmbeddingKeys ==
    {"EK_UNDEFINED", "EK_FASTTEXT_CLASSIC", "EK_FASTTEXT_TITLE", "EK_FASTTEXT_TEXT", "EK_TFIDF"}

\* A document in memory.  Ttl is the value the header was parsed to; a negative
\* one is a huge uint64_t, which ToProto reduces to the same residue.
AnnotatedDocument ==
    [Language : Languages, Category : Categories, Embeddings : SUBSET EmbeddingKeys,
     FetchTime : Nat, Ttl : Int]

\* A document as the database holds it.
TDbDocument ==
    [Language : Languages, Category : Categories, Embeddings : SUBSET EmbeddingKeys,
     FetchTime : Nat, Ttl : 0 .. TtlModulus - 1]

IsNews(doc) == doc.Category \notin {"NC_NOT_NEWS", "NC_UNDEFINED"}

\* Mutated form: the category and the embeddings are not looked at.
IsFullyIndexedByLanguage(doc) == doc.Language # "LN_UNDEFINED"

IsFullyIndexed(doc) ==
    /\ doc.Language # "LN_UNDEFINED"
    /\ doc.Category # "NC_UNDEFINED"
    /\ doc.Embeddings # {}

\* Mutated form: a document is stale from the moment it expires.
IsStaleAtExpiry(doc, timestamp) == timestamp >= doc.FetchTime + doc.Ttl

\* FetchTime is at most the year 9999 (DateToTimestamp) and Ttl is below 2^32,
\* so the 64-bit sum does not wrap.
IsStale(doc, timestamp) == timestamp > doc.FetchTime + doc.Ttl

\* Mutated form: the stored field is as wide as the one in memory.
ToProtoWide(doc) == doc

\* The round trip through TDocumentProto: only the ttl is narrowed.
ToProto(doc) == [doc EXCEPT !.Ttl = @ % TtlModulus]

(***************************************************************************)
(* The Cache-Control header.  "max-age" stands for every value from whose  *)
(* ninth character std::stoi reads a number, "garbled" for every value it  *)
(* throws on.  An optional result is a set of at most one element.         *)
(***************************************************************************)
CacheControl == [directive : {"no-cache", "max-age", "garbled"}, age : Int]

NoCache == -1

ParseTtlHeader(value) ==
    CASE value.directive = "no-cache" -> {NoCache}
      [] value.directive = "max-age" -> {value.age}
      [] value.directive = "garbled" -> {}
=============================================================================
