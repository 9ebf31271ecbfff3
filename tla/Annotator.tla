----------------------------- MODULE Annotator -----------------------------
(***************************************************************************)
(* TAnnotator for one document (src/src/annotator.cpp): from the body of a *)
(* request to an annotated document.  The fastText models are external:    *)
(* what they answer about a text is part of the text's description here.   *)
(***************************************************************************)
EXTENDS Documents

CONSTANTS
    Mode,                \* the running mode of the program
    CategoryDetectors,   \* the languages with a category model
    Embedders            \* the configured <<language, embedding key>> pairs

ASSUME AnnotatorAssumption ==
    /\ CategoryDetectors \subseteq Languages
    /\ Embedders \subseteq Languages \X EmbeddingKeys

\* A request body: whether it is an article tinyxml2 and FromHtml accept, what
\* the models see in it, whether its text reaches min_text_length, its date.
Body ==
    [parses : BOOLEAN, detectedLanguage : Languages, detectedCategory : Categories,
     longEnough : BOOLEAN, FetchTime : Nat]

AnnotateDocument(body) ==
    LET annotated == Mode # "languages" /\ body.longEnough
    IN  [Language   |-> body.detectedLanguage,
         Category   |-> IF annotated /\ body.detectedLanguage \in CategoryDetectors
                        THEN body.detectedCategory
                        ELSE "NC_UNDEFINED",
         Embeddings |-> {key \in EmbeddingKeys :
                            annotated /\ <<body.detectedLanguage, key>> \in Embedders},
         FetchTime  |-> body.FetchTime,
         Ttl        |-> 0]

\* The document of a request, or nothing when the body does not parse.
ParseDbDocFromReq(body) == IF body.parses THEN {AnnotateDocument(body)} ELSE {}

\* The document of a request with the ttl of its header.
WithTtl(doc, ttl) == [doc EXCEPT !.Ttl = ttl]
=============================================================================
