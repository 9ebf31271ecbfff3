------------------------------- MODULE Intake -------------------------------
(***************************************************************************)
(* One page on its way to an annotated document: TDocument::FromHtml       *)
(* (document.cpp) takes it apart, DetectLanguage (detect.cpp) looks at the *)
(* bytes of its title, AnnotateDocument (annotator.cpp) goes on from       *)
(* there.  tinyxml2 and the fastText models are external: a page is its    *)
(* elements and attributes, and what the models answer about it.           *)
(***************************************************************************)
EXTENDS Annotator, Sequences, FiniteSets

CONSTANTS
    Pages,           \* the pages to consider
    Half,            \* 2^63: half the range of a time_t
    MaxZone,         \* 99:99 in seconds
    MinTextLength,   \* min_text_length
    ComputeNasty,    \* compute_nasty
    MinTitleSize     \* the shortest title that is not nasty, by language

\* A date: whether DateToTimestamp's expression matches it, what timegm makes of
\* it without its zone, and the zone in seconds.  The year has four digits.
Date ==
    [matches : BOOLEAN, local : MaxZone - Half .. Half - MaxZone - 1, sign : {"+", "-"},
     zone : 0 .. MaxZone]

Properties ==
    {"og:title", "og:url", "og:site_name", "og:description", "article:published_time", "other"}

\* A meta element; complete if it has both attributes.
Meta == [property : Properties, complete : BOOLEAN, content : Seq(0 .. 255), date : Date]

\* The first of the elements that it lacks, the paragraphs with their sizes, what
\* its address has of a datetime and an author.
Page ==
    [lacks : {"nothing", "html", "head", "body", "article"}, metas : Seq(Meta),
     paragraphs : Seq(Nat), dated : BOOLEAN, datetime : Date,
     author : {"none", "named", "textless"},
     label : Languages, probability : {"below 0.4", "below 0.6", "high"}, category : Categories]

ASSUME IntakeAssumption ==
    /\ Pages \subseteq Page
    /\ Half \in Nat \ {0} /\ MaxZone \in 0 .. Half - 1 /\ MinTextLength \in Nat
    /\ ComputeNasty \in BOOLEAN
    /\ MinTitleSize \in [{"LN_RU", "LN_EN"} -> Nat \ {0}]

VARIABLES
    page,
    pc,
    element,              \* the element at hand, of the metas or the paragraphs
    doc,                  \* the TDocument
    i, realSize, badSymb, \* of TooManyUnknownSymbols
    language,
    dbDocs                \* the TDbDocument, when there is one

scanVars == <<i, realSize, badSymb>>
vars == <<page, pc, element, doc, scanVars, language, dbDocs>>

-----------------------------------------------------------------------------
\* The property each text of a document is read from.
TextProperty ==
    [Title |-> "og:title", Url |-> "og:url", SiteName |-> "og:site_name",
     Description |-> "og:description"]

Fields == DOMAIN TextProperty

EmptyDocument ==
    [texts |-> [field \in Fields |-> << >>], FetchTime |-> 0, PubTime |-> 0, textSize |-> 0]

Title == doc.texts.Title

\* Mutated form: the sum is not turned back into a signed number.
DateToTimestampUnsigned(date) ==
    (IF date.sign = "+" THEN date.local - date.zone ELSE date.local + date.zone) % (2 * Half)

\* The zone is unsigned, so the sum is, too, until it is a time_t again.
DateToTimestamp(date) ==
    LET unsigned == (IF date.sign = "+" THEN date.local - date.zone
                                        ELSE date.local + date.zone) % (2 * Half)
        timestamp == IF unsigned < Half THEN unsigned ELSE unsigned - 2 * Half
    IN  IF timestamp > 0 THEN timestamp ELSE 0

Init ==
    /\ page \in Pages
    /\ pc = "html"
    /\ element = 1
    /\ doc = EmptyDocument
    /\ i = 0 /\ realSize = 0 /\ badSymb = 0
    /\ language = "LN_UNDEFINED"
    /\ dbDocs = {}

-----------------------------------------------------------------------------
\* An exception, which ParseHtml catches: there is no document.
Throw ==
    /\ pc' = "bad"
    /\ UNCHANGED <<page, element, doc, scanVars, language, dbDocs>>

FindMetas ==
    /\ pc = "html"
    /\ IF page.lacks \in {"html", "head"} \/ page.metas = << >>
       THEN Throw
       ELSE /\ pc' = "metas"
            /\ UNCHANGED <<page, element, doc, scanVars, language, dbDocs>>

\* Of several elements with one property, the last counts.
ReadMeta ==
    /\ pc = "metas"
    /\ element <= Len(page.metas)
    /\ LET meta == page.metas[element]
           published == meta.complete /\ meta.property = "article:published_time"
       IN  IF published /\ ~meta.date.matches
           THEN Throw
           ELSE /\ doc' = [doc EXCEPT
                      !.texts = [field \in Fields |->
                          IF meta.complete /\ meta.property = TextProperty[field]
                          THEN meta.content ELSE doc.texts[field]],
                      !.FetchTime = IF published THEN DateToTimestamp(meta.date) ELSE @]
                /\ element' = element + 1
                /\ UNCHANGED <<page, pc, scanVars, language, dbDocs>>

FindArticle ==
    /\ pc = "metas"
    /\ element > Len(page.metas)
    /\ IF page.lacks # "nothing"
       THEN Throw
       ELSE /\ pc' = "paragraphs"
            /\ element' = 1
            /\ UNCHANGED <<page, doc, scanVars, language, dbDocs>>

\* Every paragraph ends with a line feed, and no limit of words is ever set.
ReadParagraph ==
    /\ pc = "paragraphs"
    /\ element <= Len(page.paragraphs)
    /\ doc' = [doc EXCEPT !.textSize = @ + page.paragraphs[element] + 1]
    /\ element' = element + 1
    /\ UNCHANGED <<page, pc, scanVars, language, dbDocs>>

\* An author element without text at its start has no GetText: the assignment
\* of a null pointer to a string is undefined, in practice the process ends.
ReadAddress ==
    /\ pc = "paragraphs"
    /\ element > Len(page.paragraphs)
    /\ IF page.dated /\ ~page.datetime.matches
       THEN Throw
       ELSE /\ doc' = [doc EXCEPT !.PubTime =
                  IF page.dated THEN DateToTimestamp(page.datetime) ELSE @]
            /\ pc' = IF page.author = "textless" THEN "dead" ELSE "detect"
            /\ UNCHANGED <<page, element, scanVars, language, dbDocs>>

-----------------------------------------------------------------------------
\* Below a probability of 0.4 there is no prediction.
Predict ==
    /\ pc = "detect"
    /\ pc' = IF page.probability = "below 0.4" THEN "annotate" ELSE "scan"
    /\ UNCHANGED <<page, element, doc, scanVars, language, dbDocs>>

\* Mutated form: the scan does not move on from an ASCII symbol.
WidthAsciiForgotten(sym) == IF sym <= 127 THEN 0 ELSE IF sym <= 239 THEN 3 ELSE 4

\* How far the scan moves on from a byte that starts no symbol of two bytes.
Width(sym) == IF sym <= 127 THEN 1 ELSE IF sym <= 239 THEN 3 ELSE 4

\* Mutated form: the second byte is not looked at.
IsRussianByFirst(sym, sym2) == sym \in {208, 209}

IsRussian(sym, sym2) == (sym = 208 /\ sym2 >= 144) \/ (sym = 209 /\ sym2 <= 143)

\* One round of the loop; the last byte may be one of two that has no second.
ScanSymbol ==
    /\ pc = "scan"
    /\ i < Len(Title)
    /\ LET sym == Title[i + 1]
           mayBeRussian == sym \in 128 .. 219
           cut == mayBeRussian /\ i + 1 >= Len(Title)
           russian == mayBeRussian /\ ~cut /\ IsRussian(sym, Title[i + 2])
       IN  /\ i' = i + IF russian THEN 2 ELSE IF mayBeRussian THEN 1 ELSE Width(sym)
           /\ realSize' = IF cut THEN realSize ELSE realSize + 1
           /\ badSymb' = IF cut \/ russian \/ sym <= 127 THEN badSymb ELSE badSymb + 1
    /\ UNCHANGED <<page, pc, element, doc, language, dbDocs>>

TooManyUnknownSymbols == badSymb * 2 > realSize

DetectLanguage ==
    /\ pc = "scan"
    /\ i >= Len(Title)
    /\ language' =
          IF \/ TooManyUnknownSymbols
             \/ page.label = "LN_UNDEFINED"
             \/ page.label = "LN_RU" /\ page.probability # "high"
          THEN "LN_OTHER" ELSE page.label
    /\ pc' = "annotate"
    /\ UNCHANGED <<page, element, doc, scanVars, dbDocs>>

\* The bytes are ! ? . and space, a quotation mark, and half of one in UTF-8.  Of
\* an empty title, back() and front() are undefined, but the last line decides.
ComputeDocumentNasty ==
    \/ language \in DOMAIN MinTitleSize /\ Len(Title) < MinTitleSize[language]
    \/ Title # << >> /\ Title[Len(Title)] \in {33, 63, 46, 32}
    \/ Title # << >> /\ Title[1] \in {34, 171}
    \/ Cardinality({k \in DOMAIN Title : Title[k] = 32}) < 2

Annotate ==
    /\ pc = "annotate"
    /\ LET longEnough == doc.textSize >= MinTextLength
           body == [parses |-> TRUE, detectedLanguage |-> language,
                    detectedCategory |-> page.category, longEnough |-> longEnough,
                    FetchTime |-> doc.FetchTime]
       IN  dbDocs' = {[annotated |-> AnnotateDocument(body),
                       Nasty |-> /\ Mode # "languages" /\ longEnough /\ ComputeNasty
                                 /\ ComputeDocumentNasty]}
    /\ pc' = "annotated"
    /\ UNCHANGED <<page, element, doc, scanVars, language>>

Next ==
    \/ FindMetas \/ ReadMeta \/ FindArticle \/ ReadParagraph \/ ReadAddress
    \/ Predict \/ ScanSymbol \/ DetectLanguage \/ Annotate

Spec == Init /\ [][Next]_vars

-----------------------------------------------------------------------------
(***************************************************************************)
(* Properties.                                                             *)
(***************************************************************************)

Parsed == {"detect", "scan", "annotate", "annotated"}

\* The type invariant.
TypeOK ==
    /\ page \in Page
    /\ pc \in {"html", "metas", "paragraphs", "bad", "dead"} \cup Parsed
    /\ element \in 1 .. Len(IF pc = "metas" THEN page.metas ELSE page.paragraphs) + 1
         \/ pc \in {"bad", "html"}
    /\ doc \in [texts : [Fields -> Seq(0 .. 255)], FetchTime : 0 .. Half - 1,
                PubTime : 0 .. Half - 1, textSize : Nat]
    /\ i \in 0 .. Len(Title) + 3
    /\ realSize \in 0 .. i /\ badSymb \in 0 .. realSize
    /\ language \in Languages
    /\ dbDocs \subseteq [annotated : AnnotatedDocument, Nasty : BOOLEAN]

\* The moment a date names, in seconds since 1970, where earlier ones count as 0.
Moment(date) ==
    LET utc == IF date.sign = "+" THEN date.local - date.zone ELSE date.local + date.zone
    IN  IF utc > 0 THEN utc ELSE 0

\* The elements a value is read from, and the one of them that counts.
MetasOf(property) ==
    {k \in DOMAIN page.metas : page.metas[k].complete /\ page.metas[k].property = property}

IsLastOf(k, property) == k \in MetasOf(property) /\ \A l \in MetasOf(property) : l <= k

HasBadDate ==
    \/ \E k \in MetasOf("article:published_time") : ~page.metas[k].date.matches
    \/ page.dated /\ ~page.datetime.matches

\* However its elements are ordered and repeated, a page with everything it needs
\* is read, and what it is read as is what the last element of each property and
\* the address say, dates to the second in every zone; any other page is dropped.
ParsedIsPage ==
    /\ pc = "bad" => page.lacks # "nothing" \/ page.metas = << >> \/ HasBadDate
    /\ pc \in Parsed =>
          /\ page.lacks = "nothing" /\ page.metas # << >> /\ ~HasBadDate
          /\ \A field \in Fields :
                \/ MetasOf(TextProperty[field]) = {} /\ doc.texts[field] = << >>
                \/ \E k \in DOMAIN page.metas :
                      /\ IsLastOf(k, TextProperty[field])
                      /\ doc.texts[field] = page.metas[k].content
          /\ \/ MetasOf("article:published_time") = {} /\ doc.FetchTime = 0
             \/ \E k \in DOMAIN page.metas :
                   /\ IsLastOf(k, "article:published_time")
                   /\ doc.FetchTime = Moment(page.metas[k].date)
          /\ doc.PubTime = IF page.dated THEN Moment(page.datetime) ELSE 0

\* The symbols of a title, by their first bytes, and those among them that are
\* neither ASCII nor, from U+0410 to U+044F, Russian.
Symbols == {k \in DOMAIN Title : Title[k] \notin 128 .. 191}

CodePoint(k) == (Title[k] - 192) * 64 + Title[k + 1] - 128

UnknownSymbols ==
    {k \in Symbols : Title[k] > 127 /\ ~(Title[k] \in 192 .. 223 /\ CodePoint(k) \in 1040 .. 1103)}

\* A title is UTF-8 if its continuation bytes are those its symbols need.
SymbolSize(byte) ==
    IF byte <= 127 THEN 1 ELSE IF byte <= 223 THEN 2 ELSE IF byte <= 239 THEN 3 ELSE 4

Continuation(k) == k + 1 .. k + SymbolSize(Title[k]) - 1

IsUtf8 == DOMAIN Title \ Symbols = UNION {Continuation(k) : k \in Symbols}

\* The scan counts a symbol of two bytes that it does not know once or twice, so
\* what it decides is only an approximation; how good a one: it never lets a title
\* pass that is mostly unknown, nor rejects one where a third or less is unknown.
\* Titles with one of U+0700 to U+07FF, where the scan loses its place, are left out.
RejectionIsAboutUnknowns ==
    /\ pc = "annotate" /\ page.probability # "below 0.4"
    /\ IsUtf8 /\ \A k \in DOMAIN Title : Title[k] \notin 220 .. 223
    => LET unknown == Cardinality(UnknownSymbols)
           all == Cardinality(Symbols)
       IN  /\ 2 * unknown > all => language = "LN_OTHER"
           /\ /\ page.label # "LN_UNDEFINED"
              /\ page.label = "LN_RU" => page.probability = "high"
              /\ 3 * unknown <= all
              => language = page.label

\* The comment of nasty.cpp: a title that begins with a quotation mark, the
\* straight or the Russian one, which is two bytes in UTF-8, is nasty.
QuotedTitlesAreNasty ==
    \A dbDoc \in dbDocs :
        /\ ComputeNasty /\ doc.textSize >= MinTextLength
        /\ \/ Title # << >> /\ Title[1] = 34
           \/ Len(Title) > 1 /\ Title[1] = 194 /\ Title[2] = 171
        => dbDoc.Nasty
=============================================================================
