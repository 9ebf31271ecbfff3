---------------------------- MODULE IntakeProofs ----------------------------
(***************************************************************************)
(* ParsedIsPage for every page and every width of a time_t, the types, and *)
(* what the scan of a title decides, for every title.                      *)
(*                                                                         *)
(* ReadSoFar says of the first n meta elements what ParsedIsPage says of   *)
(* all of them; the loop over the elements keeps it.  The scan counts the  *)
(* symbols it has passed, the unknown ones at least once and at most twice.*)
(***************************************************************************)
EXTENDS Intake, FiniteSetTheorems, SequenceTheorems, TLAPS

Document ==
    [texts : [Fields -> Seq(0 .. 255)], FetchTime : Nat, PubTime : Nat, textSize : Nat]

MetasUpTo(n, property) ==
    {k \in 1 .. n : page.metas[k].complete /\ page.metas[k].property = property}

\* What has been read of a property is in the last of its elements up to n.
IsLastUpTo(k, n, property) ==
    k \in MetasUpTo(n, property) /\ \A l \in MetasUpTo(n, property) : l <= k

TextSoFar(n, field) ==
    \/ MetasUpTo(n, TextProperty[field]) = {} /\ doc.texts[field] = << >>
    \/ \E k \in 1 .. n :
          /\ IsLastUpTo(k, n, TextProperty[field])
          /\ doc.texts[field] = page.metas[k].content

TimeSoFar(n) ==
    \/ MetasUpTo(n, "article:published_time") = {} /\ doc.FetchTime = 0
    \/ \E k \in 1 .. n :
          /\ IsLastUpTo(k, n, "article:published_time")
          /\ doc.FetchTime = Moment(page.metas[k].date)

ReadSoFar(n) ==
    /\ page.metas # << >>
    /\ \A k \in MetasUpTo(n, "article:published_time") : page.metas[k].date.matches
    /\ \A field \in Fields : TextSoFar(n, field)
    /\ TimeSoFar(n)

AddressRead ==
    /\ page.dated => page.datetime.matches
    /\ doc.PubTime = IF page.dated THEN Moment(page.datetime) ELSE 0

ReadInv ==
    /\ page \in Page
    /\ doc \in Document
    /\ element \in Nat \ {0}
    /\ pc = "html" => element = 1 /\ doc = EmptyDocument
    /\ pc = "metas" =>
          element <= Len(page.metas) + 1 /\ ReadSoFar(element - 1) /\ doc.PubTime = 0
    /\ pc = "paragraphs" =>
          page.lacks = "nothing" /\ ReadSoFar(Len(page.metas)) /\ doc.PubTime = 0
    /\ pc \in Parsed =>
          page.lacks = "nothing" /\ ReadSoFar(Len(page.metas)) /\ AddressRead
    /\ pc = "bad" => page.lacks # "nothing" \/ page.metas = << >> \/ HasBadDate

-----------------------------------------------------------------------------
\* The sum modulo 2^64, read as a signed number again, is the sum: whatever the
\* width, a date's moment is exact.
THEOREM DateIsExact ==
    ASSUME NEW date \in Date
    PROVE  DateToTimestamp(date) = Moment(date) /\ Moment(date) \in Nat
<1> DEFINE utc == IF date.sign = "+" THEN date.local - date.zone ELSE date.local + date.zone
<1>1. /\ Half \in Nat \ {0} /\ MaxZone \in Nat
      /\ date.local \in Int /\ date.zone \in Nat
      /\ utc \in Int /\ -Half <= utc /\ utc < Half
  <2>1. Half \in Nat \ {0} /\ MaxZone \in 0 .. Half - 1
    BY IntakeAssumption
  <2>2. date.local \in MaxZone - Half .. Half - MaxZone - 1 /\ date.zone \in 0 .. MaxZone
    BY DEF Date
  <2> QED
    BY <2>1, <2>2
<1>2. utc % (2 * Half) = IF utc >= 0 THEN utc ELSE utc + 2 * Half
  <2> HIDE DEF utc
  <2>1. \A m \in Nat \ {0}, n \in Int : -m <= n /\ n < m =>
            n % m = IF n >= 0 THEN n ELSE n + m
    OBVIOUS
  <2>2. 2 * Half \in Nat \ {0} /\ -(2 * Half) <= utc /\ utc < 2 * Half /\ utc \in Int
    BY <1>1
  <2> QED
    BY <2>1, <2>2
<1> HIDE DEF utc
<1>3. DateToTimestamp(date) = IF utc > 0 THEN utc ELSE 0
  BY <1>1, <1>2 DEF DateToTimestamp, utc
<1> QED
  BY <1>1, <1>3 DEF Moment, utc

-----------------------------------------------------------------------------
\* What has been read stays read while neither the page nor the document changes.
LEMMA ReadStays ==
    ASSUME NEW n \in Nat, ReadSoFar(n), page' = page, doc'.texts = doc.texts,
           doc'.FetchTime = doc.FetchTime
    PROVE  ReadSoFar(n)'
BY DEF ReadSoFar, TextSoFar, TimeSoFar, MetasUpTo, IsLastUpTo, Moment

\* Before the first meta element nothing has been read.
LEMMA ReadFromNothing ==
    ASSUME page.metas # << >>, doc = EmptyDocument
    PROVE  ReadSoFar(0)
<1>1. \A property : MetasUpTo(0, property) = {}
  BY DEF MetasUpTo
<1>2. doc.FetchTime = 0 /\ \A field \in Fields : doc.texts[field] = << >>
  BY DEF EmptyDocument
<1> QED
  BY <1>1, <1>2 DEF ReadSoFar, TextSoFar, TimeSoFar

\* One more element: it is the last of its property, and of no other.
LEMMA LastMoves ==
    ASSUME NEW n \in Nat, page.metas \in Seq(Meta), NEW property
    PROVE  LET reads == page.metas[n + 1].complete /\ page.metas[n + 1].property = property
           IN  /\ reads => IsLastUpTo(n + 1, n + 1, property)
               /\ ~reads => MetasUpTo(n + 1, property) = MetasUpTo(n, property)
<1>1. 1 .. n + 1 = 1 .. n \cup {n + 1}
  OBVIOUS
<1> QED
  BY <1>1 DEF MetasUpTo, IsLastUpTo

LEMMA ReadMetaReads ==
    ASSUME NEW n \in Nat, element = n + 1, page \in Page, doc \in Document,
           ReadSoFar(n), ReadMeta, pc' # "bad"
    PROVE  /\ doc' \in Document /\ doc'.PubTime = doc.PubTime
           /\ ReadSoFar(n + 1)'
<1> DEFINE meta == page.metas[n + 1]
           published == meta.complete /\ meta.property = "article:published_time"
<1>1. /\ page.metas \in Seq(Meta) /\ n + 1 \in 1 .. Len(page.metas)
  <2>1. page.metas \in Seq(Meta)
    BY DEF Page
  <2>2. Len(page.metas) \in Nat
    BY <2>1
  <2>3. element <= Len(page.metas)
    BY DEF ReadMeta
  <2> QED
    BY <2>1, <2>2, <2>3
<1>2. meta \in Meta /\ meta.content \in Seq(0 .. 255) /\ meta.date \in Date
  <2>1. meta \in Meta
    BY <1>1
  <2> QED
    BY <2>1 DEF Meta
<1>3. /\ page' = page
      /\ published => meta.date.matches
      /\ doc' = [doc EXCEPT
             !.texts = [field \in Fields |->
                 IF meta.complete /\ meta.property = TextProperty[field]
                 THEN meta.content ELSE doc.texts[field]],
             !.FetchTime = IF published THEN DateToTimestamp(meta.date) ELSE @]
  BY DEF ReadMeta, Throw
<1>4. DateToTimestamp(meta.date) = Moment(meta.date) /\ Moment(meta.date) \in Nat
  BY <1>2, DateIsExact
<1>5. /\ doc' \in Document /\ doc'.PubTime = doc.PubTime
      /\ doc'.FetchTime = IF published THEN Moment(meta.date) ELSE doc.FetchTime
      /\ \A field \in Fields : doc'.texts[field] =
            IF meta.complete /\ meta.property = TextProperty[field]
            THEN meta.content ELSE doc.texts[field]
  BY <1>2, <1>3, <1>4 DEF Document
<1>6. \A k \in MetasUpTo(n + 1, "article:published_time") : page.metas[k].date.matches
  <2>1. \A k \in MetasUpTo(n + 1, "article:published_time") :
            k = n + 1 \/ k \in MetasUpTo(n, "article:published_time")
    BY <1>1 DEF MetasUpTo
  <2> QED
    BY <1>3, <2>1 DEF ReadSoFar, MetasUpTo
<1>7. ASSUME NEW field \in Fields
      PROVE  TextSoFar(n + 1, field)'
  <2> DEFINE property == TextProperty[field]
  <2>1. CASE meta.complete /\ meta.property = property
    <3>1. IsLastUpTo(n + 1, n + 1, property)
      BY <1>1, <2>1, LastMoves
    <3> QED
      BY <1>1, <1>3, <1>5, <2>1, <3>1 DEF TextSoFar, IsLastUpTo, MetasUpTo
  <2>2. CASE ~(meta.complete /\ meta.property = property)
    <3>1. MetasUpTo(n + 1, property) = MetasUpTo(n, property)
      BY <1>1, <2>2, LastMoves
    <3>2. doc'.texts[field] = doc.texts[field]
      BY <1>5, <2>2
    <3>3. TextSoFar(n, field)
      BY DEF ReadSoFar
    <3> QED
      BY <1>1, <1>3, <3>1, <3>2, <3>3 DEF TextSoFar, IsLastUpTo, MetasUpTo
  <2> QED
    BY <2>1, <2>2
<1>8. TimeSoFar(n + 1)'
  <2>1. CASE published
    <3>1. IsLastUpTo(n + 1, n + 1, "article:published_time")
      BY <1>1, <2>1, LastMoves
    <3> QED
      BY <1>1, <1>3, <1>5, <2>1, <3>1 DEF TimeSoFar, IsLastUpTo, MetasUpTo, Moment
  <2>2. CASE ~published
    <3>1. MetasUpTo(n + 1, "article:published_time") = MetasUpTo(n, "article:published_time")
      BY <1>1, <2>2, LastMoves
    <3>2. doc'.FetchTime = doc.FetchTime
      BY <1>5, <2>2
    <3>3. TimeSoFar(n)
      BY DEF ReadSoFar
    <3> QED
      BY <1>1, <1>3, <3>1, <3>2, <3>3 DEF TimeSoFar, IsLastUpTo, MetasUpTo, Moment
  <2> QED
    BY <2>1, <2>2
<1> QED
  BY <1>3, <1>5, <1>6, <1>7, <1>8 DEF ReadSoFar, MetasUpTo

\* The address is read once, when all else has been.
LEMMA AddressIsRead ==
    ASSUME page \in Page, doc \in Document, doc.PubTime = 0, ReadAddress, pc' # "bad"
    PROVE  doc' \in Document /\ AddressRead'
<1>1. page.dated \in BOOLEAN /\ page.datetime \in Date
  BY DEF Page
<1>2. page.dated => DateToTimestamp(page.datetime) = Moment(page.datetime)
                      /\ Moment(page.datetime) \in Nat
  BY <1>1, DateIsExact
<1>3. /\ page' = page
      /\ page.dated => page.datetime.matches
      /\ doc' = [doc EXCEPT !.PubTime =
             IF page.dated THEN DateToTimestamp(page.datetime) ELSE @]
  BY DEF ReadAddress, Throw
<1>4. doc' \in Document
      /\ doc'.PubTime = IF page.dated THEN Moment(page.datetime) ELSE 0
  BY <1>2, <1>3 DEF Document
<1> QED
  BY <1>3, <1>4 DEF AddressRead, Moment

\* What has been read of all meta elements is what ParsedIsPage says.
LEMMA ReadIsPage == ReadInv => ParsedIsPage
<1> SUFFICES ASSUME ReadInv, pc \in Parsed
             PROVE  /\ page.lacks = "nothing" /\ page.metas # << >> /\ ~HasBadDate
                    /\ \A field \in Fields :
                          \/ MetasOf(TextProperty[field]) = {} /\ doc.texts[field] = << >>
                          \/ \E k \in DOMAIN page.metas :
                                /\ IsLastOf(k, TextProperty[field])
                                /\ doc.texts[field] = page.metas[k].content
                    /\ \/ MetasOf("article:published_time") = {} /\ doc.FetchTime = 0
                       \/ \E k \in DOMAIN page.metas :
                             /\ IsLastOf(k, "article:published_time")
                             /\ doc.FetchTime = Moment(page.metas[k].date)
                    /\ doc.PubTime = IF page.dated THEN Moment(page.datetime) ELSE 0
  BY DEF ReadInv, ParsedIsPage
<1> DEFINE n == Len(page.metas)
<1>1. /\ page.lacks = "nothing" /\ ReadSoFar(n) /\ AddressRead /\ page \in Page
  BY DEF ReadInv
<1>2. DOMAIN page.metas = 1 .. n
  <2>1. page.metas \in Seq(Meta)
    BY <1>1 DEF Page
  <2> QED
    BY <2>1
<1>3. \A property : /\ MetasOf(property) = MetasUpTo(n, property)
                    /\ \A k : IsLastOf(k, property) <=> IsLastUpTo(k, n, property)
  BY <1>2 DEF MetasOf, MetasUpTo, IsLastOf, IsLastUpTo
<1> HIDE DEF n
<1>4. ~HasBadDate
  BY <1>1, <1>3 DEF HasBadDate, ReadSoFar, AddressRead
<1> QED
  BY <1>1, <1>2, <1>3, <1>4 DEF ReadSoFar, TextSoFar, TimeSoFar, AddressRead

LEMMA ReadInvInit == Init => ReadInv
<1> SUFFICES ASSUME Init PROVE ReadInv
  OBVIOUS
<1>1. page \in Page
  BY IntakeAssumption DEF Init
<1>2. doc \in Document
  BY DEF Init, EmptyDocument, Document
<1> QED
  BY <1>1, <1>2 DEF Init, ReadInv, Parsed

\* A page that is thrown away is one that may be.
LEMMA ThrowIsBad ==
    ASSUME ReadInv, Throw, page.lacks # "nothing" \/ page.metas = << >> \/ HasBadDate
    PROVE  ReadInv'
BY DEF ReadInv, Throw, Parsed, Document, HasBadDate, MetasOf

LEMMA ReadInvStep == ReadInv /\ [Next]_vars => ReadInv'
<1> SUFFICES ASSUME ReadInv, [Next]_vars PROVE ReadInv'
  OBVIOUS
<1>a. /\ page \in Page /\ doc \in Document /\ element \in Nat \ {0}
      /\ page.metas \in Seq(Meta) /\ Len(page.metas) \in Nat
  <2>1. page \in Page /\ doc \in Document /\ element \in Nat \ {0}
    BY DEF ReadInv
  <2>2. page.metas \in Seq(Meta)
    BY <2>1 DEF Page
  <2> QED
    BY <2>1, <2>2
<1>b. ASSUME UNCHANGED <<page, doc, element>>,
             pc' = pc \/ (pc \in Parsed /\ pc' \in Parsed)
      PROVE  ReadInv'
  <2>1. /\ ReadSoFar(element - 1)' <=> ReadSoFar(element - 1)
        /\ ReadSoFar(Len(page.metas))' <=> ReadSoFar(Len(page.metas))
    BY <1>b DEF ReadSoFar, TextSoFar, TimeSoFar, MetasUpTo, IsLastUpTo, Moment
  <2>2. (AddressRead' <=> AddressRead) /\ (HasBadDate' <=> HasBadDate)
    BY <1>b DEF AddressRead, HasBadDate, MetasOf, Moment
  <2>3. CASE pc' = pc
    BY <1>b, <2>1, <2>2, <2>3 DEF ReadInv
  <2>4. CASE pc \in Parsed /\ pc' \in Parsed
    BY <1>a, <1>b, <2>1, <2>2, <2>4 DEF ReadInv, Parsed
  <2> QED
    BY <1>b, <2>3, <2>4
<1>1. CASE FindMetas
  <2>1. CASE Throw
    <3>1. page.lacks # "nothing" \/ page.metas = << >>
      BY <1>1, <2>1 DEF FindMetas, Throw
    <3> QED
      BY <2>1, <3>1, ThrowIsBad
  <2>2. CASE ~Throw
    <3>1. /\ page' = page /\ doc' = doc /\ element' = element /\ pc' = "metas"
          /\ page.metas # << >> /\ element = 1 /\ doc = EmptyDocument
      BY <1>1, <2>2 DEF FindMetas, ReadInv
    <3>2. ReadSoFar(0)
      BY <3>1, ReadFromNothing
    <3>3. ReadSoFar(0)'
      BY <3>1, <3>2, ReadStays
    <3>4. doc'.PubTime = 0
      BY <3>1 DEF EmptyDocument
    <3>5. ReadSoFar(element - 1)'
      BY <3>1, <3>3
    <3> QED
      BY <1>a, <3>1, <3>4, <3>5 DEF ReadInv, Parsed, Document
  <2> QED
    BY <2>1, <2>2
<1>2. CASE ReadMeta
  <2>a. PICK n \in Nat : n = element - 1
    BY <1>a
  <2>1. /\ pc = "metas" /\ n \in Nat /\ element = n + 1 /\ element <= Len(page.metas)
        /\ ReadSoFar(n) /\ doc.PubTime = 0
    BY <1>2, <1>a, <2>a DEF ReadMeta, ReadInv
  <2>2. CASE pc' = "bad"
    <3>1. /\ Throw /\ page.metas[element].complete
          /\ page.metas[element].property = "article:published_time"
          /\ ~page.metas[element].date.matches
      BY <1>2, <2>1, <2>2 DEF ReadMeta
    <3>2. HasBadDate
      BY <1>a, <2>1, <3>1 DEF HasBadDate, MetasOf
    <3> QED
      BY <3>1, <3>2, ThrowIsBad
  <2>3. CASE pc' # "bad"
    <3>1. doc' \in Document /\ doc'.PubTime = 0 /\ ReadSoFar(n + 1)'
      BY <1>2, <1>a, <2>1, <2>3, ReadMetaReads
    <3>2. page' = page /\ pc' = "metas" /\ element' = element + 1
      BY <1>2, <2>1, <2>3 DEF ReadMeta, Throw
    <3>3. element' - 1 = n + 1
      BY <2>1, <3>2
    <3>4. ReadSoFar(element - 1)'
      BY <3>1, <3>3
    <3> QED
      BY <1>a, <2>1, <3>1, <3>2, <3>4 DEF ReadInv, Parsed
  <2> QED
    BY <2>2, <2>3
<1>3. CASE FindArticle
  <2>1. CASE page.lacks # "nothing"
    BY <1>3, <2>1, ThrowIsBad DEF FindArticle
  <2>2. CASE page.lacks = "nothing"
    <3>1. /\ page' = page /\ doc' = doc /\ element' = 1 /\ pc' = "paragraphs"
          /\ pc = "metas" /\ element > Len(page.metas)
      BY <1>3, <2>2 DEF FindArticle
    <3>2. element - 1 = Len(page.metas) /\ doc.PubTime = 0
      BY <1>a, <3>1 DEF ReadInv
    <3>3. ReadSoFar(element - 1)
      BY <3>1 DEF ReadInv
    <3>4. ReadSoFar(Len(page.metas))
      BY <3>2, <3>3
    <3> DEFINE n == Len(page.metas)
    <3>5. ReadSoFar(n) /\ n \in Nat
      BY <1>a, <3>4
    <3>6. ReadSoFar(Len(page.metas))'
      BY <3>1, <3>5 DEF ReadSoFar, TextSoFar, TimeSoFar, MetasUpTo, IsLastUpTo, Moment
    <3> QED
      BY <1>a, <2>2, <3>1, <3>2, <3>6 DEF ReadInv, Parsed, Document
  <2> QED
    BY <2>1, <2>2
<1>4. CASE ReadParagraph
  <2>1. /\ page' = page /\ element' = element + 1 /\ pc = "paragraphs" /\ pc' = pc
        /\ element \in 1 .. Len(page.paragraphs)
        /\ doc' = [doc EXCEPT !.textSize = @ + page.paragraphs[element] + 1]
    <3>1. page.paragraphs \in Seq(Nat)
      BY <1>a DEF Page
    <3> QED
      BY <1>4, <1>a, <3>1 DEF ReadParagraph
  <2>2. page.paragraphs[element] \in Nat
    <3>1. page.paragraphs \in Seq(Nat)
      BY <1>a DEF Page
    <3> QED
      BY <2>1, <3>1
  <2>3. /\ doc' \in Document /\ doc'.PubTime = doc.PubTime
        /\ doc'.texts = doc.texts /\ doc'.FetchTime = doc.FetchTime
    BY <1>a, <2>1, <2>2 DEF Document
  <2>4. ReadSoFar(Len(page.metas)) /\ doc.PubTime = 0 /\ page.lacks = "nothing"
    BY <2>1 DEF ReadInv
  <2>5. ReadSoFar(Len(page.metas))'
    BY <2>1, <2>3, <2>4 DEF ReadSoFar, TextSoFar, TimeSoFar, MetasUpTo, IsLastUpTo, Moment
  <2> QED
    BY <1>a, <2>1, <2>3, <2>4, <2>5 DEF ReadInv, Parsed
<1>5. CASE ReadAddress
  <2>1. /\ pc = "paragraphs" /\ page.lacks = "nothing" /\ doc.PubTime = 0
        /\ ReadSoFar(Len(page.metas))
    BY <1>5 DEF ReadAddress, ReadInv
  <2>2. CASE pc' = "bad"
    <3>1. Throw /\ HasBadDate
      BY <1>5, <2>2 DEF ReadAddress, HasBadDate
    <3> QED
      BY <3>1, ThrowIsBad
  <2>3. CASE pc' # "bad"
    <3>1. doc' \in Document /\ AddressRead'
      BY <1>5, <1>a, <2>1, <2>3, AddressIsRead
    <3>2. /\ page' = page /\ element' = element /\ pc' \in {"dead", "detect"}
          /\ doc'.texts = doc.texts /\ doc'.FetchTime = doc.FetchTime
      BY <1>5, <1>a, <2>3 DEF ReadAddress, Throw, Document
    <3>3. ReadSoFar(Len(page.metas))'
      BY <2>1, <3>2 DEF ReadSoFar, TextSoFar, TimeSoFar, MetasUpTo, IsLastUpTo, Moment
    <3> QED
      BY <1>a, <2>1, <3>1, <3>2, <3>3 DEF ReadInv, Parsed
  <2> QED
    BY <2>2, <2>3
<1>6. CASE Predict
  BY <1>6, <1>b DEF Predict, Parsed
<1>7. CASE ScanSymbol
  BY <1>7, <1>b DEF ScanSymbol
<1>8. CASE DetectLanguage
  BY <1>8, <1>b DEF DetectLanguage, Parsed
<1>9. CASE Annotate
  BY <1>9, <1>b DEF Annotate, Parsed
<1>10. CASE UNCHANGED vars
  BY <1>10, <1>b DEF vars
<1> QED
  BY <1>1, <1>2, <1>3, <1>4, <1>5, <1>6, <1>7, <1>8, <1>9, <1>10 DEF Next

\* Every page with everything it needs is read as what it says, whatever its size,
\* its elements and the width of a time_t: ParsedIsPage in every reachable state.
THEOREM PagesAreRead == Spec => []ParsedIsPage
<1>1. Init => ReadInv
  BY ReadInvInit
<1>2. ReadInv /\ [Next]_vars => ReadInv'
  BY ReadInvStep
<1>3. ReadInv => ParsedIsPage
  BY ReadIsPage
<1> QED
  BY <1>1, <1>2, <1>3, PTL DEF Spec

-----------------------------------------------------------------------------
\* The scan's counters stay at 0 until the scan, and a page that has not been
\* looked at is at its first element.
NotScanned ==
    /\ pc = "html" => element = 1
    /\ pc \notin {"scan", "annotate", "annotated"} => i = 0 /\ realSize = 0 /\ badSymb = 0

\* A page's parts have the types their kinds say.
LEMMA PageParts ==
    ASSUME page \in Page
    PROVE  /\ page.metas \in Seq(Meta) /\ Len(page.metas) \in Nat
           /\ page.paragraphs \in Seq(Nat) /\ Len(page.paragraphs) \in Nat
           /\ page.datetime \in Date /\ page.label \in Languages /\ page.category \in Categories
<1>1. /\ page.metas \in Seq(Meta) /\ page.paragraphs \in Seq(Nat)
      /\ page.datetime \in Date /\ page.label \in Languages /\ page.category \in Categories
  BY DEF Page
<1>2. Len(page.metas) \in Nat /\ Len(page.paragraphs) \in Nat
  BY <1>1
<1> QED
  BY <1>1, <1>2

\* A timestamp fits into a time_t.
LEMMA TimestampFits ==
    ASSUME NEW date \in Date
    PROVE  DateToTimestamp(date) \in 0 .. Half - 1
<1>1. Half \in Nat \ {0}
  BY IntakeAssumption
<1> DEFINE utc == IF date.sign = "+" THEN date.local - date.zone ELSE date.local + date.zone
<1>2. utc \in Int
  BY DEF Date
<1>3. utc % (2 * Half) \in 0 .. 2 * Half - 1
  BY <1>1, <1>2
<1> HIDE DEF utc
<1>4. DateToTimestamp(date) =
         LET timestamp == IF utc % (2 * Half) < Half THEN utc % (2 * Half)
                          ELSE (utc % (2 * Half)) - 2 * Half
         IN  IF timestamp > 0 THEN timestamp ELSE 0
  BY DEF DateToTimestamp, utc
<1> QED
  BY <1>1, <1>3, <1>4

\* One round of the scan moves on by at most four bytes and counts at most one
\* symbol.
LEMMA ScanTyped ==
    ASSUME TypeOK, ScanSymbol
    PROVE  /\ i' \in 0 .. Len(Title) + 3
           /\ realSize' \in 0 .. i' /\ badSymb' \in 0 .. realSize'
<1> DEFINE sym == Title[i + 1]
           mayBeRussian == sym \in 128 .. 219
           cut == mayBeRussian /\ i + 1 >= Len(Title)
           russian == mayBeRussian /\ ~cut /\ IsRussian(sym, Title[i + 2])
<1>1. Title \in Seq(0 .. 255) /\ Len(Title) \in Nat
  <2>1. Title \in Seq(0 .. 255)
    BY DEF TypeOK, Title, Fields, TextProperty
  <2> QED
    BY <2>1
<1>2. /\ i \in Nat /\ i < Len(Title) /\ realSize \in 0 .. i /\ badSymb \in 0 .. realSize
  BY <1>1 DEF TypeOK, ScanSymbol
<1>3. sym \in 0 .. 255
  <2>1. \A k \in 1 .. Len(Title) : Title[k] \in 0 .. 255
    BY <1>1, ElementOfSeq
  <2>2. i + 1 \in 1 .. Len(Title)
    BY <1>1, <1>2
  <2> QED
    BY <2>1, <2>2
<1>4. /\ i' = i + IF russian THEN 2 ELSE IF mayBeRussian THEN 1 ELSE Width(sym)
      /\ realSize' = IF cut THEN realSize ELSE realSize + 1
      /\ badSymb' = IF cut \/ russian \/ sym <= 127 THEN badSymb ELSE badSymb + 1
  BY DEF ScanSymbol
<1>5. ~mayBeRussian => Width(sym) \in 1 .. 4
  BY <1>3 DEF Width
<1> HIDE DEF sym, cut, russian, mayBeRussian
<1>6. i' \in i + 1 .. i + 4
  <2>1. CASE russian
    BY <1>2, <1>4, <2>1
  <2>2. CASE ~russian /\ mayBeRussian
    BY <1>2, <1>4, <2>2
  <2>3. CASE ~russian /\ ~mayBeRussian
    BY <1>2, <1>4, <1>5, <2>3
  <2> QED
    BY <2>1, <2>2, <2>3
<1>7. badSymb' \in 0 .. realSize'
  <2>1. cut => mayBeRussian
    BY DEF cut
  <2> QED
    BY <1>2, <1>4
<1> QED
  BY <1>1, <1>2, <1>4, <1>6, <1>7

LEMMA TypeStep == TypeOK /\ NotScanned /\ [Next]_vars => (TypeOK /\ NotScanned)'
<1> SUFFICES ASSUME TypeOK, NotScanned, [Next]_vars
             PROVE  (TypeOK /\ NotScanned)'
  OBVIOUS
<1>a. /\ page.metas \in Seq(Meta) /\ Len(page.metas) \in Nat
      /\ page.paragraphs \in Seq(Nat) /\ Len(page.paragraphs) \in Nat
      /\ page.datetime \in Date /\ page.label \in Languages /\ page.category \in Categories
  BY PageParts DEF TypeOK
<1>b. /\ doc.texts \in [Fields -> Seq(0 .. 255)] /\ doc.FetchTime \in 0 .. Half - 1
      /\ doc.PubTime \in 0 .. Half - 1 /\ doc.textSize \in Nat
      /\ doc = [texts |-> doc.texts, FetchTime |-> doc.FetchTime, PubTime |-> doc.PubTime,
                textSize |-> doc.textSize]
  BY DEF TypeOK
<1>c. "LN_OTHER" \in Languages
  BY DEF Languages
<1>d. Half \in Nat \ {0}
  BY IntakeAssumption
<1>1. ASSUME Throw, pc \in {"html", "metas", "paragraphs"}
      PROVE  (TypeOK /\ NotScanned)'
  <2>1. TypeOK'
    BY <1>1 DEF Throw, TypeOK, Title, scanVars
  <2>2. NotScanned'
    BY <1>1 DEF Throw, NotScanned, scanVars
  <2> QED
    BY <2>1, <2>2
<1>2. CASE FindMetas
  <2>1. CASE Throw
    BY <1>1, <1>2, <2>1 DEF FindMetas
  <2>2. CASE ~Throw
    <3>1. TypeOK'
      BY <1>2, <1>a, <2>2 DEF FindMetas, TypeOK, NotScanned, Title, scanVars
    <3>2. NotScanned'
      BY <1>2, <2>2 DEF FindMetas, NotScanned, scanVars
    <3> QED
      BY <3>1, <3>2
  <2> QED
    BY <2>1, <2>2
<1>3. CASE ReadMeta
  <2>1. CASE Throw
    BY <1>1, <1>3, <2>1 DEF ReadMeta
  <2>2. CASE ~Throw
    <3> DEFINE meta == page.metas[element]
               published == meta.complete /\ meta.property = "article:published_time"
    <3>1. /\ pc = "metas" /\ element \in 1 .. Len(page.metas)
      BY <1>3, <1>a DEF ReadMeta, TypeOK
    <3>2. meta \in Meta
      BY <1>a, <3>1
    <3>3. /\ doc' = [doc EXCEPT
               !.texts = [field \in Fields |->
                   IF meta.complete /\ meta.property = TextProperty[field]
                   THEN meta.content ELSE doc.texts[field]],
               !.FetchTime = IF published THEN DateToTimestamp(meta.date) ELSE @]
          /\ element' = element + 1
          /\ UNCHANGED <<page, pc, scanVars, language, dbDocs>>
      BY <1>3, <2>2 DEF ReadMeta
    <3>4. meta.content \in Seq(0 .. 255) /\ meta.date \in Date
      BY <3>2 DEF Meta
    <3>5. i = 0 /\ realSize = 0 /\ badSymb = 0
      BY <3>1 DEF NotScanned
    <3>6. DateToTimestamp(meta.date) \in 0 .. Half - 1
      BY <3>4, TimestampFits
    <3> HIDE DEF meta, published
    <3>7. /\ doc'.texts \in [Fields -> Seq(0 .. 255)] /\ doc'.FetchTime \in 0 .. Half - 1
          /\ doc'.PubTime = doc.PubTime /\ doc'.textSize = doc.textSize
          /\ doc' = [texts |-> doc'.texts, FetchTime |-> doc'.FetchTime,
                     PubTime |-> doc'.PubTime, textSize |-> doc'.textSize]
      BY <1>b, <3>3, <3>4, <3>6
    <3>8. Len(Title') \in Nat
      <4>1. "Title" \in Fields
        BY DEF Fields, TextProperty
      <4> QED
        BY <3>7, <4>1 DEF Title
    <3>9. doc' \in [texts : [Fields -> Seq(0 .. 255)], FetchTime : 0 .. Half - 1,
                    PubTime : 0 .. Half - 1, textSize : Nat]
      BY <1>b, <3>7
    <3>12. /\ element' \in 1 .. Len(page.metas) + 1 /\ pc' = "metas"
           /\ UNCHANGED <<page, i, realSize, badSymb, language, dbDocs>>
      BY <1>a, <3>1, <3>3 DEF scanVars
    <3>10. TypeOK'
      BY <3>1, <3>5, <3>8, <3>9, <3>12 DEF TypeOK
    <3>11. NotScanned'
      BY <3>1, <3>3, <3>5 DEF NotScanned, scanVars
    <3> QED
      BY <3>10, <3>11
  <2> QED
    BY <2>1, <2>2
<1>4. CASE FindArticle
  <2>1. CASE Throw
    BY <1>1, <1>4, <2>1 DEF FindArticle
  <2>2. CASE ~Throw
    BY <1>4, <1>a, <2>2 DEF FindArticle, TypeOK, NotScanned, Title, scanVars
  <2> QED
    BY <2>1, <2>2
<1>5. CASE ReadParagraph
  <2>1. pc = "paragraphs" /\ element \in 1 .. Len(page.paragraphs)
    BY <1>5, <1>a DEF ReadParagraph, TypeOK
  <2>2. page.paragraphs[element] \in Nat
    BY <1>a, <2>1
  <2>a. /\ doc'.texts = doc.texts /\ doc'.FetchTime = doc.FetchTime
        /\ doc'.PubTime = doc.PubTime /\ doc'.textSize \in Nat
        /\ doc' = [texts |-> doc'.texts, FetchTime |-> doc'.FetchTime,
                   PubTime |-> doc'.PubTime, textSize |-> doc'.textSize]
    BY <1>5, <1>b, <2>1, <2>2 DEF ReadParagraph
  <2>b. doc' \in [texts : [Fields -> Seq(0 .. 255)], FetchTime : 0 .. Half - 1,
                  PubTime : 0 .. Half - 1, textSize : Nat]
    BY <1>b, <2>a
  <2>c. /\ element' \in 1 .. Len(page.paragraphs) + 1
        /\ UNCHANGED <<page, pc, i, realSize, badSymb, language, dbDocs>>
    BY <1>5, <1>a, <2>1 DEF ReadParagraph, scanVars
  <2>3. TypeOK'
    BY <2>1, <2>a, <2>b, <2>c DEF TypeOK, Title
  <2>4. NotScanned'
    BY <1>5, <2>1 DEF ReadParagraph, NotScanned, scanVars
  <2> QED
    BY <2>3, <2>4
<1>6. CASE ReadAddress
  <2>1. CASE Throw
    BY <1>1, <1>6, <2>1 DEF ReadAddress
  <2>2. CASE ~Throw
    <3>1. DateToTimestamp(page.datetime) \in 0 .. Half - 1
      BY <1>a, TimestampFits
    <3>2. pc = "paragraphs" /\ pc' \in {"dead", "detect"}
      BY <1>6, <2>2 DEF ReadAddress
    <3>3. /\ doc'.texts = doc.texts /\ doc'.FetchTime = doc.FetchTime
          /\ doc'.textSize = doc.textSize /\ doc'.PubTime \in 0 .. Half - 1
          /\ doc' = [texts |-> doc'.texts, FetchTime |-> doc'.FetchTime,
                     PubTime |-> doc'.PubTime, textSize |-> doc'.textSize]
      BY <1>6, <1>b, <2>2, <3>1 DEF ReadAddress
    <3>6. doc' \in [texts : [Fields -> Seq(0 .. 255)], FetchTime : 0 .. Half - 1,
                    PubTime : 0 .. Half - 1, textSize : Nat]
      BY <1>b, <3>3
    <3>7. /\ element \in 1 .. Len(page.paragraphs) + 1
          /\ UNCHANGED <<page, element, i, realSize, badSymb, language, dbDocs>>
      BY <1>6, <1>a, <2>2, <3>2 DEF ReadAddress, TypeOK, scanVars
    <3>5. TypeOK'
      BY <3>2, <3>3, <3>6, <3>7 DEF TypeOK, Title, Parsed
    <3>4. NotScanned'
      BY <1>6, <2>2, <3>2 DEF ReadAddress, NotScanned, scanVars
    <3> QED
      BY <3>4, <3>5
  <2> QED
    BY <2>1, <2>2
<1>7. CASE Predict
  BY <1>7, <1>a DEF Predict, TypeOK, NotScanned, Parsed, Title, scanVars
<1>8. CASE ScanSymbol
  <2>1. /\ i' \in 0 .. Len(Title) + 3
        /\ realSize' \in 0 .. i' /\ badSymb' \in 0 .. realSize'
    BY <1>8, ScanTyped
  <2> QED
    BY <1>8, <1>a, <2>1 DEF ScanSymbol, TypeOK, NotScanned, Parsed, Title
<1>9. CASE DetectLanguage
  BY <1>9, <1>a, <1>c DEF DetectLanguage, TypeOK, NotScanned, Parsed, Title, scanVars
<1>10. CASE Annotate
  <2>1. doc.FetchTime \in Nat /\ language \in Languages
    BY <1>d DEF TypeOK
  <2> DEFINE body == [parses |-> TRUE, detectedLanguage |-> language,
                      detectedCategory |-> page.category,
                      longEnough |-> doc.textSize >= MinTextLength,
                      FetchTime |-> doc.FetchTime]
  <2>2. AnnotateDocument(body) \in AnnotatedDocument
    <3>1. "NC_UNDEFINED" \in Categories
      BY DEF Categories
    <3> QED
      BY <1>a, <2>1, <3>1 DEF AnnotateDocument, AnnotatedDocument
  <2>3. dbDocs' = {[annotated |-> AnnotateDocument(body),
                    Nasty |-> /\ Mode # "languages" /\ doc.textSize >= MinTextLength
                              /\ ComputeNasty /\ ComputeDocumentNasty]}
    BY <1>10 DEF Annotate
  <2> HIDE DEF body
  <2>4. dbDocs' \subseteq [annotated : AnnotatedDocument, Nasty : BOOLEAN]
    BY <2>2, <2>3
  <2> QED
    BY <1>10, <1>a, <2>4 DEF Annotate, TypeOK, NotScanned, Parsed, Title, scanVars
<1>11. CASE UNCHANGED vars
  BY <1>11 DEF vars, scanVars, TypeOK, NotScanned, Title
<1> QED
  BY <1>2, <1>3, <1>4, <1>5, <1>6, <1>7, <1>8, <1>9, <1>10, <1>11 DEF Next

LEMMA TypesAreKept == Spec => [](TypeOK /\ NotScanned)
<1>1. Init => TypeOK /\ NotScanned
  <2> SUFFICES ASSUME Init PROVE TypeOK /\ NotScanned
    OBVIOUS
  <2>1. page \in Page /\ Half \in Nat \ {0}
    BY IntakeAssumption DEF Init
  <2>2. /\ doc.texts \in [Fields -> Seq(0 .. 255)] /\ Len(Title) = 0
        /\ doc.FetchTime = 0 /\ doc.PubTime = 0 /\ doc.textSize = 0
    BY DEF Init, EmptyDocument, Title, Fields, TextProperty
  <2>3. doc \in [texts : [Fields -> Seq(0 .. 255)], FetchTime : 0 .. Half - 1,
                 PubTime : 0 .. Half - 1, textSize : Nat]
    BY <2>1, <2>2 DEF Init, EmptyDocument
  <2>4. TypeOK
    BY <2>1, <2>2, <2>3 DEF Init, TypeOK, Languages
  <2> QED
    BY <2>4 DEF Init, NotScanned
<1> QED
  BY <1>1, TypeStep, PTL DEF Spec

\* The timestamps of a page fit into a time_t, the scan ends within three bytes
\* behind the title and never counts more symbols than bytes, whatever the page:
\* every variable holds a value of its type.
THEOREM TypeCorrect == Spec => []TypeOK
BY TypesAreKept, PTL

-----------------------------------------------------------------------------
(***************************************************************************)
(* RejectionIsAboutUnknowns.  Of a title in UTF-8 the scan is always at a  *)
(* symbol, or at the second byte of one that it does not know; it has      *)
(* counted what it knows once and what it does not know once or twice.     *)
(***************************************************************************)
IsScannable == IsUtf8 /\ \A k \in DOMAIN Title : Title[k] \notin 220 .. 223

SymbolsUpTo(n) == {k \in Symbols : k <= n}
UnknownUpTo(n) == {k \in UnknownSymbols : k <= n}

\* The scan at the start of a symbol or at the end, or within an unknown one.
AtSymbol(n) == n = Len(Title) \/ n + 1 \in Symbols

Counted ==
    LET known == Cardinality(SymbolsUpTo(i)) - Cardinality(UnknownUpTo(i))
        unknown == Cardinality(UnknownUpTo(i))
    IN  /\ realSize = known + badSymb
        /\ unknown <= badSymb
        /\ \/ AtSymbol(i) /\ badSymb <= 2 * unknown
           \/ /\ i + 1 \in DOMAIN Title \ Symbols /\ AtSymbol(i + 1)
              /\ badSymb < 2 * unknown

ScanInv ==
    /\ pc = "scan" /\ IsScannable => i \in 0 .. Len(Title) /\ Counted
    /\ RejectionIsAboutUnknowns

LEMMA TitleParts ==
    ASSUME TypeOK
    PROVE  /\ Title \in Seq(0 .. 255) /\ Len(Title) \in Nat /\ DOMAIN Title = 1 .. Len(Title)
           /\ \A k \in 1 .. Len(Title) : Title[k] \in 0 .. 255
           /\ \A k \in Symbols : k \in 1 .. Len(Title)
           /\ \A k \in UnknownSymbols : k \in Symbols
<1>1. Title \in Seq(0 .. 255)
  BY DEF TypeOK, Title, Fields, TextProperty
<1>2. Len(Title) \in Nat /\ DOMAIN Title = 1 .. Len(Title)
  BY <1>1
<1>3. \A k \in 1 .. Len(Title) : Title[k] \in 0 .. 255
  BY <1>1, ElementOfSeq
<1> QED
  BY <1>1, <1>2, <1>3 DEF Symbols, UnknownSymbols

\* Behind a symbol's own bytes is the next symbol or the end.
LEMMA NextSymbol ==
    ASSUME TypeOK, IsScannable, NEW k \in Symbols
    PROVE  /\ Continuation(k) \subseteq DOMAIN Title \ Symbols
           /\ AtSymbol(k + SymbolSize(Title[k]) - 1)
<1> DEFINE n == k + SymbolSize(Title[k])
<1>1. /\ DOMAIN Title = 1 .. Len(Title) /\ Len(Title) \in Nat /\ k \in 1 .. Len(Title)
      /\ \A j \in 1 .. Len(Title) : Title[j] \in 0 .. 255
      /\ \A j \in Symbols : j \in 1 .. Len(Title)
  BY TitleParts
<1>2. /\ SymbolSize(Title[k]) \in 1 .. 4
      /\ \A j \in Symbols : SymbolSize(Title[j]) \in 1 .. 4
  BY <1>1 DEF SymbolSize
<1>3. Continuation(k) \subseteq DOMAIN Title \ Symbols
  BY DEF IsScannable, IsUtf8
<1>4. n - 1 <= Len(Title)
  <2>1. CASE SymbolSize(Title[k]) = 1
    BY <1>1, <2>1
  <2>2. CASE SymbolSize(Title[k]) > 1
    <3>1. n - 1 \in Continuation(k)
      BY <1>1, <1>2, <2>2 DEF Continuation
    <3> QED
      BY <1>1, <1>3, <3>1
  <2> QED
    BY <1>2, <2>1, <2>2
<1>5. ASSUME n \in 1 .. Len(Title), n \notin Symbols PROVE FALSE
  <2>1. PICK j \in Symbols : n \in Continuation(j)
    BY <1>1, <1>5 DEF IsScannable, IsUtf8
  <2>2. j < n /\ n < j + SymbolSize(Title[j]) /\ j \in Nat
    BY <1>1, <1>2, <2>1 DEF Continuation
  <2>3. j <= k
    <3>1. ASSUME j > k PROVE FALSE
      <4>1. j \in Continuation(k)
        BY <1>1, <1>2, <2>2, <3>1 DEF Continuation
      <4> QED
        BY <1>3, <4>1
    <3> QED
      BY <1>1, <2>2, <3>1
  <2>4. j # k
    BY <1>1, <1>2, <2>2
  <2>5. k \in Continuation(j)
    BY <1>1, <1>2, <2>2, <2>3, <2>4 DEF Continuation
  <2> QED
    BY <2>5 DEF IsScannable, IsUtf8
<1> QED
  BY <1>1, <1>2, <1>3, <1>4, <1>5 DEF AtSymbol

LEMMA FiniteUpTo ==
    ASSUME TypeOK, NEW n \in Nat
    PROVE  IsFiniteSet(SymbolsUpTo(n)) /\ IsFiniteSet(UnknownUpTo(n))
<1>1. /\ \A k \in SymbolsUpTo(n) : k \in 1 .. Len(Title)
      /\ \A k \in UnknownUpTo(n) : k \in 1 .. Len(Title)
      /\ Len(Title) \in Nat
  BY TitleParts DEF SymbolsUpTo, UnknownUpTo
<1>2. SymbolsUpTo(n) \subseteq 1 .. Len(Title) /\ UnknownUpTo(n) \subseteq 1 .. Len(Title)
  BY <1>1
<1>3. IsFiniteSet(1 .. Len(Title))
  BY <1>1, FS_Interval
<1> QED
  BY <1>2, <1>3, FS_Subset

\* One symbol more: the counts up to its last byte.
LEMMA OneSymbolMore ==
    ASSUME TypeOK, NEW n \in Nat, NEW m \in Nat, n < m, n + 1 \in Symbols,
           \A k \in n + 2 .. m : k \notin Symbols
    PROVE  /\ Cardinality(SymbolsUpTo(m)) = Cardinality(SymbolsUpTo(n)) + 1
           /\ Cardinality(UnknownUpTo(m)) =
                 Cardinality(UnknownUpTo(n)) + IF n + 1 \in UnknownSymbols THEN 1 ELSE 0
           /\ Cardinality(SymbolsUpTo(n)) \in Nat /\ Cardinality(UnknownUpTo(n)) \in Nat
<1>1. /\ Len(Title) \in Nat /\ \A k \in Symbols : k \in 1 .. Len(Title)
      /\ \A k \in UnknownSymbols : k \in Symbols
  BY TitleParts
<1>2. IsFiniteSet(SymbolsUpTo(n)) /\ IsFiniteSet(UnknownUpTo(n))
  BY FiniteUpTo
<1>3. /\ SymbolsUpTo(m) = SymbolsUpTo(n) \cup {n + 1} /\ n + 1 \notin SymbolsUpTo(n)
  BY <1>1 DEF SymbolsUpTo
<1>4. n + 1 \notin UnknownUpTo(n)
  BY DEF UnknownUpTo
<1>5. ASSUME n + 1 \in UnknownSymbols
      PROVE  UnknownUpTo(m) = UnknownUpTo(n) \cup {n + 1}
  BY <1>1, <1>5 DEF UnknownUpTo
<1>6. ASSUME n + 1 \notin UnknownSymbols
      PROVE  UnknownUpTo(m) = UnknownUpTo(n)
  <2>1. ASSUME NEW k \in UnknownSymbols, k <= m PROVE k <= n
    BY <1>1, <1>6, <2>1
  <2>2. ASSUME NEW k \in UnknownSymbols, k <= n PROVE k <= m
    BY <1>1, <2>2
  <2> QED
    BY <2>1, <2>2 DEF UnknownUpTo
<1>7. /\ Cardinality(SymbolsUpTo(m)) = Cardinality(SymbolsUpTo(n)) + 1
      /\ n + 1 \in UnknownSymbols =>
            Cardinality(UnknownUpTo(m)) = Cardinality(UnknownUpTo(n)) + 1
      /\ n + 1 \notin UnknownSymbols =>
            Cardinality(UnknownUpTo(m)) = Cardinality(UnknownUpTo(n))
  BY <1>2, <1>3, <1>4, <1>5, <1>6, FS_AddElement
<1>8. Cardinality(SymbolsUpTo(n)) \in Nat /\ Cardinality(UnknownUpTo(n)) \in Nat
  BY <1>2, FS_CardinalityType
<1> QED
  BY <1>7, <1>8

\* One round of the loop over a title in UTF-8.
LEMMA ScanCounts ==
    ASSUME TypeOK, IsScannable, i \in 0 .. Len(Title), Counted, ScanSymbol
    PROVE  i' \in 0 .. Len(Title) /\ Counted'
<1> DEFINE sym == Title[i + 1]
           second == Title[i + 2]
           mayBeRussian == sym \in 128 .. 219
           cut == mayBeRussian /\ i + 1 >= Len(Title)
           russian == mayBeRussian /\ ~cut /\ IsRussian(sym, second)
           all == Cardinality(SymbolsUpTo(i))
           unknown == Cardinality(UnknownUpTo(i))
           size == SymbolSize(sym)
           all2 == Cardinality(SymbolsUpTo(i'))
           unknown2 == Cardinality(UnknownUpTo(i'))
<1>1. /\ DOMAIN Title = 1 .. Len(Title) /\ Len(Title) \in Nat
      /\ \A k \in 1 .. Len(Title) : Title[k] \in 0 .. 255
      /\ \A k \in Symbols : k \in 1 .. Len(Title)
      /\ \A k \in UnknownSymbols : k \in Symbols
  BY TitleParts
<1>2. i \in Nat /\ i < Len(Title) /\ i + 1 \in 1 .. Len(Title)
  BY <1>1 DEF ScanSymbol
<1>3. sym \in 0 .. 255 /\ sym \notin 220 .. 223
  BY <1>1, <1>2 DEF IsScannable
<1>4. /\ i' = i + IF russian THEN 2 ELSE IF mayBeRussian THEN 1 ELSE Width(sym)
      /\ realSize' = IF cut THEN realSize ELSE realSize + 1
      /\ badSymb' = IF cut \/ russian \/ sym <= 127 THEN badSymb ELSE badSymb + 1
      /\ doc' = doc
  BY DEF ScanSymbol
<1>5. all \in Nat /\ unknown \in Nat
  <2>1. IsFiniteSet(SymbolsUpTo(i)) /\ IsFiniteSet(UnknownUpTo(i))
    BY <1>2, FiniteUpTo
  <2> QED
    BY <2>1, FS_CardinalityType
<1>6. realSize \in Nat /\ badSymb \in Nat
  BY DEF TypeOK
<1>7. /\ realSize = (all - unknown) + badSymb /\ unknown <= badSymb
      /\ \/ AtSymbol(i) /\ badSymb <= 2 * unknown
         \/ /\ i + 1 \in DOMAIN Title \ Symbols /\ AtSymbol(i + 1)
            /\ badSymb < 2 * unknown
  BY DEF Counted
<1>8. ASSUME i' \in i + 1 .. Len(Title),
             realSize' = (all2 - unknown2) + badSymb', unknown2 <= badSymb',
             \/ AtSymbol(i') /\ badSymb' <= 2 * unknown2
             \/ /\ i' + 1 \in DOMAIN Title \ Symbols /\ AtSymbol(i' + 1)
                /\ badSymb' < 2 * unknown2
      PROVE  i' \in 0 .. Len(Title) /\ Counted'
  <2>1. Title' = Title
    BY <1>4 DEF Title
  <2>2. Symbols' = Symbols /\ UnknownSymbols' = UnknownSymbols
    BY <2>1 DEF Symbols, UnknownSymbols, CodePoint
  <2>3. /\ Cardinality(SymbolsUpTo(i))' = all2 /\ Cardinality(UnknownUpTo(i))' = unknown2
        /\ AtSymbol(i)' <=> AtSymbol(i')
        /\ AtSymbol(i + 1)' <=> AtSymbol(i' + 1)
    BY <1>8, <2>1, <2>2 DEF SymbolsUpTo, UnknownUpTo, AtSymbol
  <2>4. i' \in 0 .. Len(Title)
    BY <1>1, <1>2, <1>8
  <2> QED
    BY <1>8, <2>1, <2>2, <2>3, <2>4 DEF Counted
<1>9. /\ Symbols = {k \in DOMAIN Title : Title[k] \notin 128 .. 191}
      /\ i + 1 \in Symbols <=> sym \notin 128 .. 191
  BY <1>1, <1>2 DEF Symbols
<1>10. cut <=> mayBeRussian /\ i + 1 >= Len(Title)
  OBVIOUS
<1>11. ~mayBeRussian => ~cut /\ ~russian
  OBVIOUS
<1>12. russian <=> mayBeRussian /\ ~cut /\ ((sym = 208 /\ second >= 144) \/ (sym = 209 /\ second <= 143))
  BY DEF IsRussian
<1>13. (mayBeRussian <=> sym \in 128 .. 219) /\ size = SymbolSize(sym)
  OBVIOUS
<1>14. i + 2 \in 1 .. Len(Title) => (i + 2 \in Symbols <=> second \notin 128 .. 191)
                                       /\ second \in 0 .. 255
  BY <1>1 DEF Symbols
<1>15. CodePoint(i + 1) = (sym - 192) * 64 + second - 128
  <2>1. (i + 1) + 1 = i + 2
    BY <1>2
  <2> QED
    BY <2>1 DEF CodePoint
<1>16. i + 1 \in Symbols =>
          (i + 1 \in UnknownSymbols <=>
             sym > 127 /\ ~(sym \in 192 .. 223 /\ CodePoint(i + 1) \in 1040 .. 1103))
  BY DEF UnknownSymbols
<1>17. i + 1 \in Symbols =>
          /\ Continuation(i + 1) = i + 1 + 1 .. i + 1 + size - 1
          /\ Continuation(i + 1) \subseteq DOMAIN Title \ Symbols
          /\ AtSymbol(i + 1 + size - 1)
  BY NextSymbol DEF Continuation
<1> HIDE DEF sym, second, mayBeRussian, cut, russian, all, unknown, size, all2, unknown2
<1>18. CASE i + 1 \notin Symbols
  <2>1. sym \in 128 .. 191 /\ mayBeRussian /\ ~russian /\ sym > 127
    BY <1>3, <1>9, <1>12, <1>13, <1>18
  <2>2. AtSymbol(i + 1) /\ badSymb < 2 * unknown
    BY <1>2, <1>7, <1>18 DEF AtSymbol
  <2>3. /\ \A k \in Symbols : k <= i + 1 <=> k <= i
        /\ \A k \in UnknownSymbols : k <= i + 1 <=> k <= i
    BY <1>1, <1>2, <1>18
  <2>4. SymbolsUpTo(i + 1) = SymbolsUpTo(i) /\ UnknownUpTo(i + 1) = UnknownUpTo(i)
    BY <2>3 DEF SymbolsUpTo, UnknownUpTo
  <2>5. i' = i + 1
    BY <1>4, <2>1
  <2>6. all2 = all /\ unknown2 = unknown
    BY <2>4, <2>5 DEF all, unknown, all2, unknown2
  <2>7. realSize' = (all2 - unknown2) + badSymb' /\ unknown2 <= badSymb' /\ badSymb' <= 2 * unknown2
    <3>1. CASE cut
      BY <1>4, <1>5, <1>6, <1>7, <2>2, <2>6, <3>1
    <3>2. CASE ~cut
      BY <1>4, <1>5, <1>6, <1>7, <2>1, <2>2, <2>6, <3>2
    <3> QED
      BY <3>1, <3>2
  <2>8. i' \in i + 1 .. Len(Title)
    BY <1>1, <1>2, <2>5
  <2>9. AtSymbol(i')
    BY <2>2, <2>5
  <2> QED
    BY <1>8, <2>7, <2>8, <2>9
<1>19. CASE i + 1 \in Symbols
  <2>1. badSymb <= 2 * unknown /\ sym \notin 128 .. 191
    BY <1>7, <1>9, <1>19
  <2>2. size \in 1 .. 4
    BY <1>3, <1>13 DEF SymbolSize
  <2>3. /\ \A k \in i + 2 .. i + size : k \in DOMAIN Title \ Symbols
        /\ AtSymbol(i + size)
    <3>1. /\ i + 1 + size - 1 = i + size
          /\ \A k \in i + 2 .. i + size : k \in i + 1 + 1 .. i + 1 + size - 1
      BY <1>2, <2>2
    <3> QED
      BY <1>17, <1>19, <3>1
  <2>4. i + size <= Len(Title)
    <3> DEFINE n == i + size
    <3>1. AtSymbol(n) /\ n \in Nat
      BY <1>2, <2>2, <2>3
    <3> HIDE DEF n
    <3>2. n = Len(Title) \/ n + 1 \in 1 .. Len(Title)
      BY <1>1, <3>1 DEF AtSymbol
    <3>3. Len(Title) \in Nat
      BY <1>1
    <3>4. n <= Len(Title)
      BY <3>1, <3>2, <3>3
    <3> QED
      BY <3>4 DEF n
  <2>5. ASSUME NEW m \in i + 1 .. i + size
        PROVE  /\ Cardinality(SymbolsUpTo(m)) = all + 1
               /\ i + 1 \in UnknownSymbols => Cardinality(UnknownUpTo(m)) = unknown + 1
               /\ i + 1 \notin UnknownSymbols => Cardinality(UnknownUpTo(m)) = unknown
    <3>1. m \in Nat /\ i < m /\ \A k \in i + 2 .. m : k \notin Symbols
      BY <1>2, <2>2, <2>3
    <3>2. /\ Cardinality(SymbolsUpTo(m)) = all + 1
          /\ Cardinality(UnknownUpTo(m)) =
                unknown + IF i + 1 \in UnknownSymbols THEN 1 ELSE 0
      BY <1>2, <1>19, <3>1, OneSymbolMore DEF all, unknown
    <3> QED
      BY <1>5, <3>2
  <2>6. CASE sym <= 127
    <3>1. ~mayBeRussian /\ Width(sym) = 1 /\ size = 1
      BY <1>3, <1>13, <2>6 DEF SymbolSize, Width
    <3>2. i + 1 \notin UnknownSymbols
      BY <1>3, <1>16, <1>19, <2>6
    <3>3. i' = i + 1 /\ realSize' = realSize + 1 /\ badSymb' = badSymb
      BY <1>4, <1>11, <2>6, <3>1
    <3>4. all2 = all + 1 /\ unknown2 = unknown
      BY <1>2, <2>5, <3>1, <3>2, <3>3 DEF all2, unknown2
    <3>5. i' \in i + 1 .. Len(Title) /\ AtSymbol(i')
      BY <1>1, <1>2, <2>3, <3>1, <3>3
    <3>6. /\ realSize' = (all2 - unknown2) + badSymb'
          /\ unknown2 <= badSymb' /\ badSymb' <= 2 * unknown2
      BY <1>5, <1>6, <1>7, <2>1, <3>3, <3>4
    <3> QED
      BY <1>8, <3>5, <3>6
  <2>7. CASE sym > 127 /\ sym <= 223
    <3>1. sym \in 192 .. 219 /\ size = 2 /\ mayBeRussian
      BY <1>3, <1>13, <2>1, <2>7 DEF SymbolSize
    <3>2. i + 2 \in DOMAIN Title \ Symbols
      BY <1>2, <2>3, <3>1
    <3>3. second \in 128 .. 191 /\ ~cut
      <4>1. i + 2 \in 1 .. Len(Title) /\ i + 2 \notin Symbols
        BY <1>1, <3>2
      <4>2. ~(i + 1 >= Len(Title))
        BY <1>1, <1>2, <4>1
      <4> QED
        BY <1>10, <1>14, <4>1, <4>2
    <3>4. (sym - 192) * 64 + second - 128 \in 1040 .. 1103
             <=> (sym = 208 /\ second >= 144) \/ (sym = 209 /\ second <= 143)
      BY <3>1, <3>3
    <3>5. i + 1 \in UnknownSymbols <=> ~russian
      <4>1. i + 1 \in UnknownSymbols <=> CodePoint(i + 1) \notin 1040 .. 1103
        BY <1>16, <1>19, <2>7, <3>1
      <4>2. russian <=> (sym = 208 /\ second >= 144) \/ (sym = 209 /\ second <= 143)
        BY <1>12, <3>1, <3>3
      <4> QED
        BY <1>15, <3>4, <4>1, <4>2
    <3>6. CASE russian
      <4>1. i' = i + 2 /\ realSize' = realSize + 1 /\ badSymb' = badSymb
        BY <1>4, <3>3, <3>6
      <4>2. all2 = all + 1 /\ unknown2 = unknown
        BY <1>2, <2>5, <3>1, <3>5, <3>6, <4>1 DEF all2, unknown2
      <4>3. i' \in i + 1 .. Len(Title) /\ AtSymbol(i')
        BY <1>1, <1>2, <2>3, <2>4, <3>1, <4>1
      <4>4. /\ realSize' = (all2 - unknown2) + badSymb'
            /\ unknown2 <= badSymb' /\ badSymb' <= 2 * unknown2
        BY <1>5, <1>6, <1>7, <2>1, <4>1, <4>2
      <4> QED
        BY <1>8, <4>3, <4>4
    <3>7. CASE ~russian
      <4>1. i' = i + 1 /\ realSize' = realSize + 1 /\ badSymb' = badSymb + 1
        BY <1>4, <2>7, <3>1, <3>3, <3>7, <1>3
      <4>2. all2 = all + 1 /\ unknown2 = unknown + 1
        BY <1>2, <2>5, <3>1, <3>5, <3>7, <4>1 DEF all2, unknown2
      <4>3. /\ i' \in i + 1 .. Len(Title)
            /\ i' + 1 \in DOMAIN Title \ Symbols /\ AtSymbol(i' + 1)
        <5>1. i' + 1 = i + 2
          BY <1>2, <4>1
        <5> QED
          BY <1>1, <1>2, <2>3, <3>1, <3>2, <4>1, <5>1
      <4>4. /\ realSize' = (all2 - unknown2) + badSymb'
            /\ unknown2 <= badSymb' /\ badSymb' < 2 * unknown2
        BY <1>5, <1>6, <1>7, <2>1, <4>1, <4>2
      <4> QED
        BY <1>8, <4>3, <4>4
    <3> QED
      BY <3>6, <3>7
  <2>8. CASE sym > 223
    <3>1. size = Width(sym) /\ ~mayBeRussian
      BY <1>3, <1>13, <2>8 DEF SymbolSize, Width
    <3>2. i + 1 \in UnknownSymbols
      BY <1>3, <1>16, <1>19, <2>8
    <3>3. i' = i + size /\ realSize' = realSize + 1 /\ badSymb' = badSymb + 1
      BY <1>3, <1>4, <1>11, <2>8, <3>1
    <3>4. all2 = all + 1 /\ unknown2 = unknown + 1
      BY <1>2, <2>2, <2>5, <3>2, <3>3 DEF all2, unknown2
    <3>5. i' \in i + 1 .. Len(Title) /\ AtSymbol(i')
      BY <1>1, <1>2, <2>2, <2>3, <2>4, <3>3
    <3>6. /\ realSize' = (all2 - unknown2) + badSymb'
          /\ unknown2 <= badSymb' /\ badSymb' <= 2 * unknown2
      BY <1>5, <1>6, <1>7, <2>1, <3>3, <3>4
    <3> QED
      BY <1>8, <3>5, <3>6
  <2> QED
    BY <1>3, <2>6, <2>7, <2>8
<1> QED
  BY <1>18, <1>19

\* What the scan has counted decides as RejectionIsAboutUnknowns says.
LEMMA CountsDecide ==
    ASSUME TypeOK, IsScannable, i \in 0 .. Len(Title), i >= Len(Title), Counted
    PROVE  /\ 2 * Cardinality(UnknownSymbols) > Cardinality(Symbols) => TooManyUnknownSymbols
           /\ 3 * Cardinality(UnknownSymbols) <= Cardinality(Symbols) => ~TooManyUnknownSymbols
<1>1. /\ DOMAIN Title = 1 .. Len(Title) /\ Len(Title) \in Nat
      /\ \A k \in Symbols : k \in 1 .. Len(Title)
      /\ \A k \in UnknownSymbols : k \in Symbols
  BY TitleParts
<1>2. SymbolsUpTo(i) = Symbols /\ UnknownUpTo(i) = UnknownSymbols
  BY <1>1 DEF SymbolsUpTo, UnknownUpTo
<1> DEFINE all == Cardinality(Symbols)
           unknown == Cardinality(UnknownSymbols)
<1>3. all \in Nat /\ unknown \in Nat
  <2>1. IsFiniteSet(Symbols) /\ IsFiniteSet(UnknownSymbols)
    BY <1>2, FiniteUpTo
  <2> QED
    BY <2>1, FS_CardinalityType
<1>4. i + 1 \notin DOMAIN Title
  BY <1>1
<1>5. /\ realSize = (all - unknown) + badSymb
      /\ unknown <= badSymb /\ badSymb <= 2 * unknown
      /\ badSymb \in Nat
  <2>1. badSymb \in Nat
    BY DEF TypeOK
  <2> QED
    BY <1>2, <1>4, <2>1 DEF Counted
<1> HIDE DEF all, unknown
<1>6. /\ 2 * unknown > all => badSymb * 2 > realSize
      /\ 3 * unknown <= all => ~(badSymb * 2 > realSize)
  BY <1>3, <1>5
<1> QED
  BY <1>6 DEF TooManyUnknownSymbols, all, unknown

LEMMA ScanInvStep == TypeOK /\ NotScanned /\ ScanInv /\ [Next]_vars => ScanInv'
<1> SUFFICES ASSUME TypeOK, NotScanned, ScanInv, [Next]_vars
             PROVE  ScanInv'
  OBVIOUS
<1>1. ASSUME pc' \notin {"scan", "annotate"}
      PROVE  ScanInv'
  BY <1>1 DEF ScanInv, RejectionIsAboutUnknowns
<1>2. ASSUME doc' = doc
      PROVE  /\ Title' = Title /\ Symbols' = Symbols /\ UnknownSymbols' = UnknownSymbols
             /\ IsScannable' <=> IsScannable
  <2>1. Title' = Title
    BY <1>2 DEF Title
  <2>2. Symbols' = Symbols
    BY <2>1 DEF Symbols
  <2> QED
    BY <2>1, <2>2 DEF UnknownSymbols, CodePoint, IsScannable, IsUtf8, Continuation
<1>3. CASE Predict
  <2>1. CASE page.probability = "below 0.4"
    <3>1. pc' = "annotate" /\ page' = page
      BY <1>3, <2>1 DEF Predict
    <3> QED
      BY <2>1, <3>1 DEF ScanInv, RejectionIsAboutUnknowns
  <2>2. CASE page.probability # "below 0.4"
    <3>1. /\ pc' = "scan" /\ doc' = doc /\ UNCHANGED <<i, realSize, badSymb>>
          /\ i = 0 /\ realSize = 0 /\ badSymb = 0
      BY <1>3, <2>2 DEF Predict, NotScanned, scanVars
    <3>2. ASSUME IsScannable
          PROVE  i \in 0 .. Len(Title) /\ Counted
      <4>1. /\ DOMAIN Title = 1 .. Len(Title) /\ Len(Title) \in Nat
            /\ \A k \in Symbols : k \in 1 .. Len(Title)
            /\ \A k \in UnknownSymbols : k \in Symbols
        BY TitleParts
      <4>2. SymbolsUpTo(0) = {} /\ UnknownUpTo(0) = {}
        BY <4>1 DEF SymbolsUpTo, UnknownUpTo
      <4>3. Cardinality(SymbolsUpTo(0)) = 0 /\ Cardinality(UnknownUpTo(0)) = 0
        BY <4>2, FS_EmptySet
      <4>4. AtSymbol(0)
        <5>1. ASSUME 1 \in 1 .. Len(Title), 1 \notin Symbols PROVE FALSE
          <6>1. PICK j \in Symbols : 1 \in Continuation(j)
            BY <3>2, <4>1, <5>1 DEF IsScannable, IsUtf8
          <6> QED
            BY <4>1, <6>1 DEF Continuation
        <5> QED
          BY <4>1, <5>1 DEF AtSymbol
      <4> QED
        BY <3>1, <4>1, <4>3, <4>4 DEF Counted
    <3>3. (IsScannable => i \in 0 .. Len(Title) /\ Counted)'
      BY <1>2, <3>1, <3>2 DEF Counted, SymbolsUpTo, UnknownUpTo, AtSymbol
    <3> QED
      BY <3>1, <3>3 DEF ScanInv, RejectionIsAboutUnknowns
  <2> QED
    BY <2>1, <2>2
<1>4. CASE ScanSymbol
  <2>1. pc = "scan" /\ pc' = "scan" /\ doc' = doc
    BY <1>4 DEF ScanSymbol
  <2>2. IsScannable => (i \in 0 .. Len(Title) /\ Counted)'
    <3>1. ASSUME IsScannable PROVE i' \in 0 .. Len(Title) /\ Counted'
      <4>1. i \in 0 .. Len(Title) /\ Counted
        BY <2>1, <3>1 DEF ScanInv
      <4> QED
        BY <1>4, <3>1, <4>1, ScanCounts
    <3> QED
      BY <1>2, <2>1, <3>1
  <2> QED
    BY <1>2, <2>1, <2>2 DEF ScanInv, RejectionIsAboutUnknowns
<1>5. CASE DetectLanguage
  <2>1. /\ pc = "scan" /\ pc' = "annotate" /\ i >= Len(Title) /\ UNCHANGED <<doc, page>>
        /\ language' =
              IF \/ TooManyUnknownSymbols
                 \/ page.label = "LN_UNDEFINED"
                 \/ page.label = "LN_RU" /\ page.probability # "high"
              THEN "LN_OTHER" ELSE page.label
    BY <1>5 DEF DetectLanguage
  <2>2. IsScannable =>
           /\ 2 * Cardinality(UnknownSymbols) > Cardinality(Symbols) => TooManyUnknownSymbols
           /\ 3 * Cardinality(UnknownSymbols) <= Cardinality(Symbols) => ~TooManyUnknownSymbols
    BY <2>1, CountsDecide DEF ScanInv
  <2>3. IsScannable' <=> IsUtf8' /\ (\A k \in DOMAIN Title : Title[k] \notin 220 .. 223)'
    BY DEF IsScannable
  <2> QED
    BY <1>2, <2>1, <2>2, <2>3 DEF ScanInv, RejectionIsAboutUnknowns
<1>6. CASE UNCHANGED vars
  <2>1. /\ UNCHANGED <<pc, page, doc, i, realSize, badSymb, language>>
    BY <1>6 DEF vars, scanVars
  <2>2. Counted' <=> Counted
    BY <1>2, <2>1 DEF Counted, SymbolsUpTo, UnknownUpTo, AtSymbol
  <2>3. RejectionIsAboutUnknowns' <=> RejectionIsAboutUnknowns
    BY <1>2, <2>1 DEF RejectionIsAboutUnknowns, IsUtf8, Continuation
  <2> QED
    BY <1>2, <2>1, <2>2, <2>3 DEF ScanInv
<1>7. CASE \/ FindMetas \/ ReadMeta \/ FindArticle \/ ReadParagraph \/ ReadAddress \/ Annotate
  BY <1>1, <1>7
  DEF FindMetas, ReadMeta, FindArticle, ReadParagraph, ReadAddress, Annotate, Throw
<1> QED
  BY <1>3, <1>4, <1>5, <1>6, <1>7 DEF Next

\* The scan of bytes never lets a title in UTF-8 pass that is mostly unknown, and
\* never rejects one where a third of the symbols or less is unknown, whatever
\* its length and its symbols outside U+0700 to U+07FF.
THEOREM ScanApproximates == Spec => []RejectionIsAboutUnknowns
<1>1. Init => ScanInv
  BY DEF Init, ScanInv, RejectionIsAboutUnknowns
<1>2. TypeOK /\ NotScanned /\ ScanInv /\ [Next]_vars => ScanInv'
  BY ScanInvStep
<1>3. ScanInv => RejectionIsAboutUnknowns
  BY DEF ScanInv
<1> QED
  BY <1>1, <1>2, <1>3, TypesAreKept, PTL DEF Spec
=============================================================================
