------------------------------ MODULE MCIntake ------------------------------
(***************************************************************************)
(* Pages of three families: titles of all kinds of symbols, titles that    *)
(* are nasty or not, and elements in every order, with every date.         *)
(***************************************************************************)
EXTENDS Intake, SequencesExt

MCCategoryDetectors == {"LN_RU", "LN_EN"}
MCEmbedders == {<<"LN_RU", "EK_FASTTEXT_TITLE">>, <<"LN_EN", "EK_FASTTEXT_CLASSIC">>}
MCMinTitleSize == [LN_RU |-> 6, LN_EN |-> 4]

\* Half is 100 here: the zones are within 20, the dates within 30 of 1970.
Dates == [matches : {TRUE}, local : {-30, 5, 30}, sign : {"+", "-"}, zone : {0, 20}]
BadDate == [matches |-> FALSE, local |-> 0, sign |-> "+", zone |-> 0]

MetaOf(property, content) ==
    [property |-> property, complete |-> TRUE, content |-> content, date |-> BadDate]

Published(date) == [MetaOf("article:published_time", << >>) EXCEPT !.date = date]

Plain ==
    [lacks |-> "nothing", metas |-> << >>, paragraphs |-> <<3>>, dated |-> FALSE, datetime |-> BadDate,
     author |-> "named", label |-> "LN_EN", probability |-> "high",
     category |-> "NC_SOCIETY"]

\* Symbols in UTF-8: a, the Russian A, ya and yo, a dash, an emoji and a letter
\* of the block where the scan loses its place.
ScannedSymbols ==
    {<<97>>, <<208, 144>>, <<209, 143>>, <<209, 145>>, <<226, 128, 147>>,
     <<240, 159, 152, 128>>, <<220, 144>>}

\* Space, !, the two quotation marks, a and ya.
NastySymbols == {<<32>>, <<33>>, <<34>>, <<194, 171>>, <<97>>, <<209, 143>>}

TitlesOf3(symbols) ==
    LET at == symbols \cup {<< >>}
    IN  {a \o b \o c : a \in at, b \in at, c \in at}

TitlesOf4(symbols) == {a \o title : a \in symbols, title \in TitlesOf3(symbols)}

TitledForScan ==
    {[Plain EXCEPT !.metas = <<MetaOf("og:title", title)>>, !.label = label] :
        title \in TitlesOf4(ScannedSymbols), label \in {"LN_RU", "LN_EN"}}

TitledForNasty ==
    {[Plain EXCEPT !.metas = <<MetaOf("og:title", title)>>, !.label = label] :
        title \in TitlesOf4(NastySymbols), label \in {"LN_RU", "LN_OTHER"}}

Metas ==
    {MetaOf("og:title", <<97>>), MetaOf("og:title", <<98, 32, 98, 32, 98>>),
     [MetaOf("og:title", <<99>>) EXCEPT !.complete = FALSE],
     MetaOf("og:url", <<100>>), MetaOf("og:site_name", <<101>>),
     MetaOf("og:description", <<102>>), MetaOf("other", <<103>>), Published(BadDate)}
    \cup {Published(date) : date \in {d \in Dates : d.local = 5}}

Ordered == {[Plain EXCEPT !.metas = metas] : metas \in SeqOf(Metas, 3)}

Structured ==
    {[Plain EXCEPT !.lacks = lacks, !.metas = <<MetaOf("og:title", <<97>>)>>,
                   !.paragraphs = paragraphs, !.dated = dated, !.datetime = datetime,
                   !.author = author, !.label = label, !.probability = probability] :
        lacks \in {"nothing", "html", "head", "body", "article"},
        label \in {"LN_RU", "LN_UNDEFINED"},
        paragraphs \in {<< >>, <<0, 2>>},
        dated \in BOOLEAN, datetime \in {BadDate} \cup {d \in Dates : d.local # 30},
        author \in {"none", "named", "textless"},
        probability \in {"below 0.4", "below 0.6"}}

MCPages == UNION {TitledForScan, TitledForNasty, Ordered, Structured}
=============================================================================
