---------------------------- MODULE MCNewsServer ----------------------------
(***************************************************************************)
(* Small instances of NewsServer.                                          *)
(***************************************************************************)
EXTENDS NewsServer, TLC

\* The languages, models and embeddings of configs/server_config.json, RU
\* weighing one key instead of two.
MCCategoryDetectors == {"LN_RU", "LN_EN"}
MCEmbedders ==
    {<<"LN_RU", "EK_FASTTEXT_TITLE">>, <<"LN_EN", "EK_FASTTEXT_CLASSIC">>}
MCClusterings == {"LN_RU", "LN_EN"}
MCRequiredKeys ==
    [lang \in MCClusterings |->
        IF lang = "LN_RU" THEN {"EK_FASTTEXT_TITLE"} ELSE {"EK_FASTTEXT_CLASSIC"}]

News(time) ==
    [parses |-> TRUE, detectedLanguage |-> "LN_RU", detectedCategory |-> "NC_SOCIETY",
     longEnough |-> TRUE, FetchTime |-> time]

\* Old and new news, and the bodies that leave the usual path.
OldNews == News(0)
NewNews == News(1)
EnglishNotNews ==
    [NewNews EXCEPT !.detectedLanguage = "LN_EN", !.detectedCategory = "NC_NOT_NEWS"]
ShortText == [NewNews EXCEPT !.longEnough = FALSE]
OtherLanguage == [NewNews EXCEPT !.detectedLanguage = "LN_OTHER"]
NoArticle == [NewNews EXCEPT !.parses = FALSE]

MaxAge(n) == [directive |-> "max-age", age |-> n]
NoCacheHeader == [directive |-> "no-cache", age |-> 0]
Garbled == [directive |-> "garbled", age |-> 0]

\* With a modulus of 4, the age 4 is stored as the ttl 0.
AllBodies == {OldNews, NewNews, ShortText, OtherLanguage, NoArticle}
AllHeaders == {MaxAge(4), NoCacheHeader, Garbled}
FairBodies == {OldNews, NewNews, ShortText}
MixedBodies == {OldNews, EnglishNotNews}
OneBody == {NewNews}
OneAge == {MaxAge(0)}
NoDocs == {}

\* A live document, an outdated one, and one left by a server whose annotator
\* had no embedder for EN's key.
LeftNews(time) ==
    [Language |-> "LN_RU", Category |-> "NC_SOCIETY", Embeddings |-> {"EK_FASTTEXT_TITLE"},
     FetchTime |-> time, Ttl |-> 0]
Unclusterable ==
    [Language |-> "LN_EN", Category |-> "NC_SCIENCE", Embeddings |-> {"EK_FASTTEXT_TITLE"},
     FetchTime |-> 0, Ttl |-> 0]
OutdatedDocs == {LeftNews(0)}
UnclusterableDocs == {LeftNews(0), LeftNews(1), Unclusterable}

Permuted == Permutations(Handlers)
=============================================================================
