--------------------------- MODULE MCAnnotateAll ---------------------------
(***************************************************************************)
(* Up to three documents on three workers.                                 *)
(***************************************************************************)
EXTENDS AnnotateAll

MCCategoryDetectors == {"LN_RU", "LN_EN"}
MCEmbedders == {<<"LN_RU", "EK_FASTTEXT_TITLE">>, <<"LN_EN", "EK_FASTTEXT_CLASSIC">>}
MCRequestedLanguages == {"LN_RU", "LN_EN"}

News ==
    [parses |-> TRUE, detectedLanguage |-> "LN_RU", detectedCategory |-> "NC_SOCIETY",
     longEnough |-> TRUE, FetchTime |-> 0]
NotNews == [News EXCEPT !.detectedLanguage = "LN_EN", !.detectedCategory = "NC_NOT_NEWS"]
Sports == [News EXCEPT !.detectedCategory = "NC_SPORTS"]
Short == [News EXCEPT !.longEnough = FALSE]
Broken == [News EXCEPT !.parses = FALSE]
Poison == [News EXCEPT !.FetchTime = 1]

MCBodies == {News, Sports, NotNews, Short, Broken, Poison}
MCUnannotatable == {Poison}
=============================================================================
