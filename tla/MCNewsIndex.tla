---------------------------- MODULE MCNewsIndex ----------------------------
(***************************************************************************)
(* Up to three documents; one period is negative.  Documents differ in     *)
(* time, host and weight, or in language and category.                     *)
(***************************************************************************)
EXTENDS NewsIndex

MCPeriods == {-2, 0, 1}
MCHosts == {1, 2}
MCAgencyScore == [host \in MCHosts |-> host]
MCHostWeight == [host \in MCHosts |-> 4 - host]

\* Nearly One from a few hours on, in quarters.
MCSigmoid(time, shift) == Max({1, Min({4, 2 + time + shift \div 6})})

News == [FetchTime |-> 0, Language |-> "LN_RU", Category |-> "NC_SOCIETY", Host |-> 1,
         Title |-> 1, Nasty |-> FALSE, Relevance |-> 0]

MCDocumentKinds ==
    {[News EXCEPT !.FetchTime = time, !.Host = host] : time \in {0, 2, 3}, host \in MCHosts}
    \cup {[News EXCEPT !.FetchTime = 3, !.Title = weight, !.Relevance = weight - 1] : weight \in {2, 3}}
    \cup {[News EXCEPT !.FetchTime = 2, !.Nasty = TRUE],
          [News EXCEPT !.FetchTime = 3, !.Relevance = -2]}
    \cup {[News EXCEPT !.FetchTime = time, !.Language = "LN_EN", !.Category = category] :
            time \in {2, 3}, category \in {"NC_SOCIETY", "NC_NOT_NEWS"}}
    \cup {[News EXCEPT !.FetchTime = 3, !.Category = "NC_NOT_NEWS"],
          [News EXCEPT !.FetchTime = 3, !.Language = "LN_OTHER"]}
=============================================================================
