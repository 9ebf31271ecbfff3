-------------------------- MODULE AnnotateInOrder --------------------------
(***************************************************************************)
(* What AnnotateAll and the modes that print its result promise: as if one *)
(* thread took the documents one after the other, kept the wanted ones and *)
(* printed each under its heading, or stopped at the first that throws.    *)
(***************************************************************************)
EXTENDS Annotator, Sorting

CONSTANTS Unannotatable, RequestedLanguages, SaveNotNews

VARIABLES
    input, inputFormat,
    next,       \* how many documents are done
    docs,       \* the wanted ones among them, by their places in the input
    output,     \* for each heading, the documents printed under it
    outcome     \* "running", "threw" or "printed"

vars == <<input, inputFormat, next, docs, output, outcome>>

-----------------------------------------------------------------------------
\* A bad document fails a JSON file as a whole; a bad page is skipped.
BadFile == inputFormat # "IF_HTML" /\ \E i \in DOMAIN input : ~input[i].parses

Throws(body) == body.parses /\ body \in Unannotatable

IsWanted(body) ==
    LET doc == AnnotateDocument(body)
    IN  /\ body.parses
        /\ doc.Language \in RequestedLanguages \ {"LN_UNDEFINED"}
        /\ doc.Embeddings # {}
        /\ doc.Category # "NC_UNDEFINED"
        /\ doc.Category = "NC_NOT_NEWS" => SaveNotNews

Heading(body) ==
    CASE Mode = "categories" -> AnnotateDocument(body).Category
      [] Mode = "languages" -> AnnotateDocument(body).Language
      [] OTHER -> "articles"

\* The other modes go on to cluster the documents (NewsIndex).
Prints == Mode \in {"categories", "languages", "news", "json"}

Init ==
    /\ next = 0
    /\ docs = << >>
    /\ output = << >>
    /\ outcome = "running"

Annotate ==
    /\ outcome = "running" /\ ~BadFile
    /\ next < Len(input) /\ ~Throws(input[next + 1])
    /\ next' = next + 1
    /\ docs' = IF IsWanted(input[next + 1]) THEN Append(docs, next + 1) ELSE docs
    /\ UNCHANGED <<input, inputFormat, output, outcome>>

Throw ==
    /\ outcome = "running"
    /\ BadFile \/ (next < Len(input) /\ Throws(input[next + 1]))
    /\ outcome' = "threw"
    /\ UNCHANGED <<input, inputFormat, next, docs, output>>

PrintResult ==
    /\ outcome = "running" /\ ~BadFile
    /\ next = Len(input)
    /\ outcome' = "printed"
    /\ Prints => \A k \in DOMAIN docs : Heading(input[docs[k]]) \in DOMAIN output'
    /\ \A heading \in DOMAIN output' :
          output'[heading] = Selected(docs, LAMBDA i : Heading(input[i]) = heading)
    /\ ~Prints => output' = << >>
    /\ UNCHANGED <<input, inputFormat, next, docs>>

Next == Annotate \/ Throw \/ PrintResult

Spec == Init /\ [][Next]_vars

\* The specification with its promise to come to an end.
EndingSpec == Spec /\ <>(outcome # "running")
=============================================================================
