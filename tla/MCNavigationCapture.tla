------------------------ MODULE MCNavigationCapture ------------------------
(***************************************************************************)
(* An instance of NavigationCapture: one tab shows a document whose        *)
(* script takes it through every address Addresses has, and a second page  *)
(* the browser gives no document identifier for, under two addresses that  *)
(* differ in a search term; one report is of a frame, one of another       *)
(* scheme.                                                                 *)
(***************************************************************************)
EXTENDS NavigationCapture

CONSTANTS NoDoc, Doc

Page(host, query) ==
    [scheme |-> "https", user |-> "user", host |-> host, pathWellFormed |-> TRUE,
     query |-> query, fragment |-> "part"]

Param(name, capital, value) ==
    [key |-> [name |-> name, capital |-> capital], value |-> value, wellFormed |-> TRUE]

Params ==
    { Param("id", FALSE, "1"), Param("id", FALSE, "2"), Param("q", FALSE, "1"),
      Param("token", FALSE, "1"), Param("token", TRUE, "1") }

Example == <<"example", "org">>
Bing    == <<"www", "bing", "com">>

\* Every query of up to two parameters, one of four, and what Go cannot read.
Addresses ==
    {Page(host, query) : host \in {Example, Bing}, query \in BoundedSeq(Params, 2)}
        \cup { Page(Bing, <<Param("id", FALSE, "2"), Param("token", FALSE, "1"),
                          Param("id", FALSE, "1"), Param("token", FALSE, "2")>>),
               Page(Bing, <<[Param("id", FALSE, "1") EXCEPT !.wellFormed = FALSE]>>),
               [Page(Example, <<>>) EXCEPT !.pathWellFormed = FALSE] }

Report(kind, document, url) ==
    [mainFrame |-> TRUE, tab |-> 1, kind |-> kind, document |-> document, url |-> url]

MCNavigations ==
    { Report("committed", Doc, Page(Example, <<>>)),
      Report("committed", NoDoc, Page(Bing, <<Param("q", FALSE, "1")>>)),
      Report("committed", NoDoc, Page(Bing, <<Param("q", FALSE, "2")>>)),
      [Report("committed", NoDoc, Page(Example, <<>>)) EXCEPT !.mainFrame = FALSE],
      Report("committed", NoDoc, [Page(Example, <<>>) EXCEPT !.scheme = "edge"]) }
        \cup {Report("history_state", Doc, url) : url \in Addresses}
=============================================================================
