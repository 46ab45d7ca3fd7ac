---------------------------- MODULE MCPreviewBatch ----------------------------
(* Small instances of PreviewBatch for TLC.                                 *)
EXTENDS PreviewBatch

\* 1 and 2 share a period, 3 has none, 4 is without a code, 5 left the catalog.
MCCourses == 1..5
MCCoded == {1, 2, 3, 5}
MCTimes == <<{"Mon2"}, {"Mon2", "Tue3"}, {}, {"Wed4"}, {"Tue3"}>>
MCLegible == {1, 5}

Add(c, n) == [action |-> "+", course |-> c, priority |-> n, typed |-> FALSE]
Drop(c, n, t) == [action |-> "-", course |-> c, priority |-> n, typed |-> t]

\* Well formed operations, and one of each way to be malformed.
MCRequests ==
  {Add(c, n) : c \in {1, 2, 3}, n \in {1, 2}} \cup {Add(4, 1), Add(5, 1)}
    \cup {Drop(c, None, TRUE) : c \in {1, 3, 5}}
    \cup {Add(1, None), Add(1, 4), Drop(1, None, FALSE), Drop(1, 1, TRUE)}

Page(links, rows) ==
  [links |-> links, rows |-> rows, withdrawal |-> FALSE, heading |-> FALSE,
   readonly |-> FALSE, prestep |-> FALSE, bounce |-> FALSE]

\* Both forms, a shorter one, a page with both links, and the closed kinds.
MCPages ==
  {Page(<<"ssform">>, 3), [Page(<<"ssform">>, 2) EXCEPT !.heading = TRUE],
   Page(<<"stage5", "ssform">>, 2), [Page(<<"ssform">>, 3) EXCEPT !.prestep = TRUE],
   [Page(<<>>, 0) EXCEPT !.withdrawal = TRUE], [Page(<<>>, 0) EXCEPT !.readonly = TRUE],
   Page(<<>>, 0), [Page(<<>>, 0) EXCEPT !.bounce = TRUE]}

MCCatalogs == {1..4, {1, 3}}
MCSelections == {{}, {1}, {3, 5}}
MCLimit == [ssform |-> 3, stage5 |-> 2]
=============================================================================
