----------------------------- MODULE MCComponents -----------------------------
(* Small instances of the components around the write path, for TLC.        *)
EXTENDS Components, TLC

CONSTANTS a, b, ca, cb, px, py, o1, o2, A, B, C, X, c1, c11, d

-----------------------------------------------------------------------------
(* Values of the constants.                                                 *)

Cells(n, bl, st, c, nr) ==
  [cells |-> n, blank |-> bl, state |-> st, code |-> c, number |-> nr, name |-> nr]
MCPages ==
  {<<Cells(1, FALSE, "x", Absent, Absent), Cells(14, TRUE, "x", Absent, Absent),
     Cells(14, FALSE, "taken", ca, a)>>,
   <<Cells(14, FALSE, "asked", ca, a), Cells(7, FALSE, "failed", Absent, b)>>,
   <<Cells(13, FALSE, "failed", Absent, a), Cells(14, FALSE, "taken", cb, b),
     Cells(5, FALSE, "taken", cb, b)>>}

Course(id, sem, dept, name, left, times) ==
  [id |-> id, year_sem |-> sem, dept |-> dept, name |-> name, words |-> {name},
   grade |-> id % 2, credit |-> 3, compulsory |-> TRUE, english |-> FALSE,
   remaining |-> left, class_time |-> times]
MCTables ==
  LET one == Course(1, 1151, 1, 1, 0, <<{1, 2}, {}>>)
      two == Course(2, 1151, 1, 1, 5, <<{}, {2}>>)
      three == Course(3, 1151, Null, 2, 5, <<{2}, {1}>>)
      four == Course(4, 1142, 1, Null, 5, <<>>)
      five == Course(5, 1151, 1, 1, 2, <<{1}, {2}>>)
  IN {{}, {one, two, three, four, five}, {one, three, four}}
MCQueries ==
  {"none" :> 1, "weekday" :> 1, "weekday" :> 8, "period" :> 2, "available" :> TRUE,
   "weekday" :> 1 @@ "period" :> 2, "year_sem" :> 1142, "dept" :> 1, "q" :> 2, "grade" :> 1 @@ "credit" :> 3,
   [name \in {} |-> 0]}

EvenTicks == {0, 2, 4, 6, 8, 10, 12, 14, 16, 18, 20, 22}

MCOwner == px :> "s" @@ py :> "t"
MCOps == px :> <<o1, o2>> @@ py :> <<o1>>

MCClassRow ==
  "fri" :> [times |-> <<{}, {}, {}, {}, {A, C}, {}, {B}>>, identity |-> "c1"]
  @@ "wed" :> [times |-> <<{B}, {}, {C, B}, {}, {}, {}, {}, {X}>>, identity |-> "c2"]
  @@ "none" :> [times |-> <<>>, identity |-> "c3"]
  @@ "bad" :> [times |-> <<{}, {A, X}>>, identity |-> "c4"]
MCPeriods == <<A, B, C>>

Piece(kind, codes, words) == [kind |-> kind, codes |-> codes, words |-> words]
MCPieces ==
  {Piece("row", {c1}, {}), Piece("row", {c1}, {"done"}), Piece("row", {c11}, {"refused"}),
   Piece("row", {c11}, {"done"}), Piece("line", {c1, d}, {"done", "refused"}),
   Piece("line", {d}, {"undone"}), Piece("line", {d}, {"done"}),
   Piece("line", {d}, {"repeated"}), Piece("row", {d}, {"listed"}),
   Piece("header", {}, {"refused"}), Piece("link", {}, {}), Piece("bounce", {}, {})}
MCWithin == {<<c1, c11>>}

=============================================================================
