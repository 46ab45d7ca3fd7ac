--------------------------- MODULE MCSchoolTraffic ---------------------------
(* A small instance of SchoolTraffic for TLC: two legs, one other handler   *)
(* (or the write queue) and one catalog run.                                *)
EXTENDS SchoolTraffic

CONSTANTS page
OneOther == {page}
AllTasks == {Regweb, Sco, Catalog, page}
=============================================================================
