--------------------------- MODULE CatalogListing ---------------------------
(***************************************************************************)
(* GET /api/courses: a student turns the pages of a filtered listing.  A   *)
(* request reads the newest semester, the number of matching rows and one  *)
(* slice of them in three statements, each of which sees what is committed *)
(* by then; an ingest may replace the rows between any two of them.        *)
(*                                                                         *)
(* A course is a record of what filters and sorting look at; class times   *)
(* are one set of periods per day, none at all when the column is NULL.    *)
(***************************************************************************)
EXTENDS Naturals, Sequences, SequencesExt

CONSTANTS
  Tables,    \* what ingests leave in the courses table
  Queries,   \* raw query parameters: functions on the names that are given
  PerPage,   \* PER_PAGE
  Resolved,  \* what the resolution of the current semester may say, Null included
  Semesters, \* four-digit semesters
  Null       \* NULL, no value

\* The id is the key of the table; names are compared by their ranks.
ASSUME ListingAssumption ==
  /\ PerPage \in Nat \ {0} /\ Tables # {} /\ Null \notin Nat \cup BOOLEAN
  /\ \A t \in Tables :
       /\ IsFiniteSet(t)
       /\ \A c \in t : c.id \in Nat /\ c.year_sem \in Nat /\ {c.dept, c.name} \subseteq Nat \cup {Null}
       /\ \A c, d \in t : c.id = d.id => c = d

VARIABLES
  table,    \* the rows of courses
  listing   \* the request under way, and the pages its student has

listingVars == <<table, listing>>

Params == {"year_sem", "q", "dept", "grade", "credit", "compulsory", "english",
           "weekday", "period", "page", "available"}

NoListing ==
  [pc |-> "idle", raw |-> <<>>, page |-> 1, filter |-> Null, total |-> 0, got |-> <<>>,
   whole |-> TRUE]

ListingInit == table \in Tables /\ listing = NoListing

-----------------------------------------------------------------------------
(* parse_course_params.                                                     *)

Given(raw, name) == name \in DOMAIN raw

\* What a parameter may be; a course may be searched for any word or department.
Legal(name, value) ==
  CASE name = "year_sem" -> value \in Semesters
    [] name = "grade" -> value \in 0..4
    [] name = "weekday" -> value \in 1..7
    [] name = "credit" -> value \in Nat
    [] name \in {"compulsory", "english", "available"} -> value \in BOOLEAN
    [] name = "page" -> value \in Nat \ {0}
    [] OTHER -> value # Null

\* Unknown names, values out of their domain, and a period without a day are 400.
Refused(raw) ==
  \/ ~(DOMAIN raw \subseteq Params)
  \/ \E name \in DOMAIN raw : ~Legal(name, raw[name])
  \/ Given(raw, "period") /\ ~Given(raw, "weekday")

ParseCourseParams(raw, default) ==
  [name \in Params \ {"page"} |->
     IF Given(raw, name) THEN raw[name] ELSE IF name = "year_sem" THEN default ELSE Null]

-----------------------------------------------------------------------------
(* _filters, build_items_query, build_count_query.                          *)

SlotMatches(f, c) ==
  /\ f["weekday"] \in DOMAIN c.class_time
  /\ LET slot == c.class_time[f["weekday"]]
     IN IF f["period"] = Null THEN slot # {} ELSE f["period"] \in slot

Matches(f, c) ==
  /\ c.year_sem = f["year_sem"]
  /\ f["q"] # Null => f["q"] \in c.words
  /\ \A name \in {"dept", "grade", "credit", "compulsory", "english"} :
       f[name] # Null => c[name] = f[name]
  /\ f["available"] = TRUE => c.remaining > 0
  /\ f["weekday"] # Null => SlotMatches(f, c)

Matching(f) == {c \in table : Matches(f, c)}

NullsLast(x, y, otherwise) ==
  IF x = y THEN otherwise ELSE x # Null /\ (y = Null \/ x < y)

Precedes(c, d) == NullsLast(c.dept, d.dept, NullsLast(c.name, d.name, c.id <= d.id))

\* The rows in an order the database may give them.
Ordered(f) ==
  {s \in SetToSeqs(Matching(f)) : \A i \in 1..(Len(s) - 1) : Precedes(s[i], s[i + 1])}

LimitOffset(s, offset) == SubSeq(s, offset + 1, Min({offset + PerPage, Len(s)}))

\* Wrong variant of Slice: pages are counted from zero.
SliceFromZero(s, page) == LimitOffset(s, page * PerPage)

Slice(s, page) == LimitOffset(s, (page - 1) * PerPage)

-----------------------------------------------------------------------------
(* list_courses.                                                            *)

StartListing(raw) ==
  /\ listing.pc = "idle"
  /\ listing' = [NoListing EXCEPT !.pc = "newest", !.raw = raw]
  /\ UNCHANGED table

\* The default is the newest semester there is; an empty table asks the school for
\* it, and without an answer that is a 503.
NewestSemester ==
  /\ listing.pc = "newest"
  /\ \E default \in IF table = {} THEN Resolved ELSE {Max({c.year_sem : c \in table})} :
       listing' = IF default = Null \/ Refused(listing.raw)
                    THEN NoListing
                    ELSE [listing EXCEPT !.pc = "count",
                                         !.filter = ParseCourseParams(listing.raw, default)]
  /\ UNCHANGED table

FetchCount ==
  /\ listing.pc = "count"
  /\ listing' = [listing EXCEPT !.pc = "slice",
                                !.total = Cardinality(Matching(listing.filter))]
  /\ UNCHANGED table

FetchSlice ==
  /\ listing.pc = "slice"
  /\ \E s \in Ordered(listing.filter) :
       listing' = [listing EXCEPT !.pc = "page", !.got = @ \o Slice(s, listing.page)]
  /\ UNCHANGED table

\* The student asks for the next page while there is one.
TurnOver ==
  /\ listing.pc = "page" /\ listing.page * PerPage < listing.total
  /\ listing' = [listing EXCEPT !.pc = "newest", !.page = @ + 1]
  /\ UNCHANGED table

CloseListing ==
  /\ listing.pc = "page"
  /\ listing' = NoListing
  /\ UNCHANGED table

IngestCommits ==
  /\ \E t \in Tables \ {table} : table' = t
  /\ listing' = [listing EXCEPT !.whole = listing.pc = "idle"]

ListingNext ==
  \/ \E raw \in Queries : StartListing(raw)
  \/ NewestSemester \/ FetchCount \/ FetchSlice \/ TurnOver \/ CloseListing
  \/ IngestCommits

ListingSpec == ListingInit /\ [][ListingNext]_listingVars

-----------------------------------------------------------------------------
(* Properties.                                                              *)

ListingTypeOK ==
  /\ table \in Tables
  /\ listing.pc \in {"idle", "newest", "count", "slice", "page"}
  /\ listing.total \in Nat /\ listing.page \in Nat \ {0}
  /\ listing.got \in Seq(UNION Tables)

\* What the student asked for, said without pages or order.
Wanted(raw) ==
  LET asked(name, holds) == Given(raw, name) => holds
      newest == {c.year_sem : c \in {d \in table : \A e \in table : e.year_sem <= d.year_sem}}
  IN {c \in table :
        /\ c.year_sem \in IF Given(raw, "year_sem") THEN {raw["year_sem"]} ELSE newest
        /\ asked("q", raw["q"] \in c.words)
        /\ \A name \in {"dept", "grade", "credit", "compulsory", "english"} :
             asked(name, raw[name] = c[name])
        /\ asked("available", raw["available"] => c.remaining > 0)
        /\ asked("weekday", \E day \in DOMAIN c.class_time :
             /\ day = raw["weekday"]
             /\ \E p \in c.class_time[day] : asked("period", p = raw["period"]))}

\* While no ingest commits, the pages of a listing are the courses asked for, each
\* once: none falls between two pages and none is on both, whatever the order of
\* courses of one name, and the total said on every page is their number.
ListingIsWhole ==
  listing.pc = "page" /\ listing.whole =>
    /\ listing.total = Cardinality(Wanted(listing.raw))
    /\ IsInjective(listing.got)
    /\ Range(listing.got) \subseteq Wanted(listing.raw)
    /\ listing.page * PerPage >= listing.total => Range(listing.got) = Wanted(listing.raw)

=============================================================================
