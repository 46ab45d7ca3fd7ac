---------------------------- MODULE CalendarExport ----------------------------
(***************************************************************************)
(* POST /api/plans/export.ics: course rows become a calendar of weekly     *)
(* events, one per course and day with periods, which a calendar program   *)
(* unfolds again.  Days are numbers, and day d is weekday d % 7 (Monday    *)
(* is 0); a time of day is the rank of a period's start or end.            *)
(***************************************************************************)
EXTENDS Integers, Sequences, SequencesExt

CONSTANTS
  CalendarIds,     \* course ids, of rows or of none
  ClassRow,        \* course id -> its row: class times and identity
  Periods,         \* PERIOD_TABLE: the codes of the periods, earliest first
  SemesterStart, SemesterEnd,  \* days
  MaxPlan          \* MAX_PLAN_COURSES

ASSUME CalendarAssumption ==
  /\ SemesterStart \in Nat /\ SemesterEnd \in Nat /\ MaxPlan \in Nat \ {0}
  /\ Periods \in Seq(ToSet(Periods))
  /\ \A id \in DOMAIN ClassRow : ClassRow[id].times \in Seq(ToSet(ClassRow[id].times))

VARIABLE calendar  \* the answer to the request under way

Week == 7

\* PERIOD_RANGES: periods do not overlap, so their order gives starts and ends.
Known == ToSet(Periods)
Begins(code) == 2 * (CHOOSE i \in DOMAIN Periods : Periods[i] = code)
Ends(code) == Begins(code) + 1

Least(S) == CHOOSE x \in S : \A y \in S : x <= y
Greatest(S) == CHOOSE x \in S : \A y \in S : x >= y

\* The days of the row that have periods; days past Sunday are ignored.
DayBlocks(row) ==
  {[day |-> i - 1, codes |-> row.times[i],
    start |-> Least({Begins(c) : c \in row.times[i]}),
    end |-> Greatest({Ends(c) : c \in row.times[i]})] :
      i \in {k \in DOMAIN row.times : k <= Week /\ row.times[k] # {}}}

\* Wrong variant of FirstOccurrence: the semester's first day is not a class day.
FirstOccurrenceAfter(day) == SemesterStart + 1 + ((day - SemesterStart - 1) % Week)

\* The first such weekday on or after the start of the semester.
FirstOccurrence(day) == SemesterStart + ((day - SemesterStart) % Week)

\* The identity is the code, or what stands for it; the block is in the order of
\* the table, so that it is the set of its codes.
EventUid(row, block) == <<row.identity, block.day, block.codes>>

Events(row) ==
  {[uid |-> EventUid(row, b), first |-> FirstOccurrence(b.day), start |-> b.start,
    end |-> b.end, until |-> SemesterEnd] : b \in DayBlocks(row)}

Corrupt(row) == \E i \in DOMAIN row.times : i <= Week /\ ~(row.times[i] \subseteq Known)

\* An event per course of the plan and day with periods, in the order of the plan.
BuildPlanIcs(plan) ==
  [i \in DOMAIN plan |-> Events(ClassRow[plan[i]])]

NoExport(code, plan) == [code |-> code, plan |-> plan, events |-> <<>>]

\* The checks in their order: 422, 409, 404, 409, and 409 for a plan without events.
ExportPlanIcs(plan) ==
  IF Len(plan) > MaxPlan THEN NoExport(422, plan)
  ELSE IF plan = <<>> THEN NoExport(409, plan)
  ELSE IF ~(ToSet(plan) \subseteq DOMAIN ClassRow) THEN NoExport(404, plan)
  ELSE IF \/ \E id \in ToSet(plan) : Corrupt(ClassRow[id])
          \/ \A id \in ToSet(plan) : DayBlocks(ClassRow[id]) = {} THEN NoExport(409, plan)
  ELSE [code |-> 200, plan |-> plan, events |-> BuildPlanIcs(plan)]

NoCalendar == [code |-> 0, plan |-> <<>>, events |-> <<>>]

CalendarInit == calendar = NoCalendar

AskExport(plan) == calendar = NoCalendar /\ calendar' = ExportPlanIcs(plan)

TakeCalendar == calendar # NoCalendar /\ calendar' = NoCalendar

Plans == UNION {[1..n -> CalendarIds] : n \in 0..(MaxPlan + 1)}

CalendarNext == (\E plan \in Plans : AskExport(plan)) \/ TakeCalendar

CalendarSpec == CalendarInit /\ [][CalendarNext]_calendar

-----------------------------------------------------------------------------
(* Properties.                                                              *)

CalendarTypeOK ==
  /\ calendar.code \in {0, 200, 404, 409, 422}
  /\ calendar.code # 200 <=> calendar.events = <<>>

\* What a calendar program makes of an event: FREQ=WEEKLY until the end of a day.
FallsOn(e, day) == e.first <= day /\ day <= e.until /\ (day - e.first) % Week = 0

\* A calendar that is given out is the timetable: on each day of the semester a
\* course has an event from the start of its first to the end of its last period
\* when it meets, and none else; no event lies outside the semester; and two
\* courses never share an event's name, unless they are one.
CalendarIsExact ==
  calendar.code = 200 =>
    \A i \in DOMAIN calendar.plan :
      LET row == ClassRow[calendar.plan[i]]
          on(day) == {e \in calendar.events[i] : FallsOn(e, day)}
          held(day) == IF (day % Week) + 1 \in DOMAIN row.times
                         THEN row.times[(day % Week) + 1] ELSE {}
      IN /\ \A day \in SemesterStart..SemesterEnd :
              /\ on(day) = {} <=> held(day) = {}
              /\ \A e \in on(day) :
                   /\ \E c \in held(day) : e.start = Begins(c)
                   /\ \E c \in held(day) : e.end = Ends(c)
                   /\ \A c \in held(day) : e.start <= Begins(c) /\ Ends(c) <= e.end
         /\ \A e \in calendar.events[i] : SemesterStart <= e.first
         /\ \A k \in DOMAIN calendar.plan :
              (\E e \in calendar.events[i], f \in calendar.events[k] : e.uid = f.uid)
                => ClassRow[calendar.plan[k]].identity = row.identity

=============================================================================
