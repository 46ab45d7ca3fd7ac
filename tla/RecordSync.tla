----------------------------- MODULE RecordSync -----------------------------
(***************************************************************************)
(* The pages a student reads with a parked jar.  The selections and the    *)
(* grades are synced: the page is parsed, compared with the snapshot of    *)
(* the session, and replaces it; the response announces what came and what *)
(* went.  The payment, certificate, checklist and receipt pages are passed *)
(* on live.  All of them ask the circuit breaker first and tell it how the *)
(* school answered.  What the keys of the session do is in SiteSession.    *)
(***************************************************************************)
EXTENDS Naturals, Sequences

CONSTANTS
  Syncers,   \* handlers
  Pages,     \* what the school may show: sequences of rows, each with its number of
             \* cells, whether its first one is a heading or empty, and what they hold
  Offered,   \* course numbers the catalog has this semester
  Absent     \* no code, no number, no semester

VARIABLES
  record,    \* what is synced: "selections" or "grades"
  page,      \* the student's page at the school
  snap,      \* the snapshot of the session: whether there is one, and its rows
  syncer,    \* the handlers
  told,      \* what the student believes to be in the record, as identities
  clean      \* ghost: no sync overlapped and no response was lost since the full list

syncVars == <<record, page, snap, syncer, told, clean>>

Records == {"selections", "grades"}

Elements(s) == {s[i] : i \in DOMAIN s}

-----------------------------------------------------------------------------
(* The parsers.                                                             *)

\* 14 cells: taken, with a code; 13: refused, without one; 7: neither code nor
\* number.  Everything else, and a heading, is skipped.
BaseItem(r) ==
  [code   |-> IF r.cells = 14 THEN r.code ELSE Absent,
   number |-> IF r.cells = 7 THEN Absent ELSE r.number,
   name   |-> r.name,
   state  |-> r.state,
   unknown |-> TRUE]

ParseSltResult(rows) ==
  LET data == SelectSeq(rows, LAMBDA r : r.cells \in {7, 13, 14} /\ ~r.blank)
  IN [i \in DOMAIN data |-> BaseItem(data[i])]

\* The rows as they are, headings included; only a row without cells is skipped.
ParseGradesHistory(rows) == SelectSeq(rows, LAMBDA r : r.cells > 0)

Parse(rows) ==
  IF record = "selections" THEN ParseSltResult(rows) ELSE ParseGradesHistory(rows)

\* The number, else the code, is looked up in the courses of the semester; a row
\* that is not found stays.
AttachCourseMatches(items) ==
  LET wanted(i) == IF items[i].number # Absent THEN items[i].number ELSE items[i].code
  IN [i \in DOMAIN items |-> [items[i] EXCEPT !.unknown = wanted(i) \notin Offered]]

ItemIdentity(item) ==
  IF item.code # Absent THEN <<item.code>> ELSE <<item.number, item.name>>

Identity(x) == IF record = "selections" THEN ItemIdentity(x) ELSE x

Named(rows) == {Identity(x) : x \in rows}

Identities(items) == Named(Elements(items))

\* Wrong variant of DiffItems: a row whose content changed is another row.
DiffItemsByContent(previous, current) ==
  [added   |-> Elements(current) \ Elements(previous),
   removed |-> Elements(previous) \ Elements(current)]

\* diff_items and diff_grade_rows: the rows that came and those that went; the
\* rest is told as unchanged.
DiffItems(previous, current) ==
  [added   |-> {x \in Elements(current) : Identity(x) \notin Identities(previous)},
   removed |-> {x \in Elements(previous) : Identity(x) \notin Identities(current)}]

-----------------------------------------------------------------------------
NoSnapshot == [held |-> FALSE, items |-> <<>>]

NoReading == [pc |-> "idle", op |-> "page", items |-> <<>>, previous |-> <<>>]

SyncInit ==
  /\ record \in Records
  /\ page \in Pages
  /\ snap = NoSnapshot
  /\ syncer = [c \in Syncers |-> NoReading]
  /\ told = {} /\ clean = TRUE

SyncAt(c, pc) == syncer[c].pc = pc

SyncGoes(c, pc) == syncer' = [syncer EXCEPT ![c].pc = pc]

SyncEnds(c) == syncer' = [syncer EXCEPT ![c] = NoReading]

\* The announcements do not add up any more.
Lost == clean' = FALSE /\ told' = {}

Syncing(c) == ~SyncAt(c, "idle") /\ syncer[c].op = "sync"

\* The jar is there and the breaker admits; a handler that is refused did nothing.
AdmitRead(c, op) ==
  /\ SyncAt(c, "idle")
  /\ syncer' = [syncer EXCEPT ![c] = [NoReading EXCEPT !.pc = "read", !.op = op]]
  /\ IF op = "sync" /\ \E d \in Syncers : Syncing(d) THEN Lost ELSE UNCHANGED <<told, clean>>
  /\ UNCHANGED <<record, page, snap>>

\* One page of the school, at the end of its chain of hand-offs: the jar has expired
\* (the landing asks for a password), or the school did not answer.
OpenRelay(c) ==
  /\ syncer[c].pc \in {"read", "receipt"}
  /\ SyncGoes(c, "refused")
  /\ UNCHANGED <<record, page, snap, told, clean>>

\* A page to pass on: it has the marks of its kind, or is refused like one that
\* was not answered.
ParseLivePage(c) ==
  /\ \/ SyncAt(c, "read") /\ syncer[c].op = "page"
     \/ SyncAt(c, "receipt")
  /\ SyncGoes(c, "coherent") \/ SyncGoes(c, "refused")
  /\ UNCHANGED <<record, page, snap, told, clean>>

\* The bills name the receipt to open next, or none does: a 404 that tells the
\* breaker nothing.
FindReceipt(c) ==
  /\ SyncAt(c, "read") /\ syncer[c].op = "bills"
  /\ SyncEnds(c) \/ SyncGoes(c, "receipt") \/ SyncGoes(c, "refused")
  /\ UNCHANGED <<record, page, snap, told, clean>>

ParseRecord(c) ==
  /\ SyncAt(c, "read") /\ syncer[c].op = "sync"
  /\ syncer' = [syncer EXCEPT ![c].pc = "coherent", ![c].items = Parse(page)]
  /\ UNCHANGED <<record, page, snap, told, clean>>

\* record_unknown and a 503, or record_classified and a 401.
RecordRefusal(c) ==
  /\ SyncAt(c, "refused")
  /\ SyncEnds(c)
  /\ UNCHANGED <<record, page, snap, told, clean>>

\* record_classified; a live page is the answer.  Selections are joined unless the
\* semester is unknown.
RecordAnswer(c) ==
  /\ SyncAt(c, "coherent")
  /\ IF syncer[c].op # "sync"
       THEN SyncEnds(c)
       ELSE \/ SyncGoes(c, "load")
            \/ /\ record = "selections"
               /\ syncer' = [syncer EXCEPT ![c].pc = "load",
                                           ![c].items = AttachCourseMatches(@)]
  /\ UNCHANGED <<record, page, snap, told, clean>>

LoadSnapshot(c) ==
  /\ SyncAt(c, "load")
  /\ syncer' = [syncer EXCEPT ![c].pc = "store", ![c].previous = snap.items]
  /\ UNCHANGED <<record, page, snap, told, clean>>

StoreRecord(c) ==
  /\ SyncAt(c, "store")
  /\ snap' = [held |-> TRUE, items |-> syncer[c].items]
  /\ SyncGoes(c, "respond")
  /\ UNCHANGED <<record, page, told, clean>>

\* The student applies what is announced to what he believes.
SyncResponse(c) ==
  /\ SyncAt(c, "respond")
  /\ LET diff == DiffItems(syncer[c].previous, syncer[c].items)
     IN told' = IF ~clean THEN told ELSE (told \cup Named(diff.added)) \ Named(diff.removed)
  /\ SyncEnds(c)
  /\ UNCHANGED <<record, page, snap, clean>>

\* The API restarts, the client is gone or a command fails.
SyncDies(c) ==
  /\ ~SyncAt(c, "idle")
  /\ SyncEnds(c)
  /\ IF SyncAt(c, "respond") THEN Lost ELSE UNCHANGED <<told, clean>>
  /\ UNCHANGED <<record, page, snap>>

\* The whole list, from the snapshot (404 without one).  While a sync is under way it counts for
\* nothing, since the response of that sync is still to come.
GetSelections ==
  /\ ~\E c \in Syncers : Syncing(c)
  /\ told' = Identities(snap.items) /\ clean' = TRUE
  /\ UNCHANGED <<record, page, snap, syncer>>

\* The snapshot's week ends, or its session's.
SnapshotGoes ==
  /\ snap.held
  /\ snap' = NoSnapshot /\ Lost
  /\ UNCHANGED <<record, page, syncer>>

SchoolChangesRecord ==
  /\ \E p \in Pages \ {page} : page' = p
  /\ UNCHANGED <<record, snap, syncer, told, clean>>

SyncNext ==
  \/ \E c \in Syncers :
       \/ \E op \in {"sync", "page", "bills"} : AdmitRead(c, op)
       \/ OpenRelay(c) \/ ParseLivePage(c) \/ FindReceipt(c) \/ ParseRecord(c)
       \/ RecordRefusal(c) \/ RecordAnswer(c)
       \/ LoadSnapshot(c) \/ StoreRecord(c) \/ SyncResponse(c)
       \/ SyncDies(c)
  \/ GetSelections \/ SnapshotGoes \/ SchoolChangesRecord

SyncSpec == SyncInit /\ [][SyncNext]_syncVars

-----------------------------------------------------------------------------
(* Properties.                                                              *)

SyncTypeOK ==
  /\ record \in Records /\ page \in Pages /\ clean \in BOOLEAN
  /\ ~snap.held => snap.items = <<>>
  /\ syncer \in [Syncers -> [pc : {"idle", "read", "receipt", "refused", "coherent",
                                   "load", "store", "respond"},
                             op : {"sync", "page", "bills"},
                             items : {syncer[c].items : c \in Syncers},
                             previous : {syncer[c].previous : c \in Syncers}]]

\* A student who applies every announcement knows the stored record: as long as
\* syncs do not overlap and no response is lost, what came and what went add up
\* to the snapshot, though rows change their content and lose their code.
ToldIsStored ==
  clean /\ (\A c \in Syncers : syncer[c].op = "sync" => ~SyncAt(c, "respond"))
    => told = Identities(snap.items)

=============================================================================
