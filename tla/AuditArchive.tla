---------------------------- MODULE AuditArchive ----------------------------
(***************************************************************************)
(* The lifecycle of write_audit: rows older than the hot window go into a  *)
(* compressed file without identities, the ledger of archives names the    *)
(* file, and the rows are deleted; files whose ledger row is older than    *)
(* the retention window are unlinked and marked.  An operator or a timer   *)
(* starts it, so runs overlap, and a run may die between any two steps.    *)
(* A dry run writes nothing and is left out.                               *)
(*                                                                         *)
(* Ages are counted in ticks up to the window that tells them apart.       *)
(***************************************************************************)
EXTENDS Naturals

CONSTANTS
  Rows,         \* audit rows
  Files,        \* archive files; a name holds a time and a random part
  Runs,         \* runs of the script
  HotWindow,    \* --hot-days, in ticks
  KeepWindow,   \* --archive-days, in ticks
  NoFile        \* not a file

ASSUME ArchiveAssumption ==
  /\ HotWindow \in Nat \ {0} /\ KeepWindow \in Nat \ {0}
  /\ NoFile \notin Files /\ \A S \in SUBSET Rows : NoFile # S

VARIABLES
  hot,      \* the rows in write_audit, with their ages
  born,     \* ghost: every row ever written
  disk,     \* what each file holds; NoFile when it is not there
  ledger,   \* write_audit_archive_meta: file, rows, age, note
  pass      \* the runs

archiveVars == <<hot, born, disk, ledger, pass>>

Unlisted == [note |-> "absent", rows |-> {}, age |-> 0]

NoRun == [pc |-> "idle", rows |-> {}, file |-> NoFile, left |-> {}, gone |-> {}]

ArchiveInit ==
  /\ hot = [r \in {} |-> 0]
  /\ born = {}
  /\ disk = [f \in Files |-> NoFile]
  /\ ledger = [f \in Files |-> Unlisted]
  /\ pass = [p \in Runs |-> NoRun]

PassAt(p, pc) == pass[p].pc = pc

\* The engine inserts an audit row.
RowBorn(r) ==
  /\ r \notin born
  /\ born' = born \cup {r}
  /\ hot' = [x \in DOMAIN hot \cup {r} |-> IF x = r THEN 0 ELSE hot[x]]
  /\ UNCHANGED <<disk, ledger, pass>>

HotRows(p) ==
  /\ PassAt(p, "idle")
  /\ LET rows == {r \in DOMAIN hot : hot[r] >= HotWindow}
     IN pass' = [pass EXCEPT ![p] =
          [NoRun EXCEPT !.pc = IF rows = {} THEN "expired" ELSE "write", !.rows = rows]]
  /\ UNCHANGED <<hot, born, disk, ledger>>

\* A new name; a run that dies half-way leaves a part of the file.
WriteArchive(p, f) ==
  /\ PassAt(p, "write")
  /\ disk[f] = NoFile /\ ledger[f] = Unlisted /\ \A q \in Runs : pass[q].file # f
  /\ \/ /\ disk' = [disk EXCEPT ![f] = pass[p].rows]
        /\ pass' = [pass EXCEPT ![p].pc = "commit", ![p].file = f]
     \/ /\ \E part \in SUBSET pass[p].rows : disk' = [disk EXCEPT ![f] = part]
        /\ pass' = [pass EXCEPT ![p] = NoRun]
  /\ UNCHANGED <<hot, born, ledger>>

\* Wrong variant of CommitArchive: whatever is old by now is deleted.
CommitArchiveByAge(p) ==
  /\ PassAt(p, "commit")
  /\ ledger' = [ledger EXCEPT ![pass[p].file] =
                  [note |-> "hot_90d", rows |-> pass[p].rows, age |-> 0]]
  /\ hot' = [r \in {x \in DOMAIN hot : hot[x] < HotWindow} |-> hot[r]]
  /\ pass' = [pass EXCEPT ![p].pc = "expired"]
  /\ UNCHANGED <<born, disk>>

\* One transaction: the ledger row, and the rows that were read are deleted.
CommitArchive(p) ==
  /\ PassAt(p, "commit")
  /\ ledger' = [ledger EXCEPT ![pass[p].file] =
                  [note |-> "hot_90d", rows |-> pass[p].rows, age |-> 0]]
  /\ hot' = [r \in DOMAIN hot \ pass[p].rows |-> hot[r]]
  /\ pass' = [pass EXCEPT ![p].pc = "expired"]
  /\ UNCHANGED <<born, disk>>

ExpiredMetas(p) ==
  /\ PassAt(p, "expired")
  /\ LET files == {f \in Files : ledger[f].note = "hot_90d" /\ ledger[f].age >= KeepWindow}
     IN pass' = [pass EXCEPT ![p] = [NoRun EXCEPT !.pc = IF files = {} THEN "idle"
                                                                    ELSE "unlink",
                                                  !.left = files]]
  /\ UNCHANGED <<hot, born, disk, ledger>>

\* A file that is gone is marked all the same; another run that unlinks it between
\* the test and the call makes this one fail.
Unlink(p) ==
  /\ PassAt(p, "unlink")
  /\ \E f \in pass[p].left :
       /\ disk' = [disk EXCEPT ![f] = NoFile]
       /\ pass' = [pass EXCEPT ![p].left = @ \ {f}, ![p].gone = @ \cup {f}]
  /\ UNCHANGED <<hot, born, ledger>>

CommitNotes(p) ==
  /\ PassAt(p, "unlink") /\ pass[p].left = {}
  /\ ledger' = [f \in Files |-> IF f \in pass[p].gone
                                  THEN [ledger[f] EXCEPT !.note = "deleted_after_1y"]
                                  ELSE ledger[f]]
  /\ pass' = [pass EXCEPT ![p] = NoRun]
  /\ UNCHANGED <<hot, born, disk>>

\* The open transaction is rolled back; what was written or unlinked stays so.
PassDies(p) ==
  /\ ~PassAt(p, "idle")
  /\ pass' = [pass EXCEPT ![p] = NoRun]
  /\ UNCHANGED <<hot, born, disk, ledger>>

ArchiveTick ==
  /\ hot' = [r \in DOMAIN hot |-> IF hot[r] < HotWindow THEN hot[r] + 1 ELSE HotWindow]
  /\ ledger' = [f \in Files |->
       IF ledger[f] # Unlisted /\ ledger[f].age < KeepWindow
         THEN [ledger[f] EXCEPT !.age = @ + 1] ELSE ledger[f]]
  /\ UNCHANGED <<born, disk, pass>>

RunLifecycle(p) ==
  \/ HotRows(p) \/ (\E f \in Files : WriteArchive(p, f)) \/ CommitArchive(p)
  \/ ExpiredMetas(p) \/ Unlink(p) \/ CommitNotes(p) \/ PassDies(p)

ArchiveNext ==
  \/ \E r \in Rows : RowBorn(r)
  \/ \E p \in Runs : RunLifecycle(p)
  \/ ArchiveTick

ArchiveSpec == ArchiveInit /\ [][ArchiveNext]_archiveVars

-----------------------------------------------------------------------------
(* Properties.                                                              *)

PassTypeOK ==
  pass \in [Runs -> [pc : {"idle", "write", "commit", "expired", "unlink"},
                     rows : SUBSET Rows, file : Files \cup {NoFile},
                     left : SUBSET Files, gone : SUBSET Files]]

ArchiveTypeOK ==
  /\ born \in SUBSET Rows
  /\ DOMAIN hot \subseteq born /\ \A r \in DOMAIN hot : hot[r] \in 0..HotWindow
  /\ disk \in [Files -> (SUBSET Rows) \cup {NoFile}]
  /\ ledger \in [Files -> [note : {"absent", "hot_90d", "deleted_after_1y"},
                           rows : SUBSET Rows, age : 0..KeepWindow]]
  /\ PassTypeOK

Kept(r) ==
  \E f \in Files : /\ ledger[f].note # "absent" /\ r \in ledger[f].rows
                   /\ (disk[f] # NoFile /\ r \in disk[f]) \/ ledger[f].age = KeepWindow

\* No audit row is lost before its time: it is in the table, or in a complete file
\* the ledger names, or that file's retention is over, wherever runs died or
\* overlapped.
RowsAreKept == \A r \in born : r \in DOMAIN hot \/ Kept(r)

\* The ledger says "deleted" only of files that are gone, and a file it names is
\* missing only when its time was over.
LedgerIsHonest ==
  \A f \in Files :
    /\ ledger[f].note = "deleted_after_1y" => disk[f] = NoFile
    /\ ledger[f].note = "hot_90d" /\ disk[f] = NoFile => ledger[f].age = KeepWindow

\* Both: no row is lost, and the ledger of archives tells the truth about files.
ArchiveHolds == RowsAreKept /\ LedgerIsHonest

=============================================================================
