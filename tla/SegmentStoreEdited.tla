------------------------- MODULE SegmentStoreEdited -------------------------
(***************************************************************************)
(* The segment store when bars.csv is changed from outside while the       *)
(* series is at rest: a byte flips, a user edits the file.  The size stays *)
(* and the modification time moves, the case for which the integrity       *)
(* generation records st_mtime_ns (tests/test_hot_path_optimization.py,    *)
(* test_bounded_read_revalidates_after_external_file_mutation).            *)
(***************************************************************************)
EXTENDS SegmentStoreInvariant

CONSTANT MaxEdits   \* bound: how often the file is edited

VARIABLES
  edits,     \* edits so far
  written    \* a writer has published a generation since the last edit

editVars == <<vars, edits, written>>

(* Another candle takes the place of one row of the file. *)
Edit ==
  /\ edits < MaxEdits
  /\ Exists("csv") /\ writer = Nil /\ readers = {}
  /\ ajournal = Nil /\ rjournal = Nil
  /\ \E k \in 1..Len(dir["csv"].rows), v \in Values :
       /\ v # dir["csv"].rows[k].v
       /\ WriteInPlace("csv", [dir["csv"].rows EXCEPT ![k].v = v], FALSE)
  /\ edits' = edits + 1
  /\ written' = FALSE
  /\ UNCHANGED <<manifest, index, ajournal, rjournal, integ, locks, pc, job,
                 result, ops>>

EditedInit == Init /\ edits = 0 /\ written = FALSE

EditedNext ==
  \/ Edit
  \/ /\ Next
     /\ UNCHANGED edits
     /\ written' = (written \/ \E p \in Proc :
                      /\ pc[p] \in {"append_publish", "finish_publish"}
                      /\ pc'[p] \notin {pc[p], "idle"})

(* The scheduler runs every process that is not blocked on the lock; the   *)
(* operations are finitely many.  Nobody is obliged to edit the file.      *)
EditedSpec ==
  /\ EditedInit /\ [][EditedNext]_editVars
  /\ \A p \in Proc : WF_editVars(Step(p) /\ EditedNext)

(* As long as no writer has published a generation after an edit, a read   *)
(* either fails or returns the rows the manifest describes: neither the    *)
(* edited file nor a stale trust is ever passed on to a caller.            *)
EditsAreDetected ==
  [][\A p \in Proc :
       pc[p] = "read" /\ result'[p].status = "ok" /\ ~written =>
         result'[p].rows = RowsOf(manifest)]_editVars

-----------------------------------------------------------------------------
(* The inductive invariant of the store that is edited: why a published    *)
(* integrity generation cannot be mistaken for that of an edited file.     *)

(* The published generation is that of file n. *)
Described(n) ==
  /\ Exists(n) /\ integ # Nil
  /\ dir[n].ino = integ.ino /\ dir[n].stamp = integ.stamp

(* The backup is a second name of the live CSV file. *)
Linked ==
  /\ Exists("csv") /\ Exists("backup_csv")
  /\ dir["csv"].ino = dir["backup_csv"].ino

(* A replacement of a CSV generation is pending. *)
ReplacingCsv == rjournal # Nil /\ rjournal.old # Nil /\ rjournal.old.fmt = "csv"

(* Files of the two formats share no inode. *)
FormatsApart ==
  \A m \in {"csv", "backup_csv"}, n \in {"parquet", "backup_parquet"} :
    Exists(m) /\ Exists(n) => dir[m].ino # dir[n].ino

(* Only the live CSV file is described, by one name or two, or the backup  *)
(* of the replacement that is pending.                                     *)
LiveInv ==
  /\ \A n \in Names : Described(n) => n \in {"csv", "backup_csv"}
  /\ Described("backup_csv") => Linked \/ ReplacingCsv
  /\ rjournal # Nil /\ ~ReplacingCsv => ~Linked

(* The backup goes before the journal does. *)
DroppedInv ==
  \A p \in Proc :
    pc[p] \in {"finish_unlink", "rollback_unlink"} /\ ReplacingCsv =>
      ~Exists("backup_csv")

(* What is described is what the published generation says. *)
Trustworthy == \A n \in Names : Described(n) => dir[n].rows = integ.rows

EditedInv ==
  /\ StoreInv("open") /\ FormatsApart /\ LiveInv /\ DroppedInv
  /\ ~written => Trustworthy

=============================================================================
