----------------------- MODULE SegmentStoreInvariant ------------------------
(***************************************************************************)
(* The inductive invariant of SegmentStore: which states the disk may be   *)
(* left in by a crash, and what the holder of the lock has achieved at     *)
(* each of its steps.  It is stated for two environments: "closed", where  *)
(* only the store writes its files, and "open", where rows of a data file  *)
(* may be edited from outside and only their number is known.              *)
(***************************************************************************)
EXTENDS SegmentStore

(* Exactly one process is inside LOCK_EX, and then nobody holds LOCK_SH. *)
LockInv ==
  /\ \A p \in Proc : pc[p] \in LockedPCs <=> writer = p
  /\ \A p \in Proc : pc[p] \in SharedPCs <=> p \in readers
  /\ writer # Nil => readers = {}

(* Names that share an inode are the same file. *)
LinkInv ==
  \A m, n \in Names :
    Exists(m) /\ Exists(n) /\ dir[m].ino = dir[n].ino => dir[m] = dir[n]

(* File n is complete and has these rows, or as many as these. *)
Holds(env, n, rows) ==
  /\ Exists(n) /\ ~dir[n].torn
  /\ Len(dir[n].rows) = Len(rows)
  /\ env = "closed" => dir[n].rows = rows

(* The directory is the generation of manifest m and nothing else. *)
Clean(env, m) ==
  \A f \in Formats :
    IF m # Nil /\ m.fmt = f THEN Holds(env, f, m.rows) ELSE ~Exists(f)

QuietDisk(env) == index = Indexed(manifest) /\ Clean(env, manifest)

(* Manifest n is CSV manifest m with rows added at its end. *)
Extends(m, n) ==
  /\ m.fmt = "csv" /\ n.fmt = "csv" /\ m # n
  /\ Len(m.rows) <= Len(n.rows)
  /\ \A i \in 1..Len(m.rows) : m.rows[i] = n.rows[i]

(* The file is, or is as long as, a prefix of the new rows that contains   *)
(* the old ones.                                                           *)
AppendedSoFar(env, f, old, new) ==
  /\ Len(old.rows) <= Len(f.rows) /\ Len(f.rows) <= Len(new.rows)
  /\ env = "closed" => \A i \in 1..Len(f.rows) : f.rows[i] = new.rows[i]
  /\ f.torn => Len(f.rows) < Len(new.rows)

AppendingDisk(env) ==
  LET j == ajournal IN
  /\ Extends(j.old, j.new)
  /\ j.before = 2 * Len(j.old.rows) /\ j.after = 2 * Len(j.new.rows)
  /\ Exists("csv") /\ ~Exists("parquet")
  /\ AppendedSoFar(env, dir["csv"], j.old, j.new)
  /\ \/ manifest = j.old /\ index = Indexed(j.old)
     \/ /\ manifest = j.new /\ Holds(env, "csv", j.new.rows)
        /\ index \in {Indexed(j.old), Indexed(j.new)}

(* The old generation can be brought back. *)
OldRecoverable(env, m, n) ==
  /\ Exists(m.fmt)
  /\ Exists(Backup[m.fmt]) => Holds(env, Backup[m.fmt], m.rows)
  /\ ~Exists(Backup[m.fmt]) \/ n.fmt # m.fmt => Holds(env, m.fmt, m.rows)
  /\ n.fmt = m.fmt => ~Exists(Other(m.fmt))

ReplacingDisk(env) ==
  LET j == rjournal IN
  /\ j.backup = (j.old # Nil)
  /\ \/ /\ manifest = j.new /\ Holds(env, j.new.fmt, j.new.rows)
        /\ index \in {Indexed(j.old), Indexed(j.new)}
     \/ /\ manifest = j.old /\ j.old # j.new /\ index = Indexed(j.old)
        /\ IF j.old = Nil THEN ~Exists(Other(j.new.fmt))
                          ELSE OldRecoverable(env, j.old, j.new)

(* What a crash may leave behind, at any moment. *)
DiskInv(env) ==
  \/ ajournal = Nil /\ rjournal = Nil /\ QuietDisk(env)
  \/ ajournal # Nil /\ rjournal = Nil /\ AppendingDisk(env)
  \/ ajournal = Nil /\ rjournal # Nil /\ ReplacingDisk(env)

(* Every sequence of rows that is or will be committed is ordered. *)
OrderInv ==
  /\ manifest # Nil => StrictlyOrdered(manifest.rows)
  /\ ajournal # Nil =>
       StrictlyOrdered(ajournal.old.rows) /\ StrictlyOrdered(ajournal.new.rows)
  /\ rjournal # Nil =>
       /\ StrictlyOrdered(rjournal.new.rows)
       /\ rjournal.old # Nil => StrictlyOrdered(rjournal.old.rows)
  /\ \A p \in Proc :
       /\ StrictlyOrdered(job[p].rows)
       /\ job[p].new # Nil => StrictlyOrdered(job[p].new.rows)

(* A call keeps to its own control path. *)
JobInv ==
  \A p \in Proc :
    /\ job[p].op = "none" <=> pc[p] = "idle"
    /\ job[p].op = "upsert" => job[p].rows # <<>>
    /\ pc[p] = "vacuum" => job[p].op = "vacuum"
    /\ pc[p] = "pending" => job[p].op \in Writes \cup {"read"}
    /\ pc[p] \in LockedPCs \ {"vacuum", "unlock"} => job[p].op # "vacuum"
    /\ pc[p] \in {"flock_sh", "read_check", "read"} => job[p].op = "read"
    /\ pc[p] = "glob" => job[p].op \in {"open_append", "open_replace"}
    /\ pc[p] \in {"append", "replace", "upsert", "compact"} => job[p].op = pc[p]

NoJournal == ajournal = Nil /\ rjournal = Nil

(* Between the plan and the journal of a replacement. *)
Planned(p) ==
  /\ NoJournal
  /\ job[p].old = manifest /\ job[p].new # Nil
  /\ job[p].backup = (manifest # Nil)

RollingBack(env) ==
  /\ rjournal # Nil /\ manifest = rjournal.old /\ rjournal.old # rjournal.new
  /\ Clean(env, rjournal.old)

Finishing ==
  rjournal # Nil /\ manifest = rjournal.new /\ index = Indexed(manifest)

(* What process p knows at each step it takes inside the lock. *)
PhaseInv(env, p) ==
  /\ pc[p] \in {"append", "replace", "upsert", "compact", "read"} => NoJournal
  /\ pc[p] = "append_journal" =>
       /\ NoJournal /\ manifest # Nil /\ job[p].new # Nil
       /\ job[p].old = manifest /\ Extends(manifest, job[p].new)
  /\ pc[p] = "append_data" =>
       /\ ajournal # Nil /\ manifest = ajournal.old
       /\ ajournal.old = job[p].old /\ ajournal.new = job[p].new
  /\ pc[p] \in {"append_index", "append_publish", "append_unlink"} =>
       /\ ajournal # Nil /\ manifest = ajournal.new /\ ajournal.new = job[p].new
  /\ pc[p] \in {"append_publish", "append_unlink"} => index = Indexed(manifest)
  /\ pc[p] \in {"recover_append_manifest", "recover_append_index"} =>
       /\ ajournal # Nil /\ manifest = ajournal.old
       /\ Holds(env, "csv", manifest.rows)
  /\ pc[p] = "recover_append_unlink" =>
       /\ ajournal # Nil /\ index = Indexed(manifest)
       /\ Holds(env, "csv", manifest.rows)
  /\ pc[p] \in {"begin", "backup_link", "replace_journal"} => Planned(p)
  /\ pc[p] = "backup_link" => manifest # Nil
  /\ pc[p] \in {"replace_journal", "replace_data"} /\ manifest # Nil =>
       Holds(env, Backup[manifest.fmt], manifest.rows)
  /\ pc[p] \in {"replace_data", "replace_manifest"} =>
       /\ rjournal # Nil /\ manifest = rjournal.old
       /\ rjournal.old = job[p].old /\ rjournal.new = job[p].new
  /\ pc[p] = "replace_manifest" => Holds(env, rjournal.new.fmt, rjournal.new.rows)
  /\ pc[p] = "replace_index" =>
       rjournal # Nil /\ manifest = rjournal.new /\ rjournal.new = job[p].new
  /\ pc[p] \in {"finish_old", "finish_publish", "finish_other", "finish_backup",
                "finish_unlink"} => Finishing
  /\ pc[p] \in {"finish_backup", "finish_unlink"} => ~Exists(Other(manifest.fmt))
  /\ pc[p] = "rollback_new" =>
       /\ rjournal # Nil /\ rjournal.old # Nil /\ rjournal.old # rjournal.new
       /\ manifest = rjournal.old /\ Holds(env, manifest.fmt, manifest.rows)
  /\ pc[p] \in {"rollback_manifest", "rollback_index", "rollback_backup",
                "rollback_unlink"} => RollingBack(env)

(* A call reports nothing before it ends, no recovery gives up, and no     *)
(* segment is corrupt unless it was edited.                                *)
ResultInv(env) ==
  /\ RecoveryAlwaysPossible
  /\ env = "closed" => NeverCorrupt
  /\ \A p \in Proc : pc[p] # "idle" => result[p].status = "none"

StoreInv(env) ==
  /\ TypeOK /\ LockInv /\ LinkInv /\ DiskInv(env) /\ OrderInv /\ JobInv
  /\ \A p \in Proc : PhaseInv(env, p)
  /\ ResultInv(env)

(* The inductive invariant of the store that nobody edits. *)
IInv == StoreInv("closed")

-----------------------------------------------------------------------------
(* Between the plan of a new generation and the write of its manifest. *)
PlannedPCs ==
  {"append_journal", "append_data", "begin", "backup_link", "replace_journal",
   "replace_data", "replace_manifest"}

(* The call p makes is fit to be committed as the atomic series commits    *)
(* it: a planned generation is its effect on the generation it will        *)
(* replace, a call that ends without one had none, and nothing is returned *)
(* before the end.                                                         *)
CallInv(p) ==
  /\ job[p].new # Nil =>
       job[p].op \in Writes /\ pc[p] \in PlannedPCs \cup CommittedPCs
  /\ pc[p] \in PlannedPCs =>
       /\ job[p].new # Nil
       /\ Abstract!Allowed(AbstractCall(p), RowsOf(manifest))
       /\ job[p].new.rows = Abstract!Effect(AbstractCall(p), RowsOf(manifest))
  /\ pc[p] = "unlock" /\ job[p].new = Nil =>
       RowsOf(manifest) = Abstract!Effect(AbstractCall(p), RowsOf(manifest))
  /\ pc[p] # "idle" => result[p].status = "none" /\ result[p].rows = <<>>

(* Added to IInv for the refinement of CommittedSeries. *)
CInv == \A p \in Proc : CallInv(p)

=============================================================================
