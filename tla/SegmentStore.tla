---------------------------- MODULE SegmentStore ----------------------------
(***************************************************************************)
(* The journaled store of ONE series (one exchange/market/symbol/timeframe *)
(* directory) shared by several processes or threads: store/segment_*.py.  *)
(*                                                                         *)
(* The directory holds the candle file (bars.csv or bars.parquet), the     *)
(* manifest that describes it, the write-ahead journals of an append and   *)
(* of a replacement, the hard-linked backup of a replaced generation, the  *)
(* published integrity generation and a row of the SQLite index.  Every    *)
(* system call that changes one of them is a step of its own, and a        *)
(* process may crash (or an I/O error may unwind it) between any two.      *)
(*                                                                         *)
(* A checksum is the sequence of rows it was computed from; the size of a  *)
(* file counts half rows, so that a torn write is a size between two rows. *)
(***************************************************************************)
EXTENDS SeriesRows

CONSTANTS
  Proc,           \* processes and threads that use the store
  Inodes,         \* inode numbers; freed ones are reused
  Stamps,         \* st_mtime_ns, up to equality with the published one
  AppendInputs,   \* batches handed to append_strictly_newer, once validated
  ReplaceInputs,  \* batches handed to replace_all and replace_all_stream
  UpsertInputs,   \* bars handed to upsert_closed
  LegacyRows,     \* what a store written by an older version may hold
  MaxOps,         \* bound: how many operations are started
  Nil             \* None: no such file, row or journal

Formats == {"csv", "parquet"}
Backup == [csv |-> "backup_csv", parquet |-> "backup_parquet"]
Names == Formats \cup {Backup[f] : f \in Formats}
Other(f) == IF f = "csv" THEN "parquet" ELSE "csv"

ASSUME DataAssumption ==
  /\ MaxOps \in Nat
  /\ \A s \in Stamps : Stamps # {s}
  /\ Stamps # {}

ASSUME InputAssumption ==
  /\ UpsertInputs \subseteq Bar
  /\ \A s \in AppendInputs \cup ReplaceInputs \cup LegacyRows :
       s \in Rows /\ StrictlyOrdered(s)

File == [ino : Inodes, rows : Rows, torn : BOOLEAN, stamp : Stamps]

(* SegmentManifest: rows stands for checksum, rows_count, start_time and   *)
(* end_time; base is base_rows_count, Nil unless the checksum is the       *)
(* current tail chain.                                                     *)
Manifest == [fmt : Formats, rows : Rows, base : Nat \cup {Nil}]
IndexRow == [fmt : Formats, rows : Rows]
AppendJournal ==
  [before : Nat, after : Nat, old : Manifest, new : Manifest]
ReplaceJournal ==
  [old : Manifest \cup {Nil}, new : Manifest, backup : BOOLEAN]
Generation ==
  [ino : Inodes, size : Nat, stamp : Stamps, rows : Rows, base : Nat \cup {Nil}]

ASSUME NilAssumption ==
  Nil \notin File \cup Manifest \cup IndexRow \cup AppendJournal
             \cup ReplaceJournal \cup Generation \cup Proc \cup Nat

Writes == {"append", "replace", "upsert", "compact"}
OpNames == Writes \cup {"read", "vacuum", "open_append", "open_replace", "none"}

(* What one process knows: the call it makes, its arguments, and the       *)
(* manifests it has computed.  new is Nil until the operation has planned  *)
(* a new generation, which tells its own commit from a recovery.           *)
Job ==
  [op : OpNames, rows : Rows, fmt : Formats,
   old : Manifest \cup {Nil}, new : Manifest \cup {Nil}, backup : BOOLEAN]

Idle ==
  [op |-> "none", rows |-> <<>>, fmt |-> "csv", old |-> Nil, new |-> Nil,
   backup |-> FALSE]

(* Made from Idle: a record that is written out as the argument of an action  *)
(* is one value for all of TLC's workers, who would order its fields at once. *)
Request(op, rows, f) == [Idle EXCEPT !.op = op, !.rows = rows, !.fmt = f]

Result == [status : {"none", "ok", "crashed", "rejected", "unsupported",
                     "conflict", "empty", "corrupt", "unrecoverable",
                     "vanished"},
           rows : Rows]

(* A process outside the lock, holding LOCK_SH, or holding LOCK_EX. *)
FreePCs == {"idle", "glob", "flock_ex", "flock_sh"}
SharedPCs == {"read_check", "read"}
LockedPCs ==
  {"pending", "unlock", "vacuum",
   "recover_append", "recover_append_manifest", "recover_append_index",
   "recover_append_unlink",
   "recover_replace", "rollback_new", "rollback_manifest", "rollback_index",
   "rollback_backup", "rollback_unlink",
   "finish_old", "finish_publish", "finish_other", "finish_backup",
   "finish_unlink",
   "append", "append_journal", "append_data", "append_index",
   "append_publish", "append_unlink",
   "replace", "upsert", "compact", "begin", "backup_link", "replace_journal",
   "replace_data", "replace_manifest", "replace_index"}
PCs == FreePCs \cup SharedPCs \cup LockedPCs

VARIABLES
  dir,        \* Names -> File or Nil: the directory; hard links share ino
  manifest,   \* manifest.json
  index,      \* the series' row of marketdata_segments
  ajournal,   \* .append-journal.json
  rjournal,   \* .replace-journal.json
  integ,      \* .integrity-generation.json
  writer,     \* holder of LOCK_EX on .writer.lock
  readers,    \* holders of LOCK_SH on .writer.lock
  pc, job,    \* what each process is doing
  result,     \* what its last operation returned or raised
  ops         \* operations started so far

disk == <<dir, manifest, index, ajournal, rjournal, integ>>
locks == <<writer, readers>>
vars == <<disk, locks, pc, job, result, ops>>

(***************************************************************************)
(* File system and index.                                                  *)
(***************************************************************************)

Exists(n) == dir[n] # Nil
Size(f) == 2 * Len(f.rows) + (IF f.torn THEN 1 ELSE 0)
RowsOf(m) == IF m = Nil THEN <<>> ELSE m.rows

(* _replace_index_manifest, _delete_index_rows_for_series: no row for an   *)
(* empty or a missing segment.                                             *)
Indexed(m) ==
  IF m = Nil \/ RowsOf(m) = <<>> THEN Nil ELSE [fmt |-> m.fmt, rows |-> m.rows]

(* A number no linked file has, and a modification time no published       *)
(* generation carries.                                                     *)
FreshInode(i) == \A n \in Names : Exists(n) => dir[n].ino # i
FreshStamp == CHOOSE s \in Stamps : integ = Nil \/ integ.stamp # s

Unlink(n) == dir' = [dir EXCEPT ![n] = Nil]

(* os.replace of a freshly written temporary file onto name n. *)
Publish(n, rows) ==
  \E i \in Inodes :
    /\ FreshInode(i)
    /\ dir' = [dir EXCEPT ![n] =
                [ino |-> i, rows |-> rows, torn |-> FALSE, stamp |-> FreshStamp]]

(* os.replace(a, b): does nothing when both are links to one inode. *)
Rename(a, b) ==
  dir' = IF Exists(b) /\ dir[a].ino = dir[b].ino
           THEN dir
           ELSE [dir EXCEPT ![b] = dir[a], ![a] = Nil]

(* A write through name n changes the inode, hence every link to it. *)
WriteInPlace(n, rows, torn) ==
  dir' = [m \in Names |->
            IF Exists(m) /\ dir[m].ino = dir[n].ino
              THEN [ino |-> dir[m].ino, rows |-> rows, torn |-> torn,
                    stamp |-> FreshStamp]
              ELSE dir[m]]

(* truncate(size): keeps the rows that lie wholly below it. *)
Truncate(n, size) ==
  WriteInPlace(n, SubSeq(dir[n].rows, 1, size \div 2), size % 2 = 1)

(* validate_csv_checksum, _parquet_checksum: the file is the manifest's. *)
ChecksumValid(f, m) == f.rows = m.rows /\ ~f.torn

(* _generation_payload *)
GenerationOf(f, m) ==
  [ino |-> f.ino, size |-> Size(f), stamp |-> f.stamp,
   rows |-> m.rows, base |-> m.base]

(* Mutant: the modification time is not compared. *)
TrustedWhateverStamp(f, m) ==
  integ # Nil /\ integ = [GenerationOf(f, m) EXCEPT !.stamp = integ.stamp]

(* integrity_generation_is_current *)
Trusted(f, m) == integ = GenerationOf(f, m)

(* read_all and iter_all up to the point where rows are returned. *)
Readable ==
  IF manifest = Nil
    THEN \A f \in Formats : ~Exists(f)
    ELSE /\ ~Exists(Other(manifest.fmt))
         /\ Exists(manifest.fmt) =>
              LET f == dir[manifest.fmt] IN
                /\ \/ ChecksumValid(f, manifest)
                   \/ manifest.fmt = "csv" /\ Trusted(f, manifest)
                /\ StrictlyOrdered(f.rows)

(* Mutant: the scan stops before the last row. *)
StoredButLast ==
  IF manifest # Nil /\ Exists(manifest.fmt) /\ dir[manifest.fmt].rows # <<>>
    THEN SubSeq(dir[manifest.fmt].rows, 1, Len(dir[manifest.fmt].rows) - 1)
    ELSE <<>>

Stored ==
  IF manifest # Nil /\ Exists(manifest.fmt) THEN dir[manifest.fmt].rows ELSE <<>>

(* validate_or_trust_csv_generation publishes what it has just validated.  *)
PublishIfValidated ==
  integ' = IF manifest # Nil /\ manifest.fmt = "csv" /\ Exists("csv")
             THEN GenerationOf(dir["csv"], manifest)
             ELSE integ

(***************************************************************************)
(* Control.                                                                *)
(***************************************************************************)

Goto(p, from, to) == pc[p] = from /\ pc' = [pc EXCEPT ![p] = to]

Leave(p, status, rows) ==
  /\ pc' = [pc EXCEPT ![p] = "idle"]
  /\ job' = [job EXCEPT ![p] = Idle]
  /\ result' = [result EXCEPT ![p] = [status |-> status, rows |-> rows]]
  /\ writer' = IF writer = p THEN Nil ELSE writer
  /\ readers' = readers \ {p}

(* An exception leaves the with-statement: the lock goes, the disk stays. *)
Raise(p, status) ==
  /\ Leave(p, status, <<>>)
  /\ UNCHANGED <<disk, ops>>

Begin(p, j, to) ==
  /\ ops < MaxOps
  /\ Goto(p, "idle", to)
  /\ job' = [job EXCEPT ![p] = j]
  /\ result' = [result EXCEPT ![p] = [status |-> "none", rows |-> <<>>]]
  /\ ops' = ops + 1
  /\ UNCHANGED <<disk, locks>>

BeginAppend(p) == \E s \in AppendInputs :
  Begin(p, Request("append", s, "csv"), "flock_ex")

BeginReplace(p) == \E s \in ReplaceInputs, f \in Formats :
  Begin(p, Request("replace", s, f), "flock_ex")

BeginUpsert(p) == \E b \in UpsertInputs, f \in Formats :
  Begin(p, Request("upsert", <<b>>, f), "flock_ex")

BeginCompact(p) == \E f \in Formats :
  Begin(p, Request("compact", <<>>, f), "flock_ex")

BeginRead(p) == Begin(p, Request("read", <<>>, "csv"), "flock_sh")

(* vacuum_segments: the glob lists a data file, then takes its lock. *)
BeginVacuum(p) == \E f \in Formats :
  /\ Exists(f)
  /\ Begin(p, Request("vacuum", <<>>, f), "flock_ex")

(* SegmentStore.__init__: recover_pending_appends, then                    *)
(* recover_pending_replacements; each globs for journals BEFORE locking.   *)
BeginOpen(p) == Begin(p, Request("open_append", <<>>, "csv"), "glob")

Glob(p) ==
  /\ pc[p] = "glob"
  /\ \/ /\ job[p].op = "open_append" /\ ajournal = Nil
        /\ job' = [job EXCEPT ![p].op = "open_replace"]
        /\ UNCHANGED <<disk, locks, pc, result, ops>>
     \/ /\ job[p].op = "open_replace" /\ rjournal = Nil
        /\ Leave(p, "ok", <<>>)
        /\ UNCHANGED <<disk, ops>>
     \/ /\ IF job[p].op = "open_append" THEN ajournal # Nil ELSE rjournal # Nil
        /\ Goto(p, "glob", "flock_ex")
        /\ UNCHANGED <<disk, locks, job, result, ops>>

(* series_lock: what runs first once LOCK_EX is granted. *)
series_lock(p) ==
  /\ writer = Nil /\ readers = {}
  /\ writer' = p
  /\ Goto(p, "flock_ex",
          CASE job[p].op = "vacuum" -> "vacuum"
            [] job[p].op = "open_append" -> "recover_append"
            [] job[p].op = "open_replace" -> "recover_replace"
            [] OTHER -> "pending")
  /\ UNCHANGED <<disk, readers, job, result, ops>>

(* Mutant: a pending append is not recovered. *)
writer_lock_without_append_recovery(p) ==
  /\ Goto(p, "pending",
          IF rjournal # Nil THEN "recover_replace"
          ELSE IF job[p].op = "read" THEN "unlock" ELSE job[p].op)
  /\ UNCHANGED <<disk, locks, job, result, ops>>

(* series_writer_lock recovers what a crashed writer left behind. *)
series_writer_lock(p) ==
  /\ Goto(p, "pending",
          CASE rjournal # Nil -> "recover_replace"
            [] rjournal = Nil /\ ajournal # Nil -> "recover_append"
            [] OTHER -> IF job[p].op = "read" THEN "unlock" ELSE job[p].op)
  /\ UNCHANGED <<disk, locks, job, result, ops>>

AfterRecovery(p) ==
  IF job[p].op \in {"open_append", "open_replace"} THEN "unlock" ELSE "pending"

(* Mutant: a reader that has recovered keeps LOCK_EX when it goes back to  *)
(* waiting for LOCK_SH.                                                    *)
UnlockUnlessReading(p) ==
  /\ pc[p] = "unlock"
  /\ IF job[p].op = "read"
       THEN Goto(p, "unlock", "flock_sh") /\ UNCHANGED <<locks, job, result>>
       ELSE Leave(p, "ok", <<>>)
  /\ UNCHANGED <<disk, ops>>

Unlock(p) ==
  /\ pc[p] = "unlock"
  /\ CASE job[p].op = "read" ->
            /\ Goto(p, "unlock", "flock_sh")
            /\ writer' = Nil
            /\ UNCHANGED <<readers, job, result>>
       [] job[p].op = "open_append" ->
            /\ Goto(p, "unlock", "glob")
            /\ job' = [job EXCEPT ![p].op = "open_replace"]
            /\ writer' = Nil
            /\ UNCHANGED <<readers, result>>
       [] OTHER -> Leave(p, "ok", <<>>)
  /\ UNCHANGED <<disk, ops>>

(* A crash, or an I/O error at any call: the kernel drops the lock, the    *)
(* disk keeps whatever was done so far.                                    *)
Crash(p) == pc[p] # "idle" /\ Raise(p, "crashed")

(***************************************************************************)
(* recover_append_journal: forward when data and manifest are complete,    *)
(* otherwise truncate to the recorded size and restore the old manifest.   *)
(***************************************************************************)

AppendCommitted ==
  Size(dir["csv"]) = ajournal.after /\ manifest = ajournal.new

RecoverAppend(p) ==
  /\ pc[p] = "recover_append"
  /\ \/ ajournal = Nil /\ Raise(p, "vanished")
     \/ /\ ajournal # Nil
        /\ ~Exists("csv") \/ Size(dir["csv"]) < ajournal.before
        /\ Raise(p, "unrecoverable")
     \/ /\ ajournal # Nil /\ Exists("csv")
        /\ Size(dir["csv"]) >= ajournal.before
        /\ AppendCommitted
        /\ index' = Indexed(ajournal.new)
        /\ Goto(p, "recover_append", "recover_append_unlink")
        /\ UNCHANGED <<dir, manifest, ajournal, rjournal, integ, locks, job,
                       result, ops>>
     \/ /\ ajournal # Nil /\ Exists("csv")
        /\ Size(dir["csv"]) >= ajournal.before
        /\ ~AppendCommitted
        /\ Truncate("csv", ajournal.before)
        /\ Goto(p, "recover_append", "recover_append_manifest")
        /\ UNCHANGED <<manifest, index, ajournal, rjournal, integ, locks, job,
                       result, ops>>

(* Mutant: the rollback writes the manifest of the unfinished append. *)
RecoverAppendNewManifest(p) ==
  /\ Goto(p, "recover_append_manifest", "recover_append_index")
  /\ manifest' = ajournal.new
  /\ UNCHANGED <<dir, index, ajournal, rjournal, integ, locks, job, result, ops>>

RecoverAppendManifest(p) ==
  /\ Goto(p, "recover_append_manifest", "recover_append_index")
  /\ manifest' = ajournal.old
  /\ UNCHANGED <<dir, index, ajournal, rjournal, integ, locks, job, result, ops>>

RecoverAppendIndex(p) ==
  /\ Goto(p, "recover_append_index", "recover_append_unlink")
  /\ index' = Indexed(ajournal.old)
  /\ UNCHANGED <<dir, manifest, ajournal, rjournal, integ, locks, job, result,
                 ops>>

RecoverAppendUnlink(p) ==
  /\ Goto(p, "recover_append_unlink", AfterRecovery(p))
  /\ ajournal' = Nil
  /\ UNCHANGED <<dir, manifest, index, rjournal, integ, locks, job, result, ops>>

(***************************************************************************)
(* recover_replacement_journal: finish a committed replacement, otherwise  *)
(* bring the backup, the old manifest and the old index row back.          *)
(***************************************************************************)

ReplaceCommitted == manifest = rjournal.new /\ Exists(rjournal.new.fmt)

RecoverReplace(p) ==
  /\ pc[p] = "recover_replace"
  /\ \/ rjournal = Nil /\ Raise(p, "vanished")
     \/ /\ rjournal # Nil /\ ReplaceCommitted
        /\ index' = Indexed(rjournal.new)
        /\ Goto(p, "recover_replace", "finish_old")
        /\ UNCHANGED <<dir, manifest, ajournal, rjournal, integ, locks, job,
                       result, ops>>
     \/ /\ rjournal # Nil /\ ~ReplaceCommitted /\ rjournal.old = Nil
        /\ Unlink(rjournal.new.fmt)
        /\ Goto(p, "recover_replace", "rollback_manifest")
        /\ UNCHANGED <<manifest, index, ajournal, rjournal, integ, locks, job,
                       result, ops>>
     \/ /\ rjournal # Nil /\ ~ReplaceCommitted /\ rjournal.old # Nil
        /\ IF rjournal.backup /\ Exists(Backup[rjournal.old.fmt])
             THEN Rename(Backup[rjournal.old.fmt], rjournal.old.fmt)
             ELSE UNCHANGED dir
        /\ Goto(p, "recover_replace", "rollback_new")
        /\ UNCHANGED <<manifest, index, ajournal, rjournal, integ, locks, job,
                       result, ops>>

RollbackNew(p) ==
  /\ pc[p] = "rollback_new"
  /\ \/ ~Exists(rjournal.old.fmt) /\ Raise(p, "unrecoverable")
     \/ /\ Exists(rjournal.old.fmt)
        /\ IF rjournal.new.fmt # rjournal.old.fmt
             THEN Unlink(rjournal.new.fmt)
             ELSE UNCHANGED dir
        /\ Goto(p, "rollback_new", "rollback_manifest")
        /\ UNCHANGED <<manifest, index, ajournal, rjournal, integ, locks, job,
                       result, ops>>

(* Rewrites the old manifest, or unlinks it when there was none. *)
RollbackManifest(p) ==
  /\ Goto(p, "rollback_manifest", "rollback_index")
  /\ manifest' = rjournal.old
  /\ UNCHANGED <<dir, index, ajournal, rjournal, integ, locks, job, result, ops>>

RollbackIndex(p) ==
  /\ Goto(p, "rollback_index", "rollback_backup")
  /\ index' = Indexed(rjournal.old)
  /\ UNCHANGED <<dir, manifest, ajournal, rjournal, integ, locks, job, result,
                 ops>>

RollbackBackup(p) ==
  /\ Goto(p, "rollback_backup", "rollback_unlink")
  /\ IF rjournal.backup THEN Unlink(Backup[rjournal.old.fmt]) ELSE UNCHANGED dir
  /\ UNCHANGED <<manifest, index, ajournal, rjournal, integ, locks, job, result,
                 ops>>

RollbackUnlink(p) ==
  /\ Goto(p, "rollback_unlink", AfterRecovery(p))
  /\ rjournal' = Nil
  /\ UNCHANGED <<dir, manifest, index, ajournal, integ, locks, job, result, ops>>

(***************************************************************************)
(* finish_replacement, for an operation and for a recovery.                *)
(***************************************************************************)

FinishOld(p) ==
  /\ Goto(p, "finish_old", "finish_publish")
  /\ IF rjournal.old # Nil /\ rjournal.old.fmt # rjournal.new.fmt
       THEN Unlink(rjournal.old.fmt)
       ELSE UNCHANGED dir
  /\ UNCHANGED <<manifest, index, ajournal, rjournal, integ, locks, job, result,
                 ops>>

FinishPublish(p) ==
  /\ Goto(p, "finish_publish", "finish_other")
  /\ integ' = IF rjournal.new.fmt = "csv"
                THEN GenerationOf(dir["csv"], rjournal.new)
                ELSE integ
  /\ UNCHANGED <<dir, manifest, index, ajournal, rjournal, locks, job, result,
                 ops>>

FinishOther(p) ==
  /\ Goto(p, "finish_other", "finish_backup")
  /\ Unlink(Other(rjournal.new.fmt))
  /\ UNCHANGED <<manifest, index, ajournal, rjournal, integ, locks, job, result,
                 ops>>

FinishBackup(p) ==
  /\ Goto(p, "finish_backup", "finish_unlink")
  /\ IF rjournal.backup THEN Unlink(Backup[rjournal.old.fmt]) ELSE UNCHANGED dir
  /\ UNCHANGED <<manifest, index, ajournal, rjournal, integ, locks, job, result,
                 ops>>

FinishUnlink(p) ==
  /\ Goto(p, "finish_unlink", IF job[p].new = Nil THEN AfterRecovery(p) ELSE "unlock")
  /\ rjournal' = Nil
  /\ UNCHANGED <<dir, manifest, index, ajournal, integ, locks, job, result, ops>>

(***************************************************************************)
(* append_strictly_newer.                                                  *)
(***************************************************************************)

NewManifest(f, rows) ==
  [fmt |-> f, rows |-> rows, base |-> IF f = "csv" THEN Len(rows) ELSE Nil]

(* Mutant: the bar that repeats the stored tail is appended again. *)
AppendedWithTail(in, m) ==
  [fmt |-> m.fmt, rows |-> m.rows \o in,
   base |-> IF m.base = Nil THEN Len(m.rows) ELSE m.base]

(* A legacy manifest is migrated to the tail chain on the way. *)
Appended(in, m) ==
  [fmt |-> m.fmt, rows |-> m.rows \o Fresh(in, m.rows),
   base |-> IF m.base = Nil THEN Len(m.rows) ELSE m.base]

(* Mutant: a batch that starts before the stored tail is accepted. *)
AppendVerdictOverlap(in) ==
  CASE manifest.fmt # "csv" -> "unsupported"
    [] manifest.fmt = "csv" /\ ~Exists("csv") -> "corrupt"
    [] OTHER -> "ok"

(* Why an append is refused; "ok" when it may go on. *)
AppendVerdict(in) ==
  LET m == manifest
      f == dir["csv"] IN
  CASE m.fmt # "csv" -> "unsupported"
    [] m.fmt = "csv" /\ ~Exists("csv") -> "corrupt"
    [] m.fmt = "csv" /\ Exists("csv") /\ m.base = Nil /\ ~ChecksumValid(f, m)
         -> "corrupt"
    [] OTHER ->
         IF in = <<>> THEN "ok"
         ELSE IF m.rows = <<>> \/ f.rows = <<>> THEN "empty"
         ELSE IF Last(f.rows).t # Last(m.rows).t THEN "corrupt"
         ELSE IF \/ in[1].t < Last(m.rows).t
                 \/ in[1].t = Last(m.rows).t /\ in[1] # Last(f.rows)
              THEN "conflict"
         ELSE "ok"

Plan(p, new, backup, to) ==
  /\ pc' = [pc EXCEPT ![p] = to]
  /\ job' = [job EXCEPT ![p].old = manifest, ![p].new = new, ![p].backup = backup]
  /\ UNCHANGED <<dir, manifest, index, ajournal, rjournal, locks, result, ops>>

append_strictly_newer(p) ==
  /\ pc[p] = "append"
  /\ LET in == job[p].rows IN
     \/ Raise(p, "rejected")             \* validated_append_bars
     \/ /\ manifest = Nil                \* first batch: _replace_all_locked
        /\ Plan(p, NewManifest("csv", in), FALSE, "begin")
        /\ UNCHANGED integ
     \/ /\ manifest # Nil /\ AppendVerdict(in) # "ok"
        /\ Raise(p, AppendVerdict(in))
     \/ /\ manifest # Nil /\ AppendVerdict(in) = "ok"
        /\ Appended(in, manifest) = manifest
        /\ Goto(p, "append", "unlock")
        /\ UNCHANGED <<disk, locks, job, result, ops>>
     \/ /\ manifest # Nil /\ AppendVerdict(in) = "ok"
        /\ Appended(in, manifest) # manifest
        /\ Plan(p, Appended(in, manifest), FALSE, "append_journal")
        /\ UNCHANGED integ

(* Mutant: the size the file will have is recorded as the one to go back to. *)
AppendJournalSwapped(p) ==
  LET size == Size(dir["csv"]) + 2 * (Len(job[p].new.rows) - Len(job[p].old.rows)) IN
  /\ Goto(p, "append_journal", "append_data")
  /\ ajournal' = [before |-> size, after |-> size,
                  old |-> job[p].old, new |-> job[p].new]
  /\ UNCHANGED <<dir, manifest, index, rjournal, integ, locks, job, result, ops>>

(* commit_metadata_migration is the case where no row is added. *)
AppendJournalWrite(p) ==
  /\ Goto(p, "append_journal", "append_data")
  /\ ajournal' =
       [before |-> Size(dir["csv"]),
        after |-> Size(dir["csv"])
                    + 2 * (Len(job[p].new.rows) - Len(job[p].old.rows)),
        old |-> job[p].old, new |-> job[p].new]
  /\ UNCHANGED <<dir, manifest, index, rjournal, integ, locks, job, result, ops>>

(* append_bytes: one os.write of the loop, cut anywhere. *)
AppendBytes(p) ==
  LET f == dir["csv"] IN
  /\ pc[p] = "append_data"
  /\ Size(f) < ajournal.after
  /\ IF f.torn
       THEN WriteInPlace("csv", Append(f.rows, job[p].new.rows[Len(f.rows) + 1]),
                         FALSE)
       ELSE WriteInPlace("csv", f.rows, TRUE)
  /\ UNCHANGED <<manifest, index, ajournal, rjournal, integ, locks, pc, job,
                 result, ops>>

AppendManifest(p) ==
  /\ Goto(p, "append_data", "append_index")
  /\ Size(dir["csv"]) >= ajournal.after
  /\ manifest' = job[p].new
  /\ UNCHANGED <<dir, index, ajournal, rjournal, integ, locks, job, result, ops>>

AppendIndex(p) ==
  /\ Goto(p, "append_index", "append_publish")
  /\ index' = Indexed(job[p].new)
  /\ UNCHANGED <<dir, manifest, ajournal, rjournal, integ, locks, job, result,
                 ops>>

AppendPublish(p) ==
  /\ Goto(p, "append_publish", "append_unlink")
  /\ integ' = GenerationOf(dir["csv"], job[p].new)
  /\ UNCHANGED <<dir, manifest, index, ajournal, rjournal, locks, job, result,
                 ops>>

AppendUnlink(p) ==
  /\ Goto(p, "append_unlink", "unlock")
  /\ ajournal' = Nil
  /\ UNCHANGED <<dir, manifest, index, rjournal, integ, locks, job, result, ops>>

(***************************************************************************)
(* replace_all, replace_all_stream, upsert_closed and compact: compute the *)
(* rows of the new generation, then _replace_all_locked.                   *)
(***************************************************************************)

(* old_data_path.exists() decides whether there will be a backup. *)
HasOldData == manifest # Nil /\ Exists(manifest.fmt)

replace_all_locked(p, rows) ==
  Plan(p, NewManifest(job[p].fmt, rows), HasOldData, "begin")

replace_all(p) ==
  /\ pc[p] = "replace"
  /\ \/ Raise(p, "rejected")             \* validate_bars, stream out of order
     \/ replace_all_locked(p, job[p].rows) /\ UNCHANGED integ

upsert_closed(p) ==
  /\ pc[p] = "upsert"
  /\ LET b == job[p].rows[1] IN
     \/ ~Readable /\ Raise(p, "corrupt")
     \/ Readable /\ Conflicts(Stored, b) /\ Raise(p, "conflict")
     \/ /\ Readable /\ ~Conflicts(Stored, b)
        /\ replace_all_locked(p, Merged(Stored, b))
        /\ PublishIfValidated

compact(p) ==
  /\ pc[p] = "compact"
  /\ \/ ~Readable /\ Raise(p, "corrupt")
     \/ Readable /\ replace_all_locked(p, Stored) /\ PublishIfValidated

(* begin_replacement: drop an orphaned backup, link (or copy) the old      *)
(* generation, write the journal.  Its own recovery of a pending journal   *)
(* never runs: series_writer_lock has just done it under the same lock.    *)
BackupUnlink(p) ==
  /\ Goto(p, "begin", IF job[p].backup THEN "backup_link" ELSE "replace_journal")
  /\ rjournal = Nil
  /\ IF job[p].backup THEN Unlink(Backup[job[p].old.fmt]) ELSE UNCHANGED dir
  /\ UNCHANGED <<manifest, index, ajournal, rjournal, integ, locks, job, result,
                 ops>>

(* Mutant: the old generation is not kept. *)
BackupNothing(p) ==
  /\ Goto(p, "backup_link", "replace_journal")
  /\ UNCHANGED <<disk, locks, job, result, ops>>

BackupLink(p) ==
  /\ Goto(p, "backup_link", "replace_journal")
  /\ LET f == job[p].old.fmt IN
     \/ dir' = [dir EXCEPT ![Backup[f]] = dir[f]]          \* os.link
     \/ Publish(Backup[f], dir[f].rows)                    \* _atomic_copy
  /\ UNCHANGED <<manifest, index, ajournal, rjournal, integ, locks, job, result,
                 ops>>

ReplaceJournalWrite(p) ==
  /\ Goto(p, "replace_journal", "replace_data")
  /\ rjournal' = [old |-> job[p].old, new |-> job[p].new, backup |-> job[p].backup]
  /\ UNCHANGED <<dir, manifest, index, ajournal, integ, locks, job, result, ops>>

ReplaceData(p) ==
  /\ Goto(p, "replace_data", "replace_manifest")
  /\ Publish(job[p].new.fmt, job[p].new.rows)
  /\ UNCHANGED <<manifest, index, ajournal, rjournal, integ, locks, job, result,
                 ops>>

ReplaceManifest(p) ==
  /\ Goto(p, "replace_manifest", "replace_index")
  /\ manifest' = job[p].new
  /\ UNCHANGED <<dir, index, ajournal, rjournal, integ, locks, job, result, ops>>

ReplaceIndex(p) ==
  /\ Goto(p, "replace_index", "finish_old")
  /\ index' = Indexed(job[p].new)
  /\ UNCHANGED <<dir, manifest, ajournal, rjournal, integ, locks, job, result,
                 ops>>

(***************************************************************************)
(* read_all / iter_all under stable_series_read_lock.                      *)
(***************************************************************************)

ReaderLock(p) ==
  /\ writer = Nil
  /\ Goto(p, "flock_sh", "read_check")
  /\ readers' = readers \cup {p}
  /\ UNCHANGED <<disk, writer, job, result, ops>>

(* Mutant: a reader ignores the append journal. *)
ReaderCheckReplaceOnly(p) ==
  /\ pc[p] = "read_check"
  /\ IF rjournal # Nil
       THEN /\ Goto(p, "read_check", "flock_ex")
            /\ readers' = readers \ {p}
       ELSE /\ Goto(p, "read_check", "read")
            /\ UNCHANGED readers
  /\ UNCHANGED <<disk, writer, job, result, ops>>

ReaderCheck(p) ==
  /\ pc[p] = "read_check"
  /\ IF ajournal # Nil \/ rjournal # Nil
       THEN /\ Goto(p, "read_check", "flock_ex")
            /\ readers' = readers \ {p}
       ELSE /\ Goto(p, "read_check", "read")
            /\ UNCHANGED readers
  /\ UNCHANGED <<disk, writer, job, result, ops>>

read_all(p) ==
  /\ pc[p] = "read"
  /\ \/ ~Readable /\ Raise(p, "corrupt")
     \/ /\ Readable
        /\ Leave(p, "ok", Stored)
        /\ PublishIfValidated
        /\ UNCHANGED <<dir, manifest, index, ajournal, rjournal, ops>>

(* vacuum_segments holds the lock but recovers nothing first. *)
vacuum(p) ==
  /\ Goto(p, "vacuum", "unlock")
  /\ IF manifest # Nil /\ manifest.fmt # job[p].fmt
       THEN Unlink(job[p].fmt)
       ELSE UNCHANGED dir
  /\ UNCHANGED <<manifest, index, ajournal, rjournal, integ, locks, job, result,
                 ops>>

(***************************************************************************)
(* Specification.                                                          *)
(***************************************************************************)

(* An empty directory, or a CSV segment with a pre-tail-chain manifest. *)
Init ==
  /\ \/ dir = [n \in Names |-> Nil] /\ manifest = Nil
     \/ \E s \in LegacyRows, i \in Inodes, st \in Stamps :
          /\ dir = [n \in Names |->
                      IF n = "csv"
                        THEN [ino |-> i, rows |-> s, torn |-> FALSE, stamp |-> st]
                        ELSE Nil]
          /\ manifest = [fmt |-> "csv", rows |-> s, base |-> Nil]
  /\ index = Indexed(manifest)
  /\ ajournal = Nil /\ rjournal = Nil /\ integ = Nil
  /\ writer = Nil /\ readers = {}
  /\ pc = [p \in Proc |-> "idle"]
  /\ job = [p \in Proc |-> Idle]
  /\ result = [p \in Proc |-> [status |-> "none", rows |-> <<>>]]
  /\ ops = 0

Start(p) ==
  \/ BeginAppend(p) \/ BeginReplace(p) \/ BeginUpsert(p) \/ BeginCompact(p)
  \/ BeginRead(p) \/ BeginVacuum(p) \/ BeginOpen(p)

Recover(p) ==
  \/ RecoverAppend(p) \/ RecoverAppendManifest(p) \/ RecoverAppendIndex(p)
  \/ RecoverAppendUnlink(p)
  \/ RecoverReplace(p) \/ RollbackNew(p) \/ RollbackManifest(p)
  \/ RollbackIndex(p) \/ RollbackBackup(p) \/ RollbackUnlink(p)

Finish(p) ==
  \/ FinishOld(p) \/ FinishPublish(p) \/ FinishOther(p) \/ FinishBackup(p)
  \/ FinishUnlink(p)

AppendSteps(p) ==
  \/ append_strictly_newer(p) \/ AppendJournalWrite(p) \/ AppendBytes(p)
  \/ AppendManifest(p) \/ AppendIndex(p) \/ AppendPublish(p) \/ AppendUnlink(p)

ReplaceSteps(p) ==
  \/ replace_all(p) \/ upsert_closed(p) \/ compact(p)
  \/ BackupUnlink(p) \/ BackupLink(p) \/ ReplaceJournalWrite(p)
  \/ ReplaceData(p) \/ ReplaceManifest(p) \/ ReplaceIndex(p)

Step(p) ==
  \/ Glob(p) \/ series_lock(p) \/ series_writer_lock(p) \/ Unlock(p)
  \/ Recover(p) \/ Finish(p) \/ AppendSteps(p) \/ ReplaceSteps(p)
  \/ ReaderLock(p) \/ ReaderCheck(p) \/ read_all(p) \/ vacuum(p)

Next == \E p \in Proc : Start(p) \/ Step(p) \/ Crash(p)

Spec == Init /\ [][Next]_vars

(***************************************************************************)
(* Properties.                                                             *)
(***************************************************************************)

(* Every variable keeps its type. *)
TypeOK ==
  /\ dir \in [Names -> File \cup {Nil}]
  /\ manifest \in Manifest \cup {Nil}
  /\ index \in IndexRow \cup {Nil}
  /\ ajournal \in AppendJournal \cup {Nil}
  /\ rjournal \in ReplaceJournal \cup {Nil}
  /\ integ \in Generation \cup {Nil}
  /\ writer \in Proc \cup {Nil}
  /\ readers \subseteq Proc
  /\ pc \in [Proc -> PCs]
  /\ job \in [Proc -> Job]
  /\ result \in [Proc -> Result]
  /\ ops \in Nat

(* Whenever no journal is pending, whatever crashed before, the directory  *)
(* is one complete generation: the manifest's file exists with exactly the *)
(* manifest's rows, the other format is gone, and the index row agrees.    *)
NoJournalMeansConsistent ==
  ajournal = Nil /\ rjournal = Nil =>
    /\ index = Indexed(manifest)
    /\ \A f \in Formats :
         IF manifest # Nil /\ manifest.fmt = f
           THEN Exists(f) /\ ChecksumValid(dir[f], manifest)
           ELSE ~Exists(f)

(* The two raises of the recoveries ("Cannot recover truncated segment     *)
(* append", "... without old data generation") are never reached, however  *)
(* often writers and earlier recoveries were interrupted.                  *)
RecoveryAlwaysPossible == \A p \in Proc : result[p].status # "unrecoverable"

(* No operation ever finds the segment corrupt. *)
NeverCorrupt == \A p \in Proc : result[p].status # "corrupt"

(* The rows a manifest describes are strictly ordered by open time. *)
CommittedOrdered == manifest # Nil => StrictlyOrdered(manifest.rows)

(* Recovery, crashes and maintenance never change the committed            *)
(* generation: manifest.json only changes when an operation writes the     *)
(* generation it planned.                                                  *)
CommitOnlyByOperation ==
  [][\A p \in Proc :
       manifest' # manifest /\ pc'[p] # pc[p] =>
         pc[p] \in {"append_data", "replace_manifest"}]_vars

(* A read returns exactly the rows of the generation committed at that     *)
(* moment, never a mixture of two.                                         *)
ReadsReturnCommitted ==
  [][\A p \in Proc :
       pc[p] = "read" /\ result'[p].status = "ok" =>
         result'[p].rows = RowsOf(manifest)]_vars

(* Refinement: the committed series is what manifest.json describes, and a *)
(* call takes effect when it writes that file.                             *)
CommittedPCs ==
  {"append_index", "append_publish", "append_unlink", "replace_index",
   "finish_old", "finish_publish", "finish_other", "finish_backup",
   "finish_unlink", "unlock"}

Committed(p) == job[p].new # Nil /\ pc[p] \in CommittedPCs

AbstractCall(p) ==
  IF job[p].op = "none" THEN Nil
  ELSE [op |-> IF job[p].op \in Writes \cup {"read"} THEN job[p].op ELSE "other",
        rows |-> job[p].rows]

Abstract == INSTANCE CommittedSeries WITH
  series <- IF manifest = Nil THEN Nil ELSE manifest.rows,
  call <- [p \in Proc |-> AbstractCall(p)],
  done <- [p \in Proc |-> Committed(p)],
  ok <- [p \in Proc |-> result[p].status = "ok"],
  out <- [p \in Proc |-> result[p].rows]

ASSUME AbstractNilAssumption == Nil \notin Rows \cup Abstract!Call

(* The journaled store implements the atomic series: no crash, recovery or *)
(* concurrent writer makes a call take effect twice, partly, or on a       *)
(* series other than the one it is committed over.                         *)
ImplementsCommittedSeries == Abstract!Spec

(* Every operation ends: no process waits for ever for the lock or loops   *)
(* recovering.                                                             *)
OperationsEnd == \A p \in Proc : pc[p] # "idle" ~> pc[p] = "idle"

(* SegmentStore(...) can always be opened: the recovery it runs at start   *)
(* never fails because of what a concurrent writer does.                   *)
OpenNeverFails == \A p \in Proc : result[p].status # "vanished"

=============================================================================
