------------------------ MODULE SegmentStoreProofs --------------------------
(***************************************************************************)
(* IInv is an invariant of SegmentStore for every set of processes, every  *)
(* workload and every number of operations, hence so are the properties    *)
(* the runs check on small instances.  Every step is shown to keep         *)
(* StoreInv(env) for both environments at once: IInv is the closed one,    *)
(* and the open one carries the store whose file is edited.                *)
(***************************************************************************)
EXTENDS SegmentStoreEdited, FiniteSetTheorems, SharedFacts

-----------------------------------------------------------------------------
(* Facts about the rows of a series. *)

(* Open times are natural numbers. *)
LEMMA RowTimes ==
  ASSUME NEW rows \in Rows
  PROVE  /\ Len(rows) \in Nat
         /\ \A i \in 1..Len(rows) : rows[i] \in Bar /\ rows[i].t \in Nat
<1>1. Len(rows) \in Nat
  BY DEF Rows
<1>2. ASSUME NEW i \in 1..Len(rows) PROVE rows[i] \in Bar /\ rows[i].t \in Nat
  <2>1. rows[i] \in Bar
    BY DEF Rows
  <2>2. rows[i].t \in Times
    BY <2>1 DEF Bar
  <2> QED BY <2>1, <2>2, TimesAssumption
<1> QED BY <1>1, <1>2

(* Ordered rows are cut in two by any open time they do not contain. *)
LEMMA CutPoint ==
  ASSUME NEW rows \in Rows, NEW t \in Times, StrictlyOrdered(rows),
         ~HasTime(rows, t)
  PROVE  \E k \in 0..Len(rows) :
           /\ {i \in 1..Len(rows) : rows[i].t < t} = 1..k
           /\ \A i \in 1..k : rows[i].t < t
           /\ \A i \in (k + 1)..Len(rows) : t < rows[i].t
<1>0. /\ Len(rows) \in Nat /\ t \in Nat
      /\ \A i \in 1..Len(rows) : rows[i].t \in Nat /\ rows[i].t # t
  BY RowTimes, TimesAssumption DEF HasTime
<1> DEFINE T == {i \in 1..Len(rows) : t < rows[i].t}
<1>1. CASE T = {}
  <2>1. \A i \in 1..Len(rows) : rows[i].t < t
    BY <1>0, <1>1
  <2>2. {i \in 1..Len(rows) : rows[i].t < t} = 1..Len(rows)
    BY <2>1
  <2> QED BY <1>0, <2>1, <2>2
<1>2. CASE T # {}
  <2>1. PICK m \in T : \A y \in T : m <= y
    <3>1. T \in SUBSET Nat
      BY <1>0
    <3> QED BY <1>2, <3>1, LeastNatural
  <2>2. m \in 1..Len(rows) /\ t < rows[m].t
    BY <2>1
  <2>3. \A i \in 1..(m - 1) : rows[i].t < t
    BY <1>0, <2>1, <2>2
  <2>4. \A i \in m..Len(rows) : t < rows[i].t
    BY <1>0, <2>2 DEF StrictlyOrdered
  <2>5. {i \in 1..Len(rows) : rows[i].t < t} = 1..(m - 1)
    BY <1>0, <2>2, <2>3, <2>4
  <2>6. m - 1 \in 0..Len(rows) /\ (m - 1) + 1 = m
    BY <1>0, <2>2
  <2> QED BY <2>3, <2>4, <2>5, <2>6
<1> QED BY <1>1, <1>2

(* Inserting a bar where upsert_closed's sort puts it keeps the order. *)
LEMMA MergedOrdered ==
  ASSUME NEW rows \in Rows, NEW b \in Bar, StrictlyOrdered(rows)
  PROVE  Merged(rows, b) \in Rows /\ StrictlyOrdered(Merged(rows, b))
<1>1. CASE HasTime(rows, b.t)
  BY <1>1 DEF Merged
<1>2. CASE ~HasTime(rows, b.t)
  <2>0. b.t \in Times
    BY DEF Bar
  <2>1. PICK k \in 0..Len(rows) :
           /\ {i \in 1..Len(rows) : rows[i].t < b.t} = 1..k
           /\ \A i \in 1..k : rows[i].t < b.t
           /\ \A i \in (k + 1)..Len(rows) : b.t < rows[i].t
    BY <1>2, <2>0, CutPoint
  <2>2. Len(rows) \in Nat /\ k \in Nat /\ k <= Len(rows)
    BY DEF Rows
  <2>3. Cardinality({i \in 1..Len(rows) : rows[i].t < b.t}) = k
    <3>1. Cardinality(1..k) = IF 1 > k THEN 0 ELSE k - 1 + 1
      BY <2>2, FS_Interval
    <3>2. Cardinality(1..k) = k
      BY <2>2, <3>1
    <3> QED BY <2>1, <3>2
  <2> DEFINE s == SubSeq(rows, 1, k)
             u == SubSeq(rows, k + 1, Len(rows))
             r == s \o <<b>> \o u
  <2>4. Merged(rows, b) = r
    <3>1. (k + 1) - 1 = k /\ 1 + k = k + 1
      BY <2>2
    <3>2. Merged(rows, b) = InsertAt(rows, k + 1, b)
      BY <1>2, <2>3, <3>1 DEF Merged
    <3> QED BY <3>1, <3>2 DEF InsertAt
  <2>5. /\ s \in Seq(Bar) /\ Len(s) = k /\ \A i \in 1..k : s[i] = rows[i]
    BY <2>2 DEF Rows
  <2>6. /\ u \in Seq(Bar) /\ Len(u) = Len(rows) - k
        /\ \A i \in 1..Len(u) : u[i] = rows[i + k]
    BY <2>2 DEF Rows
  <2> HIDE DEF s, u
  <2>7. r \in Seq(Bar) /\ Len(r) = Len(rows) + 1
    BY <2>2, <2>5, <2>6
  <2>8. /\ \A i \in 1..k : r[i] = rows[i]
        /\ r[k + 1] = b
        /\ \A i \in (k + 2)..(Len(rows) + 1) : r[i] = rows[i - 1]
    <3>1. \A i \in 1..k : r[i] = rows[i]
      BY <2>2, <2>5, <2>6
    <3>2. r[k + 1] = b
      BY <2>2, <2>5, <2>6
    <3>3. ASSUME NEW i \in (k + 2)..(Len(rows) + 1) PROVE r[i] = rows[i - 1]
      <4>1. i - (k + 1) \in 1..Len(u) /\ (i - (k + 1)) + k = i - 1
        BY <2>2, <2>6
      <4>2. r[i] = u[i - (k + 1)]
        BY <2>2, <2>5, <2>6, <4>1
      <4> QED BY <2>6, <4>1, <4>2
    <3> QED BY <3>1, <3>2, <3>3
  <2> HIDE DEF r
  <2>9. StrictlyOrdered(r)
    <3> SUFFICES ASSUME NEW i \in 1..Len(r), NEW j \in 1..Len(r), i < j
                 PROVE  r[i].t < r[j].t
      BY DEF StrictlyOrdered
    <3>0. /\ \A x, y \in 1..Len(rows) : x < y => rows[x].t < rows[y].t
          /\ i \in Nat /\ j \in Nat /\ 1 <= i /\ j <= Len(rows) + 1
      BY <2>2, <2>7 DEF StrictlyOrdered
    <3>1. CASE j <= k
      <4>1. i \in 1..k /\ j \in 1..k /\ i \in 1..Len(rows) /\ j \in 1..Len(rows)
        BY <2>2, <3>0, <3>1
      <4>2. rows[i].t < rows[j].t
        BY <3>0, <4>1
      <4>3. r[i] = rows[i] /\ r[j] = rows[j]
        BY <2>8, <4>1
      <4> QED BY <4>2, <4>3
    <3>2. CASE j = k + 1
      <4>1. i \in 1..k
        BY <2>2, <3>0, <3>2
      <4>2. r[i] = rows[i] /\ r[j] = b
        BY <2>8, <3>2, <4>1
      <4> QED BY <2>1, <4>1, <4>2
    <3>3. CASE j > k + 1
      <4>0. /\ j \in (k + 2)..(Len(rows) + 1)
            /\ j - 1 \in (k + 1)..Len(rows) /\ j - 1 \in 1..Len(rows)
        BY <2>2, <3>0, <3>3
      <4>1. r[j] = rows[j - 1]
        BY <2>8, <4>0
      <4>2. CASE i <= k
        <5>1. i \in 1..k /\ i \in 1..Len(rows) /\ i < j - 1
          BY <2>2, <3>0, <3>3, <4>2
        <5>2. r[i] = rows[i]
          BY <2>8, <5>1
        <5>3. rows[i].t < rows[j - 1].t
          BY <3>0, <4>0, <5>1
        <5> QED BY <4>1, <5>2, <5>3
      <4>3. CASE i = k + 1
        <5>1. r[i] = b
          BY <2>8, <4>3
        <5>2. b.t < rows[j - 1].t
          BY <2>1, <4>0
        <5> QED BY <4>1, <5>1, <5>2
      <4>4. CASE i > k + 1
        <5>0. /\ i \in (k + 2)..(Len(rows) + 1)
              /\ i - 1 \in 1..Len(rows) /\ i - 1 < j - 1
          BY <2>2, <3>0, <4>4
        <5>1. r[i] = rows[i - 1]
          BY <2>8, <5>0
        <5>2. rows[i - 1].t < rows[j - 1].t
          BY <3>0, <4>0, <5>0
        <5> QED BY <4>1, <5>1, <5>2
      <4> QED BY <2>2, <3>0, <4>2, <4>3, <4>4
    <3> QED BY <3>1, <3>2, <3>3
  <2> QED BY <2>4, <2>7, <2>9 DEF Rows
<1> QED BY <1>1, <1>2

(* Appending strictly newer rows keeps the order; a batch that starts with *)
(* the stored tail is appended without it.                                 *)
LEMMA FreshOrdered ==
  ASSUME NEW rows \in Rows, NEW in \in Rows,
         StrictlyOrdered(rows), StrictlyOrdered(in),
         in # <<>> => rows # <<>> /\ in[1].t >= Last(rows).t
  PROVE  /\ Fresh(in, rows) \in Rows
         /\ rows \o Fresh(in, rows) \in Rows
         /\ StrictlyOrdered(rows \o Fresh(in, rows))
         /\ Len(rows \o Fresh(in, rows)) = Len(rows) + Len(Fresh(in, rows))
         /\ \A i \in 1..Len(rows) : (rows \o Fresh(in, rows))[i] = rows[i]
<1> DEFINE f == Fresh(in, rows)
<1>0. /\ Len(rows) \in Nat /\ Len(in) \in Nat
      /\ \A i \in 1..Len(rows) : rows[i].t \in Nat
      /\ \A i \in 1..Len(in) : in[i].t \in Nat
  BY RowTimes
<1>1. f \in Seq(Bar)
  BY DEF Fresh, Rows
<1>2. StrictlyOrdered(f)
  BY <1>0 DEF Fresh, StrictlyOrdered, Rows
<1>3. f # <<>> => rows # <<>> /\ Last(rows).t < f[1].t
  <2>1. CASE in = <<>>
    BY <2>1 DEF Fresh
  <2>2. CASE in # <<>> /\ in[1].t = Last(rows).t
    <3>1. f = Tail(in) /\ rows # <<>>
      BY <2>2 DEF Fresh
    <3>2. f # <<>> => Len(in) >= 2 /\ f[1] = in[2]
      BY <1>0, <2>2, <3>1 DEF Rows
    <3> QED BY <1>0, <2>2, <3>1, <3>2 DEF StrictlyOrdered
  <2>3. CASE in # <<>> /\ in[1].t # Last(rows).t
    <3>1. f = in /\ rows # <<>>
      BY <2>3 DEF Fresh
    <3>2. Last(rows).t \in Nat /\ in[1].t \in Nat
      BY <1>0, <2>3, <3>1 DEF Last, Rows
    <3> QED BY <2>3, <3>1, <3>2
  <2> QED BY <2>1, <2>2, <2>3
<1> HIDE DEF f
<1> DEFINE r == rows \o f
<1>4. /\ r \in Seq(Bar) /\ Len(f) \in Nat /\ Len(r) = Len(rows) + Len(f)
      /\ \A i \in 1..Len(rows) : r[i] = rows[i]
      /\ \A i \in (Len(rows) + 1)..Len(r) : r[i] = f[i - Len(rows)]
  BY <1>0, <1>1 DEF Rows
<1>5. \A i \in 1..Len(f) : f[i].t \in Nat /\ (i > 1 => f[1].t < f[i].t)
  <2>1. \A i \in 1..Len(f) : f[i].t \in Nat
    BY <1>1, RowTimes DEF Rows
  <2>2. \A i \in 1..Len(f) : i > 1 => f[1].t < f[i].t
    BY <1>2, <1>4 DEF StrictlyOrdered
  <2> QED BY <2>1, <2>2
<1>6. \A i \in 1..Len(rows) : rows # <<>> => rows[i].t <= Last(rows).t
  BY <1>0 DEF StrictlyOrdered, Last, Rows
<1>7. StrictlyOrdered(r)
  <2> SUFFICES ASSUME NEW i \in 1..Len(r), NEW j \in 1..Len(r), i < j
               PROVE  r[i].t < r[j].t
    BY DEF StrictlyOrdered
  <2>1. CASE j <= Len(rows)
    BY <1>0, <1>4, <2>1 DEF StrictlyOrdered
  <2>2. CASE i > Len(rows)
    <3>1. /\ r[i] = f[i - Len(rows)] /\ r[j] = f[j - Len(rows)]
          /\ i - Len(rows) \in 1..Len(f) /\ j - Len(rows) \in 1..Len(f)
          /\ i - Len(rows) < j - Len(rows)
      BY <1>0, <1>4, <2>2
    <3> QED BY <1>2, <3>1 DEF StrictlyOrdered
  <2>3. CASE i <= Len(rows) /\ j > Len(rows)
    <3>1. /\ r[i] = rows[i] /\ i \in 1..Len(rows)
          /\ r[j] = f[j - Len(rows)] /\ j - Len(rows) \in 1..Len(f)
      BY <1>0, <1>4, <2>3
    <3>2. f # <<>> /\ rows # <<>> /\ Len(rows) \in 1..Len(rows)
      BY <1>0, <1>1, <1>3, <3>1 DEF Rows
    <3>3. rows[i].t <= Last(rows).t /\ Last(rows).t < f[1].t
      BY <1>3, <1>6, <3>1, <3>2
    <3>4. f[1].t <= f[j - Len(rows)].t
      BY <1>5, <3>1, <3>2
    <3>5. /\ rows[i].t \in Nat /\ Last(rows).t \in Nat /\ f[1].t \in Nat
          /\ f[j - Len(rows)].t \in Nat
      BY <1>0, <1>4, <1>5, <3>1, <3>2 DEF Last
    <3>6. rows[i].t < f[j - Len(rows)].t
      BY <3>3, <3>4, <3>5
    <3> QED BY <3>1, <3>6, Zenon
  <2>4. i \in Nat /\ j \in Nat /\ Len(rows) \in Nat
    BY <1>0, <1>4
  <2>5. j <= Len(rows) \/ i > Len(rows) \/ (i <= Len(rows) /\ j > Len(rows))
    BY ONLY <2>4
  <2> QED BY <2>1, <2>2, <2>3, <2>5
<1> QED BY <1>1, <1>4, <1>7 DEF f, Rows

-----------------------------------------------------------------------------
(* Facts about the operators of the model. *)

(* An index row or none. *)
LEMMA IndexedType ==
  ASSUME NEW m \in Manifest \cup {Nil}
  PROVE  Indexed(m) \in IndexRow \cup {Nil}
BY NilAssumption DEF Indexed, RowsOf, IndexRow, Manifest

(* There always is a modification time that has not been published. *)
LEMMA FreshStampType ==
  ASSUME TypeOK
  PROVE  FreshStamp \in Stamps /\ (integ # Nil => integ.stamp # FreshStamp)
<1>1. \E s \in Stamps : integ = Nil \/ integ.stamp # s
  <2>1. PICK s \in Stamps : TRUE
    BY DataAssumption
  <2>2. PICK u \in Stamps : u # s
    BY DataAssumption
  <2> QED BY <2>1, <2>2
<1> QED BY <1>1 DEF FreshStamp

(* Removing a name leaves the other names alone. *)
LEMMA UnlinkFrame ==
  ASSUME TypeOK, LinkInv, NEW n \in Names, Unlink(n)
  PROVE  /\ dir' \in [Names -> File \cup {Nil}]
         /\ LinkInv'
         /\ ~Exists(n)'
         /\ \A m \in Names \ {n} : dir'[m] = dir[m]
BY NilAssumption DEF TypeOK, LinkInv, Unlink, Exists

(* A renamed temporary file is complete and shares its inode with no name. *)
LEMMA PublishFrame ==
  ASSUME NEW env, TypeOK, LinkInv, NEW n \in Names, NEW rows \in Rows,
         Publish(n, rows)
  PROVE  /\ dir' \in [Names -> File \cup {Nil}]
         /\ LinkInv'
         /\ Holds(env, n, rows)'
         /\ \A m \in Names \ {n} : dir'[m] = dir[m]
<1>1. PICK i \in Inodes :
        /\ FreshInode(i)
        /\ dir' = [dir EXCEPT ![n] =
             [ino |-> i, rows |-> rows, torn |-> FALSE, stamp |-> FreshStamp]]
  BY DEF Publish
<1> DEFINE f == [ino |-> i, rows |-> rows, torn |-> FALSE, stamp |-> FreshStamp]
<1>2. f \in File /\ f # Nil
  <2>1. FreshStamp \in Stamps
    BY FreshStampType
  <2>2. f \in File
    BY <2>1 DEF File
  <2> QED BY <2>2, NilAssumption
<1>3. dir'[n] = f /\ \A m \in Names \ {n} : dir'[m] = dir[m]
  BY <1>1 DEF TypeOK
<1>4. LinkInv'
  BY <1>1, <1>2, <1>3 DEF LinkInv, FreshInode, Exists
<1> HIDE DEF f
<1>5. dir' \in [Names -> File \cup {Nil}]
  BY <1>1, <1>2 DEF TypeOK, f
<1>6. Holds(env, n, rows)'
  BY <1>2, <1>3 DEF Holds, Exists, f
<1> QED BY <1>3, <1>4, <1>5, <1>6

(* After os.replace the target is what the source was. *)
LEMMA RenameFrame ==
  ASSUME TypeOK, LinkInv, NEW a \in Names, NEW b \in Names, a # b,
         Exists(a), Rename(a, b)
  PROVE  /\ dir' \in [Names -> File \cup {Nil}]
         /\ LinkInv'
         /\ dir'[b] = dir[a]
         /\ dir'[a] \in {dir[a], Nil}
         /\ \A m \in Names \ {a, b} : dir'[m] = dir[m]
BY NilAssumption DEF TypeOK, LinkInv, Rename, Exists

(* A write in place touches the links of one inode, and names stay put. *)
LEMMA WriteInPlaceFrame ==
  ASSUME TypeOK, LinkInv, NEW n \in Names, NEW rows \in Rows,
         NEW torn \in BOOLEAN, Exists(n), WriteInPlace(n, rows, torn)
  PROVE  /\ dir' \in [Names -> File \cup {Nil}]
         /\ LinkInv'
         /\ \A m \in Names : Exists(m)' <=> Exists(m)
         /\ dir'[n].rows = rows /\ dir'[n].torn = torn
<1> DEFINE g(m) == [ino |-> dir[m].ino, rows |-> rows, torn |-> torn,
                    stamp |-> FreshStamp]
<1>1. ASSUME NEW m \in Names, Exists(m)
      PROVE  g(m) \in File /\ g(m) # Nil /\ g(m).ino = dir[m].ino
  BY <1>1, FreshStampType, NilAssumption DEF TypeOK, File, Exists
<1>2. dir' = [m \in Names |-> IF Exists(m) /\ dir[m].ino = dir[n].ino
                                THEN g(m) ELSE dir[m]]
  BY DEF WriteInPlace
<1>3. g(n).rows = rows /\ g(n).torn = torn
  OBVIOUS
<1>4. \A k, m \in Names : dir[k].ino = dir[m].ino => g(k) = g(m)
  OBVIOUS
<1> HIDE DEF g
<1>5. dir' \in [Names -> File \cup {Nil}]
  BY <1>1, <1>2 DEF TypeOK
<1>6. \A m \in Names : Exists(m)' <=> Exists(m)
  BY <1>1, <1>2 DEF Exists
<1>7. LinkInv'
  BY <1>1, <1>2, <1>4, <1>6 DEF LinkInv, Exists
<1>8. dir'[n].rows = rows /\ dir'[n].torn = torn
  BY <1>2, <1>3
<1> QED BY <1>5, <1>6, <1>7, <1>8

(* A published generation has its type. *)
LEMMA GenerationType ==
  ASSUME NEW f \in File, NEW m \in Manifest
  PROVE  GenerationOf(f, m) \in Generation
<1>1. Size(f) \in Nat
  <2>1. Len(f.rows) \in Nat
    BY DEF File, Rows
  <2>2. CASE f.torn
    BY <2>1, <2>2 DEF Size
  <2>3. CASE ~f.torn
    BY <2>1, <2>3 DEF Size
  <2> QED BY <2>2, <2>3
<1> QED BY <1>1 DEF GenerationOf, Generation, File, Manifest

(* What a reader publishes after validating has its type. *)
LEMMA PublishIfValidatedType ==
  ASSUME TypeOK, PublishIfValidated
  PROVE  integ' \in Generation \cup {Nil}
<1>1. CASE manifest # Nil /\ manifest.fmt = "csv" /\ Exists("csv")
  <2>1. manifest \in Manifest /\ dir["csv"] \in File
    BY <1>1 DEF TypeOK, Exists, Names, Formats
  <2>2. integ' = GenerationOf(dir["csv"], manifest)
    BY <1>1 DEF PublishIfValidated
  <2> QED BY <2>1, <2>2, GenerationType
<1>2. CASE ~(manifest # Nil /\ manifest.fmt = "csv" /\ Exists("csv"))
  BY <1>2 DEF PublishIfValidated, TypeOK
<1> QED BY <1>1, <1>2

-----------------------------------------------------------------------------
(* Steps that leave the directory, the manifest, the index and the         *)
(* journals alone.                                                         *)

stored == <<dir, manifest, index, ajournal, rjournal>>

(* Such a step keeps what the disk invariants say. *)
LEMMA StoredUnchanged ==
  ASSUME NEW env, StoreInv(env), UNCHANGED stored
  PROVE  LinkInv' /\ DiskInv(env)'
<1>1. LinkInv'
  BY DEF StoreInv, stored, LinkInv, Exists
<1>2. DiskInv(env)'
  BY DEF StoreInv, stored, DiskInv, QuietDisk, Clean, AppendingDisk, ReplacingDisk,
         Exists, Holds, OldRecoverable
<1> QED BY <1>1, <1>2

(* A process that does not move keeps what it knows. *)
LEMMA PhaseUnchanged ==
  ASSUME NEW env, StoreInv(env), UNCHANGED stored, NEW q \in Proc,
         pc'[q] = pc[q], job'[q] = job[q]
  PROVE  PhaseInv(env, q)'
BY DEF StoreInv, stored, PhaseInv, NoJournal, Planned, RollingBack, Finishing,
       Clean, Exists, Holds

(* A call that returns or raises leaves a good state behind, unless it     *)
(* reports an unrecoverable segment, or a corrupt one that nobody edited.  *)
LEMMA LeaveInv ==
  ASSUME NEW env, StoreInv(env), NEW p \in Proc, NEW status, NEW rows \in Rows,
         pc[p] # "idle",
         status \in {"ok", "crashed", "rejected", "unsupported", "conflict",
                     "empty", "vanished", "corrupt"},
         env = "closed" => status # "corrupt",
         Leave(p, status, rows), UNCHANGED <<stored, ops>>,
         integ' \in Generation \cup {Nil}
  PROVE  StoreInv(env)'
<1> USE DEF Leave
<1>1. TypeOK'
  <2>1. Idle \in Job
    BY DEF Idle, Job, OpNames, Formats, Rows
  <2>2. [status |-> status, rows |-> rows] \in Result
    BY DEF Result
  <2> QED BY <2>1, <2>2 DEF StoreInv, TypeOK, stored, PCs, FreePCs
<1>2. LockInv'
  BY NilAssumption DEF StoreInv, TypeOK, LockInv, FreePCs, SharedPCs, LockedPCs
<1>3. LinkInv' /\ DiskInv(env)'
  BY StoredUnchanged
<1>4. OrderInv'
  <2>1. StrictlyOrdered(<<>>)
    BY DEF StrictlyOrdered
  <2>2. Idle.rows = <<>> /\ Idle.new = Nil
    BY DEF Idle
  <2> QED BY <2>1, <2>2 DEF StoreInv, TypeOK, OrderInv, stored
<1>5. JobInv'
  BY DEF StoreInv, TypeOK, JobInv, Idle, LockedPCs
<1>6. ASSUME NEW q \in Proc PROVE PhaseInv(env, q)'
  <2>1. CASE q = p
    BY <2>1 DEF StoreInv, TypeOK, PhaseInv
  <2>2. CASE q # p
    BY <2>2, PhaseUnchanged DEF StoreInv, TypeOK
  <2> QED BY <2>1, <2>2
<1>7. ResultInv(env)'
  BY DEF StoreInv, TypeOK, ResultInv, RecoveryAlwaysPossible, NeverCorrupt
<1> QED BY <1>1, <1>2, <1>3, <1>4, <1>5, <1>6, <1>7 DEF StoreInv

(* A process that dies, or whose exception is not caught, changes nothing  *)
(* on disk.                                                                *)
LEMMA CrashInv ==
  ASSUME NEW env, StoreInv(env), NEW p \in Proc, Crash(p)
  PROVE  StoreInv(env)'
<1>1. /\ pc[p] # "idle" /\ Leave(p, "crashed", <<>>)
      /\ UNCHANGED <<stored, integ, ops>>
  BY DEF Crash, Raise, disk, stored
<1>2. <<>> \in Rows /\ integ' \in Generation \cup {Nil}
  BY <1>1 DEF Rows, StoreInv, TypeOK
<1> QED BY <1>1, <1>2, LeaveInv

(* A refused call leaves a good state behind. *)
LEMMA RaiseInv ==
  ASSUME NEW env, StoreInv(env), NEW p \in Proc, pc[p] # "idle",
         NEW status, Raise(p, status),
         status \in {"rejected", "unsupported", "conflict", "empty", "corrupt"},
         env = "closed" => status # "corrupt"
  PROVE  StoreInv(env)'
<1>1. UNCHANGED <<stored, ops>> /\ integ' = integ /\ Leave(p, status, <<>>)
  BY DEF Raise, stored, disk
<1>2. integ' \in Generation \cup {Nil} /\ <<>> \in Rows
  BY <1>1 DEF StoreInv, TypeOK, Rows
<1> QED BY <1>1, <1>2, LeaveInv

(* Starting a call touches only the caller. *)
LEMMA BeginInv ==
  ASSUME NEW env, StoreInv(env), NEW p \in Proc,
         NEW op \in OpNames \ {"none"}, NEW rows \in Rows, NEW f \in Formats,
         NEW l \in {"flock_ex", "flock_sh", "glob"},
         Begin(p, Request(op, rows, f), l), StrictlyOrdered(rows),
         op = "upsert" => rows # <<>>,
         l = "flock_sh" => op = "read",
         l = "glob" => op = "open_append"
  PROVE  StoreInv(env)'
<1> DEFINE j == Request(op, rows, f)
<1>0. j \in Job /\ j.op = op /\ j.rows = rows /\ j.new = Nil
  BY DEF Request, Idle, Job
<1> HIDE DEF j
<1>a. Begin(p, j, l)
  BY DEF j
<1> USE <1>a DEF Begin, Goto
<1>b. UNCHANGED stored
  BY DEF stored, disk
<1>1. TypeOK'
  <2>1. [status |-> "none", rows |-> <<>>] \in Result
    BY DEF Result, Rows
  <2> QED BY <1>0, <2>1 DEF StoreInv, TypeOK, disk, locks, PCs, FreePCs
<1>2. LockInv'
  BY DEF StoreInv, TypeOK, locks, LockInv, FreePCs, SharedPCs, LockedPCs
<1>3. LinkInv' /\ DiskInv(env)'
  BY <1>b, StoredUnchanged
<1>4. OrderInv'
  BY <1>0, <1>b DEF StoreInv, TypeOK, OrderInv, stored
<1>5. JobInv'
  BY <1>0 DEF StoreInv, TypeOK, JobInv, LockedPCs
<1>6. ASSUME NEW q \in Proc PROVE PhaseInv(env, q)'
  <2>1. CASE q = p
    BY <2>1 DEF StoreInv, TypeOK, PhaseInv
  <2>2. CASE q # p
    BY <1>b, <2>2, PhaseUnchanged DEF StoreInv, TypeOK
  <2> QED BY <2>1, <2>2
<1>7. ResultInv(env)'
  BY DEF StoreInv, TypeOK, ResultInv, RecoveryAlwaysPossible, NeverCorrupt
<1> QED BY <1>1, <1>2, <1>3, <1>4, <1>5, <1>6, <1>7 DEF StoreInv

(* Every operation that can be started. *)
LEMMA StartInv ==
  ASSUME NEW env, StoreInv(env), NEW p \in Proc, Start(p)
  PROVE  StoreInv(env)'
<1>0. <<>> \in Rows /\ StrictlyOrdered(<<>>)
  BY DEF Rows, StrictlyOrdered
<1> USE DEF OpNames, Writes
<1>1. CASE BeginAppend(p)
  <2>1. PICK s \in AppendInputs : Begin(p, Request("append", s, "csv"), "flock_ex")
    BY <1>1 DEF BeginAppend
  <2>2. s \in Rows /\ StrictlyOrdered(s) /\ "csv" \in Formats
    BY InputAssumption DEF Formats
  <2> QED BY <2>1, <2>2, BeginInv
<1>2. CASE BeginReplace(p)
  <2>1. PICK s \in ReplaceInputs, f \in Formats :
          Begin(p, Request("replace", s, f), "flock_ex")
    BY <1>2 DEF BeginReplace
  <2>2. s \in Rows /\ StrictlyOrdered(s)
    BY InputAssumption
  <2> QED BY <2>1, <2>2, BeginInv
<1>3. CASE BeginUpsert(p)
  <2>1. PICK b \in UpsertInputs, f \in Formats :
          Begin(p, Request("upsert", <<b>>, f), "flock_ex")
    BY <1>3 DEF BeginUpsert
  <2>2. <<b>> \in Rows /\ StrictlyOrdered(<<b>>) /\ <<b>> # <<>>
    BY InputAssumption DEF Rows, StrictlyOrdered
  <2> QED BY <2>1, <2>2, BeginInv
<1>4. CASE BeginCompact(p)
  <2>1. PICK f \in Formats : Begin(p, Request("compact", <<>>, f), "flock_ex")
    BY <1>4 DEF BeginCompact
  <2> QED BY <1>0, <2>1, BeginInv
<1>5. CASE BeginRead(p)
  BY <1>0, <1>5, BeginInv DEF BeginRead, Formats
<1>6. CASE BeginVacuum(p)
  <2>1. PICK f \in Formats : Begin(p, Request("vacuum", <<>>, f), "flock_ex")
    BY <1>6 DEF BeginVacuum
  <2> QED BY <1>0, <2>1, BeginInv
<1>7. CASE BeginOpen(p)
  BY <1>0, <1>7, BeginInv DEF BeginOpen, Formats
<1> QED BY <1>1, <1>2, <1>3, <1>4, <1>5, <1>6, <1>7 DEF Start

(* The two passes of SegmentStore.__init__ look for journals unlocked. *)
LEMMA GlobInv ==
  ASSUME NEW env, StoreInv(env), NEW p \in Proc, Glob(p)
  PROVE  StoreInv(env)'
<1>1. CASE /\ job[p].op = "open_replace" /\ rjournal = Nil
           /\ Leave(p, "ok", <<>>) /\ UNCHANGED <<disk, ops>>
  <2>1. UNCHANGED stored /\ integ' \in Generation \cup {Nil} /\ <<>> \in Rows
    BY <1>1 DEF disk, stored, StoreInv, TypeOK, Rows
  <2>2. pc[p] # "idle"
    BY DEF Glob
  <2> QED BY <1>1, <2>1, <2>2, LeaveInv
<1>2. CASE /\ job[p].op = "open_append"
           /\ job' = [job EXCEPT ![p].op = "open_replace"]
           /\ UNCHANGED <<disk, locks, pc, result, ops>>
  <2>0. pc[p] = "glob" /\ UNCHANGED stored
    BY <1>2 DEF Glob, stored, disk
  <2>1. TypeOK'
    BY <1>2 DEF StoreInv, TypeOK, disk, locks, Job, OpNames
  <2>2. LockInv'
    BY <1>2 DEF StoreInv, LockInv, locks
  <2>3. LinkInv' /\ DiskInv(env)'
    BY <2>0, StoredUnchanged
  <2>4. OrderInv'
    BY <1>2, <2>0 DEF StoreInv, TypeOK, Job, OrderInv, stored
  <2>5. JobInv'
    BY <1>2, <2>0 DEF StoreInv, TypeOK, Job, JobInv, LockedPCs
  <2>6. ASSUME NEW q \in Proc PROVE PhaseInv(env, q)'
    <3>1. CASE q = p
      BY <1>2, <2>0, <3>1 DEF PhaseInv
    <3>2. CASE q # p
      BY <1>2, <2>0, <3>2, PhaseUnchanged DEF StoreInv, TypeOK
    <3> QED BY <3>1, <3>2
  <2>7. ResultInv(env)'
    BY <1>2 DEF StoreInv, TypeOK, ResultInv, RecoveryAlwaysPossible, NeverCorrupt
  <2> QED BY <2>1, <2>2, <2>3, <2>4, <2>5, <2>6, <2>7 DEF StoreInv
<1>3. CASE /\ Goto(p, "glob", "flock_ex")
           /\ UNCHANGED <<disk, locks, job, result, ops>>
  <2>0. UNCHANGED stored
    BY <1>3 DEF stored, disk
  <2> USE <1>3 DEF Goto
  <2>1. TypeOK'
    BY DEF StoreInv, TypeOK, disk, locks, PCs, FreePCs
  <2>2. LockInv'
    BY DEF StoreInv, TypeOK, LockInv, locks, LockedPCs, SharedPCs
  <2>3. LinkInv' /\ DiskInv(env)'
    BY <2>0, StoredUnchanged
  <2>4. OrderInv'
    BY <2>0 DEF StoreInv, OrderInv, stored
  <2>5. JobInv'
    BY DEF StoreInv, TypeOK, JobInv, LockedPCs
  <2>6. ASSUME NEW q \in Proc PROVE PhaseInv(env, q)'
    <3>1. CASE q = p
      BY <2>0, <3>1 DEF StoreInv, TypeOK, PhaseInv
    <3>2. CASE q # p
      BY <2>0, <3>2, PhaseUnchanged DEF StoreInv, TypeOK
    <3> QED BY <3>1, <3>2
  <2>7. ResultInv(env)'
    BY DEF StoreInv, TypeOK, ResultInv, RecoveryAlwaysPossible, NeverCorrupt
  <2> QED BY <2>1, <2>2, <2>3, <2>4, <2>5, <2>6, <2>7 DEF StoreInv
<1> QED BY <1>1, <1>2, <1>3 DEF Glob

(* LOCK_EX is granted only when nobody holds the lock. *)
LEMMA SeriesLockInv ==
  ASSUME NEW env, StoreInv(env), NEW p \in Proc, series_lock(p)
  PROVE  StoreInv(env)'
<1> DEFINE l == CASE job[p].op = "vacuum" -> "vacuum"
                  [] job[p].op = "open_append" -> "recover_append"
                  [] job[p].op = "open_replace" -> "recover_replace"
                  [] OTHER -> "pending"
<1>0. /\ pc[p] = "flock_ex" /\ pc' = [pc EXCEPT ![p] = l]
      /\ UNCHANGED stored
  BY DEF series_lock, Goto, stored, disk
<1>a. /\ l \in {"vacuum", "recover_append", "recover_replace", "pending"}
      /\ l = "vacuum" <=> job[p].op = "vacuum"
      /\ l = "pending" => job[p].op \notin {"vacuum", "open_append", "open_replace"}
  OBVIOUS
<1> HIDE DEF l
<1>1. TypeOK'
  BY <1>0, <1>a DEF series_lock, StoreInv, TypeOK, disk, PCs, LockedPCs
<1>2. LockInv'
  BY <1>0, <1>a, NilAssumption
     DEF series_lock, StoreInv, TypeOK, LockInv, LockedPCs, SharedPCs
<1>3. LinkInv' /\ DiskInv(env)'
  BY <1>0, StoredUnchanged
<1>4. OrderInv'
  BY <1>0 DEF series_lock, StoreInv, OrderInv, stored
<1>5. JobInv'
  BY <1>0, <1>a DEF series_lock, StoreInv, TypeOK, JobInv, LockedPCs, Job, OpNames
<1>6. ASSUME NEW q \in Proc PROVE PhaseInv(env, q)'
  <2>1. CASE q = p
    BY <1>0, <1>a, <2>1 DEF StoreInv, TypeOK, PhaseInv
  <2>2. CASE q # p
    BY <1>0, <2>2, PhaseUnchanged DEF series_lock, StoreInv, TypeOK
  <2> QED BY <2>1, <2>2
<1>7. ResultInv(env)'
  BY <1>0 DEF series_lock, StoreInv, TypeOK, ResultInv, RecoveryAlwaysPossible,
              NeverCorrupt
<1> QED BY <1>1, <1>2, <1>3, <1>4, <1>5, <1>6, <1>7 DEF StoreInv

(* The holder of the lock recovers until no journal is left. *)
LEMMA SeriesWriterLockInv ==
  ASSUME NEW env, StoreInv(env), NEW p \in Proc, series_writer_lock(p)
  PROVE  StoreInv(env)'
<1> DEFINE l == CASE rjournal # Nil -> "recover_replace"
                  [] rjournal = Nil /\ ajournal # Nil -> "recover_append"
                  [] OTHER -> IF job[p].op = "read" THEN "unlock" ELSE job[p].op
<1>0. /\ pc[p] = "pending" /\ pc' = [pc EXCEPT ![p] = l]
      /\ UNCHANGED stored /\ job' = job
  BY DEF series_writer_lock, Goto, stored, disk
<1>a. \/ l \in {"recover_replace", "recover_append"}
      \/ /\ l \in {"unlock", "append", "replace", "upsert", "compact"}
         /\ NoJournal
         /\ l # "unlock" => job[p].op = l
  BY <1>0 DEF StoreInv, JobInv, Writes, NoJournal
<1>b. job[p].op \in Writes \cup {"read"}
  BY <1>0 DEF StoreInv, JobInv
<1> HIDE DEF l
<1>1. TypeOK'
  BY <1>0, <1>a
     DEF series_writer_lock, StoreInv, TypeOK, disk, locks, PCs, LockedPCs
<1>2. LockInv'
  BY <1>0, <1>a
     DEF series_writer_lock, StoreInv, TypeOK, LockInv, locks, LockedPCs, SharedPCs
<1>3. LinkInv' /\ DiskInv(env)'
  BY <1>0, StoredUnchanged
<1>4. OrderInv'
  BY <1>0 DEF StoreInv, OrderInv, stored
<1>5. JobInv'
  BY <1>0, <1>a, <1>b DEF StoreInv, TypeOK, JobInv, LockedPCs, Writes
<1>6. ASSUME NEW q \in Proc PROVE PhaseInv(env, q)'
  <2>1. CASE q = p
    BY <1>0, <1>a, <2>1 DEF StoreInv, TypeOK, PhaseInv, NoJournal, stored
  <2>2. CASE q # p
    BY <1>0, <2>2, PhaseUnchanged DEF StoreInv, TypeOK
  <2> QED BY <2>1, <2>2
<1>7. ResultInv(env)'
  BY <1>0 DEF series_writer_lock, StoreInv, TypeOK, ResultInv,
              RecoveryAlwaysPossible, NeverCorrupt
<1> QED BY <1>1, <1>2, <1>3, <1>4, <1>5, <1>6, <1>7 DEF StoreInv

(* Releasing LOCK_EX ends a call, or lets a reader or an opener go on. *)
LEMMA UnlockInv ==
  ASSUME NEW env, StoreInv(env), NEW p \in Proc, Unlock(p)
  PROVE  StoreInv(env)'
<1>0. pc[p] = "unlock" /\ UNCHANGED stored /\ UNCHANGED <<integ, ops>>
  BY DEF Unlock, stored, disk
<1>1. CASE job[p].op \notin {"read", "open_append"}
  <2>1. Leave(p, "ok", <<>>)
    BY <1>1 DEF Unlock
  <2>2. integ' \in Generation \cup {Nil} /\ <<>> \in Rows
    BY <1>0 DEF StoreInv, TypeOK, Rows
  <2> QED BY <1>0, <2>1, <2>2, LeaveInv
<1>2. CASE job[p].op \in {"read", "open_append"}
  <2> DEFINE l == IF job[p].op = "read" THEN "flock_sh" ELSE "glob"
  <2>0. /\ pc' = [pc EXCEPT ![p] = l]
        /\ \/ l = "flock_sh" /\ job[p].op = "read" /\ job' = job
           \/ l = "glob" /\ job' = [job EXCEPT ![p].op = "open_replace"]
        /\ writer' = Nil /\ UNCHANGED <<readers, result>>
    BY <1>2 DEF Unlock, Goto
  <2> HIDE DEF l
  <2>1. TypeOK'
    BY <1>0, <2>0 DEF StoreInv, TypeOK, stored, PCs, FreePCs, Job, OpNames
  <2>2. LockInv'
    BY <1>0, <2>0, NilAssumption DEF StoreInv, TypeOK, LockInv, LockedPCs, SharedPCs
  <2>3. LinkInv' /\ DiskInv(env)'
    BY <1>0, StoredUnchanged
  <2>4. OrderInv'
    BY <1>0, <2>0 DEF StoreInv, TypeOK, Job, OrderInv, stored
  <2>5. JobInv'
    BY <1>0, <2>0 DEF StoreInv, TypeOK, Job, JobInv, LockedPCs
  <2>6. ASSUME NEW q \in Proc PROVE PhaseInv(env, q)'
    <3>1. CASE q = p
      BY <1>0, <2>0, <3>1 DEF StoreInv, TypeOK, PhaseInv
    <3>2. CASE q # p
      BY <1>0, <2>0, <3>2, PhaseUnchanged DEF StoreInv, TypeOK
    <3> QED BY <3>1, <3>2
  <2>7. ResultInv(env)'
    BY <1>0, <2>0
       DEF StoreInv, TypeOK, ResultInv, RecoveryAlwaysPossible, NeverCorrupt
  <2> QED BY <2>1, <2>2, <2>3, <2>4, <2>5, <2>6, <2>7 DEF StoreInv
<1> QED BY <1>1, <1>2

(* LOCK_SH is granted when no writer holds the lock. *)
LEMMA ReaderLockInv ==
  ASSUME NEW env, StoreInv(env), NEW p \in Proc, ReaderLock(p)
  PROVE  StoreInv(env)'
<1> USE DEF ReaderLock, Goto
<1>0. UNCHANGED stored
  BY DEF stored, disk
<1>1. TypeOK'
  BY DEF StoreInv, TypeOK, disk, PCs, SharedPCs
<1>2. LockInv'
  BY DEF StoreInv, TypeOK, LockInv, LockedPCs, SharedPCs
<1>3. LinkInv' /\ DiskInv(env)'
  BY <1>0, StoredUnchanged
<1>4. OrderInv'
  BY <1>0 DEF StoreInv, OrderInv, stored
<1>5. JobInv'
  BY DEF StoreInv, TypeOK, JobInv, LockedPCs
<1>6. ASSUME NEW q \in Proc PROVE PhaseInv(env, q)'
  <2>1. CASE q = p
    BY <2>1 DEF StoreInv, TypeOK, PhaseInv
  <2>2. CASE q # p
    BY <1>0, <2>2, PhaseUnchanged DEF StoreInv, TypeOK
  <2> QED BY <2>1, <2>2
<1>7. ResultInv(env)'
  BY DEF StoreInv, TypeOK, ResultInv, RecoveryAlwaysPossible, NeverCorrupt
<1> QED BY <1>1, <1>2, <1>3, <1>4, <1>5, <1>6, <1>7 DEF StoreInv

(* A reader goes on only if it sees no journal under its shared lock. *)
LEMMA ReaderCheckInv ==
  ASSUME NEW env, StoreInv(env), NEW p \in Proc, ReaderCheck(p)
  PROVE  StoreInv(env)'
<1> USE DEF ReaderCheck, Goto
<1>0. UNCHANGED stored
  BY DEF stored, disk
<1>1. TypeOK'
  BY DEF StoreInv, TypeOK, disk, PCs, SharedPCs, FreePCs
<1>2. LockInv'
  BY DEF StoreInv, TypeOK, LockInv, LockedPCs, SharedPCs
<1>3. LinkInv' /\ DiskInv(env)'
  BY <1>0, StoredUnchanged
<1>4. OrderInv'
  BY <1>0 DEF StoreInv, OrderInv, stored
<1>5. JobInv'
  BY DEF StoreInv, TypeOK, JobInv, LockedPCs
<1>6. ASSUME NEW q \in Proc PROVE PhaseInv(env, q)'
  <2>1. CASE q = p
    BY <1>0, <2>1 DEF StoreInv, TypeOK, PhaseInv, NoJournal, stored
  <2>2. CASE q # p
    BY <1>0, <2>2, PhaseUnchanged DEF StoreInv, TypeOK
  <2> QED BY <2>1, <2>2
<1>7. ResultInv(env)'
  BY DEF StoreInv, TypeOK, ResultInv, RecoveryAlwaysPossible, NeverCorrupt
<1> QED BY <1>1, <1>2, <1>3, <1>4, <1>5, <1>6, <1>7 DEF StoreInv

(* With no journal pending a segment that nobody edited can be read, and   *)
(* what is read is the committed generation.                               *)
LEMMA QuietIsReadable ==
  ASSUME StoreInv("closed"), NoJournal
  PROVE  Readable /\ Stored = RowsOf(manifest)
<1>1. QuietDisk("closed")
  BY DEF StoreInv, DiskInv, NoJournal
<1>2. CASE manifest = Nil
  BY <1>1, <1>2 DEF QuietDisk, Clean, Readable, Stored, RowsOf, Formats
<1>3. CASE manifest # Nil
  <2>1. manifest.fmt \in Formats
    BY <1>3 DEF StoreInv, TypeOK, Manifest
  <2>2. Holds("closed", manifest.fmt, manifest.rows)
    BY <1>1, <1>3, <2>1 DEF QuietDisk, Clean
  <2>3. ~Exists(Other(manifest.fmt))
    BY <1>1, <1>3, <2>1 DEF QuietDisk, Clean, Other, Formats
  <2>4. StrictlyOrdered(manifest.rows)
    BY <1>3 DEF StoreInv, OrderInv
  <2> QED BY <1>3, <2>2, <2>3, <2>4
          DEF Readable, Stored, RowsOf, Holds, ChecksumValid
<1> QED BY <1>2, <1>3

(* The rows of a manifest are rows. *)
LEMMA RowsOfType ==
  ASSUME TypeOK
  PROVE  RowsOf(manifest) \in Rows
BY DEF TypeOK, RowsOf, Manifest, Rows

(* What is returned by a read that found no fault is ordered. *)
LEMMA ReadableRows ==
  ASSUME TypeOK, Readable
  PROVE  Stored \in Rows /\ StrictlyOrdered(Stored)
<1>1. CASE manifest # Nil /\ Exists(manifest.fmt)
  <2>1. manifest.fmt \in Names
    BY <1>1 DEF TypeOK, Manifest, Names
  <2>2. dir[manifest.fmt] \in File
    BY <1>1, <2>1 DEF TypeOK, Exists
  <2> QED BY <1>1, <2>2 DEF Stored, Readable, File
<1>2. CASE ~(manifest # Nil /\ Exists(manifest.fmt))
  BY <1>2 DEF Stored, Rows, StrictlyOrdered
<1> QED BY <1>1, <1>2

(* Only an edited segment is reported corrupt. *)
LEMMA CorruptInv ==
  ASSUME NEW env, StoreInv(env), NEW p \in Proc, pc[p] # "idle", NoJournal,
         ~Readable, Raise(p, "corrupt")
  PROVE  StoreInv(env)'
<1>1. env # "closed"
  BY QuietIsReadable
<1> QED BY <1>1, RaiseInv

(* A read raises, or only publishes what it validated. *)
LEMMA ReadAllInv ==
  ASSUME NEW env, StoreInv(env), NEW p \in Proc, read_all(p)
  PROVE  StoreInv(env)'
<1>1. pc[p] = "read" /\ NoJournal
  BY DEF read_all, StoreInv, PhaseInv
<1>2. CASE ~Readable /\ Raise(p, "corrupt")
  BY <1>1, <1>2, CorruptInv
<1>3. CASE /\ Readable /\ Leave(p, "ok", Stored) /\ PublishIfValidated
           /\ UNCHANGED <<stored, ops>>
  <2>1. Stored \in Rows /\ integ' \in Generation \cup {Nil}
    BY <1>3, ReadableRows, PublishIfValidatedType DEF StoreInv
  <2> QED BY <1>1, <1>3, <2>1, LeaveInv
<1> QED BY <1>2, <1>3 DEF read_all, stored

-----------------------------------------------------------------------------
(* Steps inside the exclusive lock. *)

(* Moving from one locked step to another does not touch the lock. *)
LEMMA LockedStep ==
  ASSUME TypeOK, LockInv, NEW p \in Proc, NEW l \in LockedPCs,
         pc[p] \in LockedPCs, pc' = [pc EXCEPT ![p] = l], UNCHANGED locks
  PROVE  LockInv'
BY DEF TypeOK, LockInv, locks, PCs, FreePCs, SharedPCs, LockedPCs

(* Nobody else is inside the lock, so nobody else's knowledge is disturbed. *)
LEMMA OthersPhase ==
  ASSUME NEW env, TypeOK, LockInv, NEW p \in Proc, NEW q \in Proc, q # p,
         pc[p] \in LockedPCs, pc'[q] = pc[q]
  PROVE  PhaseInv(env, q)'
BY NilAssumption
   DEF TypeOK, LockInv, locks, PCs, FreePCs, SharedPCs, LockedPCs, PhaseInv

(* Vacuum removes only a data file of the format the manifest is not in,   *)
(* which no pending recovery needs.                                        *)
LEMMA VacuumInv ==
  ASSUME NEW env, StoreInv(env), NEW p \in Proc, vacuum(p)
  PROVE  StoreInv(env)'
<1> USE DEF vacuum, Goto
<1>0. /\ dir' \in [Names -> File \cup {Nil}] /\ LinkInv'
      /\ \/ dir' = dir
         \/ /\ manifest # Nil /\ manifest.fmt # job[p].fmt
            /\ ~Exists(job[p].fmt)'
            /\ \A m \in Names \ {job[p].fmt} : dir'[m] = dir[m]
  <2>1. job[p].fmt \in Names
    BY DEF StoreInv, TypeOK, Job, Names, Formats
  <2>2. CASE manifest # Nil /\ manifest.fmt # job[p].fmt
    BY <2>1, <2>2, UnlinkFrame DEF StoreInv
  <2>3. CASE ~(manifest # Nil /\ manifest.fmt # job[p].fmt)
    BY <2>3 DEF StoreInv, TypeOK, LinkInv, Exists
  <2> QED BY <2>2, <2>3
<1>1. TypeOK'
  BY <1>0 DEF StoreInv, TypeOK, locks, PCs, LockedPCs
<1>2. LockInv'
  BY LockedStep DEF StoreInv, LockedPCs
<1>4. DiskInv(env)'
  <2>1. CASE dir' = dir
    BY <2>1 DEF StoreInv, DiskInv, QuietDisk, Clean, AppendingDisk, ReplacingDisk,
                Exists, Holds, OldRecoverable
  <2>2. CASE /\ manifest # Nil /\ manifest.fmt # job[p].fmt
             /\ ~Exists(job[p].fmt)'
             /\ \A m \in Names \ {job[p].fmt} : dir'[m] = dir[m]
    <3>1. manifest.fmt \in Formats /\ job[p].fmt \in Formats
      BY <2>2 DEF StoreInv, TypeOK, Job, Manifest
    <3>2. \A m \in Names : Backup[manifest.fmt] # job[p].fmt
      BY <3>1 DEF Formats, Backup, Names
    <3>3. CASE ajournal = Nil /\ rjournal = Nil /\ QuietDisk(env)
      BY <2>2, <3>1, <3>3
         DEF DiskInv, QuietDisk, Clean, Holds, Exists, Names, Formats
    <3>4. CASE ajournal # Nil /\ rjournal = Nil /\ AppendingDisk(env)
      BY <2>2, <3>1, <3>4
         DEF DiskInv, AppendingDisk, Extends, Holds, Exists, Names, Formats
    <3>5. CASE ajournal = Nil /\ rjournal # Nil /\ ReplacingDisk(env)
      <4>1. rjournal \in ReplaceJournal
        BY <3>5 DEF StoreInv, TypeOK
      <4>2. CASE /\ manifest = rjournal.new
                 /\ Holds(env, rjournal.new.fmt, rjournal.new.rows)
        BY <2>2, <3>1, <3>5, <4>1, <4>2
           DEF DiskInv, ReplacingDisk, Holds, Exists, Names
      <4>3. CASE /\ manifest = rjournal.old /\ rjournal.old # rjournal.new
                 /\ index = Indexed(rjournal.old)
                 /\ OldRecoverable(env, rjournal.old, rjournal.new)
        <5>1. OldRecoverable(env, rjournal.old, rjournal.new)'
          BY <2>2, <3>1, <3>2, <4>1, <4>3
             DEF OldRecoverable, Holds, Exists, Names, Other, Formats, Backup
        <5> QED BY <2>2, <3>5, <4>3, <5>1 DEF DiskInv, ReplacingDisk
      <4> QED BY <2>2, <3>5, <4>2, <4>3 DEF ReplacingDisk
    <3> QED BY <3>3, <3>4, <3>5 DEF StoreInv, DiskInv
  <2> QED BY <1>0, <2>1, <2>2
<1>5. OrderInv'
  BY DEF StoreInv, OrderInv
<1>6. JobInv'
  BY DEF StoreInv, TypeOK, JobInv, LockedPCs
<1>7. ASSUME NEW q \in Proc PROVE PhaseInv(env, q)'
  BY OthersPhase DEF StoreInv, PhaseInv, TypeOK, LockedPCs
<1>8. ResultInv(env)'
  BY DEF StoreInv, TypeOK, ResultInv, RecoveryAlwaysPossible, NeverCorrupt
<1> QED BY <1>0, <1>1, <1>2, <1>4, <1>5, <1>6, <1>7, <1>8 DEF StoreInv

DiskType ==
  /\ dir \in [Names -> File \cup {Nil}]
  /\ manifest \in Manifest \cup {Nil}
  /\ index \in IndexRow \cup {Nil}
  /\ ajournal \in AppendJournal \cup {Nil}
  /\ rjournal \in ReplaceJournal \cup {Nil}
  /\ integ \in Generation \cup {Nil}

(* What is left to show of a step inside the lock: the disk and what the   *)
(* process knows afterwards.                                               *)
LEMMA LockedInv ==
  ASSUME NEW env, StoreInv(env), NEW p \in Proc,
         NEW l \in LockedPCs \ {"vacuum", "append", "replace", "upsert", "compact"},
         pc[p] \in LockedPCs \ {"vacuum", "unlock"},
         l = "pending" => job[p].op \in Writes \cup {"read"},
         pc' = [pc EXCEPT ![p] = l], UNCHANGED <<locks, job, result, ops>>,
         DiskType', LinkInv', DiskInv(env)', OrderInv', PhaseInv(env, p)'
  PROVE  StoreInv(env)'
<1>1. TypeOK'
  BY DEF StoreInv, TypeOK, DiskType, locks, PCs
<1>2. LockInv'
  BY LockedStep DEF StoreInv
<1>3. JobInv'
  BY DEF StoreInv, TypeOK, JobInv, LockedPCs
<1>4. ASSUME NEW q \in Proc PROVE PhaseInv(env, q)'
  <2>1. CASE q # p
    BY <2>1, OthersPhase DEF StoreInv, TypeOK
  <2> QED BY <2>1
<1>5. ResultInv(env)'
  <2>1. pc[p] # "idle"
    BY DEF LockedPCs
  <2> QED BY <2>1 DEF StoreInv, TypeOK, ResultInv, RecoveryAlwaysPossible,
                      NeverCorrupt
<1> QED BY <1>1, <1>2, <1>3, <1>4, <1>5 DEF StoreInv

(* Once a journal is gone the lock's holder releases it or looks again. *)
LEMMA AfterRecoveryType ==
  ASSUME NEW env, StoreInv(env), NEW p \in Proc,
         pc[p] \in LockedPCs \ {"vacuum", "unlock"}
  PROVE  /\ AfterRecovery(p) \in {"unlock", "pending"}
         /\ AfterRecovery(p) = "pending" => job[p].op \in Writes \cup {"read"}
BY DEF StoreInv, TypeOK, JobInv, AfterRecovery, Job, OpNames, LockedPCs

-----------------------------------------------------------------------------
(* Recovery of an append. *)

(* While an append journal is pending the file has not shrunk below the    *)
(* recorded size nor grown past the planned one.                           *)
LEMMA AppendFile ==
  ASSUME NEW env, StoreInv(env), ajournal # Nil
  PROVE  /\ AppendingDisk(env) /\ rjournal = Nil
         /\ ajournal \in AppendJournal /\ dir["csv"] \in File
         /\ ajournal.before <= Size(dir["csv"])
         /\ Size(dir["csv"]) <= ajournal.after
         /\ Size(dir["csv"]) = ajournal.after => Holds(env, "csv", ajournal.new.rows)
<1>1. AppendingDisk(env) /\ rjournal = Nil /\ ajournal \in AppendJournal
  BY DEF StoreInv, DiskInv, TypeOK
<1>2. dir["csv"] \in File
  BY <1>1 DEF StoreInv, TypeOK, AppendingDisk, Exists, Names, Formats
<1> DEFINE r == dir["csv"].rows
           o == ajournal.old.rows
           n == ajournal.new.rows
<1>3. r \in Rows /\ o \in Rows /\ n \in Rows /\ dir["csv"].torn \in BOOLEAN
  BY <1>1, <1>2 DEF File, AppendJournal, Manifest
<1>a. Len(o) \in Nat /\ Len(n) \in Nat /\ Len(r) \in Nat
  BY <1>3 DEF Rows
<1>b. /\ Len(o) <= Len(r) /\ Len(r) <= Len(n)
      /\ env = "closed" => \A i \in 1..Len(r) : r[i] = n[i]
      /\ dir["csv"].torn => Len(r) < Len(n)
  BY <1>1 DEF AppendingDisk, AppendedSoFar
<1>c. /\ ajournal.before = 2 * Len(o) /\ ajournal.after = 2 * Len(n)
      /\ Exists("csv")
  BY <1>1 DEF AppendingDisk
<1>4. /\ Len(o) \in Nat /\ Len(n) \in Nat /\ Len(r) \in Nat
      /\ Len(o) <= Len(r) /\ Len(r) <= Len(n)
      /\ env = "closed" => \A i \in 1..Len(r) : r[i] = n[i]
      /\ dir["csv"].torn => Len(r) < Len(n)
      /\ ajournal.before = 2 * Len(o) /\ ajournal.after = 2 * Len(n)
      /\ Exists("csv")
  BY <1>a, <1>b, <1>c
<1> HIDE DEF r, o, n
<1>5. Len(r) = Len(n) /\ env = "closed" => r = n
  BY <1>3, <1>4 DEF Rows
<1>6. Size(dir["csv"]) = 2 * Len(r) + (IF dir["csv"].torn THEN 1 ELSE 0)
  BY DEF Size, r
<1>7. CASE dir["csv"].torn
  BY <1>1, <1>2, <1>4, <1>6, <1>7 DEF n
<1>8. CASE ~dir["csv"].torn
  <2>1. Size(dir["csv"]) = 2 * Len(r)
    BY <1>4, <1>6, <1>8
  <2>2. Size(dir["csv"]) = ajournal.after => Len(r) = Len(n)
    BY <1>4, <2>1
  <2> QED BY <1>1, <1>2, <1>4, <1>5, <1>8, <2>1, <2>2 DEF Holds, r, n
<1> QED BY <1>7, <1>8

(* Half rows back to rows. *)
LEMMA Halves ==
  ASSUME NEW n \in Nat
  PROVE  (2 * n) \div 2 = n /\ ((2 * n) % 2 = 1) = FALSE
<1>1. (2 * n) \div 2 = n
  OBVIOUS
<1>2. (2 * n) % 2 = 0
  OBVIOUS
<1> QED BY <1>1, <1>2

(* The first step of recover_append_journal. *)
LEMMA RecoverAppendInv ==
  ASSUME NEW env, StoreInv(env), NEW p \in Proc, RecoverAppend(p)
  PROVE  StoreInv(env)'
<1>0. pc[p] = "recover_append"
  BY DEF RecoverAppend
<1>1. CASE ajournal = Nil /\ Raise(p, "vanished")
  <2>1. UNCHANGED <<stored, ops>> /\ integ' = integ /\ Leave(p, "vanished", <<>>)
    BY <1>1 DEF Raise, stored, disk
  <2>2. integ' \in Generation \cup {Nil} /\ <<>> \in Rows
    BY <2>1 DEF StoreInv, TypeOK, Rows
  <2> QED BY <1>0, <2>1, <2>2, LeaveInv
<1>2. CASE ajournal # Nil /\ (~Exists("csv") \/ Size(dir["csv"]) < ajournal.before)
  <2>1. Exists("csv") /\ ajournal.before <= Size(dir["csv"])
    BY <1>2, AppendFile DEF AppendingDisk
  <2>2. ajournal.before \in Nat /\ Size(dir["csv"]) \in Nat
    BY <1>2, AppendFile, GenerationType DEF AppendJournal, Generation, GenerationOf
  <2> QED BY <1>2, <2>1, <2>2
<1>3. CASE /\ ajournal # Nil /\ AppendCommitted
           /\ index' = Indexed(ajournal.new)
           /\ Goto(p, "recover_append", "recover_append_unlink")
           /\ UNCHANGED <<dir, manifest, ajournal, rjournal, integ, locks, job,
                          result, ops>>
  <2>0. /\ AppendingDisk(env) /\ rjournal = Nil /\ ajournal.new \in Manifest
        /\ Holds(env, "csv", ajournal.new.rows)
    BY <1>3, AppendFile DEF AppendCommitted, AppendJournal
  <2>1. DiskType'
    BY <1>3, <2>0, IndexedType DEF StoreInv, TypeOK, DiskType
  <2>2. LinkInv'
    BY <1>3 DEF StoreInv, LinkInv, Exists
  <2>3. DiskInv(env)'
    BY <1>3, <2>0 DEF DiskInv, AppendingDisk, AppendCommitted, Exists, Holds
  <2>4. OrderInv'
    BY <1>3 DEF StoreInv, OrderInv
  <2>5. PhaseInv(env, p)'
    BY <1>3, <2>0
       DEF StoreInv, TypeOK, Goto, PhaseInv, AppendCommitted, Holds, Exists
  <2> QED BY <1>0, <1>3, <2>1, <2>2, <2>3, <2>4, <2>5, LockedInv
          DEF Goto, LockedPCs
<1>4. CASE /\ ajournal # Nil /\ Exists("csv") /\ ~AppendCommitted
           /\ Truncate("csv", ajournal.before)
           /\ Goto(p, "recover_append", "recover_append_manifest")
           /\ UNCHANGED <<manifest, index, ajournal, rjournal, integ, locks, job,
                          result, ops>>
  <2>0. /\ AppendingDisk(env) /\ rjournal = Nil /\ dir["csv"] \in File
        /\ ajournal \in AppendJournal
    BY <1>4, AppendFile
  <2> DEFINE r == dir["csv"].rows
             o == ajournal.old.rows
             n == ajournal.new.rows
  <2>1. /\ r \in Seq(Bar) /\ o \in Seq(Bar) /\ n \in Seq(Bar)
        /\ Len(o) \in Nat /\ Len(r) \in Nat /\ Len(o) <= Len(r)
        /\ env = "closed" => \A i \in 1..Len(r) : r[i] = n[i]
        /\ \A i \in 1..Len(o) : o[i] = n[i]
        /\ ajournal.before = 2 * Len(o)
    BY <2>0 DEF File, AppendJournal, Manifest, Rows, AppendingDisk,
                AppendedSoFar, Extends
  <2>2. ajournal.before \div 2 = Len(o) /\ (ajournal.before % 2 = 1) = FALSE
    BY <2>1, Halves
  <2> DEFINE s == SubSeq(r, 1, Len(o))
  <2>3. /\ s \in Seq(Bar) /\ Len(s) = Len(o)
        /\ env = "closed" => s = o
    BY <2>1
  <2>4. WriteInPlace("csv", s, FALSE)
    BY <1>4, <2>1, <2>2 DEF Truncate
  <2> HIDE DEF s
  <2>5. manifest = ajournal.old
    <3>1. SUFFICES ASSUME manifest = ajournal.new, Holds(env, "csv", n)
                   PROVE  FALSE
      BY <2>0 DEF AppendingDisk
    <3>2. Size(dir["csv"]) = 2 * Len(n)
      BY <2>1, <3>1 DEF Holds, Size
    <3> QED BY <1>4, <2>0, <3>1, <3>2 DEF AppendingDisk, AppendCommitted
  <2>6. /\ dir' \in [Names -> File \cup {Nil}] /\ LinkInv'
        /\ \A m \in Names : Exists(m)' <=> Exists(m)
        /\ dir'["csv"].rows = s /\ dir'["csv"].torn = FALSE
    BY <1>4, <2>3, <2>4, WriteInPlaceFrame DEF StoreInv, Rows, Names, Formats
  <2>7. AppendedSoFar(env, dir["csv"], ajournal.old, ajournal.new)'
    BY <1>4, <2>0, <2>1, <2>3, <2>6 DEF AppendedSoFar, AppendingDisk, Extends
  <2>8. DiskInv(env)'
    <3>1. AppendingDisk(env)'
      BY <1>4, <2>0, <2>5, <2>6, <2>7 DEF AppendingDisk, Names, Formats
    <3> QED BY <1>4, <2>0, <3>1 DEF DiskInv
  <2>9. DiskType' /\ OrderInv'
    BY <1>4, <2>6 DEF StoreInv, TypeOK, DiskType, OrderInv
  <2>10. PhaseInv(env, p)'
    BY <1>4, <2>3, <2>5, <2>6
       DEF StoreInv, TypeOK, Goto, PhaseInv, Holds, Names, Formats
  <2> QED BY <1>0, <1>4, <2>6, <2>8, <2>9, <2>10, LockedInv DEF Goto, LockedPCs
<1> QED BY <1>1, <1>2, <1>3, <1>4 DEF RecoverAppend

(* Restoring the old manifest, which is still in place. *)
LEMMA RecoverAppendManifestInv ==
  ASSUME NEW env, StoreInv(env), NEW p \in Proc, RecoverAppendManifest(p)
  PROVE  StoreInv(env)'
<1> USE DEF RecoverAppendManifest, Goto
<1>1. /\ ajournal # Nil /\ manifest = ajournal.old
      /\ Holds(env, "csv", manifest.rows)
  BY DEF StoreInv, PhaseInv
<1>2. UNCHANGED stored
  BY <1>1 DEF stored
<1>3. DiskType' /\ LinkInv' /\ DiskInv(env)' /\ OrderInv'
  BY <1>2, StoredUnchanged DEF StoreInv, TypeOK, DiskType, OrderInv, stored
<1>4. PhaseInv(env, p)'
  BY <1>1, <1>2 DEF StoreInv, TypeOK, PhaseInv, Holds, Exists, stored
<1> QED BY <1>3, <1>4, LockedInv DEF LockedPCs

(* Restoring the old index row. *)
LEMMA RecoverAppendIndexInv ==
  ASSUME NEW env, StoreInv(env), NEW p \in Proc, RecoverAppendIndex(p)
  PROVE  StoreInv(env)'
<1> USE DEF RecoverAppendIndex, Goto
<1>1. /\ ajournal # Nil /\ manifest = ajournal.old
      /\ Holds(env, "csv", manifest.rows)
  BY DEF StoreInv, PhaseInv
<1>2. index = Indexed(manifest)
  BY <1>1, AppendFile DEF AppendingDisk, Extends
<1>3. UNCHANGED stored
  BY <1>1, <1>2 DEF stored
<1>4. DiskType' /\ LinkInv' /\ DiskInv(env)' /\ OrderInv'
  BY <1>3, StoredUnchanged DEF StoreInv, TypeOK, DiskType, OrderInv, stored
<1>5. PhaseInv(env, p)'
  BY <1>1, <1>2, <1>3 DEF StoreInv, TypeOK, PhaseInv, Holds, Exists, stored
<1> QED BY <1>4, <1>5, LockedInv DEF LockedPCs

(* The journal goes last: what is left is one complete generation. *)
LEMMA RecoverAppendUnlinkInv ==
  ASSUME NEW env, StoreInv(env), NEW p \in Proc, RecoverAppendUnlink(p)
  PROVE  StoreInv(env)'
<1> USE DEF RecoverAppendUnlink, Goto
<1>1. /\ ajournal # Nil /\ index = Indexed(manifest)
      /\ Holds(env, "csv", manifest.rows)
  BY DEF StoreInv, PhaseInv
<1>2. AppendingDisk(env) /\ rjournal = Nil
  BY <1>1, AppendFile
<1>3. manifest # Nil /\ manifest.fmt = "csv" /\ ~Exists("parquet")
  BY <1>1, <1>2, AppendFile, NilAssumption
     DEF AppendingDisk, Extends, AppendJournal
<1>4. QuietDisk(env)'
  BY <1>1, <1>3 DEF QuietDisk, Clean, Holds, Exists, Formats
<1>5. DiskType' /\ LinkInv' /\ DiskInv(env)' /\ OrderInv'
  BY <1>2, <1>4 DEF StoreInv, TypeOK, DiskType, LinkInv, Exists, DiskInv, OrderInv
<1>6. AfterRecovery(p) \in {"unlock", "pending"}
  BY AfterRecoveryType DEF LockedPCs
<1>7. PhaseInv(env, p)'
  BY <1>6 DEF StoreInv, TypeOK, PhaseInv
<1> QED BY <1>5, <1>6, <1>7, AfterRecoveryType, LockedInv DEF LockedPCs

-----------------------------------------------------------------------------
(* Recovery of a replacement. *)

(* The four names of the directory are different. *)
LEMMA NameFacts ==
  ASSUME NEW f \in Formats
  PROVE  /\ f \in Names /\ Other(f) \in Formats /\ Other(f) \in Names
         /\ Backup[f] \in Names /\ Backup[f] \notin Formats
         /\ Other(f) # f
         /\ \A g \in Formats : g # f => g = Other(f)
BY DEF Names, Formats, Other, Backup

(* While a replacement journal is pending. *)
LEMMA ReplaceFile ==
  ASSUME NEW env, StoreInv(env), rjournal # Nil
  PROVE  /\ ReplacingDisk(env) /\ ajournal = Nil
         /\ rjournal \in ReplaceJournal /\ rjournal.new \in Manifest
         /\ rjournal.new # Nil /\ rjournal.new.fmt \in Formats
         /\ rjournal.old # Nil =>
              rjournal.old \in Manifest /\ rjournal.old.fmt \in Formats
         /\ rjournal.backup <=> rjournal.old # Nil
BY NilAssumption
   DEF StoreInv, DiskInv, TypeOK, ReplaceJournal, Manifest, ReplacingDisk

(* The first step of recover_replacement_journal. *)
LEMMA RecoverReplaceInv ==
  ASSUME NEW env, StoreInv(env), NEW p \in Proc, RecoverReplace(p)
  PROVE  StoreInv(env)'
<1>0. pc[p] = "recover_replace"
  BY DEF RecoverReplace
<1>1. CASE rjournal = Nil /\ Raise(p, "vanished")
  <2>1. UNCHANGED <<stored, ops>> /\ integ' = integ /\ Leave(p, "vanished", <<>>)
    BY <1>1 DEF Raise, stored, disk
  <2>2. integ' \in Generation \cup {Nil} /\ <<>> \in Rows
    BY <2>1 DEF StoreInv, TypeOK, Rows
  <2> QED BY <1>0, <2>1, <2>2, LeaveInv
<1>2. CASE /\ rjournal # Nil /\ ReplaceCommitted
           /\ index' = Indexed(rjournal.new)
           /\ Goto(p, "recover_replace", "finish_old")
           /\ UNCHANGED <<dir, manifest, ajournal, rjournal, integ, locks, job,
                          result, ops>>
  <2>1. /\ ReplacingDisk(env) /\ ajournal = Nil /\ manifest = rjournal.new
        /\ Holds(env, rjournal.new.fmt, rjournal.new.rows)
    BY <1>2, ReplaceFile DEF ReplacingDisk, ReplaceCommitted
  <2>2. DiskType' /\ LinkInv' /\ OrderInv'
    BY <1>2, ReplaceFile, IndexedType
       DEF StoreInv, TypeOK, DiskType, LinkInv, Exists, OrderInv
  <2>3. DiskInv(env)'
    BY <1>2, <2>1 DEF DiskInv, ReplacingDisk, Holds, Exists
  <2>4. PhaseInv(env, p)'
    BY <1>2, <2>1 DEF StoreInv, TypeOK, Goto, PhaseInv, Finishing
  <2> QED BY <1>0, <1>2, <2>2, <2>3, <2>4, LockedInv DEF Goto, LockedPCs
<1>3. CASE /\ rjournal # Nil /\ ~ReplaceCommitted /\ rjournal.old = Nil
           /\ Unlink(rjournal.new.fmt)
           /\ Goto(p, "recover_replace", "rollback_manifest")
           /\ UNCHANGED <<manifest, index, ajournal, rjournal, integ, locks, job,
                          result, ops>>
  <2>1. /\ ReplacingDisk(env) /\ ajournal = Nil /\ manifest = rjournal.old
        /\ index = Indexed(rjournal.old) /\ rjournal.old # rjournal.new
        /\ ~Exists(Other(rjournal.new.fmt))
    BY <1>3, ReplaceFile DEF ReplacingDisk, ReplaceCommitted, Holds
  <2>2. /\ dir' \in [Names -> File \cup {Nil}] /\ LinkInv'
        /\ ~Exists(rjournal.new.fmt)' /\ ~Exists(Other(rjournal.new.fmt))'
    BY <1>3, <2>1, ReplaceFile, NameFacts, UnlinkFrame DEF StoreInv, Exists
  <2>3. Clean(env, rjournal.old)'
    BY <1>3, <2>2, ReplaceFile, NameFacts DEF Clean
  <2>4. DiskType' /\ OrderInv'
    BY <1>3, <2>2 DEF StoreInv, TypeOK, DiskType, OrderInv
  <2>5. DiskInv(env)'
    BY <1>3, <2>1, <2>2 DEF DiskInv, ReplacingDisk
  <2>6. PhaseInv(env, p)'
    BY <1>3, <2>1, <2>3 DEF StoreInv, TypeOK, Goto, PhaseInv, RollingBack
  <2> QED BY <1>0, <1>3, <2>2, <2>4, <2>5, <2>6, LockedInv DEF Goto, LockedPCs
<1>4. CASE /\ rjournal # Nil /\ ~ReplaceCommitted /\ rjournal.old # Nil
           /\ IF rjournal.backup /\ Exists(Backup[rjournal.old.fmt])
                THEN Rename(Backup[rjournal.old.fmt], rjournal.old.fmt)
                ELSE UNCHANGED dir
           /\ Goto(p, "recover_replace", "rollback_new")
           /\ UNCHANGED <<manifest, index, ajournal, rjournal, integ, locks, job,
                          result, ops>>
  <2> DEFINE o == rjournal.old.fmt
             b == Backup[o]
  <2>1. /\ ReplacingDisk(env) /\ ajournal = Nil /\ manifest = rjournal.old
        /\ index = Indexed(rjournal.old) /\ rjournal.old # rjournal.new
        /\ OldRecoverable(env, rjournal.old, rjournal.new)
    BY <1>4, ReplaceFile DEF ReplacingDisk, ReplaceCommitted, Holds
  <2>2. o \in Names /\ b \in Names /\ b # o /\ o \in Formats
    BY <1>4, ReplaceFile, NameFacts
  <2>3. /\ dir' \in [Names -> File \cup {Nil}] /\ LinkInv'
        /\ Holds(env, o, rjournal.old.rows)'
        /\ Exists(b)' => Holds(env, b, rjournal.old.rows)'
        /\ \A m \in Names \ {o, b} : dir'[m] = dir[m]
    <3>1. CASE Exists(b)
      <4>1. Rename(b, o) /\ Holds(env, b, rjournal.old.rows)
        BY <1>4, <2>1, <3>1, ReplaceFile DEF OldRecoverable
      <4>2. /\ dir' \in [Names -> File \cup {Nil}] /\ LinkInv'
            /\ dir'[o] = dir[b] /\ dir'[b] \in {dir[b], Nil}
            /\ \A m \in Names \ {o, b} : dir'[m] = dir[m]
        BY <2>2, <3>1, <4>1, RenameFrame DEF StoreInv
      <4> QED BY <1>4, <3>1, <4>1, <4>2 DEF Holds, Exists
    <3>2. CASE ~Exists(b)
      <4>1. Holds(env, o, rjournal.old.rows) /\ dir' = dir
        BY <1>4, <2>1, <3>2 DEF OldRecoverable
      <4> QED BY <1>4, <3>2, <4>1 DEF StoreInv, TypeOK, LinkInv, Holds, Exists
    <3> QED BY <3>1, <3>2
  <2>4. OldRecoverable(env, rjournal.old, rjournal.new)'
    <3>1. dir'[Other(o)] = dir[Other(o)]
      BY <2>2, <2>3, NameFacts
    <3> QED BY <1>4, <2>1, <2>3, <3>1 DEF OldRecoverable, Holds, Exists
  <2>5. DiskType' /\ OrderInv'
    BY <1>4, <2>3 DEF StoreInv, TypeOK, DiskType, OrderInv
  <2>6. DiskInv(env)'
    BY <1>4, <2>1, <2>4 DEF DiskInv, ReplacingDisk
  <2>7. PhaseInv(env, p)'
    BY <1>4, <2>1, <2>3 DEF StoreInv, TypeOK, Goto, PhaseInv
  <2> QED BY <1>0, <1>4, <2>3, <2>5, <2>6, <2>7, LockedInv DEF Goto, LockedPCs
<1> QED BY <1>1, <1>2, <1>3, <1>4 DEF RecoverReplace

(* The old data file is back in place when the new one is removed. *)
LEMMA RollbackNewInv ==
  ASSUME NEW env, StoreInv(env), NEW p \in Proc, RollbackNew(p)
  PROVE  StoreInv(env)'
<1> DEFINE o == rjournal.old.fmt
           n == rjournal.new.fmt
<1>1. /\ pc[p] = "rollback_new" /\ rjournal # Nil /\ rjournal.old # Nil
      /\ rjournal.old # rjournal.new
      /\ manifest = rjournal.old /\ Holds(env, o, rjournal.old.rows)
  BY DEF RollbackNew, StoreInv, PhaseInv
<1>2. /\ IF n # o THEN Unlink(n) ELSE UNCHANGED dir
      /\ pc' = [pc EXCEPT ![p] = "rollback_manifest"]
      /\ UNCHANGED <<manifest, index, ajournal, rjournal, integ, locks, job,
                     result, ops>>
  BY <1>1 DEF RollbackNew, Goto, Holds
<1>3. /\ ReplacingDisk(env) /\ ajournal = Nil /\ index = Indexed(rjournal.old)
      /\ OldRecoverable(env, rjournal.old, rjournal.new)
      /\ o \in Formats /\ n \in Formats
  BY <1>1, ReplaceFile DEF ReplacingDisk
<1>4. /\ dir' \in [Names -> File \cup {Nil}] /\ LinkInv'
      /\ dir'[o] = dir[o] /\ dir'[Backup[o]] = dir[Backup[o]]
      /\ ~Exists(Other(o))'
  <2>1. CASE n # o
    <3>1. n = Other(o) /\ n \in Names /\ o \in Names \ {n} /\ Backup[o] \in Names \ {n}
      BY <1>3, <2>1, NameFacts
    <3> QED BY <1>2, <2>1, <3>1, UnlinkFrame DEF StoreInv
  <2>2. CASE n = o
    BY <1>2, <1>3, <2>2 DEF OldRecoverable, StoreInv, TypeOK, LinkInv, Exists
  <2> QED BY <2>1, <2>2
<1>5. Clean(env, rjournal.old)'
  BY <1>1, <1>2, <1>3, <1>4, NameFacts DEF Clean, Holds, Exists
<1>6. DiskType' /\ OrderInv'
  BY <1>2, <1>4 DEF StoreInv, TypeOK, DiskType, OrderInv
<1>7. OldRecoverable(env, rjournal.old, rjournal.new)'
  BY <1>1, <1>2, <1>3, <1>4 DEF OldRecoverable, Holds, Exists
<1>8. DiskInv(env)'
  BY <1>1, <1>2, <1>3, <1>7 DEF DiskInv, ReplacingDisk
<1>9. PhaseInv(env, p)'
  BY <1>1, <1>2, <1>5 DEF StoreInv, TypeOK, PhaseInv, RollingBack
<1> QED BY <1>1, <1>2, <1>4, <1>6, <1>8, <1>9, LockedInv DEF LockedPCs

(* Restoring the old manifest, which is still in place. *)
LEMMA RollbackManifestInv ==
  ASSUME NEW env, StoreInv(env), NEW p \in Proc, RollbackManifest(p)
  PROVE  StoreInv(env)'
<1> USE DEF RollbackManifest, Goto
<1>1. RollingBack(env)
  BY DEF StoreInv, PhaseInv
<1>2. UNCHANGED stored
  BY <1>1 DEF stored, RollingBack
<1>3. DiskType' /\ LinkInv' /\ DiskInv(env)' /\ OrderInv'
  BY <1>2, StoredUnchanged DEF StoreInv, TypeOK, DiskType, OrderInv, stored
<1>4. PhaseInv(env, p)'
  BY <1>1, <1>2
     DEF StoreInv, TypeOK, PhaseInv, RollingBack, Clean, Holds, Exists, stored
<1> QED BY <1>3, <1>4, LockedInv DEF LockedPCs

(* Restoring the old index row. *)
LEMMA RollbackIndexInv ==
  ASSUME NEW env, StoreInv(env), NEW p \in Proc, RollbackIndex(p)
  PROVE  StoreInv(env)'
<1> USE DEF RollbackIndex, Goto
<1>1. RollingBack(env)
  BY DEF StoreInv, PhaseInv
<1>2. UNCHANGED stored
  BY <1>1, ReplaceFile DEF stored, RollingBack, ReplacingDisk
<1>3. DiskType' /\ LinkInv' /\ DiskInv(env)' /\ OrderInv'
  BY <1>2, StoredUnchanged DEF StoreInv, TypeOK, DiskType, OrderInv, stored
<1>4. PhaseInv(env, p)'
  BY <1>1, <1>2
     DEF StoreInv, TypeOK, PhaseInv, RollingBack, Clean, Holds, Exists, stored
<1> QED BY <1>3, <1>4, LockedInv DEF LockedPCs

(* The backup is no longer needed. *)
LEMMA RollbackBackupInv ==
  ASSUME NEW env, StoreInv(env), NEW p \in Proc, RollbackBackup(p)
  PROVE  StoreInv(env)'
<1> USE DEF RollbackBackup, Goto
<1>1. RollingBack(env) /\ rjournal # Nil
  BY DEF StoreInv, PhaseInv, RollingBack
<1>2. /\ dir' \in [Names -> File \cup {Nil}] /\ LinkInv'
      /\ \A f \in Formats : dir'[f] = dir[f]
      /\ rjournal.old # Nil => ~Exists(Backup[rjournal.old.fmt])'
  <2>1. CASE rjournal.old # Nil
    <3>1. Backup[rjournal.old.fmt] \in Names /\ \A f \in Formats :
            f \in Names \ {Backup[rjournal.old.fmt]}
      BY <1>1, <2>1, ReplaceFile, NameFacts
    <3>2. Unlink(Backup[rjournal.old.fmt])
      BY <1>1, <2>1, ReplaceFile
    <3> QED BY <3>1, <3>2, UnlinkFrame DEF StoreInv
  <2>2. CASE rjournal.old = Nil
    BY <1>1, <2>2, ReplaceFile DEF StoreInv, TypeOK, LinkInv, Exists
  <2> QED BY <2>1, <2>2
<1>3. RollingBack(env)'
  BY <1>1, <1>2 DEF RollingBack, Clean, Holds, Exists
<1>4. DiskType' /\ OrderInv'
  BY <1>2 DEF StoreInv, TypeOK, DiskType, OrderInv
<1>5. rjournal.old # Nil => OldRecoverable(env, rjournal.old, rjournal.new)'
  BY <1>1, <1>2, <1>3, ReplaceFile, NameFacts
     DEF OldRecoverable, RollingBack, Clean, Holds, Exists
<1>6. rjournal.old = Nil => ~Exists(Other(rjournal.new.fmt))'
  BY <1>1, <1>3, ReplaceFile, NameFacts DEF RollingBack, Clean
<1>7. DiskInv(env)'
  BY <1>1, <1>5, <1>6, ReplaceFile DEF DiskInv, ReplacingDisk, RollingBack
<1>8. PhaseInv(env, p)'
  BY <1>3 DEF StoreInv, TypeOK, PhaseInv
<1> QED BY <1>2, <1>4, <1>7, <1>8, LockedInv DEF LockedPCs

(* The journal goes last: the old generation is complete again. *)
LEMMA RollbackUnlinkInv ==
  ASSUME NEW env, StoreInv(env), NEW p \in Proc, RollbackUnlink(p)
  PROVE  StoreInv(env)'
<1> USE DEF RollbackUnlink, Goto
<1>1. RollingBack(env) /\ rjournal # Nil
  BY DEF StoreInv, PhaseInv, RollingBack
<1>2. QuietDisk(env)' /\ ajournal = Nil
  BY <1>1, ReplaceFile
     DEF RollingBack, ReplacingDisk, QuietDisk, Clean, Holds, Exists
<1>3. DiskType' /\ LinkInv' /\ DiskInv(env)' /\ OrderInv'
  BY <1>2 DEF StoreInv, TypeOK, DiskType, LinkInv, Exists, DiskInv, OrderInv
<1>4. AfterRecovery(p) \in {"unlock", "pending"}
  BY AfterRecoveryType DEF LockedPCs
<1>5. PhaseInv(env, p)'
  BY <1>4 DEF StoreInv, TypeOK, PhaseInv
<1> QED BY <1>3, <1>4, <1>5, AfterRecoveryType, LockedInv DEF LockedPCs

-----------------------------------------------------------------------------
(* finish_replacement. *)

(* Removing any name but the new data file's keeps a finished replacement. *)
LEMMA FinishStep ==
  ASSUME NEW env, StoreInv(env), Finishing, NEW n \in Names, n # manifest.fmt,
         Unlink(n),
         UNCHANGED <<manifest, index, ajournal, rjournal, integ, job>>
  PROVE  DiskType' /\ LinkInv' /\ DiskInv(env)' /\ OrderInv' /\ Finishing'
<1>1. /\ dir' \in [Names -> File \cup {Nil}] /\ LinkInv'
      /\ \A m \in Names \ {n} : dir'[m] = dir[m]
  BY UnlinkFrame DEF StoreInv
<1>2. rjournal # Nil /\ manifest = rjournal.new /\ index = Indexed(manifest)
  BY DEF Finishing
<1>3. Holds(env, manifest.fmt, manifest.rows)
  BY <1>2, ReplaceFile DEF ReplacingDisk
<1>4. Holds(env, manifest.fmt, manifest.rows)'
  BY <1>1, <1>2, <1>3, ReplaceFile, NameFacts DEF Holds, Exists
<1>5. DiskInv(env)'
  BY <1>2, <1>4, ReplaceFile DEF DiskInv, ReplacingDisk
<1>6. DiskType' /\ OrderInv'
  BY <1>1 DEF StoreInv, TypeOK, DiskType, OrderInv
<1> QED BY <1>1, <1>2, <1>5, <1>6 DEF Finishing

(* So does leaving the directory alone. *)
LEMMA FinishStutter ==
  ASSUME NEW env, StoreInv(env), Finishing, UNCHANGED <<stored, job>>,
         integ' \in Generation \cup {Nil}
  PROVE  DiskType' /\ LinkInv' /\ DiskInv(env)' /\ OrderInv' /\ Finishing'
<1>1. LinkInv' /\ DiskInv(env)'
  BY StoredUnchanged
<1> QED BY <1>1 DEF StoreInv, TypeOK, DiskType, OrderInv, Finishing, stored

(* The data file of the format that was replaced goes. *)
LEMMA FinishOldInv ==
  ASSUME NEW env, StoreInv(env), NEW p \in Proc, FinishOld(p)
  PROVE  StoreInv(env)'
<1> USE DEF FinishOld, Goto
<1>1. Finishing
  BY DEF StoreInv, PhaseInv
<1>2. DiskType' /\ LinkInv' /\ DiskInv(env)' /\ OrderInv' /\ Finishing'
  <2>1. CASE rjournal.old # Nil /\ rjournal.old.fmt # rjournal.new.fmt
    BY <1>1, <2>1, ReplaceFile, NameFacts, FinishStep DEF Finishing
  <2>2. CASE ~(rjournal.old # Nil /\ rjournal.old.fmt # rjournal.new.fmt)
    <3>1. UNCHANGED <<stored, job>> /\ integ' \in Generation \cup {Nil}
      BY <2>2 DEF stored, StoreInv, TypeOK
    <3> QED BY <1>1, <3>1, FinishStutter
  <2> QED BY <2>1, <2>2
<1>3. PhaseInv(env, p)'
  BY <1>2 DEF StoreInv, TypeOK, PhaseInv
<1> QED BY <1>2, <1>3, LockedInv DEF LockedPCs

(* The generation of the complete new file is published. *)
LEMMA FinishPublishInv ==
  ASSUME NEW env, StoreInv(env), NEW p \in Proc, FinishPublish(p)
  PROVE  StoreInv(env)'
<1> USE DEF FinishPublish, Goto
<1>1. Finishing
  BY DEF StoreInv, PhaseInv
<1>2. integ' \in Generation \cup {Nil}
  <2>1. CASE rjournal.new.fmt = "csv"
    <3>1. Exists("csv") /\ rjournal.new \in Manifest
      BY <1>1, <2>1, ReplaceFile DEF Finishing, ReplacingDisk, Holds
    <3>2. dir["csv"] \in File
      BY <3>1 DEF Exists, StoreInv, TypeOK, Names, Formats
    <3> QED BY <2>1, <3>1, <3>2, GenerationType
  <2>2. CASE rjournal.new.fmt # "csv"
    BY <2>2 DEF StoreInv, TypeOK
  <2> QED BY <2>1, <2>2
<1>3. DiskType' /\ LinkInv' /\ DiskInv(env)' /\ OrderInv' /\ Finishing'
  BY <1>1, <1>2, FinishStutter DEF stored
<1>4. PhaseInv(env, p)'
  BY <1>3 DEF StoreInv, TypeOK, PhaseInv
<1> QED BY <1>3, <1>4, LockedInv DEF LockedPCs

(* Whatever file of the other format is around goes. *)
LEMMA FinishOtherInv ==
  ASSUME NEW env, StoreInv(env), NEW p \in Proc, FinishOther(p)
  PROVE  StoreInv(env)'
<1> USE DEF FinishOther, Goto
<1>1. Finishing
  BY DEF StoreInv, PhaseInv
<1>2. rjournal.new = manifest /\ Other(manifest.fmt) \in Names
      /\ Other(manifest.fmt) # manifest.fmt
  BY <1>1, ReplaceFile, NameFacts DEF Finishing
<1>3. DiskType' /\ LinkInv' /\ DiskInv(env)' /\ OrderInv' /\ Finishing'
  BY <1>1, <1>2, FinishStep
<1>4. ~Exists(Other(manifest.fmt))'
  BY <1>2, UnlinkFrame DEF StoreInv
<1>5. PhaseInv(env, p)'
  BY <1>3, <1>4 DEF StoreInv, TypeOK, PhaseInv
<1> QED BY <1>3, <1>5, LockedInv DEF LockedPCs

(* The backup goes. *)
LEMMA FinishBackupInv ==
  ASSUME NEW env, StoreInv(env), NEW p \in Proc, FinishBackup(p)
  PROVE  StoreInv(env)'
<1> USE DEF FinishBackup, Goto
<1>1. Finishing /\ ~Exists(Other(manifest.fmt)) /\ manifest.fmt \in Formats
  BY ReplaceFile DEF StoreInv, PhaseInv, Finishing
<1>2. /\ DiskType' /\ LinkInv' /\ DiskInv(env)' /\ OrderInv' /\ Finishing'
      /\ ~Exists(Other(manifest.fmt))'
  <2>1. CASE rjournal.backup
    <3>1. /\ Unlink(Backup[rjournal.old.fmt])
          /\ Backup[rjournal.old.fmt] \in Names
          /\ Backup[rjournal.old.fmt] \notin Formats
      BY <1>1, <2>1, ReplaceFile, NameFacts DEF Finishing
    <3>2. dir'[Other(manifest.fmt)] = dir[Other(manifest.fmt)]
      BY <1>1, <3>1, NameFacts, UnlinkFrame DEF StoreInv
    <3> QED BY <1>1, <3>1, <3>2, FinishStep DEF Exists
  <2>2. CASE ~rjournal.backup
    <3>1. UNCHANGED <<stored, job>> /\ integ' \in Generation \cup {Nil}
      BY <2>2 DEF stored, StoreInv, TypeOK
    <3> QED BY <1>1, <3>1, FinishStutter DEF stored, Exists
  <2> QED BY <2>1, <2>2
<1>3. PhaseInv(env, p)'
  BY <1>2 DEF StoreInv, TypeOK, PhaseInv
<1> QED BY <1>2, <1>3, LockedInv DEF LockedPCs

(* The journal goes last: the new generation is complete. *)
LEMMA FinishUnlinkInv ==
  ASSUME NEW env, StoreInv(env), NEW p \in Proc, FinishUnlink(p)
  PROVE  StoreInv(env)'
<1> USE DEF FinishUnlink, Goto
<1>1. /\ rjournal # Nil /\ manifest = rjournal.new /\ index = Indexed(manifest)
      /\ ~Exists(Other(manifest.fmt))
  BY DEF StoreInv, PhaseInv, Finishing
<1>2. /\ Holds(env, manifest.fmt, manifest.rows) /\ manifest # Nil
      /\ manifest.fmt \in Formats /\ ajournal = Nil
  BY <1>1, ReplaceFile DEF ReplacingDisk
<1>3. QuietDisk(env)'
  BY <1>1, <1>2, NameFacts DEF QuietDisk, Clean, Holds, Exists
<1>4. DiskType' /\ LinkInv' /\ DiskInv(env)' /\ OrderInv'
  BY <1>2, <1>3 DEF StoreInv, TypeOK, DiskType, LinkInv, Exists, DiskInv, OrderInv
<1> DEFINE l == IF job[p].new = Nil THEN AfterRecovery(p) ELSE "unlock"
<1>5. /\ l \in {"unlock", "pending"}
      /\ l = "pending" => job[p].op \in Writes \cup {"read"}
  BY AfterRecoveryType DEF LockedPCs
<1>6. pc' = [pc EXCEPT ![p] = l]
  OBVIOUS
<1> HIDE DEF l
<1>7. PhaseInv(env, p)'
  BY <1>5, <1>6 DEF StoreInv, TypeOK, PhaseInv
<1> QED BY <1>4, <1>5, <1>6, <1>7, LockedInv DEF LockedPCs

-----------------------------------------------------------------------------
(* append_strictly_newer, once it has planned. *)

(* The append journal records the old and the new generation. *)
LEMMA AppendJournalWriteInv ==
  ASSUME NEW env, StoreInv(env), NEW p \in Proc, AppendJournalWrite(p)
  PROVE  StoreInv(env)'
<1> USE DEF AppendJournalWrite, Goto
<1> DEFINE o == job[p].old
           n == job[p].new
<1>1. /\ NoJournal /\ manifest # Nil /\ n # Nil /\ o = manifest
      /\ Extends(o, n)
  BY DEF StoreInv, PhaseInv
<1>2. /\ o \in Manifest /\ n \in Manifest /\ QuietDisk(env)
      /\ o.rows \in Seq(Bar) /\ n.rows \in Seq(Bar)
      /\ Len(o.rows) \in Nat /\ Len(n.rows) \in Nat
  BY <1>1 DEF StoreInv, TypeOK, Job, DiskInv, NoJournal, Manifest, Rows
<1>3. /\ Holds(env, "csv", o.rows) /\ ~Exists("parquet")
      /\ index = Indexed(o) /\ dir["csv"] \in File
  BY <1>1, <1>2 DEF QuietDisk, Clean, Extends, Formats, Holds, Exists, StoreInv,
                    TypeOK, Names
<1>4. Size(dir["csv"]) = 2 * Len(o.rows)
  BY <1>2, <1>3 DEF Size, Holds
<1>5. /\ ajournal'.before = 2 * Len(o.rows)
      /\ ajournal'.after = 2 * Len(o.rows) + 2 * (Len(n.rows) - Len(o.rows))
      /\ ajournal'.old = o /\ ajournal'.new = n
  BY <1>4
<1>6. ajournal'.after = 2 * Len(n.rows)
  <2>1. \A i, j \in Nat : 2 * i + 2 * (j - i) = 2 * j
    OBVIOUS
  <2> QED BY <1>2, <1>5, <2>1
<1>7. ajournal' \in AppendJournal /\ ajournal' # Nil
  <2>1. 2 * Len(o.rows) \in Nat /\ 2 * Len(n.rows) \in Nat
    BY <1>2
  <2>2. ajournal'.before \in Nat /\ ajournal'.after \in Nat
    BY <1>5, <1>6, <2>1
  <2>3. ajournal' = [before |-> ajournal'.before, after |-> ajournal'.after,
                     old |-> o, new |-> n]
    OBVIOUS
  <2>4. ajournal' \in AppendJournal
    BY <1>2, <2>2, <2>3 DEF AppendJournal
  <2> QED BY <2>4, NilAssumption
<1>8. AppendingDisk(env)'
  <2>1. AppendedSoFar(env, dir["csv"], o, n)
    BY <1>1, <1>2, <1>3 DEF Extends, AppendedSoFar, Holds
  <2>2. AppendedSoFar(env, dir["csv"], ajournal.old, ajournal.new)'
    BY <1>5, <2>1
  <2> QED BY <1>1, <1>3, <1>5, <1>6, <2>2 DEF AppendingDisk, Holds, Exists
<1>9. DiskType' /\ LinkInv' /\ DiskInv(env)'
  BY <1>1, <1>7, <1>8
     DEF StoreInv, TypeOK, DiskType, LinkInv, Exists, DiskInv, NoJournal
<1>10. OrderInv'
  BY <1>1, <1>5 DEF StoreInv, OrderInv
<1>11. PhaseInv(env, p)'
  BY <1>1, <1>5, <1>7 DEF StoreInv, TypeOK, PhaseInv
<1> QED BY <1>9, <1>10, <1>11, LockedInv DEF LockedPCs

(* One os.write adds half a row or completes it. *)
LEMMA AppendBytesInv ==
  ASSUME NEW env, StoreInv(env), NEW p \in Proc, AppendBytes(p)
  PROVE  StoreInv(env)'
<1> DEFINE f == dir["csv"]
           n == ajournal.new
           o == ajournal.old
<1>1. /\ pc[p] = "append_data" /\ ajournal # Nil /\ manifest = o
      /\ o = job[p].old /\ n = job[p].new /\ Size(f) < ajournal.after
  BY DEF AppendBytes, StoreInv, PhaseInv
<1>2. /\ AppendingDisk(env) /\ rjournal = Nil /\ f \in File /\ Exists("csv")
      /\ AppendedSoFar(env, f, o, n) /\ ajournal.after = 2 * Len(n.rows)
      /\ f.rows \in Seq(Bar) /\ n.rows \in Seq(Bar) /\ Len(f.rows) \in Nat
      /\ o.rows \in Seq(Bar) /\ Len(o.rows) \in Nat /\ Len(n.rows) \in Nat
  <2>1. /\ AppendingDisk(env) /\ rjournal = Nil
        /\ ajournal \in AppendJournal /\ f \in File
    BY <1>1, AppendFile
  <2>2. /\ Exists("csv") /\ AppendedSoFar(env, f, o, n)
        /\ ajournal.after = 2 * Len(n.rows)
    BY <2>1 DEF AppendingDisk
  <2>3. f.rows \in Seq(Bar) /\ n.rows \in Seq(Bar) /\ o.rows \in Seq(Bar)
    BY <2>1 DEF File, AppendJournal, Manifest, Rows
  <2> QED BY <2>1, <2>2, <2>3
<1>3. Len(f.rows) < Len(n.rows)
  <2>1. CASE f.torn
    BY <1>2, <2>1 DEF AppendedSoFar
  <2>2. CASE ~f.torn
    BY <1>1, <1>2, <2>2 DEF Size
  <2> QED BY <2>1, <2>2
<1>4. PICK rows \in Rows, torn \in BOOLEAN :
        /\ WriteInPlace("csv", rows, torn)
        /\ Len(o.rows) <= Len(rows) /\ Len(rows) <= Len(n.rows)
        /\ env = "closed" => \A i \in 1..Len(rows) : rows[i] = n.rows[i]
        /\ torn => Len(rows) < Len(n.rows)
  <2>1. CASE f.torn
    <3> DEFINE g == Append(f.rows, n.rows[Len(f.rows) + 1])
    <3>1. WriteInPlace("csv", g, FALSE)
      BY <1>1, <2>1 DEF AppendBytes
    <3>2. n.rows[Len(f.rows) + 1] \in Bar
      BY <1>2, <1>3
    <3>3. g \in Seq(Bar) /\ Len(g) = Len(f.rows) + 1
      BY <1>2, <3>2
    <3>4. env = "closed" => \A i \in 1..Len(g) : g[i] = n.rows[i]
      <4> SUFFICES ASSUME env = "closed", NEW i \in 1..Len(g)
                   PROVE  g[i] = n.rows[i]
        OBVIOUS
      <4>1. CASE i \in 1..Len(f.rows)
        BY <1>2, <3>2, <4>1 DEF AppendedSoFar
      <4>2. CASE i = Len(f.rows) + 1
        BY <1>2, <3>2, <4>2
      <4> QED BY <1>2, <3>3, <4>1, <4>2
    <3>5. Len(o.rows) <= Len(g) /\ Len(g) <= Len(n.rows)
      BY <1>2, <1>3, <3>3 DEF AppendedSoFar
    <3> QED BY <3>1, <3>3, <3>4, <3>5 DEF Rows
  <2>2. CASE ~f.torn
    <3>1. WriteInPlace("csv", f.rows, TRUE)
      BY <2>2 DEF AppendBytes
    <3> QED BY <1>2, <1>3, <3>1 DEF AppendedSoFar, Rows
  <2> QED BY <2>1, <2>2
<1>5. /\ dir' \in [Names -> File \cup {Nil}] /\ LinkInv'
      /\ \A m \in Names : Exists(m)' <=> Exists(m)
      /\ dir'["csv"].rows = rows /\ dir'["csv"].torn = torn
  BY <1>2, <1>4, WriteInPlaceFrame DEF StoreInv, Names, Formats
<1>6. UNCHANGED <<manifest, index, ajournal, rjournal, integ, locks, pc, job,
                  result, ops>>
  BY DEF AppendBytes
<1>7. AppendedSoFar(env, dir["csv"], ajournal.old, ajournal.new)'
  BY <1>4, <1>5, <1>6 DEF AppendedSoFar
<1>8. o # n /\ index = Indexed(o)
  BY <1>1, <1>2 DEF AppendingDisk, Extends
<1>9. AppendingDisk(env)'
  BY <1>1, <1>2, <1>5, <1>6, <1>7, <1>8 DEF AppendingDisk, Names, Formats
<1>10. DiskType' /\ DiskInv(env)' /\ OrderInv'
  BY <1>1, <1>2, <1>5, <1>6, <1>9 DEF StoreInv, TypeOK, DiskType, DiskInv, OrderInv
<1>11. PhaseInv(env, p)'
  BY <1>1, <1>6 DEF PhaseInv
<1>12. pc' = [pc EXCEPT ![p] = "append_data"]
  BY <1>1, <1>6 DEF StoreInv, TypeOK
<1> QED BY <1>1, <1>5, <1>6, <1>10, <1>11, <1>12, LockedInv DEF LockedPCs

(* The new manifest commits the append: every row has been written. *)
LEMMA AppendManifestInv ==
  ASSUME NEW env, StoreInv(env), NEW p \in Proc, AppendManifest(p)
  PROVE  StoreInv(env)'
<1> USE DEF AppendManifest, Goto
<1>1. /\ ajournal # Nil /\ manifest = ajournal.old
      /\ ajournal.old = job[p].old /\ ajournal.new = job[p].new
  BY DEF StoreInv, PhaseInv
<1>2. Size(dir["csv"]) = ajournal.after
  <2>1. ajournal.after \in Nat /\ Size(dir["csv"]) \in Nat
    BY <1>1, AppendFile, GenerationType DEF AppendJournal, Generation, GenerationOf
  <2>2. Size(dir["csv"]) <= ajournal.after
    BY <1>1, AppendFile
  <2> QED BY <2>1, <2>2
<1>3. /\ Holds(env, "csv", ajournal.new.rows) /\ AppendingDisk(env) /\ rjournal = Nil
      /\ ajournal.new \in Manifest /\ index = Indexed(ajournal.old)
  BY <1>1, <1>2, AppendFile DEF AppendJournal, AppendingDisk, Extends
<1>4. AppendingDisk(env)'
  BY <1>1, <1>3 DEF AppendingDisk, Holds, Exists
<1>5. DiskType' /\ LinkInv' /\ DiskInv(env)' /\ OrderInv'
  BY <1>1, <1>3, <1>4
     DEF StoreInv, TypeOK, DiskType, LinkInv, Exists, DiskInv, OrderInv
<1>6. PhaseInv(env, p)'
  BY <1>1 DEF StoreInv, TypeOK, PhaseInv
<1> QED BY <1>5, <1>6, LockedInv DEF LockedPCs

(* The index follows the manifest. *)
LEMMA AppendIndexInv ==
  ASSUME NEW env, StoreInv(env), NEW p \in Proc, AppendIndex(p)
  PROVE  StoreInv(env)'
<1> USE DEF AppendIndex, Goto
<1>1. ajournal # Nil /\ manifest = ajournal.new /\ ajournal.new = job[p].new
  BY DEF StoreInv, PhaseInv
<1>2. AppendingDisk(env) /\ rjournal = Nil /\ ajournal.new \in Manifest
  BY <1>1, AppendFile DEF AppendJournal
<1>3. AppendingDisk(env)'
  BY <1>1, <1>2 DEF AppendingDisk, Extends, Holds, Exists
<1>4. DiskType' /\ LinkInv' /\ DiskInv(env)' /\ OrderInv'
  BY <1>1, <1>2, <1>3, IndexedType
     DEF StoreInv, TypeOK, DiskType, LinkInv, Exists, DiskInv, OrderInv
<1>5. PhaseInv(env, p)'
  BY <1>1 DEF StoreInv, TypeOK, PhaseInv
<1> QED BY <1>4, <1>5, LockedInv DEF LockedPCs

(* The new generation is published. *)
LEMMA AppendPublishInv ==
  ASSUME NEW env, StoreInv(env), NEW p \in Proc, AppendPublish(p)
  PROVE  StoreInv(env)'
<1> USE DEF AppendPublish, Goto
<1>1. /\ ajournal # Nil /\ manifest = ajournal.new /\ ajournal.new = job[p].new
      /\ index = Indexed(manifest)
  BY DEF StoreInv, PhaseInv
<1>2. integ' \in Generation
  BY <1>1, AppendFile, GenerationType DEF AppendJournal
<1>3. UNCHANGED stored
  BY DEF stored
<1>4. DiskType' /\ LinkInv' /\ DiskInv(env)' /\ OrderInv'
  BY <1>2, <1>3, StoredUnchanged DEF StoreInv, TypeOK, DiskType, OrderInv, stored
<1>5. PhaseInv(env, p)'
  BY <1>1 DEF StoreInv, TypeOK, PhaseInv
<1> QED BY <1>4, <1>5, LockedInv DEF LockedPCs

(* The journal goes last: the appended generation is complete. *)
LEMMA AppendUnlinkInv ==
  ASSUME NEW env, StoreInv(env), NEW p \in Proc, AppendUnlink(p)
  PROVE  StoreInv(env)'
<1> USE DEF AppendUnlink, Goto
<1>1. ajournal # Nil /\ manifest = ajournal.new /\ index = Indexed(manifest)
  BY DEF StoreInv, PhaseInv
<1>2. AppendingDisk(env) /\ rjournal = Nil /\ manifest # Nil
  BY <1>1, AppendFile, NilAssumption DEF AppendJournal
<1>3. Holds(env, "csv", manifest.rows) /\ manifest.fmt = "csv" /\ ~Exists("parquet")
  BY <1>1, <1>2 DEF AppendingDisk, Extends
<1>4. QuietDisk(env)'
  BY <1>1, <1>2, <1>3 DEF QuietDisk, Clean, Holds, Exists, Formats
<1>5. DiskType' /\ LinkInv' /\ DiskInv(env)' /\ OrderInv'
  BY <1>2, <1>4 DEF StoreInv, TypeOK, DiskType, LinkInv, Exists, DiskInv, OrderInv
<1>6. PhaseInv(env, p)'
  BY DEF StoreInv, TypeOK, PhaseInv
<1> QED BY <1>5, <1>6, LockedInv DEF LockedPCs

-----------------------------------------------------------------------------
(* Planning a new generation. *)

(* A planned generation is remembered by the process alone. *)
LEMMA PlanInv ==
  ASSUME NEW env, StoreInv(env), NEW p \in Proc,
         NEW new \in Manifest, NEW backup \in BOOLEAN, NEW l, Plan(p, new, backup, l),
         pc[p] \in {"append", "replace", "upsert", "compact"},
         StrictlyOrdered(new.rows), integ' \in Generation \cup {Nil},
         \/ l = "begin" /\ backup = (manifest # Nil)
         \/ l = "append_journal" /\ manifest # Nil /\ Extends(manifest, new)
  PROVE  StoreInv(env)'
<1> USE DEF Plan
<1>0. NoJournal /\ UNCHANGED stored
  BY DEF StoreInv, PhaseInv, stored
<1>1. /\ job' \in [Proc -> Job]
      /\ \A q \in Proc \ {p} : job'[q] = job[q]
      /\ job'[p].op = job[p].op /\ job'[p].rows = job[p].rows
      /\ job'[p].old = manifest /\ job'[p].new = new /\ job'[p].backup = backup
  <2>1. job \in [Proc -> Job] /\ manifest \in Manifest \cup {Nil}
    BY DEF StoreInv, TypeOK
  <2>2. PICK j : j = [job[p] EXCEPT !.old = manifest, !.new = new, !.backup = backup]
    OBVIOUS
  <2>3. /\ j \in Job /\ j.op = job[p].op /\ j.rows = job[p].rows
        /\ j.old = manifest /\ j.new = new /\ j.backup = backup
    BY <2>1, <2>2 DEF Job
  <2>4. job'[p] = j
    BY <2>1, <2>2
  <2>5. job' \in [Proc -> Job] /\ job'[p] = j /\ \A q \in Proc \ {p} : job'[q] = job[q]
    <3>1. \A q \in Proc \ {p} : job'[q] = job[q]
      BY <2>1
    <3>2. \A q \in Proc : job'[q] \in Job
      BY <2>1, <2>3, <2>4, <3>1
    <3>3. job' = [q \in Proc |-> job'[q]]
      BY <2>1
    <3>4. [q \in Proc |-> job'[q]] \in [Proc -> Job]
      BY <3>2
    <3> QED BY <2>4, <3>1, <3>3, <3>4
  <2> QED BY <2>3, <2>5
<1>2. TypeOK'
  BY <1>1 DEF StoreInv, TypeOK, locks, PCs, LockedPCs
<1>3. LockInv'
  BY LockedStep DEF StoreInv, LockedPCs
<1>4. LinkInv' /\ DiskInv(env)'
  BY <1>0, StoredUnchanged
<1>5. OrderInv'
  BY <1>0, <1>1 DEF StoreInv, OrderInv, stored
<1>6. JobInv'
  BY <1>1 DEF StoreInv, TypeOK, JobInv, LockedPCs
<1>7. ASSUME NEW q \in Proc PROVE PhaseInv(env, q)'
  <2>1. CASE q = p
    BY <1>0, <1>1, <2>1, NilAssumption
       DEF StoreInv, TypeOK, PhaseInv, Planned, NoJournal, stored
  <2>2. CASE q # p
    BY <1>0, <1>1, <2>2, PhaseUnchanged DEF StoreInv, TypeOK
  <2> QED BY <2>1, <2>2
<1>8. ResultInv(env)'
  BY DEF StoreInv, TypeOK, ResultInv, RecoveryAlwaysPossible, NeverCorrupt
<1> QED BY <1>2, <1>3, <1>4, <1>5, <1>6, <1>7, <1>8 DEF StoreInv

(* The manifest of a new generation. *)
LEMMA NewManifestType ==
  ASSUME NEW f \in Formats, NEW rows \in Rows
  PROVE  NewManifest(f, rows) \in Manifest /\ NewManifest(f, rows).rows = rows
<1>1. Len(rows) \in Nat
  BY DEF Rows
<1> QED BY <1>1 DEF NewManifest, Manifest

(* With no journal pending, the data file is there when the manifest is. *)
LEMMA HasOldDataIff ==
  ASSUME NEW env, StoreInv(env), NoJournal
  PROVE  HasOldData = (manifest # Nil)
<1>1. QuietDisk(env)
  BY DEF StoreInv, DiskInv, NoJournal
<1>2. manifest # Nil => manifest.fmt \in Formats
  BY DEF StoreInv, TypeOK, Manifest
<1>3. manifest # Nil => Exists(manifest.fmt)
  BY <1>1, <1>2 DEF QuietDisk, Clean, Holds
<1> QED BY <1>3 DEF HasOldData

(* Every replacement plans in the same way. *)
LEMMA ReplaceLockedInv ==
  ASSUME NEW env, StoreInv(env), NEW p \in Proc,
         NEW rows \in Rows, StrictlyOrdered(rows),
         pc[p] \in {"replace", "upsert", "compact"},
         replace_all_locked(p, rows), integ' \in Generation \cup {Nil}
  PROVE  StoreInv(env)'
<1>1. job[p].fmt \in Formats /\ NoJournal
  BY DEF StoreInv, TypeOK, Job, PhaseInv
<1>2. HasOldData = (manifest # Nil)
  BY <1>1, HasOldDataIff
<1>3. Plan(p, NewManifest(job[p].fmt, rows), manifest # Nil, "begin")
  BY <1>2 DEF replace_all_locked
<1>4. /\ NewManifest(job[p].fmt, rows) \in Manifest
      /\ NewManifest(job[p].fmt, rows).rows = rows
  BY <1>1, NewManifestType
<1> QED BY <1>3, <1>4, PlanInv

(* replace_all, replace_all_stream. *)
LEMMA ReplaceAllInv ==
  ASSUME NEW env, StoreInv(env), NEW p \in Proc, replace_all(p)
  PROVE  StoreInv(env)'
<1>1. CASE Raise(p, "rejected")
  BY <1>1, RaiseInv DEF replace_all
<1>2. CASE replace_all_locked(p, job[p].rows) /\ UNCHANGED integ
  <2>1. job[p].rows \in Rows /\ StrictlyOrdered(job[p].rows)
    BY DEF StoreInv, TypeOK, Job, OrderInv
  <2>2. integ' \in Generation \cup {Nil}
    BY <1>2 DEF StoreInv, TypeOK
  <2> QED BY <1>2, <2>1, <2>2, ReplaceLockedInv DEF replace_all
<1> QED BY <1>1, <1>2 DEF replace_all

(* compact rewrites what is stored. *)
LEMMA CompactInv ==
  ASSUME NEW env, StoreInv(env), NEW p \in Proc, compact(p)
  PROVE  StoreInv(env)'
<1>1. pc[p] = "compact" /\ NoJournal
  BY DEF compact, StoreInv, PhaseInv
<1>2. CASE ~Readable /\ Raise(p, "corrupt")
  BY <1>1, <1>2, CorruptInv
<1>3. CASE Readable /\ replace_all_locked(p, Stored) /\ PublishIfValidated
  <2>1. Stored \in Rows /\ StrictlyOrdered(Stored)
    BY <1>3, ReadableRows DEF StoreInv
  <2>2. integ' \in Generation \cup {Nil}
    BY <1>3, PublishIfValidatedType DEF StoreInv
  <2> QED BY <1>1, <1>3, <2>1, <2>2, ReplaceLockedInv
<1> QED BY <1>2, <1>3 DEF compact

(* upsert_closed inserts one bar into what is stored. *)
LEMMA UpsertClosedInv ==
  ASSUME NEW env, StoreInv(env), NEW p \in Proc, upsert_closed(p)
  PROVE  StoreInv(env)'
<1> DEFINE b == job[p].rows[1]
<1>1. pc[p] = "upsert" /\ NoJournal
  BY DEF upsert_closed, StoreInv, PhaseInv
<1>2. CASE ~Readable /\ Raise(p, "corrupt")
  BY <1>1, <1>2, CorruptInv
<1>3. b \in Bar
  <2>1. job[p].rows \in Seq(Bar) /\ job[p].rows # <<>>
    BY <1>1 DEF StoreInv, TypeOK, Job, JobInv, Rows
  <2> QED BY <2>1
<1>4. CASE Raise(p, "conflict")
  BY <1>1, <1>4, RaiseInv
<1>5. CASE /\ Readable
           /\ replace_all_locked(p, Merged(Stored, b)) /\ PublishIfValidated
  <2>0. Stored \in Rows /\ StrictlyOrdered(Stored)
    BY <1>5, ReadableRows DEF StoreInv
  <2>1. Merged(Stored, b) \in Rows /\ StrictlyOrdered(Merged(Stored, b))
    BY <1>3, <2>0, MergedOrdered
  <2>2. integ' \in Generation \cup {Nil}
    BY <1>5, PublishIfValidatedType DEF StoreInv
  <2> QED BY <1>1, <1>5, <2>1, <2>2, ReplaceLockedInv
<1> QED BY <1>2, <1>4, <1>5 DEF upsert_closed

(* An accepted append extends the manifest and keeps it ordered. *)
LEMMA AppendedExtends ==
  ASSUME NEW m \in Manifest, NEW in \in Rows, m.fmt = "csv",
         StrictlyOrdered(m.rows), StrictlyOrdered(in),
         in # <<>> => m.rows # <<>> /\ in[1].t >= Last(m.rows).t,
         Appended(in, m) # m
  PROVE  /\ Appended(in, m) \in Manifest
         /\ StrictlyOrdered(Appended(in, m).rows)
         /\ Extends(m, Appended(in, m))
<1> DEFINE r == m.rows \o Fresh(in, m.rows)
           base == IF m.base = Nil THEN Len(m.rows) ELSE m.base
<1>1. m.rows \in Rows /\ m.base \in Nat \cup {Nil}
  BY DEF Manifest
<1>2. /\ r \in Rows /\ StrictlyOrdered(r)
      /\ Len(r) = Len(m.rows) + Len(Fresh(in, m.rows))
      /\ \A i \in 1..Len(m.rows) : r[i] = m.rows[i]
      /\ Len(Fresh(in, m.rows)) \in Nat /\ Len(m.rows) \in Nat
  BY <1>1, FreshOrdered, RowTimes
<1>3. base \in Nat
  BY <1>1, <1>2
<1>4. Appended(in, m) = [fmt |-> "csv", rows |-> r, base |-> base]
  BY DEF Appended
<1> HIDE DEF r, base
<1>5. Appended(in, m) \in Manifest
  BY <1>2, <1>3, <1>4 DEF Manifest, Formats
<1>6. Len(m.rows) <= Len(r)
  <2>1. \A i, j \in Nat : i <= i + j
    OBVIOUS
  <2> QED BY <1>2, <2>1
<1>7. /\ Appended(in, m).rows = r /\ Appended(in, m).fmt = "csv"
  BY <1>4
<1> QED BY <1>2, <1>5, <1>6, <1>7 DEF Extends

(* What append_strictly_newer accepts starts at or after the stored tail,  *)
(* and it only finds an edited segment corrupt.                            *)
LEMMA AppendVerdictFacts ==
  ASSUME NEW env, StoreInv(env), NoJournal, manifest # Nil, NEW in \in Rows
  PROVE  /\ AppendVerdict(in) \in
              {"ok", "unsupported", "empty", "conflict", "corrupt"}
         /\ env = "closed" => AppendVerdict(in) # "corrupt"
         /\ AppendVerdict(in) = "ok" =>
              /\ manifest.fmt = "csv"
              /\ in # <<>> =>
                   manifest.rows # <<>> /\ in[1].t >= Last(manifest.rows).t
<1>1. manifest \in Manifest /\ QuietDisk(env)
  BY DEF StoreInv, TypeOK, DiskInv, NoJournal
<1>2. CASE manifest.fmt # "csv"
  BY <1>2 DEF AppendVerdict
<1>3. CASE manifest.fmt = "csv"
  <2>1. /\ Exists("csv")
        /\ env = "closed" => ChecksumValid(dir["csv"], manifest)
    BY <1>1, <1>3 DEF QuietDisk, Clean, Holds, ChecksumValid, Formats
  <2>2. /\ Len(dir["csv"].rows) = Len(manifest.rows)
        /\ env = "closed" => dir["csv"].rows = manifest.rows
    BY <1>1, <1>3 DEF QuietDisk, Clean, Holds, Formats
  <2>3. in # <<>> /\ manifest.rows # <<>> =>
          in[1].t \in Nat /\ Last(manifest.rows).t \in Nat
    <3>1. in \in Seq(Bar) /\ manifest.rows \in Seq(Bar) /\ manifest.rows \in Rows
      BY <1>1 DEF Rows, Manifest
    <3>2. in # <<>> => 1 \in 1..Len(in)
      BY <3>1
    <3>3. manifest.rows # <<>> => Len(manifest.rows) \in 1..Len(manifest.rows)
      BY <3>1
    <3> QED BY <3>1, <3>2, <3>3, RowTimes DEF Last
  <2> DEFINE f == dir["csv"]
             refused == manifest.base = Nil /\ ~ChecksumValid(f, manifest)
             verdict ==
               IF in = <<>> THEN "ok"
               ELSE IF manifest.rows = <<>> \/ f.rows = <<>> THEN "empty"
               ELSE IF Last(f.rows).t # Last(manifest.rows).t THEN "corrupt"
               ELSE IF \/ in[1].t < Last(manifest.rows).t
                       \/ in[1].t = Last(manifest.rows).t /\ in[1] # Last(f.rows)
                    THEN "conflict"
               ELSE "ok"
  <2>4. AppendVerdict(in) = IF refused THEN "corrupt" ELSE verdict
    BY <1>3, <2>1 DEF AppendVerdict
  <2>5. env = "closed" => ~refused /\ verdict # "corrupt"
    BY <2>1, <2>2
  <2>6. verdict = "ok" /\ in # <<>> =>
          manifest.rows # <<>> /\ in[1].t >= Last(manifest.rows).t
    BY <2>3
  <2>7. verdict \in {"ok", "empty", "conflict", "corrupt"}
    OBVIOUS
  <2> HIDE DEF refused, verdict
  <2> QED BY <1>3, <2>4, <2>5, <2>6, <2>7
<1> QED BY <1>2, <1>3

(* append_strictly_newer refuses, does nothing, or plans. *)
LEMMA AppendStrictlyNewerInv ==
  ASSUME NEW env, StoreInv(env), NEW p \in Proc, append_strictly_newer(p)
  PROVE  StoreInv(env)'
<1> DEFINE in == job[p].rows
<1>1. pc[p] = "append" /\ NoJournal /\ in \in Rows /\ StrictlyOrdered(in)
  BY DEF append_strictly_newer, StoreInv, PhaseInv, TypeOK, Job, OrderInv
<1>2. CASE Raise(p, "rejected")
  BY <1>1, <1>2, RaiseInv
<1>3. CASE /\ manifest = Nil
           /\ Plan(p, NewManifest("csv", in), FALSE, "begin") /\ UNCHANGED integ
  <2>1. /\ NewManifest("csv", in) \in Manifest
        /\ NewManifest("csv", in).rows = in
    BY <1>1, NewManifestType DEF Formats
  <2>2. FALSE = (manifest # Nil) /\ integ' \in Generation \cup {Nil}
    BY <1>3 DEF StoreInv, TypeOK
  <2> QED BY <1>1, <1>3, <2>1, <2>2, PlanInv
<1>4. CASE /\ manifest # Nil /\ AppendVerdict(in) # "ok"
           /\ Raise(p, AppendVerdict(in))
  BY <1>1, <1>4, AppendVerdictFacts, RaiseInv
<1>5. CASE /\ manifest # Nil /\ Goto(p, "append", "unlock")
           /\ UNCHANGED <<disk, locks, job, result, ops>>
  <2>1. UNCHANGED stored
    BY <1>5 DEF disk, stored
  <2>2. DiskType' /\ LinkInv' /\ DiskInv(env)' /\ OrderInv'
    BY <1>5, <2>1, StoredUnchanged DEF StoreInv, TypeOK, DiskType, OrderInv, disk
  <2>3. PhaseInv(env, p)'
    BY <1>5 DEF StoreInv, TypeOK, PhaseInv, Goto
  <2> QED BY <1>1, <1>5, <2>2, <2>3, LockedInv DEF LockedPCs, Goto
<1>6. CASE /\ manifest # Nil /\ AppendVerdict(in) = "ok"
           /\ Appended(in, manifest) # manifest
           /\ Plan(p, Appended(in, manifest), FALSE, "append_journal")
           /\ UNCHANGED integ
  <2>1. /\ manifest \in Manifest /\ StrictlyOrdered(manifest.rows)
        /\ integ' \in Generation \cup {Nil}
    BY <1>6 DEF StoreInv, TypeOK, OrderInv
  <2>2. /\ manifest.fmt = "csv"
        /\ in # <<>> => manifest.rows # <<>> /\ in[1].t >= Last(manifest.rows).t
    BY <1>1, <1>6, AppendVerdictFacts
  <2>3. /\ Appended(in, manifest) \in Manifest
        /\ StrictlyOrdered(Appended(in, manifest).rows)
        /\ Extends(manifest, Appended(in, manifest))
    BY <1>1, <1>6, <2>1, <2>2, AppendedExtends
  <2> QED BY <1>1, <1>6, <2>1, <2>3, PlanInv
<1> QED BY <1>2, <1>3, <1>4, <1>5, <1>6 DEF append_strictly_newer

-----------------------------------------------------------------------------
(* _replace_all_locked, once it has planned. *)

(* A directory without a journal stays what it is when only a backup name  *)
(* changes.                                                                *)
LEMMA BackupStep ==
  ASSUME NEW env, StoreInv(env), NoJournal,
         UNCHANGED <<manifest, index, ajournal, rjournal, integ, job>>,
         dir' \in [Names -> File \cup {Nil}],
         \A f \in Formats : dir'[f] = dir[f]
  PROVE  DiskType' /\ DiskInv(env)' /\ OrderInv'
<1>1. QuietDisk(env)
  BY DEF StoreInv, DiskInv, NoJournal
<1>2. QuietDisk(env)'
  BY <1>1 DEF QuietDisk, Clean, Holds, Exists
<1> QED BY <1>2 DEF StoreInv, TypeOK, DiskType, DiskInv, OrderInv, NoJournal

(* An orphaned backup is dropped. *)
LEMMA BackupUnlinkInv ==
  ASSUME NEW env, StoreInv(env), NEW p \in Proc, BackupUnlink(p)
  PROVE  StoreInv(env)'
<1> DEFINE l == IF job[p].backup THEN "backup_link" ELSE "replace_journal"
<1>1. pc[p] = "begin" /\ Planned(p) /\ NoJournal
  BY DEF BackupUnlink, Goto, StoreInv, PhaseInv, Planned
<1>2. /\ pc' = [pc EXCEPT ![p] = l]
      /\ UNCHANGED <<manifest, index, ajournal, rjournal, integ, locks, job,
                     result, ops>>
  BY DEF BackupUnlink, Goto
<1>3. /\ dir' \in [Names -> File \cup {Nil}] /\ LinkInv'
      /\ \A f \in Formats : dir'[f] = dir[f]
  <2>1. CASE job[p].backup
    <3>1. manifest # Nil /\ job[p].old = manifest /\ manifest.fmt \in Formats
      BY <1>1, <2>1 DEF Planned, StoreInv, TypeOK, Manifest
    <3>2. /\ Unlink(Backup[manifest.fmt]) /\ Backup[manifest.fmt] \in Names
          /\ Backup[manifest.fmt] \notin Formats
      BY <2>1, <3>1, NameFacts DEF BackupUnlink
    <3> QED BY <3>2, UnlinkFrame, NameFacts DEF StoreInv
  <2>2. CASE ~job[p].backup
    BY <2>2 DEF BackupUnlink, StoreInv, TypeOK, LinkInv, Exists
  <2> QED BY <2>1, <2>2
<1>4. DiskType' /\ DiskInv(env)' /\ OrderInv'
  BY <1>1, <1>2, <1>3, BackupStep
<1>5. /\ l \in {"backup_link", "replace_journal"}
      /\ l = "backup_link" => manifest # Nil
      /\ l = "replace_journal" => manifest = Nil
  BY <1>1 DEF Planned
<1> HIDE DEF l
<1>6. PhaseInv(env, p)'
  BY <1>1, <1>2, <1>5 DEF StoreInv, TypeOK, PhaseInv, Planned, NoJournal
<1> QED BY <1>1, <1>2, <1>3, <1>4, <1>5, <1>6, LockedInv DEF LockedPCs

(* The backup is a link to the old data file, or a copy of it. *)
LEMMA BackupLinkInv ==
  ASSUME NEW env, StoreInv(env), NEW p \in Proc, BackupLink(p)
  PROVE  StoreInv(env)'
<1> USE DEF BackupLink, Goto
<1> DEFINE f == manifest.fmt
           b == Backup[f]
<1>1. /\ Planned(p) /\ NoJournal /\ manifest # Nil /\ job[p].old = manifest
      /\ f \in Formats /\ manifest.rows \in Rows
  BY DEF StoreInv, PhaseInv, Planned, TypeOK, Manifest
<1>2. f \in Names /\ b \in Names /\ b \notin Formats
  BY <1>1, NameFacts
<1>3. Holds(env, f, manifest.rows)
  BY <1>1 DEF StoreInv, DiskInv, NoJournal, QuietDisk, Clean
<1>4. /\ dir' \in [Names -> File \cup {Nil}] /\ LinkInv'
      /\ Holds(env, b, manifest.rows)' /\ \A g \in Names \ {b} : dir'[g] = dir[g]
  <2>1. CASE dir' = [dir EXCEPT ![b] = dir[f]]
    <3>1. dir'[b] = dir[f] /\ \A g \in Names \ {b} : dir'[g] = dir[g]
      BY <1>2, <2>1 DEF StoreInv, TypeOK
    <3>2. dir' \in [Names -> File \cup {Nil}]
      BY <1>2, <2>1 DEF StoreInv, TypeOK
    <3>3. LinkInv'
      BY <1>2, <3>1 DEF StoreInv, LinkInv, Exists
    <3>4. Holds(env, b, manifest.rows)'
      BY <1>3, <3>1 DEF Holds, Exists
    <3> QED BY <3>1, <3>2, <3>3, <3>4
  <2>2. CASE Publish(b, dir[f].rows)
    <3>1. PICK rows : rows = dir[f].rows
      OBVIOUS
    <3>2. rows \in Rows /\ Publish(b, rows)
      BY <1>2, <1>3, <2>2, <3>1 DEF Holds, Exists, StoreInv, TypeOK, File
    <3>3. /\ dir' \in [Names -> File \cup {Nil}] /\ LinkInv'
          /\ Holds("closed", b, rows)' /\ \A g \in Names \ {b} : dir'[g] = dir[g]
      BY <1>2, <3>2, PublishFrame DEF StoreInv
    <3>4. Holds(env, b, manifest.rows)'
      BY <1>3, <3>1, <3>3 DEF Holds
    <3> QED BY <3>3, <3>4
  <2> QED BY <1>1, <2>1, <2>2
<1>5. DiskType' /\ DiskInv(env)' /\ OrderInv'
  <2>1. \A g \in Formats : dir'[g] = dir[g]
    BY <1>2, <1>4, NameFacts
  <2> QED BY <1>1, <1>4, <2>1, BackupStep
<1>6. PhaseInv(env, p)'
  BY <1>1, <1>4 DEF StoreInv, TypeOK, PhaseInv, Planned, NoJournal
<1> QED BY <1>4, <1>5, <1>6, LockedInv DEF LockedPCs

(* The replacement journal makes the planned replacement recoverable. *)
LEMMA ReplaceJournalWriteInv ==
  ASSUME NEW env, StoreInv(env), NEW p \in Proc, ReplaceJournalWrite(p)
  PROVE  StoreInv(env)'
<1> USE DEF ReplaceJournalWrite, Goto
<1> DEFINE n == job[p].new
<1>1. /\ Planned(p) /\ NoJournal /\ job[p].old = manifest /\ n # Nil
      /\ job[p].backup = (manifest # Nil)
      /\ manifest # Nil => Holds(env, Backup[manifest.fmt], manifest.rows)
  BY DEF StoreInv, PhaseInv, Planned
<1>2. /\ n \in Manifest /\ manifest \in Manifest \cup {Nil} /\ QuietDisk(env)
      /\ n.fmt \in Formats /\ (manifest # Nil => manifest.fmt \in Formats)
  BY <1>1 DEF StoreInv, TypeOK, Job, DiskInv, NoJournal, Manifest
<1>3. /\ rjournal'.old = manifest /\ rjournal'.new = n
      /\ rjournal'.backup = (manifest # Nil)
      /\ rjournal' = [old |-> manifest, new |-> n, backup |-> (manifest # Nil)]
  BY <1>1
<1>4. rjournal' \in ReplaceJournal /\ rjournal' # Nil
  <2>1. rjournal' \in ReplaceJournal
    BY <1>2, <1>3 DEF ReplaceJournal
  <2> QED BY <2>1, NilAssumption
<1>5. ReplacingDisk(env)'
  <2>1. CASE manifest = n
    BY <1>1, <1>2, <1>3, <2>1
       DEF QuietDisk, Clean, ReplacingDisk, Holds, Exists
  <2>2. CASE manifest # n /\ manifest = Nil
    BY <1>1, <1>2, <1>3, <2>2, NameFacts
       DEF QuietDisk, Clean, ReplacingDisk, Exists
  <2>3. CASE manifest # n /\ manifest # Nil
    <3>1. OldRecoverable(env, manifest, n)
      BY <1>1, <1>2, <2>3, NameFacts DEF QuietDisk, Clean, OldRecoverable, Holds
    <3>2. OldRecoverable(env, rjournal.old, rjournal.new)'
      BY <1>3, <3>1 DEF OldRecoverable, Holds, Exists
    <3> QED BY <1>1, <1>2, <1>3, <2>3, <3>2 DEF QuietDisk, ReplacingDisk
  <2> QED BY <2>1, <2>2, <2>3
<1>6. DiskType' /\ LinkInv' /\ DiskInv(env)'
  BY <1>1, <1>4, <1>5
     DEF StoreInv, TypeOK, DiskType, LinkInv, Exists, DiskInv, NoJournal
<1>7. OrderInv'
  BY <1>1, <1>3 DEF StoreInv, OrderInv
<1>8. PhaseInv(env, p)'
  BY <1>1, <1>3, <1>4 DEF StoreInv, TypeOK, PhaseInv, Holds, Exists
<1> QED BY <1>6, <1>7, <1>8, LockedInv DEF LockedPCs

(* The new data file replaces the old one; the backup keeps the old rows. *)
LEMMA ReplaceDataInv ==
  ASSUME NEW env, StoreInv(env), NEW p \in Proc, ReplaceData(p)
  PROVE  StoreInv(env)'
<1> USE DEF ReplaceData, Goto
<1> DEFINE o == rjournal.old
           n == rjournal.new
<1>1. /\ rjournal # Nil /\ manifest = o /\ o = job[p].old /\ n = job[p].new
      /\ o # Nil => Exists(Backup[o.fmt])
  BY DEF StoreInv, PhaseInv, Holds
<1>2. /\ ReplacingDisk(env) /\ ajournal = Nil /\ n \in Manifest /\ n.fmt \in Formats
      /\ o # Nil => o \in Manifest /\ o.fmt \in Formats
      /\ n.rows \in Rows /\ n.fmt \in Names
  BY <1>1, ReplaceFile, NameFacts DEF Manifest
<1>3. /\ dir' \in [Names -> File \cup {Nil}] /\ LinkInv'
      /\ Holds(env, n.fmt, n.rows)' /\ \A m \in Names \ {n.fmt} : dir'[m] = dir[m]
  BY <1>1, <1>2, PublishFrame DEF StoreInv, Holds
<1>4. ReplacingDisk(env)'
  <2>1. CASE o = n
    BY <1>1, <1>2, <1>3, <2>1 DEF ReplacingDisk, Holds
  <2>2. CASE o # n /\ o = Nil
    <3>1. dir'[Other(n.fmt)] = dir[Other(n.fmt)]
      BY <1>2, <1>3, NameFacts
    <3> QED BY <1>1, <1>2, <2>2, <3>1 DEF ReplacingDisk, Exists
  <2>3. CASE o # n /\ o # Nil
    <3>1. OldRecoverable(env, o, n) /\ index = Indexed(o)
      BY <1>1, <1>2, <2>3 DEF ReplacingDisk
    <3>2. Backup[o.fmt] \in Names \ {n.fmt}
      BY <1>2, <2>3, NameFacts
    <3>3. OldRecoverable(env, o, n)'
      <4>1. CASE n.fmt = o.fmt
        <5>1. Other(o.fmt) \in Names \ {n.fmt}
          BY <1>2, <2>3, <4>1, NameFacts
        <5> QED BY <1>1, <1>3, <2>3, <3>1, <3>2, <4>1, <5>1
                DEF OldRecoverable, Holds, Exists
      <4>2. CASE n.fmt # o.fmt
        <5>1. o.fmt \in Names \ {n.fmt}
          BY <1>2, <2>3, <4>2, NameFacts
        <5> QED BY <1>3, <3>1, <3>2, <4>2, <5>1 DEF OldRecoverable, Holds, Exists
      <4> QED BY <4>1, <4>2
    <3> QED BY <1>1, <1>2, <2>3, <3>1, <3>3 DEF ReplacingDisk
  <2> QED BY <2>1, <2>2, <2>3
<1>5. DiskType' /\ DiskInv(env)' /\ OrderInv'
  BY <1>1, <1>2, <1>3, <1>4 DEF StoreInv, TypeOK, DiskType, DiskInv, OrderInv
<1>6. PhaseInv(env, p)'
  BY <1>1, <1>3 DEF StoreInv, TypeOK, PhaseInv
<1> QED BY <1>3, <1>5, <1>6, LockedInv DEF LockedPCs

(* The new manifest commits the replacement: its data file is complete. *)
LEMMA ReplaceManifestInv ==
  ASSUME NEW env, StoreInv(env), NEW p \in Proc, ReplaceManifest(p)
  PROVE  StoreInv(env)'
<1> USE DEF ReplaceManifest, Goto
<1>1. /\ rjournal # Nil /\ manifest = rjournal.old /\ rjournal.new = job[p].new
      /\ Holds(env, rjournal.new.fmt, rjournal.new.rows)
  BY DEF StoreInv, PhaseInv
<1>2. ReplacingDisk(env) /\ ajournal = Nil /\ rjournal.new \in Manifest
  BY <1>1, ReplaceFile
<1>3. ReplacingDisk(env)'
  BY <1>1, <1>2 DEF ReplacingDisk, Holds, Exists
<1>4. DiskType' /\ LinkInv' /\ DiskInv(env)' /\ OrderInv'
  BY <1>1, <1>2, <1>3
     DEF StoreInv, TypeOK, DiskType, LinkInv, Exists, DiskInv, OrderInv
<1>5. PhaseInv(env, p)'
  BY <1>1 DEF StoreInv, TypeOK, PhaseInv
<1> QED BY <1>4, <1>5, LockedInv DEF LockedPCs

(* The index follows the manifest. *)
LEMMA ReplaceIndexInv ==
  ASSUME NEW env, StoreInv(env), NEW p \in Proc, ReplaceIndex(p)
  PROVE  StoreInv(env)'
<1> USE DEF ReplaceIndex, Goto
<1>1. rjournal # Nil /\ manifest = rjournal.new /\ rjournal.new = job[p].new
  BY DEF StoreInv, PhaseInv
<1>2. ReplacingDisk(env) /\ ajournal = Nil /\ rjournal.new \in Manifest
  BY <1>1, ReplaceFile
<1>3. ReplacingDisk(env)'
  BY <1>1, <1>2 DEF ReplacingDisk, Holds, Exists
<1>4. DiskType' /\ LinkInv' /\ DiskInv(env)' /\ OrderInv'
  BY <1>1, <1>2, <1>3, IndexedType
     DEF StoreInv, TypeOK, DiskType, LinkInv, Exists, DiskInv, OrderInv
<1>5. PhaseInv(env, p)'
  BY <1>1 DEF StoreInv, TypeOK, PhaseInv, Finishing
<1> QED BY <1>4, <1>5, LockedInv DEF LockedPCs

-----------------------------------------------------------------------------
(* The theorems. *)

(* An empty directory and a legacy segment are good states to start from. *)
LEMMA InitInv == ASSUME NEW env, Init PROVE StoreInv(env)
<1> SUFFICES ASSUME Init PROVE StoreInv(env)
  OBVIOUS
<1>0. <<>> \in Rows /\ StrictlyOrdered(<<>>)
  BY DEF Rows, StrictlyOrdered
<1>1. Idle \in Job /\ Idle.op = "none" /\ Idle.rows = <<>> /\ Idle.new = Nil
  BY <1>0 DEF Idle, Job, OpNames, Formats
<1>2. [status |-> "none", rows |-> <<>>] \in Result
  BY <1>0 DEF Result
<1>3. /\ dir \in [Names -> File \cup {Nil}] /\ manifest \in Manifest \cup {Nil}
      /\ Clean(env, manifest) /\ LinkInv
      /\ manifest # Nil => StrictlyOrdered(manifest.rows)
  <2>1. CASE dir = [n \in Names |-> Nil] /\ manifest = Nil
    BY <2>1 DEF Clean, Exists, LinkInv, Names
  <2>2. CASE \E s \in LegacyRows, i \in Inodes, st \in Stamps :
               /\ dir = [n \in Names |->
                    IF n = "csv"
                      THEN [ino |-> i, rows |-> s, torn |-> FALSE, stamp |-> st]
                      ELSE Nil]
               /\ manifest = [fmt |-> "csv", rows |-> s, base |-> Nil]
    <3>1. PICK s \in LegacyRows, i \in Inodes, st \in Stamps :
               /\ dir = [n \in Names |->
                    IF n = "csv"
                      THEN [ino |-> i, rows |-> s, torn |-> FALSE, stamp |-> st]
                      ELSE Nil]
               /\ manifest = [fmt |-> "csv", rows |-> s, base |-> Nil]
      BY <2>2
    <3> DEFINE f == [ino |-> i, rows |-> s, torn |-> FALSE, stamp |-> st]
    <3>2. s \in Rows /\ StrictlyOrdered(s)
      BY InputAssumption
    <3>3. f \in File /\ f.rows = s /\ f.torn = FALSE
      BY <3>2 DEF File
    <3>4. f # Nil
      BY <3>3, NilAssumption
    <3>5. dir = [n \in Names |-> IF n = "csv" THEN f ELSE Nil]
      BY <3>1
    <3>6. manifest \in Manifest /\ manifest.fmt = "csv" /\ manifest.rows = s
      BY <3>1, <3>2 DEF Manifest, Formats
    <3> HIDE DEF f
    <3>7. dir \in [Names -> File \cup {Nil}] /\ LinkInv
      BY <3>3, <3>5 DEF LinkInv, Exists
    <3>8. Clean(env, manifest)
      BY NilAssumption, <3>3, <3>4, <3>5, <3>6
         DEF Clean, Holds, Exists, Formats, Names
    <3> QED BY <3>2, <3>6, <3>7, <3>8
  <2> QED BY <2>1, <2>2 DEF Init
<1>4. TypeOK
  <2>1. index \in IndexRow \cup {Nil}
    BY <1>3, IndexedType DEF Init
  <2> QED BY <1>1, <1>2, <1>3, <2>1 DEF Init, TypeOK, PCs, FreePCs
<1>5. LockInv
  BY NilAssumption DEF Init, LockInv, LockedPCs, SharedPCs
<1>6. DiskInv(env)
  BY <1>3 DEF Init, DiskInv, QuietDisk
<1>7. OrderInv
  BY <1>0, <1>1, <1>3 DEF Init, OrderInv
<1>8. JobInv
  BY <1>1 DEF Init, JobInv, LockedPCs
<1>9. \A p \in Proc : PhaseInv(env, p)
  BY DEF Init, PhaseInv
<1>10. ResultInv(env)
  BY DEF Init, TypeOK, ResultInv, RecoveryAlwaysPossible, NeverCorrupt
<1> QED BY <1>3, <1>4, <1>5, <1>6, <1>7, <1>8, <1>9, <1>10 DEF StoreInv

(* Every step of every process keeps the invariant. *)
LEMMA StepInv ==
  ASSUME NEW env, StoreInv(env), NEW p \in Proc, Step(p)
  PROVE  StoreInv(env)'
<1>1. CASE Recover(p)
  BY <1>1, RecoverAppendInv, RecoverAppendManifestInv, RecoverAppendIndexInv,
     RecoverAppendUnlinkInv, RecoverReplaceInv, RollbackNewInv,
     RollbackManifestInv, RollbackIndexInv, RollbackBackupInv, RollbackUnlinkInv
     DEF Recover
<1>2. CASE Finish(p)
  BY <1>2, FinishOldInv, FinishPublishInv, FinishOtherInv, FinishBackupInv,
     FinishUnlinkInv DEF Finish
<1>3. CASE AppendSteps(p)
  BY <1>3, AppendStrictlyNewerInv, AppendJournalWriteInv, AppendBytesInv,
     AppendManifestInv, AppendIndexInv, AppendPublishInv, AppendUnlinkInv
     DEF AppendSteps
<1>4. CASE ReplaceSteps(p)
  BY <1>4, ReplaceAllInv, UpsertClosedInv, CompactInv, BackupUnlinkInv,
     BackupLinkInv, ReplaceJournalWriteInv, ReplaceDataInv, ReplaceManifestInv,
     ReplaceIndexInv DEF ReplaceSteps
<1> QED BY <1>1, <1>2, <1>3, <1>4, GlobInv, SeriesLockInv, SeriesWriterLockInv,
           UnlockInv, ReaderLockInv, ReaderCheckInv, ReadAllInv, VacuumInv DEF Step

(* A step that changes nothing keeps the invariant. *)
LEMMA StutterInv ==
  ASSUME NEW env, StoreInv(env), UNCHANGED vars
  PROVE  StoreInv(env)'
<1>0. UNCHANGED stored /\ UNCHANGED <<integ, locks, pc, job, result, ops>>
  BY DEF vars, disk, stored
<1>1. LinkInv' /\ DiskInv(env)'
  BY <1>0, StoredUnchanged
<1>2. \A q \in Proc : PhaseInv(env, q)'
  BY <1>0, PhaseUnchanged
<1>3. TypeOK' /\ LockInv' /\ OrderInv' /\ JobInv'
  BY <1>0 DEF StoreInv, TypeOK, LockInv, OrderInv, JobInv, stored, locks
<1>4. ResultInv(env)'
  BY <1>0 DEF StoreInv, TypeOK, ResultInv, RecoveryAlwaysPossible, NeverCorrupt
<1> QED BY <1>1, <1>2, <1>3, <1>4 DEF StoreInv

(* The inductive invariant holds in every reachable state, for any number  *)
(* of processes, operations, crashes and recoveries.                       *)
THEOREM Invariance == Spec => []IInv
<1>1. IInv /\ [Next]_vars => IInv'
  <2> SUFFICES ASSUME IInv, [Next]_vars PROVE IInv'
    OBVIOUS
  <2>1. CASE UNCHANGED vars
    BY <2>1, StutterInv DEF IInv
  <2>2. ASSUME NEW p \in Proc, Start(p) \/ Step(p) \/ Crash(p) PROVE IInv'
    BY <2>2, StartInv, StepInv, CrashInv DEF IInv
  <2> QED BY <2>1, <2>2 DEF Next
<1>2. Init => IInv
  BY InitInv DEF IInv
<1> QED BY <1>1, <1>2, PTL DEF Spec

(* The variables of the store keep their types. *)
THEOREM TypeCorrect == Spec => []TypeOK
<1>1. IInv => TypeOK
  BY DEF IInv, StoreInv
<1> QED BY <1>1, Invariance, PTL

(* Whatever crashed before, a directory without a journal is one complete  *)
(* generation.                                                             *)
THEOREM CrashConsistency == Spec => []NoJournalMeansConsistent
<1>1. IInv => NoJournalMeansConsistent
  BY DEF IInv, StoreInv, DiskInv, QuietDisk, Clean, Holds, NoJournalMeansConsistent,
         ChecksumValid
<1> QED BY <1>1, Invariance, PTL

(* recover_append_journal and recover_replacement_journal never raise      *)
(* because data is missing.                                                *)
THEOREM RecoveryNeverStuck == Spec => []RecoveryAlwaysPossible
<1>1. IInv => RecoveryAlwaysPossible
  BY DEF IInv, StoreInv, ResultInv
<1> QED BY <1>1, Invariance, PTL

(* No operation of the store ever reports a corrupt segment that the store *)
(* itself produced.                                                        *)
THEOREM NoCorruption == Spec => []NeverCorrupt
<1>1. IInv => NeverCorrupt
  BY DEF IInv, StoreInv, ResultInv
<1> QED BY <1>1, Invariance, PTL

(* Appends, merges and replacements commit strictly ordered rows only. *)
THEOREM OrderedRows == Spec => []CommittedOrdered
<1>1. IInv => CommittedOrdered
  BY DEF IInv, StoreInv, OrderInv, CommittedOrdered
<1> QED BY <1>1, Invariance, PTL

(* Only two steps write another manifest than the one in place. *)
LEMMA ManifestWriters ==
  ASSUME IInv, NEW p \in Proc, Start(p) \/ Step(p) \/ Crash(p),
         manifest' # manifest
  PROVE  AppendManifest(p) \/ ReplaceManifest(p)
<1>1. ~Start(p)
  BY DEF Start, BeginAppend, BeginReplace, BeginUpsert, BeginCompact, BeginRead,
         BeginVacuum, BeginOpen, Begin, disk
<1>2. ~Crash(p)
  BY DEF Crash, Raise, disk
<1>3. ~(Glob(p) \/ series_lock(p) \/ series_writer_lock(p) \/ Unlock(p))
  BY DEF Glob, series_lock, series_writer_lock, Unlock, disk
<1>4. ~(ReaderLock(p) \/ ReaderCheck(p) \/ read_all(p) \/ vacuum(p))
  BY DEF ReaderLock, ReaderCheck, read_all, vacuum, Raise, disk
<1>5. ~Recover(p)
  <2>1. ~RecoverAppendManifest(p)
    BY DEF RecoverAppendManifest, Goto, IInv, StoreInv, PhaseInv
  <2>2. ~RollbackManifest(p)
    BY DEF RollbackManifest, Goto, IInv, StoreInv, PhaseInv, RollingBack
  <2> QED BY <2>1, <2>2
          DEF Recover, RecoverAppend, RecoverAppendIndex, RecoverAppendUnlink,
              RecoverReplace, RollbackNew, RollbackIndex, RollbackBackup,
              RollbackUnlink, Raise, disk
<1>6. ~Finish(p)
  BY DEF Finish, FinishOld, FinishPublish, FinishOther, FinishBackup, FinishUnlink
<1>7. AppendSteps(p) => AppendManifest(p)
  BY DEF AppendSteps, append_strictly_newer, AppendJournalWrite, AppendBytes,
         AppendIndex, AppendPublish, AppendUnlink, Plan, Raise, disk
<1>8. ReplaceSteps(p) => ReplaceManifest(p)
  BY DEF ReplaceSteps, replace_all, upsert_closed, compact, replace_all_locked,
         BackupUnlink, BackupLink, ReplaceJournalWrite, ReplaceData, ReplaceIndex,
         Plan, Raise, disk
<1> QED BY <1>1, <1>2, <1>3, <1>4, <1>5, <1>6, <1>7, <1>8 DEF Step

(* Recovery, crashes and maintenance never change what is committed: a     *)
(* crashed writer is completed or undone without a second commit.          *)
THEOREM OnlyOperationsCommit == Spec => CommitOnlyByOperation
<1> DEFINE A == \A p \in Proc :
                  manifest' # manifest /\ pc'[p] # pc[p] =>
                    pc[p] \in {"append_data", "replace_manifest"}
<1>1. IInv /\ [Next]_vars => A
  <2> SUFFICES ASSUME IInv, [Next]_vars, NEW p \in Proc,
                      manifest' # manifest, pc'[p] # pc[p]
               PROVE  pc[p] \in {"append_data", "replace_manifest"}
    OBVIOUS
  <2>1. PICK q \in Proc : Start(q) \/ Step(q) \/ Crash(q)
    BY DEF Next, vars, disk
  <2>2. AppendManifest(q) \/ ReplaceManifest(q)
    BY <2>1, ManifestWriters
  <2>3. pc[q] \in {"append_data", "replace_manifest"} /\ p = q
    BY <2>2 DEF AppendManifest, ReplaceManifest, Goto, IInv, StoreInv, TypeOK
  <2> QED BY <2>3
<1>2. IInv /\ [Next]_vars => [A]_vars
  BY <1>1
<1> QED BY <1>2, Invariance, PTL DEF Spec, CommitOnlyByOperation

(* A process in its shared lock is moved by nobody else. *)
LEMMA OthersResult ==
  ASSUME TypeOK, NEW p \in Proc, NEW q \in Proc, p # q,
         Start(q) \/ Step(q) \/ Crash(q)
  PROVE  result'[p] = result[p]
<1>1. CASE Start(q)
  BY <1>1 DEF Start, BeginAppend, BeginReplace, BeginUpsert, BeginCompact,
         BeginRead, BeginVacuum, BeginOpen, Begin, TypeOK
<1>2. CASE Crash(q)
  BY <1>2 DEF Crash, Raise, Leave, TypeOK
<1>3. CASE Glob(q) \/ series_lock(q) \/ series_writer_lock(q) \/ Unlock(q)
  BY <1>3 DEF Glob, series_lock, series_writer_lock, Unlock, Leave, TypeOK
<1>4. CASE ReaderLock(q) \/ ReaderCheck(q) \/ read_all(q) \/ vacuum(q)
  BY <1>4 DEF ReaderLock, ReaderCheck, read_all, vacuum, Raise, Leave, TypeOK
<1>5. CASE Recover(q)
  BY <1>5 DEF Recover, RecoverAppend, RecoverAppendManifest, RecoverAppendIndex,
         RecoverAppendUnlink, RecoverReplace, RollbackNew, RollbackManifest,
         RollbackIndex, RollbackBackup, RollbackUnlink, Raise, Leave, TypeOK
<1>6. CASE Finish(q)
  BY <1>6 DEF Finish, FinishOld, FinishPublish, FinishOther, FinishBackup,
         FinishUnlink
<1>7. CASE AppendSteps(q)
  BY <1>7 DEF AppendSteps, append_strictly_newer, AppendJournalWrite, AppendBytes,
         AppendManifest, AppendIndex, AppendPublish, AppendUnlink, Plan, Raise,
         Leave, TypeOK
<1>8. CASE ReplaceSteps(q)
  BY <1>8 DEF ReplaceSteps, replace_all, upsert_closed, compact,
         replace_all_locked, BackupUnlink, BackupLink, ReplaceJournalWrite,
         ReplaceData, ReplaceManifest, ReplaceIndex, Plan, Raise, Leave, TypeOK
<1> QED BY <1>1, <1>2, <1>3, <1>4, <1>5, <1>6, <1>7, <1>8 DEF Step

(* At "read" a process can only read or crash. *)
LEMMA ReadingSteps ==
  ASSUME NEW p \in Proc, pc[p] = "read", Start(p) \/ Step(p) \/ Crash(p)
  PROVE  read_all(p) \/ Crash(p)
<1>1. ~Start(p)
  BY DEF Start, BeginAppend, BeginReplace, BeginUpsert, BeginCompact, BeginRead,
         BeginVacuum, BeginOpen, Begin, Goto
<1>2. ~(Glob(p) \/ series_lock(p) \/ series_writer_lock(p) \/ Unlock(p))
  BY DEF Glob, series_lock, series_writer_lock, Unlock, Goto
<1>3. ~(ReaderLock(p) \/ ReaderCheck(p) \/ vacuum(p))
  BY DEF ReaderLock, ReaderCheck, vacuum, Goto
<1>4. ~Recover(p) /\ ~Finish(p)
  BY DEF Recover, RecoverAppend, RecoverAppendManifest, RecoverAppendIndex,
         RecoverAppendUnlink, RecoverReplace, RollbackNew, RollbackManifest,
         RollbackIndex, RollbackBackup, RollbackUnlink, Finish, FinishOld,
         FinishPublish, FinishOther, FinishBackup, FinishUnlink, Goto
<1>5. ~AppendSteps(p) /\ ~ReplaceSteps(p)
  BY DEF AppendSteps, append_strictly_newer, AppendJournalWrite, AppendBytes,
         AppendManifest, AppendIndex, AppendPublish, AppendUnlink, ReplaceSteps,
         replace_all, upsert_closed, compact, BackupUnlink, BackupLink,
         ReplaceJournalWrite, ReplaceData, ReplaceManifest, ReplaceIndex, Goto
<1> QED BY <1>1, <1>2, <1>3, <1>4, <1>5 DEF Step

(* A read that succeeds returns exactly the committed rows. *)
THEOREM ReadsAreAtomic == Spec => ReadsReturnCommitted
<1> DEFINE A == \A p \in Proc :
                  pc[p] = "read" /\ result'[p].status = "ok" =>
                    result'[p].rows = RowsOf(manifest)
<1>1. IInv /\ Next => A
  <2> SUFFICES ASSUME IInv, Next, NEW p \in Proc, pc[p] = "read",
                      result'[p].status = "ok"
               PROVE  result'[p].rows = RowsOf(manifest)
    OBVIOUS
  <2>1. PICK q \in Proc : Start(q) \/ Step(q) \/ Crash(q)
    BY DEF Next
  <2>2. result[p].status = "none"
    BY DEF IInv, StoreInv, ResultInv
  <2>3. p = q
    BY <2>1, <2>2, OthersResult DEF IInv, StoreInv
  <2>4. ~Crash(p)
    BY DEF Crash, Raise, Leave, IInv, StoreInv, TypeOK
  <2>5. read_all(p)
    BY <2>1, <2>3, <2>4, ReadingSteps
  <2>6. NoJournal
    BY DEF IInv, StoreInv, PhaseInv
  <2>7. Leave(p, "ok", RowsOf(manifest))
    BY <2>5, <2>6, QuietIsReadable DEF read_all, IInv
  <2> QED BY <2>7 DEF Leave, IInv, StoreInv, TypeOK
<1>2. IInv /\ [Next]_vars => [A]_vars
  BY <1>1
<1> QED BY <1>2, Invariance, PTL DEF Spec, ReadsReturnCommitted

-----------------------------------------------------------------------------
(* The refinement of CommittedSeries. *)

(* The atomic series and the store mean the same by a merge and a tail. *)
LEMMA SameOperators ==
  /\ \A in, rows : Abstract!Fresh(in, rows) = Fresh(in, rows)
  /\ \A rows, b : Abstract!Merged(rows, b) = Merged(rows, b)
  /\ \A rows, b : Abstract!Conflicts(rows, b) <=> Conflicts(rows, b)
  /\ Abstract!Rows = Rows
<1>1. \A in, rows : Abstract!Fresh(in, rows) = Fresh(in, rows)
  BY DEF Abstract!Fresh, Fresh, Abstract!Last, Last
<1>2. \A rows, b : Abstract!Merged(rows, b) = Merged(rows, b)
  BY DEF Abstract!Merged, Merged, Abstract!HasTime, HasTime, Abstract!InsertAt,
         InsertAt, Abstract!Cardinality, Cardinality, Abstract!IsFiniteSet,
         IsFiniteSet
<1>3. \A rows, b : Abstract!Conflicts(rows, b) <=> Conflicts(rows, b)
  BY DEF Abstract!Conflicts, Conflicts
<1>4. Abstract!Rows = Rows
  BY DEF Abstract!Rows, Rows, Abstract!Bar, Bar
<1> QED BY <1>1, <1>2, <1>3, <1>4

(* The rows of the atomic series are those of the manifest. *)
LEMMA CurrentRows ==
  ASSUME TypeOK
  PROVE  Abstract!Current = RowsOf(manifest)
BY AbstractNilAssumption DEF Abstract!Current, RowsOf, TypeOK, Manifest

(* What a call writes, by its operation. *)
LEMMA Effects ==
  ASSUME NEW c, NEW cur
  PROVE  /\ c.op = "append" => Abstract!Effect(c, cur) = cur \o Fresh(c.rows, cur)
         /\ c.op = "replace" => Abstract!Effect(c, cur) = c.rows
         /\ c.op = "upsert" => Abstract!Effect(c, cur) = Merged(cur, c.rows[1])
         /\ c.op \in {"compact", "read", "other"} => Abstract!Effect(c, cur) = cur
BY SameOperators DEF Abstract!Effect

(* A call that is not a plain write is allowed whatever is stored. *)
LEMMA AllowedCalls ==
  ASSUME NEW c, NEW cur
  PROVE  /\ c.op \in {"replace", "compact"} => Abstract!Allowed(c, cur)
         /\ c.op = "upsert" /\ ~Conflicts(cur, c.rows[1]) => Abstract!Allowed(c, cur)
         /\ c.op = "append" /\ (cur # <<>> /\ c.rows # <<>> =>
               c.rows[1].t > Last(cur).t \/ c.rows[1] = Last(cur))
              => Abstract!Allowed(c, cur)
BY SameOperators DEF Abstract!Allowed, Abstract!Last, Last

(* What the mapping shows of a process depends on its own state only. *)
LEMMA CallFrame ==
  ASSUME NEW q \in Proc, pc'[q] = pc[q], job'[q] = job[q], result'[q] = result[q]
  PROVE  /\ AbstractCall(q)' = AbstractCall(q)
         /\ Committed(q)' <=> Committed(q)
         /\ CallInv(q) /\ manifest' = manifest => CallInv(q)'
<1>1. AbstractCall(q)' = AbstractCall(q)
  BY DEF AbstractCall
<1>2. Committed(q)' <=> Committed(q)
  BY DEF Committed
<1>3. CallInv(q) /\ manifest' = manifest => CallInv(q)'
  BY <1>1 DEF CallInv, RowsOf
<1> QED BY <1>1, <1>2, <1>3

(* Committed(q) is a truth value. *)
LEMMA SameTruth ==
  ASSUME NEW q, Committed(q)' <=> Committed(q)
  PROVE  Committed(q)' = Committed(q)
<1>1. CASE Committed(q)
  <2>1. Committed(q) = TRUE
    BY <1>1 DEF Committed
  <2>2. Committed(q)' = TRUE
    BY <1>1 DEF Committed
  <2> QED BY <2>1, <2>2
<1>2. CASE ~Committed(q)
  <2>1. Committed(q) = FALSE
    BY <1>2 DEF Committed
  <2>2. Committed(q)' = FALSE
    BY <1>2 DEF Committed
  <2> QED BY <2>1, <2>2
<1> QED BY <1>1, <1>2

(* A step the mapping hides changes nothing of the atomic series. *)
LEMMA HiddenStep ==
  ASSUME manifest' = manifest, result' = result,
         \A q \in Proc : AbstractCall(q)' = AbstractCall(q),
         \A q \in Proc : Committed(q)' <=> Committed(q)
  PROVE  UNCHANGED Abstract!vars
<1>1. [q \in Proc |-> AbstractCall(q)]' = [q \in Proc |-> AbstractCall(q)]
  <2>1. [q \in Proc |-> AbstractCall(q)'] = [q \in Proc |-> AbstractCall(q)]
    OBVIOUS
  <2> QED BY <2>1
<1>2. [q \in Proc |-> Committed(q)]' = [q \in Proc |-> Committed(q)]
  <2>1. ASSUME NEW q \in Proc PROVE Committed(q)' = Committed(q)
    <3>1. Committed(q)' <=> Committed(q)
      OBVIOUS
    <3> QED BY <3>1, SameTruth
  <2>2. [q \in Proc |-> Committed(q)'] = [q \in Proc |-> Committed(q)]
    BY <2>1
  <2> QED BY <2>2
<1> QED BY <1>1, <1>2 DEF Abstract!vars

(* A step that moves the call p along without committing or returning. *)
LEMMA MoveCall ==
  ASSUME IInv, CInv, NEW p \in Proc, NEW to,
         pc' = [pc EXCEPT ![p] = to], pc[p] # "idle",
         UNCHANGED <<manifest, job, result>>,
         \/ /\ job[p].new = Nil /\ to \notin PlannedPCs
            /\ to = "unlock" =>
                 \/ job[p].op \notin Writes
                 \/ RowsOf(manifest) = Abstract!Effect(AbstractCall(p), RowsOf(manifest))
         \/ job[p].new # Nil /\ pc[p] \in PlannedPCs /\ to \in PlannedPCs
         \/ job[p].new # Nil /\ pc[p] \in CommittedPCs /\ to \in CommittedPCs
  PROVE  CInv' /\ UNCHANGED Abstract!vars
<1>0. pc'[p] = to /\ \A q \in Proc : q # p => pc'[q] = pc[q]
  BY DEF IInv, StoreInv, TypeOK
<1>1. \A q \in Proc : AbstractCall(q)' = AbstractCall(q)
  BY DEF AbstractCall
<1>2. \A q \in Proc : Committed(q)' <=> Committed(q)
  BY <1>0 DEF Committed, PlannedPCs, CommittedPCs
<1>3. ASSUME NEW q \in Proc, q # p PROVE CallInv(q)'
  BY <1>0, <1>3, CallFrame DEF CInv
<1>4. CallInv(p)'
  <2>1. CallInv(p) /\ RowsOf(manifest)' = RowsOf(manifest)
    BY DEF CInv, RowsOf
  <2>2. (pc[p] = "unlock" /\ job[p].new = Nil =>
           RowsOf(manifest) = Abstract!Effect(AbstractCall(p), RowsOf(manifest)))'
    <3>1. SUFFICES ASSUME to = "unlock", job[p].new = Nil
                   PROVE  RowsOf(manifest) =
                            Abstract!Effect(AbstractCall(p), RowsOf(manifest))
      BY <1>0, <1>1, <2>1
    <3>2. SUFFICES ASSUME job[p].op \notin Writes
                   PROVE  RowsOf(manifest) =
                            Abstract!Effect(AbstractCall(p), RowsOf(manifest))
      BY <3>1
    <3>3. job[p].op \in OpNames /\ job[p].op # "none"
      BY DEF IInv, StoreInv, TypeOK, Job, JobInv
    <3>4. AbstractCall(p).op \in {"read", "other"}
      BY <3>2, <3>3 DEF AbstractCall
    <3> QED BY <3>4, Effects
  <2> QED BY <1>0, <1>1, <2>1, <2>2 DEF CallInv, PlannedPCs, CommittedPCs
<1>5. CInv'
  BY <1>3, <1>4 DEF CInv
<1> QED BY <1>1, <1>2, <1>5, HiddenStep

(* How the functions of the mapping change at one process: in a call, ... *)
LEMMA CallAt ==
  ASSUME NEW p \in Proc,
         \A q \in Proc : q # p => AbstractCall(q)' = AbstractCall(q)
  PROVE  [q \in Proc |-> AbstractCall(q)]' =
           [[q \in Proc |-> AbstractCall(q)] EXCEPT ![p] = AbstractCall(p)']
<1>1. [q \in Proc |-> AbstractCall(q)'] =
        [[q \in Proc |-> AbstractCall(q)] EXCEPT ![p] = AbstractCall(p)']
  OBVIOUS
<1> QED BY <1>1

(* ... when a call takes effect or is over, ... *)
LEMMA DoneAt ==
  ASSUME NEW p \in Proc, NEW v, Committed(p)' = v,
         \A q \in Proc : q # p => (Committed(q)' <=> Committed(q))
  PROVE  [q \in Proc |-> Committed(q)]' =
           [[q \in Proc |-> Committed(q)] EXCEPT ![p] = v]
<1>1. ASSUME NEW q \in Proc, q # p PROVE Committed(q)' = Committed(q)
  <2>1. Committed(q)' <=> Committed(q)
    BY <1>1
  <2> QED BY <2>1, SameTruth
<1>2. [q \in Proc |-> Committed(q)'] =
        [[q \in Proc |-> Committed(q)] EXCEPT ![p] = v]
  BY <1>1
<1> QED BY <1>2

(* ... and when a result is recorded. *)
LEMMA ResultAt ==
  ASSUME NEW p \in Proc, NEW ok, (result'[p].status = "ok") = ok,
         \A q \in Proc : q # p => result'[q] = result[q]
  PROVE  /\ [q \in Proc |-> result[q].status = "ok"]' =
              [[q \in Proc |-> result[q].status = "ok"] EXCEPT ![p] = ok]
         /\ [q \in Proc |-> result[q].rows]' =
              [[q \in Proc |-> result[q].rows] EXCEPT ![p] = result'[p].rows]
<1>1. ASSUME NEW q \in Proc, q # p
      PROVE  (result'[q].status = "ok") = (result[q].status = "ok")
  BY <1>1
<1>2. [q \in Proc |-> result'[q].status = "ok"] =
        [[q \in Proc |-> result[q].status = "ok"] EXCEPT ![p] = ok]
  BY <1>1
<1>3. [q \in Proc |-> result'[q].rows] =
        [[q \in Proc |-> result[q].rows] EXCEPT ![p] = result'[p].rows]
  OBVIOUS
<1> QED BY <1>2, <1>3

(* The call p makes is a call of the atomic series. *)
LEMMA CallType ==
  ASSUME TypeOK, NEW p \in Proc, job[p].op # "none"
  PROVE  AbstractCall(p) \in Abstract!Call /\ AbstractCall(p) # Nil
<1>1. job[p].op \in OpNames /\ job[p].rows \in Rows
  BY DEF TypeOK, Job
<1>2. AbstractCall(p) \in Abstract!Call
  BY <1>1, SameOperators DEF AbstractCall, Abstract!Call, Writes, OpNames
<1> QED BY <1>2, AbstractNilAssumption

(* A step of p leaves the other calls alone. *)
LEMMA OtherCalls ==
  ASSUME CInv, NEW p \in Proc, manifest' = manifest,
         \A q \in Proc : q # p =>
           pc'[q] = pc[q] /\ job'[q] = job[q] /\ result'[q] = result[q]
  PROVE  /\ \A q \in Proc : q # p => AbstractCall(q)' = AbstractCall(q)
         /\ \A q \in Proc : q # p => (Committed(q)' <=> Committed(q))
         /\ \A q \in Proc : q # p => CallInv(q)'
<1>1. ASSUME NEW q \in Proc, q # p PROVE AbstractCall(q)' = AbstractCall(q)
  BY <1>1, CallFrame
<1>2. ASSUME NEW q \in Proc, q # p PROVE Committed(q)' <=> Committed(q)
  BY <1>2, CallFrame
<1>3. ASSUME NEW q \in Proc, q # p PROVE CallInv(q)'
  BY <1>3, CallFrame DEF CInv
<1> QED BY <1>1, <1>2, <1>3

(* The end of a call, however it ends, is a Return of the atomic series. *)
LEMMA ReturnCall ==
  ASSUME IInv, CInv, NEW p \in Proc, NEW status, NEW rows, pc[p] # "idle",
         Leave(p, status, rows), manifest' = manifest,
         \/ status # "ok" /\ rows = <<>>
         \/ /\ status = "ok"
            /\ \/ Committed(p)
               \/ Abstract!Effect(AbstractCall(p), RowsOf(manifest)) = RowsOf(manifest)
            /\ rows = IF AbstractCall(p).op = "read" THEN RowsOf(manifest) ELSE <<>>
  PROVE  CInv' /\ Abstract!Return(p)
<1>0. /\ pc'[p] = "idle" /\ job'[p] = Idle
      /\ result'[p] = [status |-> status, rows |-> rows]
      /\ \A q \in Proc : q # p => /\ pc'[q] = pc[q] /\ job'[q] = job[q]
                                 /\ result'[q] = result[q]
  BY DEF Leave, IInv, StoreInv, TypeOK
<1>1. /\ \A q \in Proc : q # p => AbstractCall(q)' = AbstractCall(q)
      /\ \A q \in Proc : q # p => (Committed(q)' <=> Committed(q))
      /\ \A q \in Proc : q # p => CallInv(q)'
  BY <1>0, OtherCalls
<1>2. job'[p].op = "none" /\ job'[p].new = Nil
  BY <1>0 DEF Idle
<1>3. AbstractCall(p)' = Nil
  BY <1>2 DEF AbstractCall
<1>4. Committed(p)' = FALSE
  BY <1>2 DEF Committed
<1>5. CInv'
  <2>1. CallInv(p)'
    BY <1>0, <1>2 DEF CallInv, PlannedPCs
  <2> QED BY <1>1, <2>1 DEF CInv
<1>6. AbstractCall(p) # Nil
  BY CallType DEF IInv, StoreInv, JobInv
<1>7. [q \in Proc |-> AbstractCall(q)]' =
        [[q \in Proc |-> AbstractCall(q)] EXCEPT ![p] = Nil]
  <2>1. [q \in Proc |-> AbstractCall(q)]' =
          [[q \in Proc |-> AbstractCall(q)] EXCEPT ![p] = AbstractCall(p)']
    BY <1>1, CallAt
  <2> QED BY <1>3, <2>1
<1>8. [q \in Proc |-> Committed(q)]' =
        [[q \in Proc |-> Committed(q)] EXCEPT ![p] = FALSE]
  BY <1>1, <1>4, DoneAt
<1>9. Abstract!Current = RowsOf(manifest)
  BY CurrentRows DEF IInv, StoreInv
<1>10. CASE status # "ok" /\ rows = <<>>
  <2>1. result[p].status = "none" /\ result[p].rows = <<>>
    BY DEF CInv, CallInv
  <2>2. /\ (result'[p].status = "ok") = FALSE
        /\ (result[p].status = "ok") = FALSE
        /\ result'[p].rows = result[p].rows
    BY <1>0, <1>10, <2>1
  <2>3. [q \in Proc |-> result[q].status = "ok"]' =
          [q \in Proc |-> result[q].status = "ok"]
    <3>1. \A q \in Proc : (result'[q].status = "ok") = (result[q].status = "ok")
      BY <1>0, <2>2
    <3>2. [q \in Proc |-> result'[q].status = "ok"] =
            [q \in Proc |-> result[q].status = "ok"]
      BY <3>1
    <3> QED BY <3>2
  <2>4. [q \in Proc |-> result[q].rows]' = [q \in Proc |-> result[q].rows]
    <3>1. [q \in Proc |-> result'[q].rows] = [q \in Proc |-> result[q].rows]
      BY <1>0, <2>2
    <3> QED BY <3>1
  <2> QED BY <1>5, <1>6, <1>7, <1>8, <2>3, <2>4 DEF Abstract!Return
<1>11. CASE /\ status = "ok"
            /\ \/ Committed(p)
               \/ Abstract!Effect(AbstractCall(p), RowsOf(manifest)) = RowsOf(manifest)
            /\ rows = IF AbstractCall(p).op = "read" THEN RowsOf(manifest) ELSE <<>>
  <2>1. (result'[p].status = "ok") = TRUE /\ result'[p].rows = rows
    BY <1>0, <1>11
  <2>2. /\ [q \in Proc |-> result[q].status = "ok"]' =
             [[q \in Proc |-> result[q].status = "ok"] EXCEPT ![p] = TRUE]
        /\ [q \in Proc |-> result[q].rows]' =
             [[q \in Proc |-> result[q].rows] EXCEPT ![p] = rows]
    BY <1>0, <2>1, ResultAt
  <2> QED BY <1>5, <1>6, <1>7, <1>8, <1>9, <1>11, <2>2 DEF Abstract!Return
<1> QED BY <1>10, <1>11

(* The start of a call is an Invoke of the atomic series. *)
LEMMA InvokeCall ==
  ASSUME IInv, CInv, NEW p \in Proc, NEW j \in Job, j.op # "none", j.new = Nil,
         NEW to \in {"flock_ex", "flock_sh", "glob"}, Begin(p, j, to)
  PROVE  CInv' /\ Abstract!Invoke(p)
<1>0. /\ pc[p] = "idle" /\ pc'[p] = to /\ job'[p] = j /\ manifest' = manifest
      /\ result'[p] = [status |-> "none", rows |-> <<>>]
      /\ \A q \in Proc : q # p => /\ pc'[q] = pc[q] /\ job'[q] = job[q]
                                 /\ result'[q] = result[q]
  BY DEF Begin, Goto, disk, IInv, StoreInv, TypeOK
<1>1. /\ \A q \in Proc : q # p => AbstractCall(q)' = AbstractCall(q)
      /\ \A q \in Proc : q # p => (Committed(q)' <=> Committed(q))
      /\ \A q \in Proc : q # p => CallInv(q)'
  BY <1>0, OtherCalls
<1>2. CInv'
  <2>1. CallInv(p)'
    BY <1>0 DEF CallInv, PlannedPCs
  <2> QED BY <1>1, <2>1 DEF CInv
<1>3. AbstractCall(p) = Nil
  BY <1>0 DEF AbstractCall, IInv, StoreInv, JobInv
<1>4. AbstractCall(p)' \in Abstract!Call
  <2>1. j.op \in OpNames /\ j.rows \in Rows
    BY DEF Job
  <2> QED BY <1>0, <2>1, SameOperators
          DEF AbstractCall, Abstract!Call, Writes, OpNames
<1>5. [q \in Proc |-> AbstractCall(q)]' =
        [[q \in Proc |-> AbstractCall(q)] EXCEPT ![p] = AbstractCall(p)']
  BY <1>1, CallAt
<1>6. [q \in Proc |-> Committed(q)]' = [q \in Proc |-> Committed(q)]
  <2>1. ASSUME NEW q \in Proc PROVE Committed(q)' <=> Committed(q)
    <3>1. CASE q = p
      BY <1>0, <3>1 DEF Committed, CommittedPCs
    <3> QED BY <1>1, <3>1
  <2>2. ASSUME NEW q \in Proc PROVE Committed(q)' = Committed(q)
    <3>1. Committed(q)' <=> Committed(q)
      BY <2>1
    <3> QED BY <3>1, SameTruth
  <2>3. [q \in Proc |-> Committed(q)'] = [q \in Proc |-> Committed(q)]
    BY <2>2
  <2> QED BY <2>3
<1>7. /\ [q \in Proc |-> result[q].status = "ok"]' =
           [[q \in Proc |-> result[q].status = "ok"] EXCEPT ![p] = FALSE]
      /\ [q \in Proc |-> result[q].rows]' =
           [[q \in Proc |-> result[q].rows] EXCEPT ![p] = <<>>]
  <2>1. (result'[p].status = "ok") = FALSE /\ result'[p].rows = <<>>
    BY <1>0
  <2> QED BY <1>0, <2>1, ResultAt
<1> QED BY <1>0, <1>2, <1>3, <1>4, <1>5, <1>6, <1>7 DEF Abstract!Invoke

(* The write of the manifest is a Commit of the atomic series. *)
LEMMA CommitCall ==
  ASSUME IInv, CInv, NEW p \in Proc, pc[p] \in {"append_data", "replace_manifest"},
         NEW to \in {"append_index", "replace_index"},
         pc' = [pc EXCEPT ![p] = to], manifest' = job[p].new,
         UNCHANGED <<job, result>>
  PROVE  CInv' /\ Abstract!Commit(p)
<1>0. /\ pc'[p] = to
      /\ \A q \in Proc : q # p => pc'[q] = pc[q]
  BY DEF IInv, StoreInv, TypeOK
<1>1. /\ job[p].new # Nil /\ job[p].op \in Writes
      /\ Abstract!Allowed(AbstractCall(p), RowsOf(manifest))
      /\ job[p].new.rows = Abstract!Effect(AbstractCall(p), RowsOf(manifest))
  BY DEF CInv, CallInv, PlannedPCs
<1>2. \A q \in Proc : q # p => pc[q] \notin LockedPCs
  BY NilAssumption DEF IInv, StoreInv, TypeOK, LockInv, LockedPCs
<1>3. CInv'
  <2>1. ASSUME NEW q \in Proc, q # p PROVE CallInv(q)'
    <3>1. CallInv(q) /\ pc[q] \notin PlannedPCs \cup CommittedPCs
      BY <1>2, <2>1 DEF CInv, LockedPCs, PlannedPCs, CommittedPCs
    <3> QED BY <1>0, <2>1, <3>1 DEF CallInv, CommittedPCs
  <2>2. CallInv(p)'
    BY <1>0, <1>1 DEF CInv, CallInv, PlannedPCs, CommittedPCs
  <2> QED BY <2>1, <2>2 DEF CInv
<1>4. [q \in Proc |-> AbstractCall(q)]' = [q \in Proc |-> AbstractCall(q)]
  <2>1. \A q \in Proc : AbstractCall(q)' = AbstractCall(q)
    BY DEF AbstractCall
  <2>2. [q \in Proc |-> AbstractCall(q)'] = [q \in Proc |-> AbstractCall(q)]
    BY <2>1
  <2> QED BY <2>2
<1>5. [q \in Proc |-> Committed(q)]' =
        [[q \in Proc |-> Committed(q)] EXCEPT ![p] = TRUE]
  <2>1. Committed(p)' = TRUE
    BY <1>0, <1>1 DEF Committed, CommittedPCs
  <2>2. \A q \in Proc : q # p => (Committed(q)' <=> Committed(q))
    BY <1>0 DEF Committed
  <2> QED BY <2>1, <2>2, DoneAt
<1>6. ~Committed(p)
  BY DEF Committed, CommittedPCs
<1>7. AbstractCall(p) # Nil /\ AbstractCall(p).op \in Writes
  <2>1. AbstractCall(p) # Nil
    BY <1>1, CallType DEF IInv, StoreInv, Writes
  <2> QED BY <1>1, <2>1 DEF AbstractCall
<1>8. Abstract!Current = RowsOf(manifest)
  BY CurrentRows DEF IInv, StoreInv
<1>9. (IF manifest = Nil THEN Nil ELSE manifest.rows)' =
        Abstract!Effect(AbstractCall(p), Abstract!Current)
  BY <1>1, <1>8
<1>10. /\ [q \in Proc |-> AbstractCall(q)][p] = AbstractCall(p)
       /\ ~[q \in Proc |-> Committed(q)][p]
  BY <1>6
<1>11. UNCHANGED <<[q \in Proc |-> result[q].status = "ok"],
                   [q \in Proc |-> result[q].rows]>>
  OBVIOUS
<1> QED BY <1>1, <1>3, <1>4, <1>5, <1>7, <1>8, <1>9, <1>10, <1>11
        DEF Abstract!Commit, Writes

(* A plan shows nothing yet; what it will commit is the call's effect. *)
LEMMA PlanCall ==
  ASSUME IInv, CInv, NEW p \in Proc, pc[p] \in Writes, NEW new, NEW backup,
         NEW to \in {"begin", "append_journal"}, Plan(p, new, backup, to),
         new # Nil, Abstract!Allowed(AbstractCall(p), RowsOf(manifest)),
         new.rows = Abstract!Effect(AbstractCall(p), RowsOf(manifest))
  PROVE  CInv' /\ UNCHANGED Abstract!vars
<1>0. /\ pc'[p] = to /\ manifest' = manifest /\ result' = result
      /\ job'[p].op = job[p].op /\ job'[p].rows = job[p].rows
      /\ job'[p].new = new
      /\ \A q \in Proc : q # p => pc'[q] = pc[q] /\ job'[q] = job[q]
  BY DEF Plan, IInv, StoreInv, TypeOK, Job
<1>1. /\ \A q \in Proc : q # p => AbstractCall(q)' = AbstractCall(q)
      /\ \A q \in Proc : q # p => (Committed(q)' <=> Committed(q))
      /\ \A q \in Proc : q # p => CallInv(q)'
  BY <1>0, OtherCalls
<1>2. AbstractCall(p)' = AbstractCall(p)
  BY <1>0 DEF AbstractCall
<1>3. ~Committed(p) /\ ~Committed(p)'
  BY <1>0 DEF Committed, CommittedPCs, Writes
<1>4. CallInv(p)'
  <2>1. job[p].op \in Writes /\ pc[p] # "idle"
    BY DEF IInv, StoreInv, JobInv, Writes
  <2>2. RowsOf(manifest)' = RowsOf(manifest)
    BY <1>0 DEF RowsOf
  <2> QED BY <1>0, <1>2, <2>1, <2>2 DEF CInv, CallInv, PlannedPCs, CommittedPCs
<1>5. /\ \A q \in Proc : AbstractCall(q)' = AbstractCall(q)
      /\ \A q \in Proc : Committed(q)' <=> Committed(q)
  BY <1>1, <1>2, <1>3
<1>6. CInv'
  BY <1>1, <1>4 DEF CInv
<1> QED BY <1>0, <1>5, <1>6, HiddenStep

(* SegmentStore.__init__ goes on to the second recovery; nothing shows. *)
LEMMA SwitchCall ==
  ASSUME IInv, CInv, NEW p \in Proc, job[p].op = "open_append",
         pc'[p] = "glob", \A q \in Proc : q # p => pc'[q] = pc[q],
         job' = [job EXCEPT ![p].op = "open_replace"],
         UNCHANGED <<manifest, result>>
  PROVE  CInv' /\ UNCHANGED Abstract!vars
<1>0. /\ job'[p].op = "open_replace" /\ job'[p].rows = job[p].rows
      /\ job'[p].new = job[p].new
      /\ \A q \in Proc : q # p => pc'[q] = pc[q] /\ job'[q] = job[q]
  BY DEF IInv, StoreInv, TypeOK, Job
<1>1. /\ \A q \in Proc : q # p => AbstractCall(q)' = AbstractCall(q)
      /\ \A q \in Proc : q # p => (Committed(q)' <=> Committed(q))
      /\ \A q \in Proc : q # p => CallInv(q)'
  BY <1>0, OtherCalls
<1>2. AbstractCall(p)' = AbstractCall(p)
  BY <1>0 DEF AbstractCall, Writes
<1>3. job[p].new = Nil /\ pc[p] # "idle"
  BY DEF CInv, CallInv, Writes, IInv, StoreInv, JobInv
<1>4. CallInv(p)'
  BY <1>0, <1>3 DEF CInv, CallInv, PlannedPCs
<1>5. /\ \A q \in Proc : AbstractCall(q)' = AbstractCall(q)
      /\ \A q \in Proc : Committed(q)' <=> Committed(q)
  BY <1>0, <1>1, <1>2, <1>3 DEF Committed
<1>6. CInv'
  BY <1>1, <1>4 DEF CInv
<1> QED BY <1>5, <1>6, HiddenStep

(* A call without a plan of its own has written nothing. *)
LEMMA Unplanned ==
  ASSUME CInv, NEW p \in Proc, pc[p] \notin PlannedPCs \cup CommittedPCs
  PROVE  job[p].new = Nil
BY DEF CInv, CallInv

(* A crash or an exception is a Return without a result. *)
LEMMA RaiseReturns ==
  ASSUME IInv, CInv, NEW p \in Proc, NEW status, status # "ok",
         pc[p] # "idle", Raise(p, status)
  PROVE  CInv' /\ Abstract!Return(p)
<1>1. Leave(p, status, <<>>) /\ manifest' = manifest
  BY DEF Raise, disk
<1> QED BY <1>1, ReturnCall

(* Each start is an Invoke. *)
LEMMA StartInvokes ==
  ASSUME IInv, CInv, NEW p \in Proc, Start(p)
  PROVE  CInv' /\ Abstract!Invoke(p)
<1> DEFINE Called == CInv' /\ Abstract!Invoke(p)
<1>1. ASSUME NEW op \in OpNames \ {"none"}, NEW rows \in Rows, NEW f \in Formats,
             NEW to \in {"flock_ex", "flock_sh", "glob"},
             Begin(p, Request(op, rows, f), to)
      PROVE  Called
  <2>1. PICK j : j = Request(op, rows, f)
    OBVIOUS
  <2>2. j \in Job /\ j.op # "none" /\ j.new = Nil
    BY <2>1 DEF Request, Idle, Job
  <2>3. Begin(p, j, to)
    BY <1>1, <2>1
  <2> QED BY <2>2, <2>3, InvokeCall
<1>2. <<>> \in Rows /\ \A b \in Bar : <<b>> \in Rows
  BY DEF Rows
<1>3. /\ \A op \in {"append", "replace", "upsert", "compact", "read", "vacuum",
                    "open_append"} : op \in OpNames \ {"none"}
      /\ "csv" \in Formats
  BY DEF OpNames, Writes, Formats
<1>4. CASE BeginAppend(p)
  BY <1>1, <1>3, <1>4, InputAssumption DEF BeginAppend
<1>5. CASE BeginReplace(p)
  BY <1>1, <1>3, <1>5, InputAssumption DEF BeginReplace
<1>6. CASE BeginUpsert(p)
  BY <1>1, <1>2, <1>3, <1>6, InputAssumption DEF BeginUpsert
<1>7. CASE BeginCompact(p) \/ BeginRead(p) \/ BeginVacuum(p) \/ BeginOpen(p)
  BY <1>1, <1>2, <1>3, <1>7 DEF BeginCompact, BeginRead, BeginVacuum, BeginOpen
<1> QED BY <1>4, <1>5, <1>6, <1>7 DEF Start

(* What a step of p may do to the atomic series. *)
Refined(p) ==
  CInv' /\ (Abstract!Commit(p) \/ Abstract!Return(p) \/ UNCHANGED Abstract!vars)

(* Taking and passing on the lock shows nothing; unlocking returns. *)
LEMMA ControlRefines ==
  ASSUME IInv, CInv, NEW p \in Proc,
         \/ Glob(p) \/ series_lock(p) \/ series_writer_lock(p) \/ Unlock(p)
         \/ ReaderLock(p) \/ ReaderCheck(p) \/ read_all(p) \/ vacuum(p)
  PROVE  Refined(p)
<1> USE DEF Refined
<1>0. job[p].op \in OpNames
  BY DEF IInv, StoreInv, TypeOK, Job
<1>1. ASSUME NEW to, to \notin PlannedPCs,
             to = "unlock" => job[p].op \notin Writes, pc[p] # "idle",
             pc[p] \notin PlannedPCs \cup CommittedPCs,
             pc' = [pc EXCEPT ![p] = to], UNCHANGED <<manifest, job, result>>
      PROVE  Refined(p)
  BY <1>1, Unplanned, MoveCall
<1>2. CASE Glob(p)
  <2>1. pc[p] = "glob" /\ job[p].op \in {"open_append", "open_replace"}
    BY <1>2 DEF Glob, IInv, StoreInv, JobInv
  <2>2. CASE /\ job[p].op = "open_append" /\ ajournal = Nil
             /\ job' = [job EXCEPT ![p].op = "open_replace"]
             /\ UNCHANGED <<disk, locks, pc, result, ops>>
    BY <2>1, <2>2, SwitchCall DEF disk
  <2>3. CASE /\ job[p].op = "open_replace" /\ rjournal = Nil
             /\ Leave(p, "ok", <<>>) /\ UNCHANGED <<disk, ops>>
    <3>1. AbstractCall(p).op = "other"
      BY <2>3 DEF AbstractCall, Writes
    <3>2. Abstract!Effect(AbstractCall(p), RowsOf(manifest)) = RowsOf(manifest)
      BY <3>1, Effects
    <3>3. <<>> = IF AbstractCall(p).op = "read" THEN RowsOf(manifest) ELSE <<>>
      BY <3>1
    <3> QED BY <2>1, <2>3, <3>2, <3>3, ReturnCall DEF disk
  <2>4. CASE Goto(p, "glob", "flock_ex") /\ UNCHANGED <<disk, locks, job, result, ops>>
    BY <1>1, <2>1, <2>4 DEF Goto, disk, PlannedPCs, CommittedPCs
  <2> QED BY <1>2, <2>2, <2>3, <2>4 DEF Glob
<1>3. CASE series_lock(p)
  <2>1. PICK to \in {"vacuum", "recover_append", "recover_replace", "pending"} :
          pc' = [pc EXCEPT ![p] = to]
    BY <1>3 DEF series_lock, Goto
  <2> QED BY <1>1, <1>3, <2>1 DEF series_lock, Goto, disk, PlannedPCs, CommittedPCs
<1>4. CASE series_writer_lock(p)
  <2>1. pc[p] = "pending" /\ job[p].op \in Writes \cup {"read"}
    BY <1>4 DEF series_writer_lock, Goto, IInv, StoreInv, JobInv
  <2>2. PICK to : /\ pc' = [pc EXCEPT ![p] = to]
                  /\ to \in {"recover_append", "recover_replace", "unlock"} \cup Writes
                  /\ to = "unlock" => job[p].op = "read"
    BY <1>4, <2>1 DEF series_writer_lock, Goto, Writes
  <2> QED BY <1>1, <1>4, <2>1, <2>2
          DEF series_writer_lock, disk, PlannedPCs, CommittedPCs, Writes
<1>5. CASE Unlock(p)
  <2>1. pc[p] = "unlock" /\ manifest' = manifest
    BY <1>5 DEF Unlock, disk
  <2>2. CASE job[p].op = "read"
    <3>1. pc' = [pc EXCEPT ![p] = "flock_sh"] /\ UNCHANGED <<job, result>>
      BY <1>5, <2>2 DEF Unlock, Goto
    <3>2. job[p].new = Nil
      BY <2>2 DEF CInv, CallInv, Writes
    <3> QED BY <2>1, <3>1, <3>2, MoveCall DEF PlannedPCs
  <2>3. CASE job[p].op = "open_append"
    <3>1. /\ pc' = [pc EXCEPT ![p] = "glob"] /\ result' = result
          /\ job' = [job EXCEPT ![p].op = "open_replace"]
      BY <1>5, <2>3 DEF Unlock, Goto
    <3>2. pc'[p] = "glob" /\ \A q \in Proc : q # p => pc'[q] = pc[q]
      BY <3>1 DEF IInv, StoreInv, TypeOK
    <3> QED BY <2>1, <2>3, <3>1, <3>2, SwitchCall
  <2>4. CASE job[p].op \notin {"read", "open_append"}
    <3>1. Leave(p, "ok", <<>>)
      BY <1>5, <2>4 DEF Unlock
    <3>2. \/ Committed(p)
          \/ Abstract!Effect(AbstractCall(p), RowsOf(manifest)) = RowsOf(manifest)
      BY <2>1 DEF CInv, CallInv, Committed, CommittedPCs
    <3>3. job[p].op # "none"
      BY <2>1 DEF IInv, StoreInv, JobInv
    <3>4. <<>> = IF AbstractCall(p).op = "read" THEN RowsOf(manifest) ELSE <<>>
      BY <2>4, <3>3 DEF AbstractCall
    <3> QED BY <2>1, <3>1, <3>2, <3>4, ReturnCall
  <2> QED BY <2>2, <2>3, <2>4
<1>6. CASE ReaderLock(p)
  BY <1>1, <1>6 DEF ReaderLock, Goto, disk, PlannedPCs, CommittedPCs
<1>7. CASE ReaderCheck(p)
  <2>1. PICK to \in {"flock_ex", "read"} : pc' = [pc EXCEPT ![p] = to]
    BY <1>7 DEF ReaderCheck, Goto
  <2> QED BY <1>1, <1>7, <2>1 DEF ReaderCheck, disk, PlannedPCs, CommittedPCs
<1>8. CASE read_all(p)
  <2>1. pc[p] = "read" /\ job[p].op = "read" /\ NoJournal
    BY <1>8 DEF read_all, IInv, StoreInv, JobInv, PhaseInv
  <2>2. Leave(p, "ok", RowsOf(manifest)) /\ manifest' = manifest
    BY <1>8, <2>1, QuietIsReadable DEF read_all, IInv
  <2>3. AbstractCall(p).op = "read"
    BY <2>1 DEF AbstractCall
  <2>4. Abstract!Effect(AbstractCall(p), RowsOf(manifest)) = RowsOf(manifest)
    BY <2>3, Effects
  <2>5. PICK rows : rows = RowsOf(manifest)
    OBVIOUS
  <2>6. Leave(p, "ok", rows)
    BY <2>2, <2>5
  <2> QED BY <2>1, <2>2, <2>3, <2>4, <2>5, <2>6, ReturnCall
<1>9. CASE vacuum(p)
  <2>1. pc[p] = "vacuum" /\ job[p].op = "vacuum"
    BY <1>9 DEF vacuum, Goto, IInv, StoreInv, JobInv
  <2> QED BY <1>1, <1>9, <2>1 DEF vacuum, Goto, PlannedPCs, CommittedPCs, Writes
<1> QED BY <1>2, <1>3, <1>4, <1>5, <1>6, <1>7, <1>8, <1>9

(* A recovery changes nothing that is committed. *)
LEMMA RecoveryRefines ==
  ASSUME IInv, CInv, NEW p \in Proc, Recover(p)
  PROVE  Refined(p)
<1> USE DEF Refined
<1>1. ASSUME NEW to \in LockedPCs, to \notin PlannedPCs,
             to = "unlock" => job[p].op \in {"open_append", "open_replace"},
             pc[p] # "idle", pc[p] \notin PlannedPCs \cup CommittedPCs,
             pc' = [pc EXCEPT ![p] = to], UNCHANGED <<manifest, job, result>>
      PROVE  Refined(p)
  BY <1>1, Unplanned, MoveCall DEF Writes
<1>2. CASE manifest' = manifest
  <2>1. \/ \E status : status # "ok" /\ pc[p] # "idle" /\ Raise(p, status)
        \/ /\ pc[p] # "idle" /\ pc[p] \notin PlannedPCs \cup CommittedPCs
           /\ \E to \in LockedPCs \ PlannedPCs :
                 /\ pc' = [pc EXCEPT ![p] = to]
                 /\ to = "unlock" => job[p].op \in {"open_append", "open_replace"}
           /\ UNCHANGED <<job, result>>
    <3>1. CASE RecoverAppend(p)
      BY <3>1 DEF RecoverAppend, Goto, LockedPCs, PlannedPCs, CommittedPCs
    <3>2. CASE RecoverReplace(p)
      BY <3>2 DEF RecoverReplace, Goto, LockedPCs, PlannedPCs, CommittedPCs
    <3>3. CASE RollbackNew(p)
      BY <3>3 DEF RollbackNew, Goto, LockedPCs, PlannedPCs, CommittedPCs
    <3>4. CASE \/ RecoverAppendManifest(p) \/ RecoverAppendIndex(p)
               \/ RollbackManifest(p) \/ RollbackIndex(p) \/ RollbackBackup(p)
      BY <3>4 DEF RecoverAppendManifest, RecoverAppendIndex, RollbackManifest,
             RollbackIndex, RollbackBackup, Goto, LockedPCs, PlannedPCs, CommittedPCs
    <3>5. CASE RecoverAppendUnlink(p) \/ RollbackUnlink(p)
      BY <3>5 DEF RecoverAppendUnlink, RollbackUnlink, AfterRecovery, Goto,
             LockedPCs, PlannedPCs, CommittedPCs
    <3> QED BY <3>1, <3>2, <3>3, <3>4, <3>5 DEF Recover
  <2> QED BY <1>1, <1>2, <2>1, RaiseReturns
<1>3. CASE manifest' # manifest
  <2>1. AppendManifest(p) \/ ReplaceManifest(p)
    BY <1>3, ManifestWriters DEF Step
  <2>2. pc[p] \in {"append_data", "replace_manifest"}
    BY <2>1 DEF AppendManifest, ReplaceManifest, Goto
  <2>3. FALSE
    BY <2>2 DEF Recover, RecoverAppend, RecoverAppendManifest, RecoverAppendIndex,
         RecoverAppendUnlink, RecoverReplace, RollbackNew, RollbackManifest,
         RollbackIndex, RollbackBackup, RollbackUnlink, Goto
  <2> QED BY <2>3
<1> QED BY <1>2, <1>3

(* After the commit nothing more of a call shows until it returns. *)
LEMMA FinishRefines ==
  ASSUME IInv, CInv, NEW p \in Proc, Finish(p)
  PROVE  Refined(p)
<1>1. /\ pc[p] \in CommittedPCs /\ pc[p] # "idle"
      /\ \E to \in CommittedPCs \cup {"pending"} :
           /\ pc' = [pc EXCEPT ![p] = to]
           /\ to = "unlock" /\ job[p].new = Nil => job[p].op \notin Writes
           /\ to = "pending" => job[p].new = Nil
      /\ UNCHANGED <<manifest, job, result>>
  <2>1. CASE FinishOld(p) \/ FinishPublish(p) \/ FinishOther(p) \/ FinishBackup(p)
    BY <2>1 DEF FinishOld, FinishPublish, FinishOther, FinishBackup, Goto, CommittedPCs
  <2>2. CASE FinishUnlink(p)
    <3>1. PICK to : to = IF job[p].new = Nil THEN AfterRecovery(p) ELSE "unlock"
      OBVIOUS
    <3>2. to \in {"unlock", "pending"} /\ pc[p] = "finish_unlink"
      BY <2>2, <3>1 DEF FinishUnlink, AfterRecovery, Goto
    <3>3. /\ to = "unlock" /\ job[p].new = Nil => job[p].op \notin Writes
          /\ to = "pending" => job[p].new = Nil
      BY <3>1 DEF AfterRecovery, Writes
    <3>4. pc' = [pc EXCEPT ![p] = to] /\ UNCHANGED <<manifest, job, result>>
      BY <2>2, <3>1 DEF FinishUnlink, Goto
    <3> QED BY <3>2, <3>3, <3>4 DEF CommittedPCs
  <2> QED BY <2>1, <2>2 DEF Finish
<1>2. PICK to \in CommittedPCs \cup {"pending"} :
           /\ pc' = [pc EXCEPT ![p] = to]
           /\ to = "unlock" /\ job[p].new = Nil => job[p].op \notin Writes
           /\ to = "pending" => job[p].new = Nil
  BY <1>1
<1>3. to \notin PlannedPCs
  BY DEF CommittedPCs, PlannedPCs
<1>4. CInv' /\ UNCHANGED Abstract!vars
  BY <1>1, <1>2, <1>3, MoveCall
<1> QED BY <1>4 DEF Refined

(* The ends of two row sequences have open times that can be compared. *)
LEMMA EndTimes ==
  ASSUME NEW in \in Rows, NEW rows \in Rows, in # <<>>, rows # <<>>
  PROVE  in[1].t \in Nat /\ Last(rows).t \in Nat
<1>1. in \in Seq(Bar) /\ rows \in Seq(Bar)
  BY DEF Rows
<1>2. 1 \in 1..Len(in) /\ Len(rows) \in 1..Len(rows)
  BY <1>1
<1> QED BY <1>2, RowTimes DEF Last

(* A batch that is accepted repeats the stored tail or starts after it. *)
LEMMA AppendAcceptance ==
  ASSUME IInv, NoJournal, manifest # Nil, NEW in \in Rows, AppendVerdict(in) = "ok"
  PROVE  /\ manifest.fmt = "csv"
         /\ in # <<>> =>
              /\ manifest.rows # <<>> /\ in[1].t >= Last(manifest.rows).t
              /\ in[1].t = Last(manifest.rows).t => in[1] = Last(manifest.rows)
<1>1. /\ manifest.fmt = "csv"
      /\ in # <<>> => manifest.rows # <<>> /\ in[1].t >= Last(manifest.rows).t
  BY AppendVerdictFacts DEF IInv
<1>2. Exists("csv") /\ ChecksumValid(dir["csv"], manifest)
  <2>1. QuietDisk("closed")
    BY DEF IInv, StoreInv, DiskInv, NoJournal
  <2> QED BY <1>1, <2>1 DEF QuietDisk, Clean, Holds, ChecksumValid, Formats
<1>3. dir["csv"].rows = manifest.rows
  BY <1>2 DEF ChecksumValid
<1>4. ASSUME in # <<>>, in[1].t = Last(manifest.rows).t
      PROVE  in[1] = Last(manifest.rows)
  <2>1. AppendVerdict(in) =
          IF \/ in[1].t < Last(manifest.rows).t
             \/ in[1].t = Last(manifest.rows).t /\ in[1] # Last(dir["csv"].rows)
            THEN "conflict" ELSE "ok"
    BY <1>1, <1>2, <1>3, <1>4 DEF AppendVerdict
  <2> QED BY <1>3, <1>4, <2>1
<1> QED BY <1>1, <1>4

(* An append plans exactly what the atomic series appends. *)
LEMMA AppendPlans ==
  ASSUME IInv, CInv, NEW p \in Proc, append_strictly_newer(p)
  PROVE  Refined(p)
<1> USE DEF Refined
<1> DEFINE in == job[p].rows
           cur == RowsOf(manifest)
<1>1. pc[p] = "append" /\ job[p].op = "append" /\ NoJournal
  BY DEF append_strictly_newer, IInv, StoreInv, JobInv, PhaseInv
<1>2. AbstractCall(p).op = "append" /\ AbstractCall(p).rows = in
  BY <1>1 DEF AbstractCall, Writes
<1>3. in \in Rows /\ cur \in Rows
  BY RowsOfType DEF IInv, StoreInv, TypeOK, Job
<1>4. Abstract!Effect(AbstractCall(p), cur) = cur \o Fresh(in, cur)
  BY <1>2, Effects
<1>5. job[p].new = Nil
  BY <1>1, Unplanned DEF PlannedPCs, CommittedPCs
<1>6. pc[p] \in Writes
  BY <1>1 DEF Writes
<1>7. CASE \E status : status # "ok" /\ Raise(p, status)
  BY <1>1, <1>7, RaiseReturns
<1>8. CASE manifest = Nil /\ Plan(p, NewManifest("csv", in), FALSE, "begin")
  <2>1. cur = <<>>
    BY <1>8 DEF RowsOf
  <2>2. cur \o Fresh(in, cur) = in
    BY <1>3, <2>1 DEF Fresh, Rows
  <2>3. Abstract!Allowed(AbstractCall(p), cur)
    BY <1>2, <2>1, AllowedCalls
  <2>4. PICK new : new = NewManifest("csv", in)
    OBVIOUS
  <2>5. new # Nil /\ new.rows = in
    <3>1. NewManifest("csv", in) \in Manifest
      BY <1>3, NewManifestType DEF Formats
    <3> QED BY <2>4, <3>1, NilAssumption DEF NewManifest
  <2>6. Plan(p, new, FALSE, "begin")
    BY <1>8, <2>4
  <2> QED BY <1>4, <1>6, <2>2, <2>3, <2>5, <2>6, PlanCall
<1>9. ASSUME manifest # Nil, AppendVerdict(in) = "ok"
      PROVE  /\ Abstract!Allowed(AbstractCall(p), cur)
             /\ Appended(in, manifest).rows = Abstract!Effect(AbstractCall(p), cur)
             /\ Appended(in, manifest) # Nil
  <2>1. cur = manifest.rows
    BY <1>9 DEF RowsOf
  <2>2. /\ manifest.fmt = "csv"
        /\ in # <<>> => /\ manifest.rows # <<>>
                        /\ in[1].t >= Last(manifest.rows).t
                        /\ in[1].t = Last(manifest.rows).t => in[1] = Last(manifest.rows)
    BY <1>1, <1>3, <1>9, AppendAcceptance
  <2>3. cur # <<>> /\ in # <<>> => in[1].t > Last(cur).t \/ in[1] = Last(cur)
    <3>1. cur # <<>> /\ in # <<>> => in[1].t \in Nat /\ Last(cur).t \in Nat
      BY <1>3, EndTimes
    <3> QED BY <2>1, <2>2, <3>1
  <2>4. Appended(in, manifest).rows = cur \o Fresh(in, cur)
    BY <2>1 DEF Appended
  <2>5. Appended(in, manifest) # Nil
    <3>1. Fresh(in, cur) \in Rows
      BY <1>3 DEF Fresh, Rows
    <3>2. Appended(in, manifest) \in Manifest
      BY <1>3, <1>9, <2>1, <3>1 DEF Appended, Manifest, Rows, IInv, StoreInv, TypeOK
    <3> QED BY <3>2, NilAssumption
  <2>6. Abstract!Allowed(AbstractCall(p), cur)
    BY <1>2, <2>3, AllowedCalls
  <2> QED BY <1>4, <2>4, <2>5, <2>6
<1>10. CASE /\ manifest # Nil /\ AppendVerdict(in) = "ok"
            /\ Appended(in, manifest) = manifest
            /\ Goto(p, "append", "unlock")
            /\ UNCHANGED <<disk, locks, job, result, ops>>
  <2>1. cur = manifest.rows
    BY <1>10 DEF RowsOf
  <2>2. cur = Abstract!Effect(AbstractCall(p), cur)
    BY <1>9, <1>10, <2>1
  <2>3. pc' = [pc EXCEPT ![p] = "unlock"] /\ UNCHANGED <<manifest, job, result>>
    BY <1>10 DEF Goto, disk
  <2>4. "unlock" \notin PlannedPCs
    BY DEF PlannedPCs
  <2> QED BY <1>1, <1>5, <2>2, <2>3, <2>4, MoveCall
<1>11. CASE /\ manifest # Nil /\ AppendVerdict(in) = "ok"
            /\ Plan(p, Appended(in, manifest), FALSE, "append_journal")
  <2>1. PICK new : new = Appended(in, manifest)
    OBVIOUS
  <2>2. Plan(p, new, FALSE, "append_journal")
    BY <1>11, <2>1
  <2> QED BY <1>6, <1>9, <1>11, <2>1, <2>2, PlanCall
<1> QED BY <1>7, <1>8, <1>10, <1>11 DEF append_strictly_newer

(* One step of an append. *)
LEMMA AppendRefines ==
  ASSUME IInv, CInv, NEW p \in Proc, AppendSteps(p)
  PROVE  Refined(p)
<1> USE DEF Refined
<1>1. ASSUME NEW to, pc' = [pc EXCEPT ![p] = to], UNCHANGED <<manifest, job, result>>,
             \/ pc[p] \in PlannedPCs /\ to \in PlannedPCs
             \/ pc[p] \in CommittedPCs \ {"unlock"} /\ to \in CommittedPCs /\ job[p].new # Nil
      PROVE  Refined(p)
  <2>1. pc[p] # "idle"
    BY <1>1 DEF PlannedPCs, CommittedPCs
  <2>2. job[p].new # Nil
    BY <1>1 DEF CInv, CallInv
  <2> QED BY <1>1, <2>1, <2>2, MoveCall
<1>2. CASE AppendJournalWrite(p)
  BY <1>1, <1>2 DEF AppendJournalWrite, Goto, PlannedPCs
<1>3. CASE AppendBytes(p)
  <2>1. pc[p] \in PlannedPCs /\ UNCHANGED <<pc, manifest, job, result>>
    BY <1>3 DEF AppendBytes, PlannedPCs
  <2>2. PICK to : to = pc[p]
    OBVIOUS
  <2>3. pc' = [pc EXCEPT ![p] = to]
    BY <2>1, <2>2 DEF IInv, StoreInv, TypeOK
  <2> QED BY <1>1, <2>1, <2>2, <2>3
<1>4. CASE AppendManifest(p)
  BY <1>4, CommitCall DEF AppendManifest, Goto
<1>5. CASE AppendIndex(p) \/ AppendPublish(p) \/ AppendUnlink(p)
  <2>1. /\ pc[p] \in {"append_index", "append_publish", "append_unlink"}
        /\ UNCHANGED <<manifest, job, result>>
    BY <1>5 DEF AppendIndex, AppendPublish, AppendUnlink, Goto
  <2>2. job[p].new # Nil
    BY <2>1, NilAssumption DEF IInv, StoreInv, PhaseInv, TypeOK, AppendJournal
  <2>3. PICK to \in {"append_publish", "append_unlink", "unlock"} :
          pc' = [pc EXCEPT ![p] = to]
    BY <1>5 DEF AppendIndex, AppendPublish, AppendUnlink, Goto
  <2> QED BY <1>1, <2>1, <2>2, <2>3 DEF CommittedPCs
<1> QED BY <1>2, <1>3, <1>4, <1>5, AppendPlans DEF AppendSteps

(* An upsert merges one bar into rows that are stored in order. *)
LEMMA UpsertRows ==
  ASSUME IInv, NEW p \in Proc, pc[p] = "upsert"
  PROVE  Merged(Stored, job[p].rows[1]) \in Rows
<1>1. NoJournal
  BY DEF IInv, StoreInv, PhaseInv
<1>2. Stored \in Rows /\ StrictlyOrdered(Stored)
  <2>1. Stored = RowsOf(manifest)
    BY <1>1, QuietIsReadable DEF IInv
  <2>2. StrictlyOrdered(<<>>)
    BY DEF StrictlyOrdered
  <2> QED BY <2>1, <2>2, RowsOfType DEF RowsOf, IInv, StoreInv, OrderInv
<1>3. job[p].rows[1] \in Bar
  <2>1. job[p].rows \in Seq(Bar) /\ job[p].rows # <<>>
    BY DEF IInv, StoreInv, TypeOK, Job, JobInv, Rows
  <2> QED BY <2>1
<1> QED BY <1>2, <1>3, MergedOrdered

(* replace_all, upsert_closed and compact plan the effect of their call. *)
LEMMA ReplacePlans ==
  ASSUME IInv, CInv, NEW p \in Proc, replace_all(p) \/ upsert_closed(p) \/ compact(p)
  PROVE  Refined(p)
<1> USE DEF Refined
<1> DEFINE cur == RowsOf(manifest)
           b == job[p].rows[1]
<1>1. /\ pc[p] \in Writes /\ job[p].op = pc[p] /\ NoJournal /\ pc[p] # "idle"
      /\ pc[p] \in {"replace", "upsert", "compact"}
  BY DEF replace_all, upsert_closed, compact, IInv, StoreInv, JobInv, PhaseInv, Writes
<1>2. /\ AbstractCall(p).op = job[p].op /\ AbstractCall(p).rows = job[p].rows
  BY <1>1 DEF AbstractCall, Writes
<1>3. Readable /\ Stored = cur
  BY <1>1, QuietIsReadable DEF IInv
<1>4. ASSUME NEW status, status # "ok", Raise(p, status) PROVE Refined(p)
  BY <1>1, <1>4, RaiseReturns
<1>5. ASSUME NEW rows \in Rows, replace_all_locked(p, rows),
             Abstract!Allowed(AbstractCall(p), cur),
             rows = Abstract!Effect(AbstractCall(p), cur)
      PROVE  Refined(p)
  <2>1. PICK new : new = NewManifest(job[p].fmt, rows)
    OBVIOUS
  <2>2. PICK backup : backup = HasOldData
    OBVIOUS
  <2>3. Plan(p, new, backup, "begin")
    BY <1>5, <2>1, <2>2 DEF replace_all_locked
  <2>4. new # Nil /\ new.rows = rows
    <3>1. job[p].fmt \in Formats
      BY DEF IInv, StoreInv, TypeOK, Job
    <3>2. NewManifest(job[p].fmt, rows) \in Manifest
      BY <3>1, NewManifestType
    <3> QED BY <2>1, <3>2, NilAssumption DEF NewManifest
  <2> QED BY <1>1, <1>5, <2>3, <2>4, PlanCall
<1>6. CASE replace_all(p)
  <2>1. pc[p] = "replace" /\ job[p].rows \in Rows
    BY <1>6 DEF replace_all, IInv, StoreInv, TypeOK, Job
  <2>2. /\ Abstract!Allowed(AbstractCall(p), cur)
        /\ job[p].rows = Abstract!Effect(AbstractCall(p), cur)
    BY <1>1, <1>2, <2>1, Effects, AllowedCalls
  <2>3. CASE Raise(p, "rejected")
    BY <1>4, <2>3
  <2>4. CASE replace_all_locked(p, job[p].rows)
    BY <1>5, <2>1, <2>2, <2>4
  <2> QED BY <1>6, <2>3, <2>4 DEF replace_all
<1>7. CASE upsert_closed(p)
  <2>1. pc[p] = "upsert"
    BY <1>7 DEF upsert_closed
  <2>2. CASE Raise(p, "conflict")
    BY <1>4, <2>2
  <2>3. CASE ~Conflicts(Stored, b) /\ replace_all_locked(p, Merged(Stored, b))
    <3>1. PICK rows : rows = Merged(Stored, b)
      OBVIOUS
    <3>2. rows \in Rows
      BY <1>1, <1>3, <2>1, <3>1, UpsertRows
    <3>3. /\ Abstract!Allowed(AbstractCall(p), cur)
          /\ rows = Abstract!Effect(AbstractCall(p), cur)
      BY <1>1, <1>2, <1>3, <2>1, <2>3, <3>1, Effects, AllowedCalls
    <3>4. replace_all_locked(p, rows)
      BY <2>3, <3>1
    <3> QED BY <1>5, <3>2, <3>3, <3>4
  <2> QED BY <1>3, <1>7, <2>2, <2>3 DEF upsert_closed
<1>8. CASE compact(p)
  <2>1. pc[p] = "compact" /\ replace_all_locked(p, Stored)
    BY <1>3, <1>8 DEF compact
  <2>2. PICK rows : rows = Stored
    OBVIOUS
  <2>3. rows \in Rows /\ replace_all_locked(p, rows)
    BY <1>3, <2>1, <2>2, RowsOfType DEF IInv, StoreInv
  <2>4. /\ Abstract!Allowed(AbstractCall(p), cur)
        /\ rows = Abstract!Effect(AbstractCall(p), cur)
    BY <1>1, <1>2, <1>3, <2>1, <2>2, Effects, AllowedCalls
  <2> QED BY <1>5, <2>3, <2>4
<1> QED BY <1>6, <1>7, <1>8

(* One step of a replacement. *)
LEMMA ReplaceRefines ==
  ASSUME IInv, CInv, NEW p \in Proc, ReplaceSteps(p)
  PROVE  Refined(p)
<1> USE DEF Refined
<1>1. CASE \/ BackupUnlink(p) \/ BackupLink(p) \/ ReplaceJournalWrite(p)
           \/ ReplaceData(p)
  <2>1. pc[p] \in PlannedPCs /\ UNCHANGED <<manifest, job, result>>
    BY <1>1 DEF BackupUnlink, BackupLink, ReplaceJournalWrite, ReplaceData, Goto,
           PlannedPCs
  <2>2. PICK to \in {"backup_link", "replace_journal", "replace_data",
                     "replace_manifest"} : pc' = [pc EXCEPT ![p] = to]
    BY <1>1 DEF BackupUnlink, BackupLink, ReplaceJournalWrite, ReplaceData, Goto
  <2>3. job[p].new # Nil /\ pc[p] # "idle" /\ to \in PlannedPCs
    BY <2>1 DEF CInv, CallInv, PlannedPCs
  <2> QED BY <2>1, <2>2, <2>3, MoveCall
<1>2. CASE ReplaceManifest(p)
  BY <1>2, CommitCall DEF ReplaceManifest, Goto
<1>3. CASE ReplaceIndex(p)
  <2>1. /\ pc[p] = "replace_index" /\ pc' = [pc EXCEPT ![p] = "finish_old"]
        /\ UNCHANGED <<manifest, job, result>>
    BY <1>3 DEF ReplaceIndex, Goto
  <2>2. job[p].new # Nil
    BY <2>1, NilAssumption DEF IInv, StoreInv, PhaseInv, TypeOK, ReplaceJournal
  <2> QED BY <2>1, <2>2, MoveCall DEF CommittedPCs
<1> QED BY <1>1, <1>2, <1>3, ReplacePlans DEF ReplaceSteps

(* Every step of the store is a step of the atomic series or changes       *)
(* nothing of it.                                                          *)
LEMMA NextRefines ==
  ASSUME IInv, CInv, [Next]_vars
  PROVE  CInv' /\ [Abstract!Next]_(Abstract!vars)
<1>1. CASE UNCHANGED vars
  <2>1. UNCHANGED <<manifest, pc, job, result>>
    BY <1>1 DEF vars, disk
  <2>2. ASSUME NEW q \in Proc
        PROVE  /\ AbstractCall(q)' = AbstractCall(q)
               /\ Committed(q)' <=> Committed(q)
               /\ CallInv(q)'
    BY <2>1, CallFrame DEF CInv
  <2>3. CInv'
    BY <2>2 DEF CInv
  <2>4. UNCHANGED Abstract!vars
    BY <2>1, <2>2, HiddenStep
  <2> QED BY <2>3, <2>4
<1>2. ASSUME NEW p \in Proc, Start(p) \/ Step(p) \/ Crash(p)
      PROVE  CInv' /\ [Abstract!Next]_(Abstract!vars)
  <2>1. CASE Start(p)
    BY <2>1, StartInvokes DEF Abstract!Next
  <2>2. CASE Crash(p)
    BY <2>2, RaiseReturns DEF Crash, Abstract!Next
  <2>3. CASE Step(p)
    <3>1. Refined(p)
      BY <2>3, ControlRefines, RecoveryRefines, FinishRefines, AppendRefines,
         ReplaceRefines DEF Step
    <3> QED BY <3>1 DEF Refined, Abstract!Next
  <2> QED BY <1>2, <2>1, <2>2, <2>3
<1> QED BY <1>1, <1>2 DEF Next

(* An idle store is an idle atomic series. *)
LEMMA InitRefines == Init => CInv /\ Abstract!Init
<1> SUFFICES ASSUME Init PROVE CInv /\ Abstract!Init
  OBVIOUS
<1>1. TypeOK
  BY InitInv DEF IInv, StoreInv
<1>2. \A p \in Proc : /\ pc[p] = "idle" /\ job[p].op = "none" /\ job[p].new = Nil
                      /\ result[p].status = "none" /\ result[p].rows = <<>>
  BY DEF Init, Idle
<1>3. CInv
  BY <1>2 DEF CInv, CallInv, PlannedPCs
<1>4. (IF manifest = Nil THEN Nil ELSE manifest.rows) \in Abstract!Rows \cup {Nil}
  BY <1>1, SameOperators DEF TypeOK, Manifest
<1>5. [p \in Proc |-> AbstractCall(p)] = [p \in Proc |-> Nil]
  BY <1>2 DEF AbstractCall
<1>6. [p \in Proc |-> Committed(p)] = [p \in Proc |-> FALSE]
  <2>1. \A p \in Proc : Committed(p) = FALSE
    BY <1>2 DEF Committed
  <2> QED BY <2>1
<1>7. [p \in Proc |-> result[p].status = "ok"] = [p \in Proc |-> FALSE]
  <2>1. \A p \in Proc : (result[p].status = "ok") = FALSE
    BY <1>2
  <2> QED BY <2>1
<1>8. [p \in Proc |-> result[p].rows] = [p \in Proc |-> <<>>]
  BY <1>2
<1> QED BY <1>3, <1>4, <1>5, <1>6, <1>7, <1>8 DEF Abstract!Init

(* The journaled store of files implements the series that changes         *)
(* atomically: whatever crashes and however calls interleave, a call takes *)
(* effect at most once, wholly, when it writes the manifest, and what a    *)
(* read returns is the series of one moment.                               *)
THEOREM Refinement == Spec => ImplementsCommittedSeries
<1>1. Init => CInv /\ Abstract!Init
  BY InitRefines
<1>2. IInv /\ CInv /\ [Next]_vars => CInv' /\ [Abstract!Next]_(Abstract!vars)
  BY NextRefines
<1> QED BY <1>1, <1>2, Invariance, PTL DEF Spec, ImplementsCommittedSeries, Abstract!Spec

-----------------------------------------------------------------------------
(* The store that is edited: no stale trust reaches a caller. *)

(* The directory has four names. *)
LEMMA FourNames ==
  Names = {"csv", "parquet", "backup_csv", "backup_parquet"}
BY DEF Names, Formats, Backup

(* What a step does to the files keeps the published generation apart from *)
(* all files but the one it was taken from.                                *)
SourceKept == FormatsApart' /\ LiveInv' /\ (Trustworthy => Trustworthy')

(* A step that touches neither the directory, nor the replacement journal, *)
(* nor the published generation.                                           *)
LEMMA SameSource ==
  ASSUME FormatsApart, LiveInv, UNCHANGED <<dir, integ, rjournal>>
  PROVE  SourceKept
BY DEF SourceKept, FormatsApart, LiveInv, Trustworthy, Described, Linked,
       ReplacingCsv, Exists

(* Removing a name; the CSV file itself only while a replacement is        *)
(* pending.                                                                *)
LEMMA UnlinkSource ==
  ASSUME TypeOK, FormatsApart, LiveInv, UNCHANGED <<integ, rjournal>>,
         NEW n \in Names, Unlink(n),
         n = "csv" /\ rjournal = Nil => ~Exists("csv")
  PROVE  SourceKept
<1>1. \A m \in Names : IF m = n THEN dir'[m] = Nil ELSE dir'[m] = dir[m]
  BY DEF Unlink, TypeOK
<1>2. \A m \in Names : Described(m)' => Described(m) /\ dir'[m] = dir[m]
  BY <1>1 DEF Described, Exists
<1>3. Linked' => Linked
  BY <1>1, FourNames DEF Linked, Exists
<1>4. n # "csv" => (Linked /\ Exists("backup_csv")' => Linked')
  BY <1>1, FourNames DEF Linked, Exists
<1>5. ReplacingCsv' <=> ReplacingCsv
  BY DEF ReplacingCsv
<1>6. FormatsApart'
  BY <1>1, FourNames DEF FormatsApart, Exists
<1>7. LiveInv'
  <2>1. Described("backup_csv")' => Linked' \/ ReplacingCsv'
    <3>1. CASE n = "csv"
      BY <1>2, <1>5, <3>1, FourNames DEF LiveInv, Linked
    <3>2. CASE n # "csv"
      BY <1>2, <1>4, <1>5, <3>2, FourNames DEF LiveInv, Described
    <3> QED BY <3>1, <3>2
  <2> QED BY <1>2, <1>3, <1>5, <2>1 DEF LiveInv
<1>8. Trustworthy => Trustworthy'
  BY <1>2 DEF Trustworthy
<1> QED BY <1>6, <1>7, <1>8 DEF SourceKept

(* A new file has an inode and a modification time of its own.  Only a     *)
(* pending replacement publishes the CSV file.                             *)
LEMMA PublishSource ==
  ASSUME TypeOK, FormatsApart, LiveInv, UNCHANGED <<integ, rjournal>>,
         NEW n \in Names, NEW rows, Publish(n, rows),
         n = "csv" => rjournal # Nil
  PROVE  SourceKept
<1>1. PICK i \in Inodes :
        /\ FreshInode(i)
        /\ dir' = [dir EXCEPT ![n] =
             [ino |-> i, rows |-> rows, torn |-> FALSE, stamp |-> FreshStamp]]
  BY DEF Publish
<1>2. /\ dir'[n].ino = i /\ dir'[n].stamp = FreshStamp
      /\ \A m \in Names \ {n} : dir'[m] = dir[m]
      /\ \A m \in Names : Exists(m) => dir[m].ino # i
  BY <1>1 DEF TypeOK, FreshInode
<1>3. \A m \in Names : Described(m)' => m # n /\ Described(m) /\ dir'[m] = dir[m]
  BY <1>2, FreshStampType DEF Described, Exists
<1>4. n \in {"csv", "backup_csv"} => ~Linked'
  BY <1>2, FourNames DEF Linked, Exists
<1>5. n \notin {"csv", "backup_csv"} => (Linked' <=> Linked)
  BY <1>2, FourNames DEF Linked, Exists
<1>6. ReplacingCsv' <=> ReplacingCsv
  BY DEF ReplacingCsv
<1>7. FormatsApart'
  BY <1>2, FourNames DEF FormatsApart, Exists
<1>8. LiveInv'
  <2>1. Described("backup_csv")' => Linked' \/ ReplacingCsv'
    BY <1>3, <1>5, <1>6, FourNames DEF LiveInv
  <2>2. rjournal' # Nil /\ ~ReplacingCsv' => ~Linked'
    BY <1>4, <1>5, <1>6 DEF LiveInv
  <2>3. \A m \in Names : Described(m)' => m \in {"csv", "backup_csv"}
    BY <1>3 DEF LiveInv
  <2> QED BY <2>1, <2>2, <2>3 DEF LiveInv
<1>9. Trustworthy => Trustworthy'
  BY <1>3 DEF Trustworthy
<1> QED BY <1>7, <1>8, <1>9 DEF SourceKept

(* The backup becomes a second name of its data file. *)
LEMMA LinkSource ==
  ASSUME TypeOK, FormatsApart, LiveInv, UNCHANGED <<integ, rjournal>>,
         rjournal = Nil, NEW f \in Formats, Exists(f),
         dir' = [dir EXCEPT ![Backup[f]] = dir[f]]
  PROVE  SourceKept
<1>1. dir'[Backup[f]] = dir[f] /\ \A m \in Names \ {Backup[f]} : dir'[m] = dir[m]
  BY NameFacts DEF TypeOK
<1>2. CASE f = "csv"
  <2>1. dir'["backup_csv"] = dir["csv"] /\ dir'["csv"] = dir["csv"]
        /\ dir'["parquet"] = dir["parquet"]
        /\ dir'["backup_parquet"] = dir["backup_parquet"]
    BY <1>1, <1>2, FourNames DEF Backup
  <2>2. FormatsApart'
    BY <2>1 DEF FormatsApart, Exists
  <2>3. \A m \in Names : Described(m)' =>
          \E k \in Names : /\ Described(k) /\ dir'[m] = dir[k]
                           /\ m # "backup_csv" => k = m
    BY <2>1, FourNames DEF Described, Exists
  <2>4. Linked' /\ rjournal' = Nil
    BY <1>2, <2>1 DEF Linked, Exists
  <2>5. \A m \in Names : Described(m)' => m \in {"csv", "backup_csv"}
    BY <2>3 DEF LiveInv
  <2>6. LiveInv'
    BY <2>4, <2>5 DEF LiveInv
  <2> QED BY <2>2, <2>3, <2>6 DEF SourceKept, Trustworthy
<1>3. CASE f = "parquet"
  <2>1. dir'["backup_parquet"] = dir["parquet"] /\ dir'["csv"] = dir["csv"]
        /\ dir'["parquet"] = dir["parquet"] /\ dir'["backup_csv"] = dir["backup_csv"]
    BY <1>1, <1>3, FourNames DEF Backup
  <2>2. FormatsApart'
    BY <2>1 DEF FormatsApart, Exists
  <2>3. \A m \in Names : Described(m)' =>
          Described(m) /\ dir'[m] = dir[m]
    BY <2>1, FourNames DEF Described, Exists, LiveInv
  <2>4. (Linked' <=> Linked) /\ (ReplacingCsv' <=> ReplacingCsv)
    BY <2>1 DEF Linked, Exists, ReplacingCsv
  <2>5. LiveInv'
    BY <2>3, <2>4, FourNames DEF LiveInv
  <2> QED BY <2>2, <2>3, <2>5 DEF SourceKept, Trustworthy
<1> QED BY <1>2, <1>3 DEF Formats

(* os.replace of the backup onto its data file, during a rollback. *)
LEMMA RenameSource ==
  ASSUME TypeOK, FormatsApart, LiveInv, UNCHANGED <<integ, rjournal>>,
         rjournal # Nil, NEW f \in Formats, f = "csv" => ReplacingCsv,
         Exists(Backup[f]), Rename(Backup[f], f)
  PROVE  SourceKept
<1> DEFINE b == Backup[f]
<1>1. CASE dir' = dir
  BY <1>1, SameSource
<1>2. CASE dir' = [dir EXCEPT ![f] = dir[b], ![b] = Nil]
  <2>1. /\ dir'[f] = dir[b] /\ dir'[b] = Nil
        /\ \A m \in Names \ {f, b} : dir'[m] = dir[m]
    BY <1>2, NameFacts DEF TypeOK
  <2>2. ReplacingCsv' <=> ReplacingCsv
    BY DEF ReplacingCsv
  <2>3. CASE f = "csv"
    <3>1. /\ dir'["csv"] = dir["backup_csv"] /\ dir'["backup_csv"] = Nil
          /\ dir'["parquet"] = dir["parquet"]
          /\ dir'["backup_parquet"] = dir["backup_parquet"]
      BY <2>1, <2>3, FourNames DEF Backup
    <3>2. FormatsApart'
      BY <3>1 DEF FormatsApart, Exists
    <3>3. \A m \in Names : Described(m)' =>
            \E k \in Names : /\ Described(k) /\ dir'[m] = dir[k]
                             /\ m # "csv" => k = m
      BY <3>1, FourNames DEF Described, Exists
    <3>4. \A m \in Names : Described(m)' => m \in {"csv", "backup_csv"}
      BY <3>3 DEF LiveInv
    <3>5. LiveInv'
      BY <2>2, <2>3, <3>4 DEF LiveInv
    <3> QED BY <3>2, <3>3, <3>5 DEF SourceKept, Trustworthy
  <2>4. CASE f = "parquet"
    <3>1. /\ dir'["parquet"] = dir["backup_parquet"] /\ dir'["backup_parquet"] = Nil
          /\ dir'["csv"] = dir["csv"] /\ dir'["backup_csv"] = dir["backup_csv"]
      BY <2>1, <2>4, FourNames DEF Backup
    <3>2. FormatsApart'
      BY <3>1 DEF FormatsApart, Exists
    <3>3. \A m \in Names : Described(m)' => Described(m) /\ dir'[m] = dir[m]
      BY <3>1, FourNames DEF Described, Exists, LiveInv
    <3>4. Linked' <=> Linked
      BY <3>1 DEF Linked, Exists
    <3>5. LiveInv'
      BY <2>2, <3>3, <3>4, FourNames DEF LiveInv
    <3> QED BY <3>2, <3>3, <3>5 DEF SourceKept, Trustworthy
  <2> QED BY <2>3, <2>4 DEF Formats
<1> QED BY <1>1, <1>2 DEF Rename

(* A write into the live CSV file changes its modification time, and with  *)
(* no replacement pending no other file is described: none is then.        *)
LEMMA WriteSource ==
  ASSUME TypeOK, FormatsApart, LiveInv, UNCHANGED <<integ, rjournal>>,
         rjournal = Nil, Exists("csv"),
         NEW rows, NEW torn, WriteInPlace("csv", rows, torn)
  PROVE  SourceKept /\ Trustworthy'
<1>1. ASSUME NEW m \in Names, Exists(m), dir[m].ino = dir["csv"].ino
      PROVE  dir'[m].ino = dir[m].ino /\ dir'[m].stamp = FreshStamp
  BY <1>1 DEF WriteInPlace
<1>2. ASSUME NEW m \in Names, ~(Exists(m) /\ dir[m].ino = dir["csv"].ino)
      PROVE  dir'[m] = dir[m]
  BY <1>2 DEF WriteInPlace
<1>3. ASSUME NEW m \in Names, Described(m)' PROVE FALSE
  <2>1. ~(Exists(m) /\ dir[m].ino = dir["csv"].ino)
    BY <1>1, <1>3, FreshStampType DEF Described
  <2>2. Described(m)
    BY <1>2, <1>3, <2>1 DEF Described, Exists
  <2>3. m \in {"csv", "backup_csv"} /\ (m = "backup_csv" => Linked)
    BY <2>2 DEF LiveInv, ReplacingCsv
  <2> QED BY <2>1, <2>3 DEF Linked
<1>4. FormatsApart'
  <2>1. \A m \in Names : Exists(m)' => Exists(m) /\ dir'[m].ino = dir[m].ino
    BY <1>1, <1>2 DEF Exists
  <2> QED BY <2>1, FourNames DEF FormatsApart
<1>5. LiveInv'
  BY <1>3, FourNames DEF LiveInv
<1>6. Trustworthy'
  BY <1>3 DEF Trustworthy
<1> QED BY <1>4, <1>5, <1>6 DEF SourceKept

(* Publishing the generation of the live CSV file. *)
LEMMA PublishedSource ==
  ASSUME TypeOK, LinkInv, FormatsApart, LiveInv, UNCHANGED <<dir, rjournal>>,
         Exists("csv"), NEW m \in Manifest, integ' = GenerationOf(dir["csv"], m)
  PROVE  /\ FormatsApart' /\ LiveInv'
         /\ dir["csv"].rows = m.rows => Trustworthy'
<1>1. integ'.ino = dir["csv"].ino /\ integ'.rows = m.rows
  BY DEF GenerationOf
<1>2. ASSUME NEW n \in Names, Described(n)'
      PROVE  /\ n \in {"csv", "backup_csv"} /\ dir'[n] = dir["csv"]
             /\ n = "backup_csv" => Linked
  <2>1. Exists(n) /\ dir[n].ino = dir["csv"].ino
    BY <1>1, <1>2 DEF Described, Exists
  <2>2. n \in {"csv", "backup_csv"}
    BY <2>1, FourNames DEF FormatsApart
  <2>3. dir[n] = dir["csv"]
    BY <2>1, FourNames DEF LinkInv
  <2> QED BY <2>1, <2>2, <2>3 DEF Linked
<1>3. (Linked' <=> Linked) /\ (ReplacingCsv' <=> ReplacingCsv)
  BY DEF Linked, ReplacingCsv, Exists
<1>4. LiveInv'
  BY <1>2, <1>3, FourNames DEF LiveInv
<1>5. FormatsApart'
  BY DEF FormatsApart, Exists
<1>6. dir["csv"].rows = m.rows => Trustworthy'
  BY <1>1, <1>2 DEF Trustworthy
<1> QED BY <1>4, <1>5, <1>6

(* What a read passes on is the manifest's, by checksum or by trust. *)
LEMMA ReadableIsManifest ==
  ASSUME TypeOK, Readable, Trustworthy, manifest # Nil, Exists(manifest.fmt)
  PROVE  dir[manifest.fmt].rows = manifest.rows
<1> DEFINE f == dir[manifest.fmt]
<1>1. CASE ChecksumValid(f, manifest)
  BY <1>1 DEF ChecksumValid
<1>2. CASE manifest.fmt = "csv" /\ Trusted(f, manifest)
  <2>1. manifest \in Manifest /\ f \in File /\ "csv" \in Names
    BY <1>2, FourNames DEF TypeOK, Exists
  <2>2. integ # Nil
    BY <1>2, <2>1, GenerationType, NilAssumption DEF Trusted
  <2>3. integ.ino = f.ino /\ integ.stamp = f.stamp /\ integ.rows = manifest.rows
    BY <1>2 DEF Trusted, GenerationOf
  <2>4. Described("csv")
    BY <1>2, <2>2, <2>3 DEF Described
  <2> QED BY <1>2, <2>1, <2>3, <2>4 DEF Trustworthy
<1> QED BY <1>1, <1>2 DEF Readable

(* So what a read publishes is true. *)
LEMMA ValidatedSource ==
  ASSUME TypeOK, LinkInv, FormatsApart, LiveInv, Readable, PublishIfValidated,
         UNCHANGED <<dir, rjournal>>
  PROVE  SourceKept
<1>1. CASE manifest # Nil /\ manifest.fmt = "csv" /\ Exists("csv")
  <2>1. manifest \in Manifest /\ integ' = GenerationOf(dir["csv"], manifest)
    BY <1>1 DEF PublishIfValidated, TypeOK
  <2>2. Trustworthy => dir["csv"].rows = manifest.rows
    BY <1>1, ReadableIsManifest
  <2> QED BY <1>1, <2>1, <2>2, PublishedSource DEF SourceKept
<1>2. CASE ~(manifest # Nil /\ manifest.fmt = "csv" /\ Exists("csv"))
  <2>1. integ' = integ
    BY <1>2 DEF PublishIfValidated
  <2> QED BY <2>1, SameSource
<1> QED BY <1>1, <1>2

-----------------------------------------------------------------------------
(* What every step of the store keeps while the file may be edited. *)

(* Process p publishes the generation of an operation or a recovery. *)
Publishes(p) ==
  /\ pc[p] \in {"append_publish", "finish_publish"}
  /\ pc'[p] \notin {pc[p], "idle"}

SourceStep(p) ==
  /\ FormatsApart' /\ LiveInv' /\ DroppedInv'
  /\ Trustworthy => Trustworthy' \/ Publishes(p)

UnlinkPCs == {"finish_unlink", "rollback_unlink"}

(* Inside the lock only the process that takes the step could have dropped *)
(* a backup.                                                               *)
LEMMA LockedSource ==
  ASSUME StoreInv("open"), NEW p \in Proc, pc[p] \in LockedPCs,
         SourceKept, NEW l, pc' = [pc EXCEPT ![p] = l],
         l \in UnlinkPCs /\ ReplacingCsv' => ~Exists("backup_csv")'
  PROVE  SourceStep(p)
<1>1. ASSUME NEW q \in Proc, pc'[q] \in UnlinkPCs PROVE q = p /\ l \in UnlinkPCs
  BY <1>1 DEF StoreInv, TypeOK, LockInv, LockedPCs, UnlinkPCs
<1>2. DroppedInv'
  BY <1>1 DEF DroppedInv, UnlinkPCs
<1> QED BY <1>2 DEF SourceStep, SourceKept

(* A step that leaves the files, the replacement journal and the published *)
(* generation alone.                                                       *)
LEMMA QuietSource ==
  ASSUME StoreInv("open"), FormatsApart, LiveInv, DroppedInv, NEW p \in Proc,
         NEW l, l \notin UnlinkPCs, pc' = [pc EXCEPT ![p] = l],
         UNCHANGED <<dir, integ, rjournal>>
  PROVE  SourceStep(p)
<1>1. SourceKept
  BY SameSource
<1>2. \A q \in Proc : pc'[q] \in UnlinkPCs => pc[q] \in UnlinkPCs
  BY DEF StoreInv, TypeOK
<1>3. DroppedInv'
  BY <1>2 DEF DroppedInv, ReplacingCsv, Exists, UnlinkPCs
<1> QED BY <1>1, <1>3 DEF SourceStep, SourceKept

(* Starting, ending and refusing a call, taking and releasing the lock. *)
LEMMA LeaveSource ==
  ASSUME StoreInv("open"), FormatsApart, LiveInv, DroppedInv, NEW p \in Proc,
         NEW status, Raise(p, status)
  PROVE  SourceStep(p)
<1>1. pc' = [pc EXCEPT ![p] = "idle"] /\ UNCHANGED <<dir, integ, rjournal>>
  BY DEF Raise, Leave, disk
<1>2. "idle" \notin UnlinkPCs
  BY DEF UnlinkPCs
<1> QED BY <1>1, <1>2, QuietSource

LEMMA StartSource ==
  ASSUME StoreInv("open"), FormatsApart, LiveInv, DroppedInv, NEW p \in Proc,
         Start(p)
  PROVE  SourceStep(p)
<1>1. ASSUME NEW j, NEW l \in {"flock_ex", "flock_sh", "glob"}, Begin(p, j, l)
      PROVE  SourceStep(p)
  <2>1. pc' = [pc EXCEPT ![p] = l] /\ UNCHANGED <<dir, integ, rjournal>>
    BY <1>1 DEF Begin, Goto, disk
  <2>2. l \notin UnlinkPCs
    BY DEF UnlinkPCs
  <2> QED BY <2>1, <2>2, QuietSource
<1> QED BY <1>1 DEF Start, BeginAppend, BeginReplace, BeginUpsert, BeginCompact,
                    BeginRead, BeginVacuum, BeginOpen

LEMMA ControlSource ==
  ASSUME StoreInv("open"), FormatsApart, LiveInv, DroppedInv, NEW p \in Proc,
         \/ Glob(p) \/ series_lock(p) \/ series_writer_lock(p) \/ Unlock(p)
         \/ ReaderLock(p) \/ ReaderCheck(p)
  PROVE  SourceStep(p)
<1>1. UNCHANGED <<dir, integ, rjournal>>
  BY DEF Glob, series_lock, series_writer_lock, Unlock, ReaderLock, ReaderCheck,
         disk
<1>2. \E l : l \notin UnlinkPCs /\ pc' = [pc EXCEPT ![p] = l]
  <2>1. CASE Glob(p)
    <3>1. pc = [pc EXCEPT ![p] = pc[p]]
      BY DEF StoreInv, TypeOK
    <3> QED BY <2>1, <3>1 DEF Glob, Goto, Leave, UnlinkPCs
  <2>2. CASE series_lock(p)
    BY <2>2 DEF series_lock, Goto, UnlinkPCs
  <2>3. CASE series_writer_lock(p)
    <3>1. job[p].op \in OpNames
      BY DEF StoreInv, TypeOK, Job
    <3> QED BY <2>3, <3>1
            DEF series_writer_lock, Goto, UnlinkPCs, OpNames, Writes
  <2>4. CASE Unlock(p)
    BY <2>4 DEF Unlock, Goto, Leave, UnlinkPCs
  <2>5. CASE ReaderLock(p) \/ ReaderCheck(p)
    BY <2>5 DEF ReaderLock, ReaderCheck, Goto, UnlinkPCs
  <2> QED BY <2>1, <2>2, <2>3, <2>4, <2>5
<1> QED BY <1>1, <1>2, QuietSource

(* The steps that write the manifest, the index or the append journal. *)
LEMMA MetadataSource ==
  ASSUME StoreInv("open"), FormatsApart, LiveInv, DroppedInv, NEW p \in Proc,
         \/ RecoverAppendManifest(p) \/ RecoverAppendIndex(p)
         \/ RecoverAppendUnlink(p) \/ RollbackManifest(p) \/ RollbackIndex(p)
         \/ AppendJournalWrite(p) \/ AppendManifest(p) \/ AppendIndex(p)
         \/ AppendUnlink(p) \/ ReplaceManifest(p) \/ ReplaceIndex(p)
  PROVE  SourceStep(p)
<1>1. UNCHANGED <<dir, integ, rjournal>>
  BY DEF RecoverAppendManifest, RecoverAppendIndex, RecoverAppendUnlink,
         RollbackManifest, RollbackIndex, AppendJournalWrite, AppendManifest,
         AppendIndex, AppendUnlink, ReplaceManifest, ReplaceIndex
<1>2. \E l : l \notin UnlinkPCs /\ pc' = [pc EXCEPT ![p] = l]
  BY DEF RecoverAppendManifest, RecoverAppendIndex, RecoverAppendUnlink,
         RollbackManifest, RollbackIndex, AppendJournalWrite, AppendManifest,
         AppendIndex, AppendUnlink, ReplaceManifest, ReplaceIndex, Goto,
         AfterRecovery, UnlinkPCs
<1> QED BY <1>1, <1>2, QuietSource

(* Planning an append or a replacement of given rows. *)
LEMMA PlanSource ==
  ASSUME StoreInv("open"), FormatsApart, LiveInv, DroppedInv, NEW p \in Proc,
         append_strictly_newer(p) \/ replace_all(p)
  PROVE  SourceStep(p)
<1>1. UNCHANGED <<dir, integ, rjournal>>
  BY DEF append_strictly_newer, replace_all, replace_all_locked, Plan, Raise, disk
<1>2. \E l : l \notin UnlinkPCs /\ pc' = [pc EXCEPT ![p] = l]
  BY DEF append_strictly_newer, replace_all, replace_all_locked, Plan, Raise,
         Leave, Goto, UnlinkPCs
<1> QED BY <1>1, <1>2, QuietSource

(* Reads, merges and compactions publish what they have validated. *)
LEMMA ReadSource ==
  ASSUME StoreInv("open"), FormatsApart, LiveInv, DroppedInv, NEW p \in Proc,
         read_all(p) \/ upsert_closed(p) \/ compact(p)
  PROVE  SourceStep(p)
<1>1. CASE \E status : Raise(p, status)
  BY <1>1, LeaveSource
<1>2. CASE /\ Readable /\ PublishIfValidated /\ UNCHANGED <<dir, rjournal>>
           /\ \E l : l \notin UnlinkPCs /\ pc' = [pc EXCEPT ![p] = l]
  <2>1. SourceKept
    BY <1>2, ValidatedSource DEF StoreInv
  <2>2. \A q \in Proc : pc'[q] \in UnlinkPCs => pc[q] \in UnlinkPCs
    BY <1>2 DEF StoreInv, TypeOK
  <2>3. DroppedInv'
    BY <1>2, <2>2 DEF DroppedInv, ReplacingCsv, Exists, UnlinkPCs
  <2> QED BY <2>1, <2>3 DEF SourceStep, SourceKept
<1> QED BY <1>1, <1>2 DEF read_all, upsert_closed, compact, replace_all_locked,
                          Plan, Leave, UnlinkPCs

(* Recovery of an append truncates the file in place. *)
LEMMA RecoverAppendSource ==
  ASSUME StoreInv("open"), FormatsApart, LiveInv, DroppedInv, NEW p \in Proc,
         RecoverAppend(p)
  PROVE  SourceStep(p)
<1>0. pc[p] = "recover_append"
  BY DEF RecoverAppend
<1>1. CASE \E status : Raise(p, status)
  BY <1>1, LeaveSource
<1>2. CASE /\ Goto(p, "recover_append", "recover_append_unlink")
           /\ UNCHANGED <<dir, integ, rjournal>>
  BY <1>2, QuietSource DEF Goto, UnlinkPCs
<1>3. CASE /\ ajournal # Nil /\ Exists("csv") /\ Truncate("csv", ajournal.before)
           /\ Goto(p, "recover_append", "recover_append_manifest")
           /\ UNCHANGED <<integ, rjournal>>
  <2>1. rjournal = Nil
    BY <1>3, AppendFile
  <2>2. SourceKept
    BY <1>3, <2>1, WriteSource DEF StoreInv, Truncate
  <2> QED BY <1>0, <1>3, <2>2, LockedSource DEF Goto, UnlinkPCs, LockedPCs
<1> QED BY <1>1, <1>2, <1>3 DEF RecoverAppend

(* Recovery of a replacement removes the new file or brings the old back. *)
LEMMA RecoverReplaceSource ==
  ASSUME StoreInv("open"), FormatsApart, LiveInv, DroppedInv, NEW p \in Proc,
         RecoverReplace(p)
  PROVE  SourceStep(p)
<1>0. pc[p] = "recover_replace"
  BY DEF RecoverReplace
<1>1. CASE \E status : Raise(p, status)
  BY <1>1, LeaveSource
<1>2. CASE /\ \E l \in {"finish_old", "rollback_new"} : Goto(p, "recover_replace", l)
           /\ UNCHANGED <<dir, integ, rjournal>>
  BY <1>2, QuietSource DEF Goto, UnlinkPCs
<1>3. CASE /\ rjournal # Nil /\ Unlink(rjournal.new.fmt)
           /\ Goto(p, "recover_replace", "rollback_manifest")
           /\ UNCHANGED <<integ, rjournal>>
  <2>1. rjournal.new.fmt \in Names
    BY <1>3, ReplaceFile, NameFacts
  <2>2. SourceKept
    BY <1>3, <2>1, UnlinkSource DEF StoreInv
  <2> QED BY <1>0, <1>3, <2>2, LockedSource DEF Goto, UnlinkPCs, LockedPCs
<1>4. CASE /\ rjournal # Nil /\ rjournal.old # Nil
           /\ Exists(Backup[rjournal.old.fmt])
           /\ Rename(Backup[rjournal.old.fmt], rjournal.old.fmt)
           /\ Goto(p, "recover_replace", "rollback_new")
           /\ UNCHANGED <<integ, rjournal>>
  <2>1. rjournal.old.fmt \in Formats
    BY <1>4, ReplaceFile
  <2>2. SourceKept
    BY <1>4, <2>1, RenameSource DEF StoreInv, ReplacingCsv
  <2> QED BY <1>0, <1>4, <2>2, LockedSource DEF Goto, UnlinkPCs, LockedPCs
<1> QED BY <1>1, <1>2, <1>3, <1>4 DEF RecoverReplace

(* Removing a file while a replacement is pending. *)
LEMMA PendingUnlinkSource ==
  ASSUME StoreInv("open"), FormatsApart, LiveInv, NEW p \in Proc,
         pc[p] \in LockedPCs, rjournal # Nil, UNCHANGED <<integ, rjournal>>,
         NEW n \in Names, Unlink(n) \/ UNCHANGED dir,
         NEW l, pc' = [pc EXCEPT ![p] = l],
         l \in UnlinkPCs /\ ReplacingCsv => Unlink("backup_csv")
  PROVE  SourceStep(p)
<1>1. SourceKept
  BY UnlinkSource, SameSource DEF StoreInv
<1>2. l \in UnlinkPCs /\ ReplacingCsv' => ~Exists("backup_csv")'
  BY FourNames DEF ReplacingCsv, Unlink, Exists, StoreInv, TypeOK
<1> QED BY <1>1, <1>2, LockedSource

LEMMA RollbackNewSource ==
  ASSUME StoreInv("open"), FormatsApart, LiveInv, DroppedInv, NEW p \in Proc,
         RollbackNew(p)
  PROVE  SourceStep(p)
<1>1. CASE Raise(p, "unrecoverable")
  BY <1>1, LeaveSource
<1>2. CASE /\ Unlink(rjournal.new.fmt) \/ UNCHANGED dir
           /\ Goto(p, "rollback_new", "rollback_manifest")
           /\ UNCHANGED <<integ, rjournal>>
  <2>1. rjournal # Nil
    BY <1>2 DEF StoreInv, PhaseInv, Goto
  <2>2. rjournal.new.fmt \in Names
    BY <2>1, ReplaceFile, NameFacts
  <2> QED BY <1>2, <2>1, <2>2, PendingUnlinkSource DEF Goto, UnlinkPCs, LockedPCs
<1> QED BY <1>1, <1>2 DEF RollbackNew

(* The backup of a replaced or of a restored generation is dropped. *)
LEMMA DropBackupSource ==
  ASSUME StoreInv("open"), FormatsApart, LiveInv, DroppedInv, NEW p \in Proc,
         RollbackBackup(p) \/ FinishBackup(p)
  PROVE  SourceStep(p)
<1>1. /\ rjournal # Nil /\ pc[p] \in LockedPCs /\ UNCHANGED <<integ, rjournal>>
      /\ IF rjournal.backup THEN Unlink(Backup[rjournal.old.fmt])
                            ELSE UNCHANGED dir
      /\ \E l \in UnlinkPCs : pc' = [pc EXCEPT ![p] = l]
  BY DEF RollbackBackup, FinishBackup, Goto, StoreInv, PhaseInv, RollingBack,
         Finishing, LockedPCs, UnlinkPCs
<1>2. CASE rjournal.old = Nil
  <2>1. UNCHANGED dir /\ ~ReplacingCsv
    BY <1>1, <1>2, ReplaceFile DEF ReplacingCsv
  <2>2. "csv" \in Names
    BY FourNames
  <2> QED BY <1>1, <2>1, <2>2, PendingUnlinkSource
<1>3. CASE rjournal.old # Nil
  <2>1. Backup[rjournal.old.fmt] \in Names /\ Unlink(Backup[rjournal.old.fmt])
    BY <1>1, <1>3, ReplaceFile, NameFacts
  <2>2. ReplacingCsv => Unlink("backup_csv")
    BY <2>1 DEF ReplacingCsv, Backup
  <2> QED BY <1>1, <2>1, <2>2, PendingUnlinkSource
<1> QED BY <1>2, <1>3

LEMMA FinishFilesSource ==
  ASSUME StoreInv("open"), FormatsApart, LiveInv, DroppedInv, NEW p \in Proc,
         FinishOld(p) \/ FinishOther(p)
  PROVE  SourceStep(p)
<1>1. /\ rjournal # Nil /\ pc[p] \in LockedPCs /\ UNCHANGED <<integ, rjournal>>
      /\ \/ rjournal.old # Nil /\ Unlink(rjournal.old.fmt)
         \/ Unlink(Other(rjournal.new.fmt)) \/ UNCHANGED dir
      /\ \E l : l \notin UnlinkPCs /\ pc' = [pc EXCEPT ![p] = l]
  BY DEF FinishOld, FinishOther, Goto, StoreInv, PhaseInv, Finishing, LockedPCs,
         UnlinkPCs
<1>2. \E n \in Names : Unlink(n) \/ UNCHANGED dir
  BY <1>1, ReplaceFile, NameFacts
<1> QED BY <1>1, <1>2, PendingUnlinkSource

(* The journal goes after the backup it speaks of. *)
LEMMA UnjournalSource ==
  ASSUME StoreInv("open"), FormatsApart, LiveInv, DroppedInv, NEW p \in Proc,
         RollbackUnlink(p) \/ FinishUnlink(p)
  PROVE  SourceStep(p)
<1>1. /\ pc[p] \in UnlinkPCs /\ pc[p] \in LockedPCs /\ UNCHANGED <<dir, integ>>
      /\ rjournal' = Nil
      /\ \E l : l \notin UnlinkPCs /\ pc' = [pc EXCEPT ![p] = l]
  BY DEF RollbackUnlink, FinishUnlink, Goto, AfterRecovery, UnlinkPCs, LockedPCs
<1>2. ReplacingCsv => ~Exists("backup_csv")
  BY <1>1 DEF DroppedInv, UnlinkPCs
<1>3. Described("backup_csv") => Linked
  BY <1>2 DEF LiveInv, Described
<1>4. LiveInv'
  BY <1>1, <1>3 DEF LiveInv, Described, Linked, Exists
<1>5. FormatsApart' /\ (Trustworthy => Trustworthy')
  BY <1>1 DEF FormatsApart, Trustworthy, Described, Exists
<1> QED BY <1>1, <1>4, <1>5, LockedSource DEF SourceKept

(* An operation and the recovery of a replacement publish unseen. *)
LEMMA PublishesSource ==
  ASSUME StoreInv("open"), FormatsApart, LiveInv, DroppedInv, NEW p \in Proc,
         AppendPublish(p) \/ FinishPublish(p)
  PROVE  SourceStep(p)
<1>1. /\ pc[p] \in LockedPCs /\ UNCHANGED <<dir, rjournal>> /\ Publishes(p)
      /\ \E l : l \notin UnlinkPCs /\ pc' = [pc EXCEPT ![p] = l]
  BY DEF AppendPublish, FinishPublish, Goto, LockedPCs, UnlinkPCs, Publishes,
         StoreInv, TypeOK
<1>2. FormatsApart' /\ LiveInv'
  <2>1. CASE AppendPublish(p)
    <3>1. ajournal # Nil /\ ajournal.new = job[p].new
      BY <2>1 DEF AppendPublish, Goto, StoreInv, PhaseInv
    <3>2. Exists("csv") /\ job[p].new \in Manifest
      BY <3>1, AppendFile DEF AppendingDisk, AppendJournal
    <3>3. integ' = GenerationOf(dir["csv"], job[p].new)
      BY <2>1 DEF AppendPublish
    <3> QED BY <1>1, <3>2, <3>3, PublishedSource DEF StoreInv
  <2>2. CASE FinishPublish(p) /\ rjournal.new.fmt = "csv"
    <3>1. rjournal # Nil /\ manifest = rjournal.new
      BY <2>2 DEF FinishPublish, Goto, StoreInv, PhaseInv, Finishing
    <3>2. Exists("csv") /\ rjournal.new \in Manifest
      BY <2>2, <3>1, ReplaceFile DEF ReplacingDisk, Holds
    <3>3. integ' = GenerationOf(dir["csv"], rjournal.new)
      BY <2>2 DEF FinishPublish
    <3> QED BY <1>1, <3>2, <3>3, PublishedSource DEF StoreInv
  <2>3. CASE FinishPublish(p) /\ rjournal.new.fmt # "csv"
    <3>1. integ' = integ
      BY <2>3 DEF FinishPublish
    <3> QED BY <1>1, <3>1, SameSource DEF SourceKept
  <2> QED BY <2>1, <2>2, <2>3
<1>3. ASSUME NEW q \in Proc, pc'[q] \in UnlinkPCs PROVE FALSE
  BY <1>1, <1>3 DEF StoreInv, TypeOK, LockInv, LockedPCs, UnlinkPCs
<1>4. DroppedInv'
  BY <1>3 DEF DroppedInv, UnlinkPCs
<1> QED BY <1>1, <1>2, <1>4 DEF SourceStep

(* The rows of an append are written in place. *)
LEMMA AppendBytesSource ==
  ASSUME StoreInv("open"), FormatsApart, LiveInv, DroppedInv, NEW p \in Proc,
         AppendBytes(p)
  PROVE  SourceStep(p)
<1>1. pc[p] = "append_data" /\ ajournal # Nil /\ UNCHANGED <<pc, integ, rjournal>>
  BY DEF AppendBytes, StoreInv, PhaseInv
<1>2. rjournal = Nil /\ Exists("csv")
  BY <1>1, AppendFile DEF AppendingDisk
<1>3. \E rows, torn : WriteInPlace("csv", rows, torn)
  BY DEF AppendBytes
<1>4. SourceKept
  BY <1>1, <1>2, <1>3, WriteSource DEF StoreInv
<1>5. pc' = [pc EXCEPT ![p] = "append_data"]
  BY <1>1 DEF StoreInv, TypeOK
<1> QED BY <1>1, <1>4, <1>5, LockedSource DEF LockedPCs, UnlinkPCs

(* An orphaned backup is dropped, a new one is linked or copied. *)
LEMMA BackupSource ==
  ASSUME StoreInv("open"), FormatsApart, LiveInv, DroppedInv, NEW p \in Proc,
         BackupUnlink(p) \/ BackupLink(p)
  PROVE  SourceStep(p)
<1> DEFINE f == job[p].old.fmt
<1>1. /\ pc[p] \in LockedPCs /\ UNCHANGED <<integ, rjournal>> /\ Planned(p)
      /\ \E l : l \notin UnlinkPCs /\ pc' = [pc EXCEPT ![p] = l]
  BY DEF BackupUnlink, BackupLink, Goto, LockedPCs, UnlinkPCs, StoreInv, PhaseInv
<1>2. SourceKept
  <2>1. CASE UNCHANGED dir
    BY <1>1, <2>1, SameSource
  <2>2. CASE BackupUnlink(p) /\ job[p].backup
    <3>1. f \in Formats
      BY <1>1, <2>2 DEF Planned, StoreInv, TypeOK, Manifest
    <3>2. Backup[f] \in Names /\ Backup[f] # "csv" /\ Unlink(Backup[f])
      BY <2>2, <3>1, NameFacts DEF BackupUnlink, Formats
    <3> QED BY <1>1, <3>2, UnlinkSource DEF StoreInv
  <2>3. CASE BackupLink(p)
    <3>1. manifest # Nil /\ job[p].old = manifest /\ NoJournal
      BY <1>1, <2>3 DEF BackupLink, Goto, StoreInv, PhaseInv, Planned
    <3>2. f \in Formats /\ Exists(f) /\ rjournal = Nil
      BY <3>1 DEF StoreInv, TypeOK, Manifest, DiskInv, QuietDisk, Clean, Holds,
                  NoJournal
    <3>3. Backup[f] \in Names /\ Backup[f] # "csv"
      BY <3>2, NameFacts DEF Formats
    <3>4. CASE dir' = [dir EXCEPT ![Backup[f]] = dir[f]]
      BY <1>1, <3>2, <3>4, LinkSource DEF StoreInv
    <3>5. CASE Publish(Backup[f], dir[f].rows)
      BY <1>1, <3>3, <3>5, PublishSource DEF StoreInv
    <3> QED BY <2>3, <3>4, <3>5 DEF BackupLink
  <2> QED BY <2>1, <2>2, <2>3 DEF BackupUnlink
<1> QED BY <1>1, <1>2, LockedSource

(* A replacement begins with the old file as the only one described. *)
LEMMA ReplaceJournalSource ==
  ASSUME StoreInv("open"), FormatsApart, LiveInv, DroppedInv, NEW p \in Proc,
         ReplaceJournalWrite(p)
  PROVE  SourceStep(p)
<1>1. /\ pc[p] \in LockedPCs /\ UNCHANGED <<dir, integ>> /\ Planned(p)
      /\ pc' = [pc EXCEPT ![p] = "replace_data"] /\ rjournal'.old = job[p].old
      /\ "replace_data" \notin UnlinkPCs
  BY DEF ReplaceJournalWrite, Goto, LockedPCs, UnlinkPCs, StoreInv, PhaseInv
<1>2. /\ job[p].old = manifest /\ NoJournal /\ QuietDisk("open")
      /\ rjournal' # Nil
  <2>1. StoreInv("open")'
    BY ReplaceJournalWriteInv
  <2>2. pc'[p] = "replace_data"
    BY <1>1 DEF StoreInv, TypeOK
  <2> QED BY <1>1, <2>1, <2>2 DEF Planned, StoreInv, DiskInv, NoJournal, PhaseInv
<1>3. ~ReplacingCsv' => ~Linked
  <2>1. ~ReplacingCsv' => manifest = Nil \/ manifest.fmt # "csv"
    BY <1>1, <1>2 DEF ReplacingCsv
  <2> QED BY <1>2, <2>1 DEF QuietDisk, Clean, Linked, Formats
<1>4. Described("backup_csv") => Linked
  BY <1>2 DEF LiveInv, ReplacingCsv, NoJournal
<1>5. LiveInv'
  BY <1>1, <1>3, <1>4 DEF LiveInv, Described, Linked, Exists
<1>6. FormatsApart' /\ (Trustworthy => Trustworthy')
  BY <1>1 DEF FormatsApart, Trustworthy, Described, Exists
<1> QED BY <1>1, <1>5, <1>6, LockedSource DEF SourceKept

LEMMA ReplaceDataSource ==
  ASSUME StoreInv("open"), FormatsApart, LiveInv, DroppedInv, NEW p \in Proc,
         ReplaceData(p)
  PROVE  SourceStep(p)
<1>1. /\ pc[p] \in LockedPCs /\ UNCHANGED <<integ, rjournal>>
      /\ pc' = [pc EXCEPT ![p] = "replace_manifest"]
      /\ "replace_manifest" \notin UnlinkPCs
      /\ rjournal # Nil /\ rjournal.new = job[p].new
  BY DEF ReplaceData, Goto, LockedPCs, UnlinkPCs, StoreInv, PhaseInv
<1>2. job[p].new.fmt \in Names /\ Publish(job[p].new.fmt, job[p].new.rows)
  BY <1>1, ReplaceFile, NameFacts DEF ReplaceData
<1>3. SourceKept
  BY <1>1, <1>2, PublishSource DEF StoreInv
<1> QED BY <1>1, <1>3, LockedSource

(* Vacuum never removes the live file. *)
LEMMA VacuumSource ==
  ASSUME StoreInv("open"), FormatsApart, LiveInv, DroppedInv, NEW p \in Proc,
         vacuum(p)
  PROVE  SourceStep(p)
<1>1. /\ pc[p] \in LockedPCs /\ UNCHANGED <<integ, rjournal>>
      /\ pc' = [pc EXCEPT ![p] = "unlock"] /\ "unlock" \notin UnlinkPCs
  BY DEF vacuum, Goto, LockedPCs, UnlinkPCs
<1>2. CASE UNCHANGED dir
  <2>1. SourceKept
    BY <1>1, <1>2, SameSource
  <2> QED BY <1>1, <2>1, LockedSource
<1>3. CASE manifest # Nil /\ manifest.fmt # job[p].fmt /\ Unlink(job[p].fmt)
  <2>1. job[p].fmt \in Names
    BY NameFacts DEF StoreInv, TypeOK, Job
  <2>2. job[p].fmt = "csv" /\ rjournal = Nil => ~Exists("csv")
    BY <1>3 DEF StoreInv, DiskInv, QuietDisk, Clean, AppendingDisk, Extends, Formats
  <2>3. SourceKept
    BY <1>1, <1>3, <2>1, <2>2, UnlinkSource DEF StoreInv
  <2> QED BY <1>1, <2>3, LockedSource
<1> QED BY <1>2, <1>3 DEF vacuum

(* Every step of every process. *)
LEMMA StepSource ==
  ASSUME StoreInv("open"), FormatsApart, LiveInv, DroppedInv, NEW p \in Proc,
         Start(p) \/ Step(p) \/ Crash(p)
  PROVE  SourceStep(p)
<1>1. CASE Start(p)
  BY <1>1, StartSource
<1>2. CASE Crash(p)
  BY <1>2, LeaveSource DEF Crash
<1>3. CASE Recover(p)
  BY <1>3, RecoverAppendSource, RecoverReplaceSource, RollbackNewSource,
     DropBackupSource, UnjournalSource, MetadataSource DEF Recover
<1>4. CASE Finish(p)
  BY <1>4, FinishFilesSource, PublishesSource, DropBackupSource, UnjournalSource
     DEF Finish
<1>5. CASE AppendSteps(p)
  BY <1>5, PlanSource, MetadataSource, AppendBytesSource, PublishesSource
     DEF AppendSteps
<1>6. CASE ReplaceSteps(p)
  BY <1>6, PlanSource, ReadSource, BackupSource, ReplaceJournalSource,
     ReplaceDataSource, MetadataSource DEF ReplaceSteps
<1> QED BY <1>1, <1>2, <1>3, <1>4, <1>5, <1>6, ControlSource, ReadSource,
           VacuumSource DEF Step

(* An edit keeps the number of rows, the only thing the store counts on. *)
LEMMA EditInv ==
  ASSUME StoreInv("open"), FormatsApart, LiveInv, Edit
  PROVE  /\ StoreInv("open")' /\ FormatsApart' /\ LiveInv' /\ DroppedInv'
         /\ Trustworthy'
<1> USE DEF Edit
<1> DEFINE r == dir["csv"].rows
<1>1. /\ "csv" \in Names /\ dir["csv"] \in File /\ r \in Seq(Bar)
      /\ NoJournal /\ QuietDisk("open")
  BY FourNames DEF StoreInv, TypeOK, Exists, File, Rows, DiskInv, NoJournal
<1>2. PICK s : WriteInPlace("csv", s, FALSE) /\ s \in Rows /\ Len(s) = Len(r)
  <2>1. PICK k \in 1..Len(r), v \in Values :
          WriteInPlace("csv", [r EXCEPT ![k].v = v], FALSE)
    OBVIOUS
  <2>2. r[k] \in Bar
    BY <1>1
  <2>3. PICK b : b = [r[k] EXCEPT !.v = v]
    OBVIOUS
  <2>4. b \in Bar
    BY <2>2, <2>3 DEF Bar
  <2>5. [r EXCEPT ![k].v = v] = [r EXCEPT ![k] = b]
    BY <2>3
  <2>6. [r EXCEPT ![k] = b] \in Seq(Bar) /\ Len([r EXCEPT ![k] = b]) = Len(r)
    BY <1>1, <2>4
  <2> QED BY <2>1, <2>5, <2>6 DEF Rows
<1>3. SourceKept /\ Trustworthy'
  BY <1>1, <1>2, WriteSource DEF StoreInv
<1>4. /\ dir' \in [Names -> File \cup {Nil}] /\ LinkInv'
      /\ \A m \in Names : Exists(m)' <=> Exists(m)
      /\ dir'["csv"].rows = s /\ dir'["csv"].torn = FALSE
  BY <1>1, <1>2, WriteInPlaceFrame DEF StoreInv
<1>5. UNCHANGED <<manifest, index, ajournal, rjournal, integ, writer, readers,
                  pc, job, result, ops>>
  BY DEF locks
<1>6. TypeOK' /\ LockInv' /\ OrderInv' /\ JobInv' /\ ResultInv("open")'
  BY <1>4, <1>5 DEF StoreInv, TypeOK, LockInv, OrderInv, JobInv, ResultInv,
                    RecoveryAlwaysPossible, NeverCorrupt
<1>7. DiskInv("open")'
  <2>1. manifest # Nil /\ manifest.fmt = "csv"
    BY <1>1 DEF QuietDisk, Clean, Formats
  <2>2. Holds("open", "csv", manifest.rows)'
    BY <1>1, <1>2, <1>4, <1>5, <2>1 DEF QuietDisk, Clean, Holds, Formats
  <2>3. ~Exists("parquet")'
    BY <1>1, <1>4, <2>1, FourNames DEF QuietDisk, Clean, Formats
  <2> QED BY <1>1, <1>5, <2>1, <2>2, <2>3
          DEF DiskInv, QuietDisk, Clean, NoJournal, Formats
<1>8. ASSUME NEW q \in Proc
      PROVE  PhaseInv("open", q)' /\ pc'[q] \notin UnlinkPCs
  <2>1. pc'[q] \in PCs /\ pc'[q] \notin LockedPCs /\ pc'[q] \notin SharedPCs
    BY <1>5, NilAssumption DEF StoreInv, TypeOK, LockInv
  <2>2. pc'[q] \in FreePCs
    BY <2>1 DEF PCs
  <2> QED BY <2>2 DEF FreePCs, PhaseInv, UnlinkPCs
<1>9. DroppedInv'
  BY <1>8 DEF DroppedInv, UnlinkPCs
<1> QED BY <1>3, <1>4, <1>6, <1>7, <1>8, <1>9 DEF StoreInv, SourceKept

(* EditedInv holds initially: nothing is published yet. *)
LEMMA EditedInitInv == EditedInit => EditedInv
<1> SUFFICES ASSUME EditedInit PROVE EditedInv
  OBVIOUS
<1>1. StoreInv("open")
  BY InitInv DEF EditedInit
<1>2. integ = Nil /\ rjournal = Nil /\ \A p \in Proc : pc[p] = "idle"
  BY DEF EditedInit, Init
<1>3. LiveInv /\ Trustworthy /\ DroppedInv
  BY <1>2 DEF LiveInv, Trustworthy, DroppedInv, Described
<1>4. FormatsApart
  BY FourNames DEF EditedInit, Init, FormatsApart, Exists
<1> QED BY <1>1, <1>3, <1>4 DEF EditedInv

(* Every step of a process and every edit keeps EditedInv. *)
LEMMA EditedStepInv ==
  ASSUME EditedInv, [EditedNext]_editVars
  PROVE  EditedInv'
<1>1. CASE UNCHANGED editVars
  <2>1. UNCHANGED vars /\ written' = written
    BY <1>1 DEF editVars
  <2>2. StoreInv("open")'
    BY <2>1, StutterInv DEF EditedInv
  <2>3. UNCHANGED <<dir, integ, rjournal, pc>>
    BY <2>1 DEF vars, disk
  <2>4. SourceKept
    BY <2>3, SameSource DEF EditedInv
  <2>5. DroppedInv'
    BY <2>3 DEF EditedInv, DroppedInv, ReplacingCsv, Exists
  <2> QED BY <2>1, <2>2, <2>4, <2>5 DEF EditedInv, SourceKept
<1>2. CASE Edit
  BY <1>2, EditInv DEF EditedInv
<1>3. ASSUME NEW p \in Proc, Start(p) \/ Step(p) \/ Crash(p),
             written' = (written \/ \E q \in Proc :
                           /\ pc[q] \in {"append_publish", "finish_publish"}
                           /\ pc'[q] \notin {pc[q], "idle"})
      PROVE  EditedInv'
  <2>1. StoreInv("open")'
    BY <1>3, StartInv, StepInv, CrashInv DEF EditedInv
  <2>2. SourceStep(p)
    BY <1>3, StepSource DEF EditedInv
  <2>3. ~written' => ~written /\ ~Publishes(p)
    BY <1>3, Zenon DEF Publishes
  <2>4. ~written' => Trustworthy'
    BY <2>2, <2>3 DEF EditedInv, SourceStep
  <2> QED BY <2>1, <2>2, <2>4 DEF EditedInv, SourceStep
<1> QED BY <1>1, <1>2, <1>3 DEF EditedNext, Next

(* A read that succeeds returns the rows the manifest describes, however   *)
(* the file is edited, as long as no writer has published since: neither   *)
(* the checksum nor the published generation lets an edit through.         *)
THEOREM EditsNeverServed == EditedSpec => EditsAreDetected
<1> DEFINE A == \A p \in Proc :
                  pc[p] = "read" /\ result'[p].status = "ok" /\ ~written =>
                    result'[p].rows = RowsOf(manifest)
<1>1. EditedInv /\ EditedNext => A
  <2> SUFFICES ASSUME EditedInv, EditedNext, NEW p \in Proc, pc[p] = "read",
                      result'[p].status = "ok", ~written
               PROVE  result'[p].rows = RowsOf(manifest)
    OBVIOUS
  <2>1. result[p].status = "none" /\ TypeOK /\ NoJournal
    BY DEF EditedInv, StoreInv, ResultInv, PhaseInv
  <2>2. PICK q \in Proc : Start(q) \/ Step(q) \/ Crash(q)
    BY <2>1 DEF EditedNext, Next, Edit
  <2>3. p = q
    BY <2>1, <2>2, OthersResult
  <2>4. ~Crash(p)
    BY <2>1 DEF Crash, Raise, Leave, TypeOK
  <2>5. read_all(p)
    BY <2>2, <2>3, <2>4, ReadingSteps
  <2>6. Readable /\ Leave(p, "ok", Stored)
    BY <2>1, <2>5 DEF read_all, Raise, Leave, TypeOK
  <2>7. Stored = RowsOf(manifest)
    <3>1. CASE manifest = Nil
      BY <3>1 DEF Stored, RowsOf
    <3>2. CASE manifest # Nil
      <4>1. manifest.fmt \in Formats
        BY <2>1, <3>2 DEF TypeOK, Manifest
      <4>2. Exists(manifest.fmt)
        BY <2>1, <3>2, <4>1
           DEF EditedInv, StoreInv, DiskInv, NoJournal, QuietDisk, Clean, Holds
      <4>3. dir[manifest.fmt].rows = manifest.rows
        BY <2>1, <2>6, <3>2, <4>2, ReadableIsManifest DEF EditedInv
      <4> QED BY <3>2, <4>2, <4>3 DEF Stored, RowsOf
    <3> QED BY <3>1, <3>2
  <2> QED BY <2>1, <2>6, <2>7 DEF Leave, TypeOK
<1>2. EditedInv /\ [EditedNext]_editVars => [A]_editVars
  BY <1>1
<1>3. EditedInv /\ [EditedNext]_editVars => EditedInv'
  BY EditedStepInv
<1> QED BY <1>2, <1>3, EditedInitInv, PTL DEF EditedSpec, EditsAreDetected

=============================================================================
