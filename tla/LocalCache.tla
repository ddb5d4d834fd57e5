------------------------------ MODULE LocalCache ------------------------------
(***************************************************************************)
(* The bar cache of the command line (cache/local.py): bars.csv and        *)
(* metadata.json, both rewritten in place without a lock or a rename.      *)
(*                                                                         *)
(* The data file is a sequence of rows.  A writer that another writer      *)
(* truncates goes on at its own offset and leaves a hole before it.        *)
(***************************************************************************)
EXTENDS Naturals, Sequences, FiniteSetsExt, SequencesExt

CONSTANTS
  CacheProc,     \* processes that share a cache directory
  Segments,      \* what they write: sequences of bars with increasing times
  Ranges,        \* the [start, end) they read
  MaxCacheCalls  \* bound on the calls

CONSTANTS NoFile, Torn, Hole

ASSUME SegmentsAssumption ==
  \A s \in Segments : \A i, j \in DOMAIN s : i < j => s[i].t < s[j].t
ASSUME NoFileAssumption == NoFile \notin Segments /\ NoFile # Torn

VARIABLES
  data,        \* rows of bars.csv, or NoFile
  meta,        \* the checksum in metadata.json, or NoFile or Torn
  doing,       \* where the call of each process is
  segment,     \* the bars it writes, or has read
  offset,      \* rows it has written
  range,       \* the range it reads
  answer,      \* what its last read gave
  cacheCalls

cachevars == <<data, meta, doing, segment, offset, range, answer, cacheCalls>>

NoAnswer == [ok |-> FALSE, bars |-> <<>>]
SomeRange == CHOOSE r \in Ranges : TRUE

CacheInit ==
  /\ data = NoFile /\ meta = NoFile /\ cacheCalls = 0
  /\ doing = [p \in CacheProc |-> "idle"]
  /\ segment = [p \in CacheProc |-> <<>>] /\ offset = [p \in CacheProc |-> 0]
  /\ range = [p \in CacheProc |-> SomeRange]
  /\ answer = [p \in CacheProc |-> NoAnswer]

CacheTo(p, where) == doing' = [doing EXCEPT ![p] = where]

(* A checksum identifies the rows it was taken of. *)
bars_checksum(bars) == bars

----------------------------------------------------------------------------
(* write_cache_segment.  validate_bars holds of the segments. *)

StartWrite(p, bars) ==
  /\ doing[p] = "idle" /\ cacheCalls < MaxCacheCalls
  /\ cacheCalls' = cacheCalls + 1
  /\ segment' = [segment EXCEPT ![p] = bars]
  /\ answer' = [answer EXCEPT ![p] = NoAnswer]
  /\ data' = <<>>                                  \* open("w") truncates
  /\ offset' = [offset EXCEPT ![p] = 0]
  /\ CacheTo(p, "write")
  /\ UNCHANGED <<meta, range>>

(* Row n goes where this writer's file position is. *)
Put(rows, n, bar) ==
  [k \in 1..Max({n, Len(rows)}) |->
     IF k = n THEN bar ELSE IF k <= Len(rows) THEN rows[k] ELSE Hole]

WriteRow(p) ==
  LET n == offset[p] + 1 IN
  /\ doing[p] = "write" /\ n <= Len(segment[p])
  /\ data' = Put(data, n, segment[p][n])
  /\ offset' = [offset EXCEPT ![p] = n]
  /\ UNCHANGED <<meta, doing, segment, range, answer, cacheCalls>>

OpenMetadata(p) ==
  /\ doing[p] = "write" /\ offset[p] = Len(segment[p])
  /\ meta' = Torn
  /\ CacheTo(p, "metadata")
  /\ UNCHANGED <<data, segment, offset, range, answer, cacheCalls>>

WriteMetadata(p) ==
  /\ doing[p] = "metadata"
  /\ meta' = bars_checksum(segment[p])
  /\ CacheTo(p, "idle")
  /\ UNCHANGED <<data, segment, offset, range, answer, cacheCalls>>

write_cache_segment(p) ==
  \/ \E bars \in Segments : StartWrite(p, bars)
  \/ WriteRow(p) \/ OpenMetadata(p) \/ WriteMetadata(p)

----------------------------------------------------------------------------
(* read_cache_segment *)

StartRead(p, r) ==
  /\ doing[p] = "idle" /\ cacheCalls < MaxCacheCalls
  /\ cacheCalls' = cacheCalls + 1
  /\ range' = [range EXCEPT ![p] = r]
  /\ segment' = [segment EXCEPT ![p] = <<>>]
  /\ answer' = [answer EXCEPT ![p] = NoAnswer]
  /\ CacheTo(p, IF data = NoFile \/ meta = NoFile THEN "idle" ELSE "rows")
  /\ UNCHANGED <<data, meta, offset>>

(* A row at a time: the file may change under the reader.  What cannot be  *)
(* parsed, and open times that do not increase, end the call.              *)
ReadRow(p) ==
  LET n == Len(segment[p]) + 1 IN
  /\ doing[p] = "rows"
  /\ IF n > Len(data)
       THEN CacheTo(p, "compare") /\ UNCHANGED segment
       ELSE IF data[n] = Hole \/ (n > 1 /\ data[n].t <= segment[p][n - 1].t)
              THEN CacheTo(p, "idle") /\ UNCHANGED segment
              ELSE /\ segment' = [segment EXCEPT ![p] = Append(@, data[n])]
                   /\ UNCHANGED doing
  /\ UNCHANGED <<data, meta, offset, range, answer, cacheCalls>>

(* Mutant: any metadata that can be read is accepted. *)
VerifiedReadable(bars) == meta # Torn

Verified(bars) == meta # Torn /\ meta = bars_checksum(bars)

(* read_cache_segment returns the bars of the range. *)
BarsIn(bars, r) == SelectSeq(bars, LAMBDA b : b.t >= r[1] /\ b.t < r[2])

CompareChecksum(p) ==
  /\ doing[p] = "compare"
  /\ CacheTo(p, "idle")
  /\ answer' = [answer EXCEPT ![p] =
       IF Verified(segment[p])
         THEN [ok |-> TRUE, bars |-> BarsIn(segment[p], range[p])]
         ELSE NoAnswer]
  /\ UNCHANGED <<data, meta, segment, offset, range, cacheCalls>>

read_cache_segment(p) ==
  (\E r \in Ranges : StartRead(p, r)) \/ ReadRow(p) \/ CompareChecksum(p)

(* A row cut short may still be a row, with another value. *)
Cut(bar) == [bar EXCEPT !.v = 0]

(* A process may be killed anywhere; what it wrote so far stays, and the   *)
(* last row of it may be cut short.                                        *)
KillCacheProcess(p) ==
  LET n == offset[p] + 1 IN
  /\ doing[p] # "idle"
  /\ CacheTo(p, "idle")
  /\ \/ UNCHANGED data
     \/ /\ doing[p] = "write" /\ n <= Len(segment[p])
        /\ data' = Put(data, n, Cut(segment[p][n]))
  /\ UNCHANGED <<meta, segment, offset, range, answer, cacheCalls>>

CacheNext ==
  \E p \in CacheProc :
    write_cache_segment(p) \/ read_cache_segment(p) \/ KillCacheProcess(p)

----------------------------------------------------------------------------
(* A read that succeeds gives the range of one segment as one call wrote   *)
(* it, whatever writers, readers and crashes have left in the two files.   *)
CacheReadsAreWhole ==
  \A p \in CacheProc : answer[p].ok =>
    \E s \in Segments : answer[p].bars = BarsIn(s, range[p])

===============================================================================
