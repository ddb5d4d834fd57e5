------------------------------- MODULE CsvRange -------------------------------
(***************************************************************************)
(* Reading a range of a CSV segment (store/segment_csv.py): a bisection    *)
(* over byte offsets finds a row near the start of the range, and the rows *)
(* are read from there up to the end of the range.                         *)
(*                                                                         *)
(* A file has n rows.  pos[k] is the offset of row k, pos[1] the end of    *)
(* the header and pos[n + 1] the size of the file; time[k] is its open     *)
(* time.  plain holds the rows whose time is written as an integer: the    *)
(* bisection cannot read 60000.0, the row parser can.                      *)
(***************************************************************************)
EXTENDS Integers, FiniteSetsExt

CONSTANTS
  Files,       \* segments of csv rows
  Starts,      \* starts of a range; NoBound stands for None
  Ends,        \* ends of a range
  NoBound,
  MaxProbes    \* 24 in the code

ASSUME FilesAssumption ==
  \A f \in Files :
    /\ f.n \in Nat
    /\ f.pos \in [1..(f.n + 1) -> Nat]
    /\ f.time \in [1..f.n -> Int]
    /\ f.plain \subseteq 1..f.n
    /\ \A i, j \in 1..(f.n + 1) : i < j => f.pos[i] < f.pos[j]
    /\ \A i, j \in 1..f.n : i < j => f.time[i] < f.time[j]
ASSUME BoundsAssumption ==
  /\ Starts \subseteq Int \cup {NoBound} /\ Ends \subseteq Int \cup {NoBound}
  /\ NoBound \notin Int /\ MaxProbes \in Nat

VARIABLES
  file,           \* the segment that is read
  start, end,     \* the range asked for
  step,           \* "seek", "scan" or "done"; "idle" when nothing is read
  low, high,      \* the offsets the bisection still considers
  best,           \* where reading begins
  probes,         \* probes made
  row,            \* the row the reader is at
  yielded         \* rows given to the caller

csvvars == <<file, start, end, step, low, high, best, probes, row, yielded>>

header_end == file.pos[1]
file_size == file.pos[file.n + 1]

(* No seek without a start after the manifest's start_time, or rows. *)
SeekHelps == start # NoBound /\ file.n > 0 /\ start > file.time[1]

CsvInit ==
  /\ file \in Files /\ start \in Starts /\ end \in Ends
  /\ step = IF SeekHelps THEN "seek" ELSE "scan"
  /\ low = header_end /\ high = file_size - 1 /\ best = header_end
  /\ probes = 0 /\ row = 1 /\ yielded = {}

----------------------------------------------------------------------------
Middle == (low + high) \div 2

(* readline from the middle of a row ends at the next row. *)
Candidate ==
  IF Middle = header_end THEN 1
  ELSE Min({k \in 2..(file.n + 1) : file.pos[k] > Middle})

(* fh.seek(best): reading begins at the row that starts there. *)
SeekTo(offset) ==
  /\ step' = "scan"
  /\ best' = offset
  /\ row' = CHOOSE k \in 1..(file.n + 1) : file.pos[k] = offset

Probing == step = "seek" /\ probes < MaxProbes /\ low < high

Narrow ==
  /\ high' = IF Middle - 1 > header_end THEN Middle - 1 ELSE header_end
  /\ UNCHANGED <<low, best>>

(* Mutant: the offset is taken after the line is read. *)
AdvanceLate(k) ==
  /\ best' = file.pos[k + 1]
  /\ low' = file.pos[k + 1]
  /\ UNCHANGED high

Advance(k) ==
  /\ best' = file.pos[k]
  /\ low' = file.pos[k + 1]
  /\ UNCHANGED high

Probe ==
  /\ Probing
  /\ Candidate \in 1..file.n => Candidate \in file.plain
  /\ IF Candidate \in 1..file.n /\ file.time[Candidate] <= start
       THEN Advance(Candidate) ELSE Narrow
  /\ probes' = probes + 1
  /\ UNCHANGED <<file, start, end, step, row, yielded>>

(* ValueError: the whole file is read. *)
GiveUp ==
  /\ Probing /\ Candidate \in 1..file.n \ file.plain
  /\ SeekTo(header_end)
  /\ UNCHANGED <<file, start, end, low, high, probes, yielded>>

Sought ==
  /\ step = "seek" /\ ~(probes < MaxProbes /\ low < high)
  /\ SeekTo(best)
  /\ UNCHANGED <<file, start, end, low, high, probes, yielded>>

seek_csv_near_start == Probe \/ GiveUp \/ Sought

Early(k) == start # NoBound /\ file.time[k] < start
Past(k) == ~Early(k) /\ end # NoBound /\ file.time[k] >= end

iter_csv_range ==
  /\ step = "scan"
  /\ IF row > file.n \/ Past(row)
       THEN step' = "done" /\ UNCHANGED <<row, yielded>>
       ELSE /\ row' = row + 1
            /\ yielded' = IF Early(row) THEN yielded ELSE yielded \cup {row}
            /\ UNCHANGED step
  /\ UNCHANGED <<file, start, end, low, high, best, probes>>

CsvNext == seek_csv_near_start \/ iter_csv_range

CsvSpec == CsvInit /\ [][CsvNext]_csvvars

----------------------------------------------------------------------------
InRange(k) ==
  /\ start # NoBound => file.time[k] >= start
  /\ end # NoBound => file.time[k] < end

(* Wherever the bisection lands, the caller gets every row of its range: a *)
(* read that ended has yielded what reading the file from its first row    *)
(* yields.                                                                 *)
SeekNeverSkips ==
  step = "done" => yielded = {k \in 1..file.n : InRange(k)}

===============================================================================
