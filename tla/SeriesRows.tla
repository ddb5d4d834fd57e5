----------------------------- MODULE SeriesRows -----------------------------
(***************************************************************************)
(* A series is the sequence of its closed candles.  A candle is its open   *)
(* time and a value that stands for everything else a MarketBar carries.   *)
(***************************************************************************)
EXTENDS Integers, Sequences, FiniteSets, SequencesExt

CONSTANTS
  Times,   \* open times
  Values   \* what a candle may contain

ASSUME TimesAssumption == Times \subseteq Nat

Bar == [t : Times, v : Values]
Rows == Seq(Bar)

(* validate_bars: open times strictly increase. *)
StrictlyOrdered(rows) ==
  \A i, j \in 1..Len(rows) : i < j => rows[i].t < rows[j].t

HasTime(rows, t) == \E i \in 1..Len(rows) : rows[i].t = t

(* Another candle is stored at the open time of b. *)
Conflicts(rows, b) == \E i \in 1..Len(rows) : rows[i].t = b.t /\ rows[i] # b

(* by_time[bar.time] = bar, sorted by open time. *)
Merged(rows, b) ==
  IF HasTime(rows, b.t)
    THEN rows
    ELSE InsertAt(rows, 1 + Cardinality({i \in 1..Len(rows) : rows[i].t < b.t}), b)

(* The incoming bars without the one that repeats the stored tail. *)
Fresh(in, rows) ==
  IF in # <<>> /\ rows # <<>> /\ in[1].t = Last(rows).t THEN Tail(in) ELSE in

=============================================================================
