------------------------- MODULE MCMarketDataService -------------------------
(* Small instances of MarketDataService for TLC. *)
EXTENDS MarketDataService, TLC

Q(tf, s, e) == [tf |-> tf, start |-> s, end |-> e]

\* Overlapping ranges, a derived one, and a derived one off the bucket grid.
MCQueries ==
  {Q("base", 0, 2), Q("base", 1, 4), Q("derived", 0, 4), Q("derived", 1, 3)}

\* The two ends of a derived range, and the whole of it.
MCEndsFirst ==
  {Q("base", 0, 6), Q("derived", 0, 2), Q("derived", 4, 6), Q("derived", 0, 6)}

OneProcess == [p \in Proc |-> "host"]
TwoProcesses == [p \in Proc |-> p]

\* A stream delivers the candles as they close.
MCStreamed == {[t |-> 1, v |-> 1, x |-> "ws", rcv |-> 1]}
MCForming == {[t |-> 2, v |-> 1, x |-> "ws", rcv |-> 1]}

Symmetry == Permutations(Proc)
=============================================================================
