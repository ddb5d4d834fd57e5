---------------------------- MODULE MCCandleStore ----------------------------
(* Small instances of CandleStore for TLC. *)
EXTENDS CandleStore

B(t, v, x, r) == [t |-> t, v |-> v, x |-> x, rcv |-> r]

\* Two candles, the first one final in two versions; the same version also
\* comes over REST.
MCOpenBars == {B(1, 1, "ws", 1), B(2, 1, "ws", 1), B(1, 2, "rest", 1)}
MCClosedBars ==
  {B(1, 1, "ws", 1), B(1, 2, "ws", 1), B(1, 1, "rest", 1), B(2, 1, "ws", 1)}

=============================================================================
