------------------------- MODULE MCStreamSupervisor --------------------------
(* Small instances of StreamSupervisor for TLC. *)
EXTENDS StreamSupervisor

B(t, v, x) == [t |-> t, v |-> v, x |-> x, rcv |-> 1]
Open(t, v) == [bar |-> B(t, v, "ws"), is_closed |-> FALSE]
Closed(t, v) == [bar |-> B(t, v, "ws"), is_closed |-> TRUE]

\* Each candle's updates in order: coalescing, overflow, a redelivered and a
\* corrected candle.
MCStreams ==
  {<<Open(1, 1), Closed(1, 1), Open(2, 1), Closed(2, 1)>>,
   <<Closed(1, 1), Open(2, 1), Closed(2, 1), Open(3, 1)>>,
   <<Closed(1, 1), Closed(1, 1), Closed(2, 1)>>,
   <<Closed(2, 1), Closed(1, 2), Open(3, 1)>>,
   <<Open(2, 1), Closed(3, 1), Closed(2, 1)>>,
   <<Closed(1, 1), Open(2, 1), Open(3, 1), Closed(2, 1)>>}

\* The final update of a candle is followed by a late open one.
MCLateStreams == {<<Open(2, 1), Closed(2, 1), Open(2, 1), Open(3, 1)>>}

MCBackfill == <<[bar |-> B(1, 1, "ws"), is_closed |-> TRUE],
                [bar |-> B(3, 1, "ws"), is_closed |-> FALSE]>>

MCQueueSizes == {2, Nil}

\* What another process stores meanwhile.
MCOpenBars == {B(2, 1, "ws")}
MCClosedBars == {B(2, 1, "ws"), B(2, 2, "rest")}
=============================================================================
