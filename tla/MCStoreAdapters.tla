--------------------------- MODULE MCStoreAdapters ---------------------------
(* A small instance of StoreAdapters for TLC. *)
EXTENDS StoreAdapters, TLC

\* Candles of two; a repair may store one at 3, off the grid.
MCCloseTime(t) == t + 1

Provenance(provider, pr, rev) ==
  [provider |-> provider, pr |-> pr, rev |-> rev,
   state |-> IF rev = 0 THEN "ORIGINAL" ELSE "CORRECTED"]
B(t, v, x, pr) == [t |-> t, v |-> v, x |-> x, rcv |-> Provenance("exchange", pr, 0)]

\* Every provider_revision of the stream, the sources and the fetches.
Revisions ==
  {<<x, n>> : x \in {"ws", "audit"}, n \in 1..2}
    \cup {<<"v4", t, v, c>> : t \in Times, v \in 1..2, c \in BOOLEAN}
    \cup {<<x, start, end, ts>> : x \in {"archive", "rest"}, start \in 2..6,
                                   end \in 5..6, ts \in SUBSET {2, 4}}
\* With and without the decimal text of the prices.
MCValues == {-2, -1, 1, 2}

MCReceipts == {Provenance(provider, pr, rev) :
                 provider \in {"exchange", "other"}, pr \in Revisions, rev \in 0..1}

\* An open row that is a correction of the candle, with its revision; the
\* other open rows come from the series and the snapshots.
MCOpenBars == {[B(4, 1, "ws", <<"ws", 2>>) EXCEPT
                  !.rcv = Provenance("exchange", <<"ws", 2>>, 1)]}
MCClosedBars == {B(4, 2, "ws", <<"ws", 2>>)}

\* The whole range, and one that ends in the middle of a candle.
Q(start, end) == [start |-> start, end |-> end]
MCQueries == {Q(2, 6), Q(2, 5)}

\* All closed: a tail or a gap, a repeated bar; and one that is still open.
C(t, v, closed_) == [t |-> t, v |-> v, closed |-> closed_]
MCSeries ==
  {<<C(2, 1, TRUE), C(4, 1, TRUE), C(4, 1, TRUE)>>,
   <<C(2, 1, TRUE), C(4, 1, FALSE)>>}

\* The provider_revision of the sources, so that only the provider differs.
Row(t, v, final, rev, provider) ==
  [provider |-> provider, pr |-> <<"audit", 1>>, rev |-> rev,
   state |-> IF rev = 0 THEN "ORIGINAL" ELSE "CORRECTED",
   t |-> t, v |-> v, final |-> final]
Snap(rows, policy) == [start |-> 2, end |-> 6, rows |-> rows, policy |-> policy]

\* An open candle of another provider, and a candle that keeps a correction.
MCSnapshots ==
  {Snap(<<Row(4, 1, FALSE, 0, "other")>>, "ALLOW_OPEN"),
   Snap(<<Row(2, 1, TRUE, 0, "exchange"), Row(2, 2, TRUE, 1, "exchange")>>,
        "CLOSED_BAR_ONLY")}

\* A source with two revisions of a candle, and one with candles that overlap.
S(t, v, rev) ==
  [t |-> t, v |-> v, x |-> "rest", rcv |-> Provenance("exchange", <<"audit", 1>>, rev)]
MCSources == {<<S(2, 1, 0), S(2, 2, 1)>>, <<S(3, 1, 0), S(4, 1, 0)>>}

Symmetry == Permutations(Proc)
=============================================================================
