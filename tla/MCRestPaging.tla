----------------------------- MODULE MCRestPaging -----------------------------
(* A small instance of RestPaging for TLC. *)
EXTENDS RestPaging

R(kind, start, end, max, include) ==
  [kind |-> kind, start |-> start, end |-> end, max |-> max, include |-> include,
   shape |-> "range"]

\* A gap at 4, candles that open and close during the fetch.
MCCandles == {0, 2, 6, 8, 10}
\* Two trades share a millisecond, and a page may end between them.
MCTrades == {[id |-> i, time |-> (i * 2) \div 3] : i \in 1..7}

MCRequests ==
  {R("bars", s, e, m, inc) : s \in {0, 2, Nil}, e \in {8, 10}, m \in {1, 3, Nil},
                             inc \in BOOLEAN}
  \cup {R("bars", s, Nil, 3, FALSE) : s \in {0, Nil}}
  \cup {R("trades", s, e, m, FALSE) : s \in {0, 1}, e \in {3, 5}, m \in {3, Nil}}
  \cup {[R("public", s, 10, Nil, FALSE) EXCEPT !.shape = sh] : s \in {0, 6, 7},
                                                             sh \in Shapes}
=============================================================================
