----------------------------- MODULE MCLocalFiles -----------------------------
(* Small instances of the parts of LocalFiles for TLC. *)
EXTENDS LocalFiles, TLC

\* Up to four rows, one or three bytes long, after a header of two bytes.
Offset(lengths, k) == 2 + LET sum[i \in 0..Len(lengths)] ==
                                IF i = 0 THEN 0 ELSE sum[i - 1] + lengths[i]
                          IN sum[k - 1]
MCFiles ==
  UNION {{[n |-> n, pos |-> [k \in 1..(n + 1) |-> Offset(lengths, k)],
           time |-> [k \in 1..n |-> 2 * k], plain |-> (1..n) \ {odd}] :
            lengths \in [1..n -> {1, 3}], odd \in 0..n} : n \in 0..4}
MCStarts == 1..9 \cup {NoBound}
MCEnds == {4, 7, NoBound}

\* A segment, a shorter one that begins alike, and one with other values.
S(t, v) == [t |-> t, v |-> v]
MCSegments == {<<S(1, 1), S(2, 1)>>, <<S(1, 1)>>, <<S(1, 2), S(2, 2)>>}
MCRanges == {<<1, 9>>, <<2, 9>>}

\* Two days of four instants, bars of two; trades at the start and inside.
MCTrades == 1..4
MCTradeTime == <<0, 1, 3, 4>>
F(s, e, source, gap_policy) ==
  [source |-> source, gap_policy |-> gap_policy, start |-> s, end |-> e]
MCFootQueries ==
  {F(0, 3, "provider", "allow_with_metadata"), F(0, 6, "auto", "fail"),
   F(2, 6, "auto", "allow_with_metadata"), F(0, 4, "storage", "fail")}

\* Two months of two days of two bars; a row may be off by one.
Whole(first, n) == {first + 2 * k : k \in 0..(n - 1)}
Monthly == {[m \in 0..1 |-> Whole(8 * m, 4) \cup {8 * m + 3}],
            [m \in 0..1 |-> Whole(8 * m, 4) \ {8 * m + 4}],
            [m \in 0..1 |-> IF m = 0 THEN NotPublished ELSE Whole(8, 4)]}
Daily == {[d \in 0..3 |-> Whole(4 * d, 2)],
          [d \in 0..3 |-> IF d = 1 THEN {4} ELSE Whole(4 * d, 2)],
          [d \in 0..3 |-> IF d = 2 THEN NotPublished ELSE Whole(4 * d, 2)]}
MCArchives ==
  {[f \in ({"monthly"} \X (0..1)) \cup ({"daily"} \X (0..3)) |->
      IF f[1] = "monthly" THEN m[f[2]] ELSE d[f[2]]] : m \in Monthly, d \in Daily}
MCArchiveRanges == {<<2, 12>>, <<6, 10>>, <<2, 8>>}
MCRestBars == {{4, 6}, {4}}

\* Bars of two: originals, corrections, a revocation, open ones, one that
\* opens off the grid, another provider, another provider_revision, and a row
\* that cannot be read; ranges that end on the grid and off it.
MCCloseTime(t) == t + 1
O(t, v, final, rev, state) ==
  [t |-> t, v |-> v, final |-> final, rev |-> rev, state |-> state, provider |-> "a",
   pr |-> 1, legible |-> TRUE]
MCOfflineRows ==
  {O(2, 1, TRUE, 0, "ORIGINAL"), O(2, 2, TRUE, 0, "ORIGINAL"),
   O(2, 2, TRUE, 1, "CORRECTED"), O(2, 1, FALSE, 2, "CORRECTED"),
   O(2, 2, TRUE, 3, "CORRECTED"),
   O(2, 1, TRUE, 1, "REVOKED"), O(4, 1, FALSE, 0, "ORIGINAL"),
   O(3, 1, FALSE, 0, "ORIGINAL"),
   [O(2, 1, TRUE, 1, "CORRECTED") EXCEPT !.provider = "b"],
   [O(4, 1, TRUE, 0, "ORIGINAL") EXCEPT !.pr = 2],
   [O(4, 1, TRUE, 0, "ORIGINAL") EXCEPT !.legible = FALSE]}
MCOfflineQueries == {[start |-> 2, end |-> 6], [start |-> 2, end |-> 5],
                     [start |-> 2, end |-> 4]}

Symmetry == Permutations(CacheProc) \cup Permutations(FootProc) \cup Permutations(ArchProc)
===============================================================================
