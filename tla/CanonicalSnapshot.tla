-------------------------- MODULE CanonicalSnapshot --------------------------
(***************************************************************************)
(* How rows become a canonical snapshot (canonical/provider.py,            *)
(* canonical/bar.py): each revision of a candle is bound to the one before *)
(* it by a hash, and of every valid chain the last revision is kept.       *)
(*                                                                         *)
(* A row is a record [t, v, final, provider, pr, rev, state]: open time,   *)
(* prices, finality, provider, provider_revision, revision and state.      *)
(* Only operators: the modules that read files and the store extend it.    *)
(* A query q is a record with start, end and policy, the finality policy.  *)
(* Every refusal is an exception of the code; which one is not kept.       *)
(***************************************************************************)
EXTENDS Naturals, Sequences, FiniteSetsExt

(* The last millisecond of the bar that opens at t: t plus the timeframe,  *)
(* or the end of its UTC day, Monday week or month, less one.  Nothing     *)
(* makes open times lie on the grid of the timeframe.                      *)
CONSTANT close_time_ms(_)

RevisionState == {"ORIGINAL", "CORRECTED", "REVOKED"}

Refused == [status |-> "refused", bars |-> {}]

----------------------------------------------------------------------------
(* build_public_snapshot *)

(* Mutant: rows of one candle are kept in the order of the file. *)
BeforeByTime(a, b) == a.t < b.t

(* The sort key (open_time_utc_ms, revision). *)
Before(a, b) == a.t < b.t \/ (a.t = b.t /\ a.rev < b.rev)

(* sorted(...) of the rows at some positions; it is stable, and so orders  *)
(* the rows of one candle as it orders them among all.                     *)
Ordered(rows, positions) ==
  LET place(i) == Cardinality({j \in positions :
                    \/ Before(rows[j], rows[i])
                    \/ ~Before(rows[i], rows[j]) /\ j <= i})
  IN [k \in 1..Cardinality(positions) |->
        rows[CHOOSE i \in positions : place(i) = k]]

(* Where the rows of one candle are. *)
Group(rows, positions, t) == {i \in positions : rows[i].t = t}

(* A content hash covers the row and, through superseded_bar_hash, the     *)
(* rows before it up to the ORIGINAL one: it is that part of the group.    *)
BarHash(g, k) == SubSeq(g, Max({j \in 1..k : g[j].state = "ORIGINAL"}), k)

(* make_canonical_bar: the state fits the revision, and a correction has   *)
(* something to supersede.                                                 *)
HasLineage(g) ==
  /\ g[1].state = "ORIGINAL"
  /\ \A k \in DOMAIN g : (g[k].rev = 0) <=> (g[k].state = "ORIGINAL")

canonicalize(g) ==
  [k \in DOMAIN g |->
     [row |-> g[k], hash |-> BarHash(g, k),
      superseded |-> IF g[k].state = "ORIGINAL" THEN <<>> ELSE BarHash(g, k - 1)]]

----------------------------------------------------------------------------
(* build_data_snapshot over one chain of canonical bars for each time. *)

(* _resolve_bar_group: a repeated hash counts once. *)
Unique(chain) == {k \in DOMAIN chain : \A j \in 1..(k - 1) : chain[j].hash # chain[k].hash}

BreaksChain(prev, bar) ==
  \/ bar.row.rev <= prev.row.rev
  \/ prev.row.state = "REVOKED"
  \/ bar.superseded # prev.hash

Conflicting(chain) ==
  \/ \E j, k \in Unique(chain) : chain[j].row.provider # chain[k].row.provider
  \/ chain[1].row.state # "ORIGINAL"
  \/ \E k \in Unique(chain) \ {1} :
       BreaksChain(chain[Max({j \in Unique(chain) : j < k})], chain[k])

Included(bar, policy) ==
  /\ bar.row.state # "REVOKED"
  /\ policy = "ALLOW_OPEN" \/ bar.row.final

(* Mutant: a bar may reach beyond the end of the range. *)
InsideByOpen(t, q) == q.start <= t /\ t < q.end

(* A bar lies in the range to its last millisecond. *)
Inside(t, q) == q.start <= t /\ close_time_ms(t) < q.end

(* The bar that opens at u opens within the bar that opens at t. *)
Overlap(t, u) == t < u /\ u <= close_time_ms(t)

(* Revoked candles leave the range free; open ones do not, whatever the    *)
(* policy.                                                                 *)
build_data_snapshot(chains, q) ==
  LET last == [t \in DOMAIN chains |-> chains[t][Max(Unique(chains[t]))]]
      kept == {t \in DOMAIN chains : last[t].row.state # "REVOKED"}
  IN
  IF \/ \E t \in DOMAIN chains : ~Inside(t, q) \/ Conflicting(chains[t])
     \/ \E t, u \in kept : Overlap(t, u)
    THEN Refused
    ELSE [status |-> "ok",
          bars |-> {bar \in {last[t] : t \in DOMAIN chains} : Included(bar, q.policy)}]

(* What a provider is asked for: the policy is the default one.            *)
OnlyClosed(q) == [start |-> q.start, end |-> q.end, policy |-> "CLOSED_BAR_ONLY"]

(* Of the rows at some positions; every one must carry the snapshot's      *)
(* provider_revision.                                                      *)
build_public_snapshot(rows, positions, pr, q) ==
  LET groups == [t \in {rows[i].t : i \in positions} |->
                   Ordered(rows, Group(rows, positions, t))]
  IN IF (\E i \in positions : rows[i].pr # pr)
        \/ (\E t \in DOMAIN groups : ~HasLineage(groups[t]))
       THEN Refused
       ELSE build_data_snapshot([t \in DOMAIN groups |-> canonicalize(groups[t])], q)

(* validate_canonical_snapshot rebuilds a snapshot from its kept bars. *)
validate_canonical_snapshot(bars, q) ==
  build_data_snapshot(
    [t \in {bar.row.t : bar \in bars} |-> <<CHOOSE bar \in bars : bar.row.t = t>>], q)

----------------------------------------------------------------------------
(* What build_public_snapshot is measured against. *)

(* The rows of one candle agree: they have one provider and one original   *)
(* (which may be repeated), each correction has a revision of its own, and *)
(* only the last revision may be a revocation.                             *)
Consistent(rows, group) ==
  /\ \A i, j \in group : rows[i].provider = rows[j].provider
  /\ \A i \in group : (rows[i].state = "ORIGINAL") <=> (rows[i].rev = 0)
  /\ \E i \in group : rows[i].rev = 0
  /\ \A i, j \in group : rows[i].rev = rows[j].rev =>
       IF rows[i].rev = 0 THEN rows[i] = rows[j] ELSE i = j
  /\ \A i, j \in group : rows[i].state = "REVOKED" => rows[j].rev <= rows[i].rev

=============================================================================
