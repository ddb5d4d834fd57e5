----------------------------- MODULE OfflineFile -----------------------------
(***************************************************************************)
(* The offline provider (_OfflineProviderAdapter in factories.py): a CSV   *)
(* file that nobody in the package writes, with several revisions of a     *)
(* candle in any order, becomes a snapshot or is refused.                  *)
(***************************************************************************)
EXTENDS CanonicalSnapshot

CONSTANTS
  OfflineRows,     \* rows a file may have, with a field legible
  MaxRows,         \* bound on the length of a file
  OfflineQueries   \* ranges, [start, end)

(* A revision or a finality that is not one makes a row illegible, and so  *)
(* does a close time other than the one of its timeframe.  A row whose     *)
(* open time is no number would refuse every query, asked for or not.      *)
ASSUME OfflineAssumption ==
  /\ MaxRows \in Nat
  /\ \A r \in OfflineRows : /\ r.t \in Nat /\ r.rev \in Nat
                             /\ r.final \in BOOLEAN /\ r.legible \in BOOLEAN
  /\ \A q \in OfflineQueries : q.start \in Nat /\ q.end \in Nat

VARIABLES
  offline,     \* the rows of the file
  query,       \* what is asked, or NoQuery
  snapshot     \* the answer

offlinevars == <<offline, query, snapshot>>

NoQuery == [start |-> 0, end |-> 0]
NoSnapshot == [status |-> "none", bars |-> {}]

OfflineInit ==
  /\ offline \in UNION {[1..n -> OfflineRows] : n \in 0..MaxRows}
  /\ query = NoQuery
  /\ snapshot = NoSnapshot

(* Rows that do not open in the range are not looked at. *)
Asked(rows, q) == {i \in DOMAIN rows : q.start <= rows[i].t /\ rows[i].t < q.end}

(* A row without finality, identity or revision refuses the whole file. *)
Fetched(rows, q) ==
  LET asked == Asked(rows, q)
      revisions == {rows[i].pr : i \in asked} IN
  IF (\E i \in asked : ~rows[i].legible) \/ Cardinality(revisions) # 1
    THEN Refused
    ELSE build_public_snapshot(rows, asked, CHOOSE pr \in revisions : TRUE,
                               OnlyClosed(q))

fetch_bars(q) ==
  /\ query = NoQuery
  /\ query' = q
  /\ snapshot' = Fetched(offline, q)
  /\ UNCHANGED offline

OfflineNext == \E q \in OfflineQueries : fetch_bars(q)

----------------------------------------------------------------------------
(* The order of the rows never matters: a file is accepted exactly when    *)
(* its rows can be read, share a provider_revision, close within the range *)
(* and agree for each candle, and no two candles that are not revoked      *)
(* overlap; the snapshot then has the newest revision of every candle that *)
(* is final and not revoked.                                               *)
OfflineMatchesReference ==
  snapshot # NoSnapshot =>
    LET asked == Asked(offline, query)
        newest == {i \in asked : \A j \in asked :
                     offline[j].t = offline[i].t => offline[j].rev <= offline[i].rev}
        standing == {offline[i] : i \in {j \in newest : offline[j].state # "REVOKED"}}
    IN
    /\ snapshot.status = "ok" <=>
         /\ asked # {}
         /\ \A i, j \in asked : offline[i].legible /\ offline[i].pr = offline[j].pr
         /\ \A i \in asked : /\ close_time_ms(offline[i].t) < query.end
                             /\ Consistent(offline, Group(offline, asked, offline[i].t))
         /\ \A r, s \in standing : ~Overlap(r.t, s.t)
    /\ snapshot.status = "ok" =>
         {bar.row : bar \in snapshot.bars} = {r \in standing : r.final}

=============================================================================
