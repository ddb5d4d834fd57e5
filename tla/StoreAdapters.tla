---------------------------- MODULE StoreAdapters ----------------------------
(***************************************************************************)
(* What the package offers over a CandleStore: the provider that answers   *)
(* with canonical snapshots, the canonical and the legacy candle store     *)
(* (factories.py), and the repair of a series from a reconciliation source *)
(* (store/repair.py).  Several processes use one series at once, and also  *)
(* call upsert_open and commit_closed directly.                            *)
(*                                                                         *)
(* A value is a number, and its negative is the same candle without the    *)
(* exact decimal text of its prices: canonical_candle_payload tells the    *)
(* two apart, and a snapshot needs the text (as it needs prices and a      *)
(* close time that make_canonical_bar accepts: a candle without is         *)
(* negative too).                                                          *)
(***************************************************************************)
EXTENDS CandleStore, CanonicalSnapshot, FiniteSetsExt, SequencesExt

CONSTANTS
  Queries,       \* ranges asked for, [start, end)
  Duration,      \* length of a candle
  Cutoff,        \* the archive has the candles before it, REST the others
  Series,        \* what the legacy store is given: sequences of contract bars
  Snapshots,     \* snapshots given to the canonical store: rows, range, policy
  Sources,       \* reconciliation sources: MarketBars by (time, revision)
  Exchange       \* the exchange of the series

(* The open times the service expects: the range starts on a candle of the *)
(* exchange, but may end in the middle of one.                             *)
Expected(q) == {t \in q.start..(q.end - 1) : (t - q.start) % Duration = 0}

(* The open times of the range; a caller may have stored candles between   *)
(* those of the exchange.                                                  *)
Within(q) == {t \in Times : q.start <= t /\ t < q.end}

(* provider, provider_revision, revision and revision_state are the        *)
(* provenance; a MarketBar has revision 0 exactly when it is the original. *)
ASSUME ProvenanceAssumption ==
  \A r \in Receipts :
    /\ {"provider", "pr", "rev", "state"} = DOMAIN r
    /\ r.state \in RevisionState /\ r.rev \in Nat
    /\ r.state = "ORIGINAL" <=> r.rev = 0
ASSUME ValuesAssumption == Values \subseteq Int \ {0}
ASSUME QueriesAssumption ==
  /\ \E latest \in Times : \A t \in Times : t <= latest
  /\ Duration \in Nat \ {0}
  /\ \A q \in Queries : /\ q.start \in Nat /\ q.end \in Nat /\ q.start < q.end
                        /\ Expected(q) \subseteq Times

VARIABLES
  at,         \* where the adapter call of each process is
  req,        \* its input and what it has read
  reply,      \* how its last adapter call ended
  revised     \* open times a repair or a refetch has changed or removed

adapters == <<at, req, reply, revised>>
avars == <<closed, fmt, current, checkpoint, lock, pc, job, result, calls, fails,
           at, req, reply, revised>>
candles == <<closed, fmt, current, checkpoint, lock, pc, job, result, fails>>

Blank == [op |-> "none", todo |-> <<>>, rows |-> 0, wrote |-> 0,
          q |-> [start |-> 0, end |-> 0], seen |-> {}, cur |-> Nil, source |-> <<>>, strict |-> FALSE]

Begin(p, r, to) ==
  /\ at[p] = "none" /\ pc[p] = "idle" /\ calls < MaxCalls
  /\ calls' = calls + 1
  /\ at' = [at EXCEPT ![p] = to]
  /\ req' = [req EXCEPT ![p] = r]
  /\ UNCHANGED <<reply, revised>>

Proceed(p, from, to) ==
  /\ at[p] = from
  /\ at' = [at EXCEPT ![p] = to]
  /\ UNCHANGED <<reply, calls>>

Reply(p, r) ==
  /\ at' = [at EXCEPT ![p] = "none"]
  /\ reply' = [reply EXCEPT ![p] = r]
  /\ UNCHANGED calls

OpenTimes(bars) == {b.t : b \in bars}
StoredIn(q) == {closed[t] : t \in Stored \cap Within(q)}
Overlay(bars) ==
  [t \in Times |-> IF t \in OpenTimes(bars)
                     THEN CHOOSE b \in bars : b.t = t ELSE closed[t]]
Changed == {t \in Stored : closed'[t] # closed[t]}

(* same_canonical_candle compares the prices and not the provenance. *)
same_canonical_candle(a, b) == a.v = b.v

----------------------------------------------------------------------------
(* Writing a series.  _bulk_write_closed: a series of closed bars goes     *)
(* into the segment under one writer lock.                                 *)

contract_to_market_bar(c) ==
  [t |-> c.t, v |-> -c.v, x |-> "api",
   rcv |-> [provider |-> Exchange, pr |-> <<"v4", c.t, c.v, c.closed>>, rev |-> 0,
            state |-> "ORIGINAL"]]

(* _normalize_closed_batch: the first bar of a time stays. *)
BatchConflict(s) ==
  \E i, j \in DOMAIN s : s[i].t = s[j].t /\ ~same_canonical_candle(s[i], s[j])
Incoming(s) == {s[i] : i \in {j \in DOMAIN s : \A k \in 1..(j - 1) : s[k].t # s[j].t}}

Known(bars) == {b \in bars : b.t \in Stored}

(* Mutant: stored candles are not compared. *)
BulkVerdictBlind(s) ==
  LET new == Incoming(s) \ Known(Incoming(s)) IN
  IF BatchConflict(s) THEN "conflict"
  ELSE IF Stored # {} /\ fmt # "csv" /\ new # {} /\ \A b \in new : b.t > Max(Stored)
         THEN "unsupported" ELSE "ok"

(* Appending the tail needs a CSV segment, filling a gap rewrites it. *)
BulkVerdict(s) ==
  LET new == Incoming(s) \ Known(Incoming(s)) IN
  IF BatchConflict(s)
     \/ \E b \in Known(Incoming(s)) : ~same_canonical_candle(b, closed[b.t])
    THEN "conflict"
  ELSE IF Stored # {} /\ fmt # "csv" /\ new # {} /\ \A b \in new : b.t > Max(Stored)
         THEN "unsupported" ELSE "ok"

bulk_write_closed(p, s) ==
  LET new == Incoming(s) \ Known(Incoming(s))
      ok == BulkVerdict(s) = "ok"
  IN
  /\ at[p] = "none" /\ pc[p] = "idle" /\ lock = Nil
  /\ calls < MaxCalls /\ calls' = calls + 1
  /\ closed' = IF ok THEN Overlay(new) ELSE closed
  /\ fmt' = IF ok /\ (Stored = {} \/ \E b \in new : b.t < Max(Stored))
              THEN "csv" ELSE fmt
  /\ reply' = [reply EXCEPT ![p] =
       [op |-> "write", success |-> ok, rows |-> IF ok THEN Cardinality(new) ELSE 0,
        wrote |-> IF ok THEN Cardinality(new) ELSE 0, bars |-> Incoming(s)]]
  /\ UNCHANGED <<current, checkpoint, lock, pc, job, result, fails, at, req, revised>>

(* Any other series is written bar by bar. *)
BarByBar(p, todo, bars) ==
  /\ Begin(p, [Blank EXCEPT !.op = "write", !.todo = todo, !.seen = bars], "bar")
  /\ UNCHANGED candles

write_series(p, s) ==
  LET bars == [i \in DOMAIN s |-> contract_to_market_bar(s[i])] IN
  IF s # <<>> /\ \A i \in DOMAIN s : s[i].closed
    THEN bulk_write_closed(p, bars)
    ELSE BarByBar(p, [i \in DOMAIN s |-> [bar |-> bars[i], is_closed |-> s[i].closed]],
                  {bars[i] : i \in {j \in DOMAIN s : s[j].closed}})

(* The canonical store validates the snapshot first. *)
market_bar_from_canonical(row) ==
  [t |-> row.t, v |-> row.v, x |-> "canonical",
   rcv |-> [provider |-> row.provider, pr |-> row.pr, rev |-> row.rev,
            state |-> row.state]]

SnapshotBuilt(s) == build_public_snapshot(s.rows, DOMAIN s.rows, s.rows[1].pr, s)
SnapshotBars(s) == SnapshotBuilt(s).bars
KeptRows(s) == {bar.row : bar \in SnapshotBars(s)}

write_snapshot(p, s) ==
  LET rows == SetToSeq(KeptRows(s))
      kept == Ordered(rows, DOMAIN rows)
      todo == [i \in DOMAIN kept |-> [bar |-> market_bar_from_canonical(kept[i]),
                                      is_closed |-> kept[i].final]]
  IN IF validate_canonical_snapshot(SnapshotBars(s), s).status = "ok"
       THEN BarByBar(p, todo, {todo[i].bar : i \in {j \in DOMAIN todo : todo[j].is_closed}})
       ELSE /\ at[p] = "none" /\ pc[p] = "idle" /\ calls < MaxCalls
            /\ calls' = calls + 1
            /\ reply' = [reply EXCEPT ![p] = [op |-> "write", success |-> FALSE,
                           rows |-> 0, wrote |-> 0, bars |-> {}]]
            /\ UNCHANGED <<candles, at, req, revised>>

WriteBar(p) ==
  /\ Proceed(p, "bar", "committing")
  /\ req[p].todo # <<>>
  /\ LET u == Head(req[p].todo) IN
       IF u.is_closed THEN commit_closed(p, u.bar) ELSE upsert_open(p, u.bar)
  /\ req' = [req EXCEPT ![p].todo = Tail(@),
                        ![p].wrote = @ + IF closed' # closed THEN 1 ELSE 0]
  /\ UNCHANGED revised

BarWritten(p) ==
  /\ Proceed(p, "committing", "bar")
  /\ pc[p] = "idle" /\ result[p].status \notin {"conflict", "failed"}
  /\ req' = [req EXCEPT ![p].rows =
               @ + IF result[p].status \in {"committed", "upserted"} THEN 1 ELSE 0]
  /\ UNCHANGED <<candles, revised>>

(* StoreResult: an exception of the store is reported, not raised. *)
WriteEnds(p) ==
  /\ \/ at[p] = "bar" /\ req[p].todo = <<>>
     \/ at[p] = "committing" /\ pc[p] = "idle" /\ result[p].status \in {"conflict", "failed"}
  /\ Reply(p, [op |-> "write", success |-> at[p] = "bar", rows |-> req[p].rows,
               wrote |-> req[p].wrote, bars |-> req[p].seen])
  /\ UNCHANGED <<candles, req, revised>>

----------------------------------------------------------------------------
(* repair_from_source: audit, replacement and log under one writer lock. *)

SourceTimes(source) == {source[i].t : i \in DOMAIN source}

(* audit_against_source compares every source bar with the stored one. *)
AuditIssues(stored, source, strict) ==
  {<<"missing", source[i].t>> : i \in {j \in DOMAIN source : stored[source[j].t] = Nil}}
    \cup {<<"mismatch", source[i].t>> :
            i \in {j \in DOMAIN source :
                     /\ stored[source[j].t] # Nil
                     /\ ~same_canonical_candle(stored[source[j].t], source[j])}}
    \cup (IF strict THEN {<<"extra", t>> : t \in {u \in Times : stored[u] # Nil}
                                                    \ SourceTimes(source)} ELSE {})

audit_against_source(p, source, strict) ==
  /\ at[p] = "none" /\ pc[p] = "idle" /\ lock = Nil
  /\ calls < MaxCalls /\ calls' = calls + 1
  /\ reply' = [reply EXCEPT ![p] =
       [op |-> "audit", issues |-> AuditIssues(closed, source, strict)]]
  /\ UNCHANGED <<candles, at, req, revised>>

(* Mutant: the series is read before the lock is taken. *)
repair_unlocked(p, source, strict) ==
  /\ Begin(p, [Blank EXCEPT !.op = "repair", !.source = source, !.strict = strict,
                            !.seen = closed], "repair")
  /\ lock = Nil
  /\ UNCHANGED candles

repair_from_source(p, source, strict) ==
  /\ Begin(p, [Blank EXCEPT !.op = "repair", !.source = source, !.strict = strict,
                            !.seen = closed], "repair")
  /\ lock = Nil /\ lock' = p
  /\ UNCHANGED <<closed, fmt, current, checkpoint, pc, job, result, fails>>

(* Mutant: every revision is compared with the stored candle. *)
TakenFromStored(stored, source, t) ==
  {i \in DOMAIN source :
     /\ source[i].t = t
     /\ stored[t] = Nil \/ ~same_canonical_candle(stored[t], source[i])}

(* A source bar takes the place of the candle it differs from; with        *)
(* several revisions each is compared with what the one before it left.    *)
Taken(stored, source, t) ==
  LET mine == {i \in DOMAIN source : source[i].t = t}
      before(i) == IF i = Min(mine) THEN stored[t]
                   ELSE source[Max({j \in mine : j < i})]
  IN {i \in mine : before(i) = Nil \/ ~same_canonical_candle(before(i), source[i])}

Repaired(stored, source, t) ==
  LET taken == Taken(stored, source, t)
  IN IF taken = {} THEN stored[t] ELSE source[Max(taken)]

(* changed > 0 in the log. *)
Applied(r) ==
  \/ \E t \in SourceTimes(r.source) : Taken(r.seen, r.source, t) # {}
  \/ r.strict /\ \E t \in Times \ SourceTimes(r.source) : r.seen[t] # Nil

repair_replace(p) ==
  LET r == req[p] IN
  /\ Proceed(p, "repair", "log")
  /\ closed' = [t \in Times |->
                  IF t \in SourceTimes(r.source) THEN Repaired(r.seen, r.source, t)
                  ELSE IF r.strict THEN Nil ELSE r.seen[t]]
  /\ fmt' = IF Applied(r) THEN "csv" ELSE fmt
  /\ revised' = revised \cup Changed
  /\ UNCHANGED <<req, current, checkpoint, lock, pc, job, result, fails>>

(* write_repair_log, still under the lock. *)
write_repair_log(p) ==
  /\ at[p] = "log"
  /\ Release(p)
  /\ Reply(p, [op |-> "repair",
               issues |-> AuditIssues(req[p].seen, req[p].source, req[p].strict)])
  /\ UNCHANGED <<closed, fmt, current, checkpoint, pc, job, result, fails, req, revised>>

RepairDies(p) ==
  /\ at[p] \in {"repair", "log"} /\ fails < MaxFails
  /\ fails' = fails + 1
  /\ Release(p)
  /\ Reply(p, [op |-> "failed"])
  /\ UNCHANGED <<closed, fmt, current, checkpoint, pc, job, result, req, revised>>

----------------------------------------------------------------------------
(* Snapshots.  fetch_bars of the exchange provider lets the service store  *)
(* what is missing, reads the series, then the current candle; read of the *)
(* canonical store reads the series only.                                  *)

fetch_bars(p, q) ==
  /\ Begin(p, [Blank EXCEPT !.op = "fetch", !.q = q], "service")
  /\ UNCHANGED candles

read(p, q) ==
  /\ Begin(p, [Blank EXCEPT !.op = "read", !.q = q], "stored")
  /\ UNCHANGED candles

(* bind_source_identity: the provider_revision is a hash of the range and  *)
(* the bars one transport delivered; REST is asked for what is behind the  *)
(* archive.                                                                *)
Transport(t) == IF t < Cutoff THEN "archive" ELSE "rest"
SourceBars(ts, start, end) ==
  LET part(x) == {u \in ts : Transport(u) = x}
      from(x) == IF x = "archive" THEN start
                 ELSE Max({start, Cutoff} \cup {u + Duration : u \in part("archive")})
  IN {[t |-> t, v |-> 1, x |-> Transport(t),
       rcv |-> [provider |-> Exchange,
                pr |-> <<Transport(t), from(Transport(t)), end, part(Transport(t))>>,
                rev |-> 0, state |-> "ORIGINAL"]] : t \in ts}

(* service.fetch_bars in one step (MarketDataService has its own steps):   *)
(* nothing when the range is stored, else the tail behind the stored       *)
(* candles is appended, else the whole range merged over them.             *)
TailStart(q) == Max({q.start} \cup {u + Duration : u \in Stored})
TailOf(q) == {t \in Expected(q) : TailStart(q) <= t}
Fetched(q) == IF Expected(q) \subseteq Stored THEN {}
              ELSE IF Stored # {} /\ TailOf(q) # {}
                     THEN SourceBars(TailOf(q), TailStart(q), q.end)
              ELSE SourceBars(Expected(q), q.start, q.end)

ServiceStores(p) ==
  LET bars == Fetched(req[p].q) IN
  /\ Proceed(p, "service", "stored")
  /\ lock = Nil
  /\ TailOf(req[p].q) # {} /\ Stored # {} => fmt = "csv"
  /\ closed' = Overlay(bars)
  /\ fmt' = IF bars # {} /\ (Stored = {} \/ TailOf(req[p].q) = {}) THEN "csv" ELSE fmt
  /\ current' = [r \in DOMAIN current |->
                   IF \E b \in bars : r = <<b.x, b.t>> THEN Nil ELSE current[r]]
  /\ Expected(req[p].q) \subseteq {t \in Times : closed'[t] # Nil}
  /\ revised' = revised \cup Changed
  /\ UNCHANGED <<req, checkpoint, lock, pc, job, result, fails>>

(* A parquet segment refuses the tail; after it, an older gap is reported  *)
(* as CoverageValidationError.                                             *)
ServiceRaises(p) ==
  LET q == req[p].q
      bars == IF fmt = "csv" \/ TailOf(q) = {} THEN Fetched(q) ELSE {} IN
  /\ at[p] = "service" /\ lock = Nil
  /\ Stored # {} /\ TailOf(q) # {}
  /\ fmt # "csv" \/ ~(Expected(q) \subseteq Stored \cup TailOf(q))
  /\ closed' = Overlay(bars)
  /\ current' = [r \in DOMAIN current |->
                   IF \E b \in bars : r = <<b.x, b.t>> THEN Nil ELSE current[r]]
  /\ Reply(p, [op |-> "failed"])
  /\ UNCHANGED <<fmt, checkpoint, lock, pc, job, result, fails, req, revised>>

get_market_bars(p) ==
  /\ Proceed(p, "stored", IF req[p].op = "fetch" THEN "current" ELSE "build")
  /\ lock = Nil
  /\ req' = [req EXCEPT ![p].seen = StoredIn(req[p].q)]
  /\ UNCHANGED <<candles, revised>>

(* The rows of the newest open time, of whichever transport. *)
NewestRows ==
  LET rows == {current[r] : r \in DOMAIN current} \ {Nil}
  IN {b \in rows : \A c \in rows : c.t <= b.t}

get_current(p) ==
  /\ Proceed(p, "current", "build")
  /\ IF NewestRows = {}
       THEN UNCHANGED req
       ELSE \E b \in NewestRows :
              req' = [req EXCEPT ![p].cur = IF b.t \in Within(req[p].q) THEN b ELSE Nil]
  /\ UNCHANGED <<candles, revised>>

raw_bar_from_market_bar(b, final) ==
  [t |-> b.t, v |-> b.v, final |-> final, provider |-> b.rcv.provider,
   pr |-> b.rcv.pr, rev |-> b.rcv.rev, state |-> b.rcv.state]

(* _snapshot_source_identity and snapshot_from_market_bars: one provider,  *)
(* that of the series, and one provider_revision.                          *)
SnapshotOf(seen, cur, q) ==
  LET stored == SetToSeq(seen)
      rows == [i \in DOMAIN stored |-> raw_bar_from_market_bar(stored[i], TRUE)]
                \o (IF cur = Nil THEN <<>> ELSE <<raw_bar_from_market_bar(cur, FALSE)>>)
      prs == {rows[i].pr : i \in DOMAIN rows}
  IN IF \/ \E i \in DOMAIN rows : rows[i].provider # Exchange \/ rows[i].v < 0
        \/ Cardinality(prs) # 1
       THEN Refused
       ELSE build_public_snapshot(rows, DOMAIN rows, rows[1].pr, OnlyClosed(q))

snapshot_from_market_bars(p) ==
  LET r == req[p] IN
  /\ at[p] = "build"
  /\ Reply(p, [op |-> r.op, q |-> r.q, seen |-> r.seen, cur |-> r.cur,
               snap |-> SnapshotOf(r.seen, r.cur, r.q)])
  /\ UNCHANGED <<candles, req, revised>>

(* Everything that is handed in becomes bars of the series. *)
ASSUME InputsAssumption ==
  /\ Series \subseteq Seq([t : Times, v : Int, closed : BOOLEAN])
  /\ \A s \in Series : \A i \in DOMAIN s : contract_to_market_bar(s[i]) \in MarketBar
  /\ Sources \subseteq Seq(MarketBar)
  /\ \A q \in Queries : \A ts \in SUBSET Expected(q), start \in q.start..q.end :
       SourceBars(ts, start, q.end) \subseteq MarketBar
  /\ \A s \in Snapshots : SnapshotBuilt(s).status = "ok" /\ IsFiniteSet(KeptRows(s))
  /\ \A s \in Snapshots : \A row \in KeptRows(s) :
       row.rev \in Nat /\ row.final \in BOOLEAN /\ market_bar_from_canonical(row) \in MarketBar

----------------------------------------------------------------------------
(* Specification. *)

AInit ==
  /\ Init
  /\ at = [p \in Proc |-> "none"]
  /\ req = [p \in Proc |-> Blank]
  /\ reply = [p \in Proc |-> [op |-> "none"]]
  /\ revised = {}

AdapterCall(p) ==
  \/ \E s \in Series : write_series(p, s)
  \/ \E s \in Snapshots : write_snapshot(p, s)
  \/ \E s \in Sources, strict \in BOOLEAN :
       audit_against_source(p, s, strict) \/ repair_from_source(p, s, strict)
  \/ \E q \in Queries : fetch_bars(p, q) \/ read(p, q)

AdapterStep(p) ==
  \/ WriteBar(p) \/ BarWritten(p) \/ WriteEnds(p)
  \/ repair_replace(p) \/ write_repair_log(p) \/ RepairDies(p)
  \/ ServiceStores(p) \/ ServiceRaises(p) \/ get_market_bars(p) \/ get_current(p)
  \/ snapshot_from_market_bars(p)

(* A step of CandleStore; an open row that was written counts. *)
StoreStep(p) ==
  /\ Step(p)
  /\ req' = [req EXCEPT ![p].wrote =
               @ + IF pc[p] = "upsert_current" /\ at[p] = "committing" THEN 1 ELSE 0]
  /\ UNCHANGED <<calls, at, reply, revised>>

ANext ==
  \/ \E p \in Proc : AdapterCall(p) \/ AdapterStep(p) \/ StoreStep(p)
  \/ \E p \in Proc : at[p] = "none" /\ Start(p) /\ UNCHANGED adapters
  \/ \E p \in Proc : Fail(p) /\ UNCHANGED calls /\ UNCHANGED adapters
  \/ \E f \in {"csv", "parquet"} : compact(f) /\ UNCHANGED calls /\ UNCHANGED adapters

ASpec == AInit /\ [][ANext]_avars

----------------------------------------------------------------------------
(* Properties. *)

(* A repair under the writer lock leaves the series as the source has it:  *)
(* for every open time of the source the last revision's prices, and after *)
(* a strict repair nothing else.  It was applied exactly when its audit    *)
(* had an issue, and the audit of the repaired series has none, unless the *)
(* source lists a candle twice.  All that whatever other processes write   *)
(* meanwhile.                                                              *)
RepairConverges ==
  \A p \in Proc : at[p] = "log" =>
    LET r == req[p]
        last(t) == Max({i \in DOMAIN r.source : r.source[i].t = t})
    IN /\ \A t \in SourceTimes(r.source) :
            closed[t] # Nil /\ same_canonical_candle(closed[t], r.source[last(t)])
       /\ r.strict => Stored = SourceTimes(r.source)
       /\ Applied(r) <=> AuditIssues(r.seen, r.source, r.strict) # {}
       /\ Cardinality(SourceTimes(r.source)) = Len(r.source)
            => AuditIssues(closed, r.source, r.strict) = {}

(* A final candle changes only on purpose: by a repair whose source        *)
(* disagrees with it, by a strict repair whose source does not have it, or *)
(* by the service fetching its range again.  No write of any other process *)
(* that falls between the steps of a repair is lost, and no adapter        *)
(* replaces a stored candle by what it is given.                           *)
RevisionsAreDeliberate ==
  [][\A t \in Stored : closed'[t] = closed[t] \/ \E p \in Proc :
       /\ at'[p] # at[p]
       /\ \/ at[p] = "service"
          \/ at[p] = "repair" /\
             IF t \in SourceTimes(req[p].source)
               THEN \E i \in DOMAIN req[p].source :
                      /\ req[p].source[i].t = t
                      /\ ~same_canonical_candle(req[p].source[i], closed[t])
               ELSE req[p].strict]_avars

(* StoreResult tells the truth: after success every closed bar is stored   *)
(* with its prices, unless a repair or a refetch came in between, and      *)
(* rows_written is what the call has added; after a failure it is short by *)
(* at most the bar whose write did not return.                             *)
WritesAreReported ==
  [][\A p \in Proc :
       LET r == reply'[p] IN
       reply'[p] # reply[p] /\ r.op = "write" =>
         IF r.success
           THEN /\ r.rows = r.wrote
                /\ \A b \in r.bars : b.t \notin revised' =>
                     closed'[b.t] # Nil /\ same_canonical_candle(closed'[b.t], b)
           ELSE r.rows <= r.wrote /\ r.wrote <= r.rows + 1]_avars

(* The newest row of each candle, where it is not revoked: the open row,   *)
(* when it corrects the stored one.                                        *)
Standing(seen, cur) ==
  LET all == seen \cup ({cur} \ {Nil})
  IN {b \in all : /\ b.rcv.state # "REVOKED"
                  /\ \A c \in all : c.t = b.t => c.rcv.rev <= b.rcv.rev}

(* What keeps a range from being served: nothing to serve, more than one   *)
(* provider_revision, a provider other than the exchange, a price without  *)
(* its text, a correction without its original, a candle that the range    *)
(* ends in, an open row of the same revision left behind for a stored      *)
(* candle, or candles that overlap.                                        *)
Obstacle(seen, cur, q) ==
  LET all == seen \cup ({cur} \ {Nil}) IN
  \/ Cardinality({b.rcv.pr : b \in all}) # 1
  \/ \E b \in all : \/ b.rcv.provider # Exchange \/ b.v < 0
                    \/ \A c \in all : c.t = b.t => c.rcv.rev # 0
                    \/ ~(close_time_ms(b.t) < q.end)
  \/ cur # Nil /\ \E b \in seen : b.t = cur.t /\ b.rcv.rev = cur.rcv.rev
  \/ \E b, c \in Standing(seen, cur) : Overlap(b.t, c.t)

(* A snapshot serves exactly the stored candles as they were when the      *)
(* series was read, all of them final, save those revoked and those with a *)
(* correction that is still open; it is refused for a named obstacle only. *)
(* What is read after a fetch has every candle the service expects in the  *)
(* range, except where a repair removed candles meanwhile.                 *)
SnapshotsServeTheStore ==
  \A p \in Proc :
    LET r == reply[p] IN
    r.op \in {"fetch", "read"} =>
      /\ r.op = "fetch" => Expected(r.q) \ OpenTimes(r.seen) \subseteq revised
      /\ IF Obstacle(r.seen, r.cur, r.q)
           THEN r.snap.status # "ok"
           ELSE /\ r.snap.status = "ok"
                /\ {bar.row : bar \in r.snap.bars}
                     = {raw_bar_from_market_bar(b, TRUE) :
                          b \in Standing(r.seen, r.cur) \cap r.seen}

=============================================================================
