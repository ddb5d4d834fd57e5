-------------------------- MODULE MarketDataService --------------------------
(***************************************************************************)
(* MarketDataService (service.py) for one instrument: answer a query from  *)
(* the store, fetch what is missing, store it, and build the candles of a  *)
(* derived timeframe from the stored base candles.                         *)
(*                                                                         *)
(* Time is counted in base candles.  The base series is the CandleStore's; *)
(* a derived candle is the set of base candles it was aggregated from,     *)
(* which is what its provider_revision hashes.  Threads of one process     *)
(* share a lock per series (the flight); processes share only the store.   *)
(***************************************************************************)
EXTENDS CandleStore, FiniteSetsExt

CONSTANTS
  Home,         \* the process each thread belongs to
  Queries,      \* what callers ask for
  Ratio,        \* base candles in a derived candle
  Cutoff,       \* _archive_cutoff_ms: the archive ends, REST begins here
  Gaps,         \* candles no source has
  LastNow       \* bound: how far the clock runs

BarQuery == [tf : {"base", "derived"}, start : Nat, end : Nat]
Processes == {Home[p] : p \in Proc}
Buckets == {t \in Times : t % Ratio = 0}

ASSUME ServiceAssumption ==
  /\ Home \in [Proc -> Processes]
  /\ Queries \subseteq BarQuery
  /\ Ratio \in Nat \ {0}
  /\ Cutoff \in Nat /\ LastNow \in Nat
  /\ Gaps \subseteq Times
  /\ {"rest", "archive"} \subseteq Transports /\ Receipts # {}
  /\ \A bars \in SUBSET MarketBar : bars # Nil

VARIABLES
  now,       \* the candle being formed; earlier ones are closed
  derived,   \* stored candles of the derived timeframe, or Nil
  flight,    \* holder of each process's flight lock
  at,        \* where each thread is in its call
  req,       \* its call: op, query, and what it has found out so far
  answer     \* how its last call ended

service == <<now, derived, flight, at, req, answer>>
mvars == <<closed, fmt, current, checkpoint, lock, pc, job, result, calls, fails,
           now, derived, flight, at, req, answer>>
candles == <<closed, fmt, current, checkpoint, lock, pc, job, result, fails>>

InFlight == {"check", "manifest", "fetch_tail", "recheck", "fetch_whole", "open",
             "opened", "append", "merge", "clean"}

(* What a call carries: where a tail fetch starts, how to store what was   *)
(* fetched, the fetched candles, whether something was stored, the derived *)
(* candles aggregated.                                                     *)
Request(op, q) ==
  [op |-> op, q |-> q, from |-> q.start, write |-> "merge", final |-> {}, open |-> {},
   changed |-> FALSE, agg |-> <<>>]

Duration(q) == IF q.tf = "base" THEN 1 ELSE Ratio
StoredTimes(q) == IF q.tf = "base" THEN Stored ELSE {b \in Buckets : derived[b] # Nil}
InRange(q) == {t \in Times : q.start <= t /\ t < q.end}
Grid(q) == {t \in InRange(q) : (t - q.start) % Duration(q) = 0}

(* Mutant: one present candle is taken for all of them. *)
coverage_started(q) == Grid(q) \cap StoredTimes(q) # {}

(* _coverage_complete: every expected open time is present. *)
coverage_complete(q) == Grid(q) \subseteq StoredTimes(q)

(* _stored_coverage_complete: the stored ones are exactly the expected. *)
stored_coverage_complete(q) == StoredTimes(q) \cap InRange(q) = Grid(q)

(* _manifest_spans: only the ends are looked at. *)
stored_span_complete(q) ==
  /\ StoredTimes(q) # {}
  /\ Min(StoredTimes(q)) <= q.start
  /\ Max(StoredTimes(q)) >= q.end - Duration(q)

(* _base_query: the derived timeframe is fetched as base candles. *)
base_query(q) == [q EXCEPT !.tf = "base"]

----------------------------------------------------------------------------
(* Sources.  The archive has the candles before Cutoff, REST the rest of   *)
(* what _remaining_recent_query asks for; REST also returns the candle     *)
(* being formed (include_open_candle).                                     *)

SourceBar(t, v, x) == [t |-> t, v |-> v, x |-> x, rcv |-> CHOOSE r \in Receipts : TRUE]

archive(from, to) == {t \in Times \ Gaps : from <= t /\ t < to /\ t < now /\ t < Cutoff}

remaining_from(from, to) ==
  Max({from, Cutoff} \cup {t + 1 : t \in archive(from, to)})

rest(from, to) ==
  {t \in Times \ Gaps : remaining_from(from, to) <= t /\ t < to /\ t <= now}

(* Mutant: the candle being formed is not told apart. *)
fetched_all(from, to, v) ==
  {SourceBar(t, v, "archive") : t \in archive(from, to)}
    \cup {SourceBar(t, v, "rest") : t \in rest(from, to)}

fetched_final(from, to, v) ==
  {SourceBar(t, v, "archive") : t \in archive(from, to)}
    \cup {SourceBar(t, v, "rest") : t \in rest(from, to) \ {now}}
fetched_open(from, to, v) ==
  {SourceBar(t, v, "rest") : t \in rest(from, to) \cap {now}}

----------------------------------------------------------------------------
(* Control. *)

Go(p, from, to) == at[p] = from /\ at' = [at EXCEPT ![p] = to]

Answer(p, status, bars) ==
  /\ at' = [at EXCEPT ![p] = "none"]
  /\ answer' = [answer EXCEPT ![p] =
                  [status |-> status, q |-> req[p].q, op |-> req[p].op, bars |-> bars]]

(* Mutant: an exception leaves the flight lock held. *)
RaiseInFlight(p, status) ==
  /\ Answer(p, status, {})
  /\ UNCHANGED <<now, derived, flight, req>>

(* An exception leaves the with block of the flight lock as well. *)
Raise(p, status) ==
  /\ Answer(p, status, {})
  /\ flight' = [h \in Processes |-> IF flight[h] = p THEN Nil ELSE flight[h]]
  /\ UNCHANGED <<now, derived, req>>

(* _ensure_stored returns whether it has stored something. *)
Landed(p, changed) ==
  /\ at' = [at EXCEPT ![p] = "after"]
  /\ req' = [req EXCEPT ![p].changed = changed]
  /\ flight' = [flight EXCEPT ![Home[p]] = Nil]
  /\ UNCHANGED <<now, derived, answer>>

----------------------------------------------------------------------------
(* The entry points look at the store first. *)

fetch_bars(p, q) ==
  /\ at[p] = "none" /\ pc[p] = "idle" /\ (q.tf = "base" => lock = Nil)
  /\ req' = [req EXCEPT ![p] = Request("fetch", q)]
  /\ IF coverage_complete(q)
       THEN /\ answer' = [answer EXCEPT ![p] =
                 [status |-> "ok", q |-> q, op |-> "fetch",
                  bars |-> StoredTimes(q) \cap InRange(q)]]
            /\ UNCHANGED at
       ELSE Go(p, "none", "flight") /\ UNCHANGED answer
  /\ UNCHANGED <<now, derived, flight, candles>>

materialize_bars(p, q) ==
  /\ at[p] = "none" /\ pc[p] = "idle" /\ (q.tf = "base" => lock = Nil)
  /\ req' = [req EXCEPT ![p] = Request("materialize", q)]
  /\ IF stored_coverage_complete(q)
       THEN /\ answer' = [answer EXCEPT ![p] =
                 [status |-> "ok", q |-> q, op |-> "materialize", bars |-> {}]]
            /\ UNCHANGED at
       ELSE Go(p, "none", "flight") /\ UNCHANGED answer
  /\ UNCHANGED <<now, derived, flight, candles>>

(* Mutant: threads do not wait for each other. *)
ensure_stored_alone(p) ==
  /\ Go(p, "flight", "check")
  /\ flight' = [flight EXCEPT ![Home[p]] = p]
  /\ UNCHANGED <<now, derived, req, answer, candles>>

ensure_stored(p) ==
  /\ flight[Home[p]] = Nil
  /\ Go(p, "flight", "check")
  /\ flight' = [flight EXCEPT ![Home[p]] = p]
  /\ UNCHANGED <<now, derived, req, answer, candles>>

----------------------------------------------------------------------------
(* _ensure_stored_locked, under the flight lock. *)

CheckCoverage(p) ==
  /\ at[p] = "check" /\ lock = Nil
  /\ IF stored_coverage_complete(base_query(req[p].q))
       THEN Landed(p, FALSE)
       ELSE Go(p, "check", "manifest") /\ UNCHANGED <<now, derived, flight, req, answer>>
  /\ UNCHANGED candles

(* The missing tail starts after manifest.end_time. *)
ReadManifest(p) ==
  /\ at[p] = "manifest"
  /\ LET start == Max({req[p].q.start} \cup {t + 1 : t \in Stored}) IN
       IF Stored # {} /\ start < req[p].q.end
         THEN Go(p, "manifest", "fetch_tail") /\ req' = [req EXCEPT ![p].from = start]
         ELSE Go(p, "manifest", "recheck") /\ UNCHANGED req
  /\ UNCHANGED <<now, derived, flight, answer, candles>>

Recheck(p) ==
  /\ at[p] = "recheck" /\ lock = Nil
  /\ IF coverage_complete(base_query(req[p].q))
       THEN Landed(p, FALSE)
       ELSE Go(p, "recheck", "fetch_whole") /\ UNCHANGED <<now, derived, flight, req, answer>>
  /\ UNCHANGED candles

(* _fetch_from_sources: the exchange answers with the values it has now. *)
fetch_from_sources(p, from, v, write, nothing) ==
  LET final == fetched_final(from, req[p].q.end, v)
      open == fetched_open(from, req[p].q.end, v)
  IN
  /\ IF final \cup open = {}
       THEN nothing
       ELSE /\ at' = [at EXCEPT ![p] = "open"]
            /\ req' = [req EXCEPT ![p].write = write, ![p].final = final,
                                  ![p].open = open]
            /\ UNCHANGED <<now, derived, flight, answer>>
  /\ UNCHANGED candles

FetchTail(p) ==
  /\ at[p] = "fetch_tail"
  /\ \E v \in Values :
       fetch_from_sources(p, req[p].from, v, "append",
         /\ Go(p, "fetch_tail", "recheck")
         /\ UNCHANGED <<now, derived, flight, req, answer>>)

FetchWhole(p) ==
  /\ at[p] = "fetch_whole"
  /\ \E v \in Values :
       fetch_from_sources(p, req[p].q.start, v, "merge", Landed(p, FALSE))

(* The network fails. *)
FetchFails(p) ==
  /\ at[p] \in {"fetch_tail", "fetch_whole"}
  /\ Raise(p, "network")
  /\ UNCHANGED candles

(* The candle being formed goes to upsert_open, in the same thread. *)
PersistOpen(p) ==
  /\ at[p] = "open"
  /\ \E b \in req[p].open : upsert_open(p, b)
  /\ Go(p, "open", "opened")
  /\ UNCHANGED <<now, derived, flight, req, answer>>

OpenFailed(p) ==
  /\ at[p] = "opened" /\ pc[p] = "idle" /\ result[p].status = "failed"
  /\ Raise(p, "failed")
  /\ UNCHANGED candles

(* Then the closed candles, if there are any. *)
OpenDone(p) ==
  /\ \/ at[p] = "open" /\ req[p].open = {}
     \/ at[p] = "opened" /\ pc[p] = "idle" /\ result[p].status # "failed"
  /\ IF req[p].final = {}
       THEN Landed(p, TRUE)
       ELSE /\ at' = [at EXCEPT ![p] = req[p].write]
            /\ UNCHANGED <<now, derived, flight, req, answer>>
  /\ UNCHANGED candles

(* _append_stream: append_strictly_newer refuses a parquet segment and a   *)
(* batch that starts before the stored tail or disagrees with it.          *)
First(p) == CHOOSE b \in req[p].final : \A c \in req[p].final : b.t <= c.t

AppendRefused(p) ==
  /\ Stored # {}
  /\ \/ fmt # "csv"
     \/ First(p).t < Max(Stored)
     \/ First(p).t = Max(Stored) /\ First(p).v # closed[First(p).t].v

Overlaid(rows) ==
  [t \in Times |-> IF \E b \in rows : b.t = t
                     THEN CHOOSE b \in rows : b.t = t ELSE closed[t]]

AppendRaises(p) ==
  /\ at[p] = "append" /\ lock = Nil
  /\ AppendRefused(p)
  /\ Raise(p, IF fmt # "csv" THEN "unsupported" ELSE "conflict")
  /\ UNCHANGED candles

append_stream(p) ==
  /\ Go(p, "append", "clean")
  /\ lock = Nil
  /\ ~AppendRefused(p)
  /\ closed' = Overlaid({b \in req[p].final : b.t \notin Stored})
  /\ fmt' = IF Stored = {} THEN "csv" ELSE fmt
  /\ UNCHANGED <<now, derived, flight, req, answer>>
  /\ UNCHANGED <<current, checkpoint, lock, pc, job, result, fails>>

(* Mutant: the fetched range replaces the series. *)
ReplaceFinalized(p) ==
  /\ Go(p, "merge", "clean")
  /\ lock = Nil
  /\ closed' = [t \in Times |->
                  IF \E b \in req[p].final : b.t = t
                    THEN CHOOSE b \in req[p].final : b.t = t ELSE Nil]
  /\ fmt' = "csv"
  /\ UNCHANGED <<now, derived, flight, req, answer>>
  /\ UNCHANGED <<current, checkpoint, lock, pc, job, result, fails>>

(* The whole range is merged over the stored rows under the writer lock. *)
MergeFinalized(p) ==
  /\ Go(p, "merge", "clean")
  /\ lock = Nil
  /\ closed' = Overlaid(req[p].final)
  /\ fmt' = "csv"
  /\ UNCHANGED <<now, derived, flight, req, answer>>
  /\ UNCHANGED <<current, checkpoint, lock, pc, job, result, fails>>

(* delete_current of one stored candle after the other. *)
CleanCurrent(p) ==
  /\ at[p] = "clean" /\ req[p].final # {}
  /\ current' = [current EXCEPT ![<<First(p).x, First(p).t>>] = Nil]
  /\ req' = [req EXCEPT ![p].final = @ \ {First(p)}]
  /\ UNCHANGED <<now, derived, flight, at, answer>>
  /\ UNCHANGED <<closed, fmt, checkpoint, lock, pc, job, result, fails>>

Cleaned(p) ==
  /\ at[p] = "clean" /\ req[p].final = {}
  /\ Landed(p, TRUE)
  /\ UNCHANGED candles

----------------------------------------------------------------------------
(* After the flight: answer, or aggregate the derived timeframe. *)

AnswerBase(p) ==
  LET q == req[p].q
      bars == StoredTimes(q) \cap InRange(q) IN
  /\ at[p] = "after" /\ q.tf = "base" /\ lock = Nil
  /\ IF req[p].op = "materialize"
       THEN Answer(p, IF stored_coverage_complete(q) THEN "ok" ELSE "incomplete", {})
       ELSE IF bars # {} /\ ~coverage_complete(q)
              THEN Answer(p, "coverage", {}) ELSE Answer(p, "ok", bars)
  /\ UNCHANGED <<now, derived, flight, req, candles>>

(* Another caller may have built the derived candles meanwhile. *)
CheckDerived(p) ==
  LET q == req[p].q IN
  /\ at[p] = "after" /\ q.tf = "derived"
  /\ \/ /\ req[p].op = "fetch" /\ coverage_complete(q)
        /\ Answer(p, "ok", StoredTimes(q) \cap InRange(q))
     \/ /\ req[p].op = "materialize" /\ stored_coverage_complete(q)
        /\ Answer(p, "ok", {})
     \/ /\ req[p].op = "materialize" /\ ~stored_coverage_complete(q)
        /\ ~req[p].changed /\ stored_span_complete(q)
        /\ Go(p, "after", "reread")
        /\ UNCHANGED answer
     \/ /\ IF req[p].op = "fetch" THEN ~coverage_complete(q)
           ELSE /\ ~stored_coverage_complete(q)
                /\ req[p].changed \/ ~stored_span_complete(q)
        /\ Go(p, "after", "aggregate")
        /\ UNCHANGED answer
  /\ UNCHANGED <<now, derived, flight, req, candles>>

(* _aggregate_market_bars: the stored base candles of each bucket in range. *)
bucket_time(t) == (t \div Ratio) * Ratio
aggregate_market_bars(q) ==
  LET base == {t \in Stored : q.start <= t /\ t < q.end
                 /\ q.start <= bucket_time(t) /\ bucket_time(t) < q.end}
  IN [b \in {bucket_time(t) : t \in base} |->
        {closed[t] : t \in {u \in base : bucket_time(u) = b}}]

aggregate_stored_base(p) ==
  LET agg == aggregate_market_bars(req[p].q) IN
  /\ at[p] = "aggregate" /\ lock = Nil
  /\ \/ /\ DOMAIN agg # {}
        /\ Go(p, "aggregate", "merge_derived")
        /\ req' = [req EXCEPT ![p].agg = agg]
        /\ UNCHANGED answer
     \/ /\ DOMAIN agg = {} /\ req[p].op = "fetch"
        /\ Answer(p, "ok", {})
        /\ UNCHANGED req
     \/ /\ DOMAIN agg = {} /\ req[p].op = "materialize"
        /\ Go(p, "aggregate", "reread")
        /\ UNCHANGED <<req, answer>>
  /\ UNCHANGED <<now, derived, flight, candles>>

(* _merge_derived_bars: read, overlay and replace under one series lock. *)
merge_derived_bars(p) ==
  /\ Go(p, "merge_derived", "reread")
  /\ derived' = [b \in Buckets |-> IF b \in DOMAIN req[p].agg THEN req[p].agg[b]
                                   ELSE derived[b]]
  /\ UNCHANGED <<now, flight, req, answer, candles>>

Reread(p) ==
  LET q == req[p].q IN
  /\ at[p] = "reread"
  /\ IF req[p].op = "materialize"
       THEN Answer(p, IF stored_coverage_complete(q) THEN "ok" ELSE "incomplete", {})
       ELSE IF coverage_complete(q)
              THEN Answer(p, "ok", StoredTimes(q) \cap InRange(q))
              ELSE Answer(p, "coverage", {})
  /\ UNCHANGED <<now, derived, flight, req, candles>>

----------------------------------------------------------------------------
(* The candle being formed closes. *)
Tick ==
  /\ now < LastNow
  /\ now' = now + 1
  /\ UNCHANGED <<derived, flight, at, req, answer, candles>>

MInit ==
  /\ Init
  /\ now \in 0..LastNow
  /\ derived = [b \in Buckets |-> Nil]
  /\ flight = [h \in Processes |-> Nil]
  /\ at = [p \in Proc |-> "none"]
  /\ req = [p \in Proc |-> Nil]
  /\ answer = [p \in Proc |-> Nil]

CallService(p) ==
  /\ calls < MaxCalls
  /\ calls' = calls + 1
  /\ \E q \in Queries : fetch_bars(p, q) \/ materialize_bars(p, q)

ServiceStep(p) ==
  \/ ensure_stored(p) \/ CheckCoverage(p) \/ ReadManifest(p) \/ Recheck(p)
  \/ FetchTail(p) \/ FetchWhole(p)
  \/ PersistOpen(p) \/ OpenFailed(p) \/ OpenDone(p)
  \/ AppendRaises(p) \/ append_stream(p) \/ MergeFinalized(p)
  \/ CleanCurrent(p) \/ Cleaned(p)
  \/ AnswerBase(p) \/ CheckDerived(p)
  \/ aggregate_stored_base(p) \/ merge_derived_bars(p) \/ Reread(p)

Progress(p) ==
  /\ ServiceStep(p) \/ (Step(p) /\ UNCHANGED service)
  /\ UNCHANGED calls

(* A stream delivers candles of the same exchange to the same store. *)
StreamCall(p) ==
  /\ at[p] = "none" /\ calls < MaxCalls
  /\ calls' = calls + 1
  /\ \/ \E b \in OpenBars : b.t = now /\ upsert_open(p, b)
     \/ \E b \in ClosedBars : b.t < now /\ commit_closed(p, b)
  /\ UNCHANGED service

StoreFails(p) == Fail(p) /\ UNCHANGED <<service, calls>>
Compacted == \E f \in {"csv", "parquet"} : compact(f) /\ UNCHANGED <<service, calls>>

MNext ==
  \/ \E p \in Proc : CallService(p)
  \/ \E p \in Proc : Progress(p)
  \/ \E p \in Proc : FetchFails(p) /\ UNCHANGED calls
  \/ \E p \in Proc : StreamCall(p) \/ StoreFails(p)
  \/ Tick /\ UNCHANGED calls
  \/ Compacted

MSpec == MInit /\ [][MNext]_mvars

(* Every thread keeps running, and waits for a lock only finitely long:    *)
(* the callers of a run make finitely many calls.                          *)
MFairSpec == MSpec /\ \A p \in Proc : WF_mvars(Progress(p))

----------------------------------------------------------------------------
(* Properties. *)

(* No stored candle, base or derived, is ever lost: writers that read,     *)
(* overlay and replace the series do so under one series lock, so they     *)
(* never write back an old reading (_merge_derived_bars: "to prevent lost  *)
(* updates"), whatever other threads and processes store meanwhile.        *)
NoCandleLost ==
  [][/\ \A t \in Times : closed[t] # Nil => closed'[t] # Nil
     /\ \A b \in Buckets : derived[b] # Nil => derived'[b] # Nil]_mvars

(* A fetch that returns candles returns all the requested ones, although   *)
(* it checks coverage, fetches, stores and reads again in separate steps.  *)
AnswersAreComplete ==
  \A p \in Proc :
    LET a == answer[p] IN
    a # Nil /\ a.status = "ok" /\ a.bars # {} => Grid(a.q) \subseteq a.bars

(* Only candles the exchange has closed are stored as final base candles,  *)
(* although a fetch also returns the candle being formed and that candle   *)
(* may close while the fetch is being stored.                              *)
OnlyClosedAreFinal == \A t \in Stored : t < now

(* Single flight: among the threads of one process nobody goes to the      *)
(* exchange for a range that is already stored, and a tail is appended     *)
(* where it was computed to start, so no thread meets a conflict.          *)
SingleFlight ==
  \A p \in Proc :
    /\ at[p] \in {"fetch_tail", "fetch_whole"} => ~coverage_complete(base_query(req[p].q))
    /\ answer[p] # Nil => answer[p].status # "conflict"

(* The flight lock is held only by a thread inside _ensure_stored_locked,  *)
(* also after the network, the store or the append has raised.             *)
FlightIsReleased ==
  \A h \in Processes : flight[h] # Nil =>
    Home[flight[h]] = h /\ at[flight[h]] \in InFlight

(* Every call of the service returns or raises. *)
CallsEnd == \A p \in Proc : at[p] # "none" ~> at[p] = "none"

(* materialize_bars: "Ensure requested bars exist".  When it reads the     *)
(* result back and the base candles of the whole range are stored, so are  *)
(* the derived ones.                                                       *)
MaterializeFillsGaps ==
  \A p \in Proc :
    at[p] = "reread" /\ req[p].op = "materialize"
      /\ stored_coverage_complete(base_query(req[p].q))
    => stored_coverage_complete(req[p].q)

=============================================================================
