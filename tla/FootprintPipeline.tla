--------------------------- MODULE FootprintPipeline ---------------------------
(***************************************************************************)
(* From trades to footprints (footprint/service.py, footprint/aggregate.py, *)
(* store/raw_store.py, store/footprint_store.py).  Trades are kept in one  *)
(* partition for each day, footprint bars in one file.  Several processes  *)
(* share both without a lock; each file is replaced by a rename.           *)
(*                                                                         *)
(* A trade is its id, ids grow with time.  The levels of a bar are a       *)
(* function of the trades in it, so a bar is the set of its trades, and a  *)
(* payload file the set of its trades.                                     *)
(***************************************************************************)
EXTENDS Integers, FiniteSetsExt

CONSTANTS
  FootProc,       \* processes that share a cache directory
  Trades,         \* trade ids
  TradeTime,      \* when each trade is made
  DayMs,          \* length of a partition
  BarMs,          \* length of a bar
  FootQueries,    \* [start, end, source, gap_policy]
  MaxFootCalls,   \* bound on the calls
  NoManifest

ASSUME TradesAssumption ==
  /\ Trades \subseteq Nat /\ TradeTime \in [Trades -> Nat]
  /\ \A i, j \in Trades : i < j => TradeTime[i] <= TradeTime[j]
  /\ DayMs \in Nat \ {0} /\ BarMs \in Nat \ {0}
ASSUME NoManifestAssumption ==
  NoManifest \notin [name : SUBSET Trades, checksum : SUBSET Trades]

VARIABLES
  now,          \* the trades before it have been made
  payloads,     \* payload files of each partition, by name
  manifest,     \* name and checksum in the manifest of each partition
  footprint,    \* footprint.csv: the trades of each bar, {} where there is none
  stage,        \* where the call of each process is
  ask,          \* its query
  mem,          \* partitions to be read or written, the manifest and the
                \* trades it has read, the footprint bars it has made
  fetched,      \* trades the fetch has returned
  outcome,       \* how its last call ended
  disturbed,    \* another process published something since it fetched
  footCalls

footvars == <<now, payloads, manifest, footprint, stage, ask, mem, fetched, outcome,
              disturbed, footCalls>>
stores == <<payloads, manifest, footprint>>

Horizon == Max({TradeTime[i] : i \in Trades}) + 1
Days == {TradeTime[i] \div DayMs : i \in Trades}
BarTimes == {b \in 0..Horizon : b % BarMs = 0}

Within(t, q) == q.start <= t /\ t < q.end
Of(trades, q) == {i \in trades : Within(TradeTime[i], q)}
Happened == {i \in Trades : TradeTime[i] < now}

NoBars == [b \in BarTimes |-> {}]
NoTrades == [asked |-> FALSE, trades |-> {}]
NoReply == [status |-> "none", bars |-> NoBars]
Nothing == [todo |-> {}, opened |-> NoManifest, rows |-> {}, made |-> NoBars]
SomeQuery == CHOOSE q \in FootQueries : TRUE

FootInit ==
  /\ now = 0
  /\ payloads = [d \in Days |-> {}]
  /\ manifest = [d \in Days |-> NoManifest]
  /\ footprint = NoBars
  /\ stage = [p \in FootProc |-> "idle"]
  /\ ask = [p \in FootProc |-> SomeQuery]
  /\ mem = [p \in FootProc |-> Nothing]
  /\ fetched = [p \in FootProc |-> NoTrades]
  /\ outcome = [p \in FootProc |-> NoReply]
  /\ disturbed = [p \in FootProc |-> FALSE]
  /\ footCalls = 0

Trade ==
  /\ now < Horizon
  /\ now' = now + 1
  /\ UNCHANGED <<stores, stage, ask, mem, fetched, outcome, disturbed, footCalls>>

Moves(p, from, to) ==
  /\ stage[p] = from
  /\ stage' = [stage EXCEPT ![p] = to]
  /\ UNCHANGED <<now, ask, outcome, footCalls>>

Disturb(p) == disturbed' = [x \in FootProc |-> x # p \/ disturbed[x]]

Answer(p, status, bars) ==
  /\ stage' = [stage EXCEPT ![p] = "idle"]
  /\ mem' = [mem EXCEPT ![p] = Nothing]
  /\ outcome' = [outcome EXCEPT ![p] = [status |-> status, bars |-> bars]]
  /\ UNCHANGED <<now, stores, ask, fetched, disturbed, footCalls>>

(* _coverage_for counts bar starts from the start of the query. *)
IsComplete(bars, q) ==
  \A t \in q.start..(q.end - 1) :
    (t - q.start) % BarMs = 0 => (t \in BarTimes /\ bars[t] # {})

Deliver(p, bars) ==
  IF ask[p].gap_policy = "fail" /\ ~IsComplete(bars, ask[p])
    THEN Answer(p, "incomplete", NoBars)
    ELSE Answer(p, "ok", bars)

----------------------------------------------------------------------------
(* FootprintStore *)

FootprintStore_read(q) ==
  [b \in BarTimes |-> IF Within(b, q) THEN footprint[b] ELSE {}]

(* Mutant: a stored bar is kept. *)
MergeKeepsStored(stored, bars) ==
  [b \in BarTimes |-> IF stored[b] # {} THEN stored[b] ELSE bars[b]]

Merge(stored, bars) ==
  [b \in BarTimes |-> IF bars[b] # {} THEN bars[b] ELSE stored[b]]

(* write: the bars of the query's range are read and merged with the new   *)
(* ones; nothing else is left in the file that replaces the old one.       *)
MergeStored(p) ==
  /\ Moves(p, "merge", "replace")
  /\ mem' = [mem EXCEPT ![p].made = Merge(FootprintStore_read(ask[p]), @)]
  /\ UNCHANGED <<stores, fetched, disturbed>>

ReplaceFootprint(p) ==
  /\ Moves(p, "replace", "readback")
  /\ footprint' = mem[p].made
  /\ Disturb(p)
  /\ UNCHANGED <<payloads, manifest, mem, fetched>>

----------------------------------------------------------------------------
(* RawStore *)

(* Mutant: one data file for a partition, replaced by each batch. *)
file_name_fixed(body) == {}

(* The name holds the checksum of the content. *)
file_name(body) == body

(* sorted(root.glob("partition=*/manifest.json")) *)
ListPartitions(p) ==
  /\ Moves(p, "list", "partitions")
  /\ mem' = [mem EXCEPT ![p].todo = {d \in Days : manifest[d] # NoManifest},
                        ![p].rows = {}]
  /\ UNCHANGED <<stores, fetched, disturbed>>

ReadManifest(p) ==
  /\ mem[p].todo # {} /\ Moves(p, "partitions", "payload")
  /\ mem' = [mem EXCEPT ![p].opened = manifest[Min(mem[p].todo)]]
  /\ UNCHANGED <<stores, fetched, disturbed>>

Matching(p) ==
  {f \in payloads[Min(mem[p].todo)] :
     f.name = mem[p].opened.name /\ f.body = mem[p].opened.checksum}

(* No such file, or another checksum, fails the call. *)
ReadPayload(p) ==
  /\ stage[p] = "payload"
  /\ IF Matching(p) = {}
       THEN Answer(p, "raw", NoBars)
       ELSE /\ Moves(p, "payload", "partitions")
            /\ mem' = [mem EXCEPT ![p].rows = @ \cup UNION {f.body : f \in Matching(p)},
                                  ![p].todo = @ \ {Min(@)},
                                  ![p].opened = NoManifest]
            /\ UNCHANGED <<stores, fetched, disturbed>>

Batch(p) == {i \in fetched[p].trades : TradeTime[i] \div DayMs = Min(mem[p].todo)}

(* write_batch: the data file, then the manifest that names it. *)
WritePayload(p) ==
  LET name == file_name(Batch(p)) IN
  /\ mem[p].todo # {} /\ Moves(p, "write", "publish")
  /\ payloads' = [payloads EXCEPT ![Min(mem[p].todo)] =
       {f \in @ : f.name # name} \cup {[name |-> name, body |-> Batch(p)]}]
  /\ UNCHANGED <<manifest, footprint, mem, fetched, disturbed>>

PublishPayload(p) ==
  LET d == Min(mem[p].todo) IN
  /\ Moves(p, "publish", IF mem[p].todo = {d} THEN "list" ELSE "write")
  /\ manifest' = [manifest EXCEPT ![d] =
       [name |-> file_name(Batch(p)), checksum |-> Batch(p)]]
  /\ mem' = [mem EXCEPT ![p].todo = @ \ {d}]
  /\ Disturb(p)
  /\ UNCHANGED <<payloads, footprint, fetched>>

----------------------------------------------------------------------------
(* FootprintService *)

StartFetch(p, q) ==
  /\ stage[p] = "idle" /\ footCalls < MaxFootCalls
  /\ footCalls' = footCalls + 1
  /\ ask' = [ask EXCEPT ![p] = q]
  /\ fetched' = [fetched EXCEPT ![p] = NoTrades]
  /\ outcome' = [outcome EXCEPT ![p] = NoReply]
  /\ disturbed' = [disturbed EXCEPT ![p] = FALSE]
  /\ stage' = [stage EXCEPT ![p] =
       IF q.source \in {"storage", "auto"} THEN "stored" ELSE "list"]
  /\ UNCHANGED <<now, stores, mem>>

ReadStored(p) ==
  LET bars == FootprintStore_read(ask[p]) IN
  /\ stage[p] = "stored"
  /\ IF IsComplete(bars, ask[p]) \/ ask[p].source = "storage"
       THEN Deliver(p, bars)
       ELSE Moves(p, "stored", "list") /\ UNCHANGED <<stores, mem, fetched, disturbed>>

(* _raw_covers: the first trade is at the start of the query. *)
raw_covers(trades, q) ==
  trades # {} /\ TradeTime[Min(trades)] <= q.start /\ TradeTime[Max(trades)] < q.end

(* A trade whose bar begins before the query belongs to no bar of it. *)
aggregate_trades_to_footprint(trades, q) ==
  [b \in BarTimes |->
     {i \in Of(trades, q) : Within(b, q) /\ (TradeTime[i] \div BarMs) * BarMs = b}]

(* _ensure_raw_trades: trades that do not cover the query are fetched, and *)
(* then taken as they are.                                                 *)
Enough(p) == fetched[p].asked \/ raw_covers(Of(mem[p].rows, ask[p]), ask[p])

NeedTrades(p) ==
  /\ mem[p].todo = {} /\ ~Enough(p)
  /\ Moves(p, "partitions", "fetch")
  /\ UNCHANGED <<stores, mem, fetched, disturbed>>

(* Which trades the paged fetch returns is the subject of RestPaging: it   *)
(* may miss trades of a millisecond that two pages share.  Trades here are *)
(* those that it returns.                                                  *)
FetchTrades(p) ==
  LET trades == Of(Happened, ask[p]) IN
  /\ Moves(p, "fetch", IF trades = {} THEN "list" ELSE "write")
  /\ fetched' = [fetched EXCEPT ![p] = [asked |-> TRUE, trades |-> trades]]
  /\ mem' = [mem EXCEPT ![p].todo = {TradeTime[i] \div DayMs : i \in trades},
                        ![p].rows = {}]
  /\ disturbed' = [disturbed EXCEPT ![p] = FALSE]
  /\ UNCHANGED stores

FetchFails(p) == stage[p] = "fetch" /\ Answer(p, "exchange", NoBars)

Aggregate(p) ==
  LET bars == aggregate_trades_to_footprint(mem[p].rows, ask[p]) IN
  /\ stage[p] = "partitions" /\ mem[p].todo = {} /\ Enough(p)
  /\ IF bars = NoBars
       THEN Deliver(p, bars)
       ELSE /\ Moves(p, "partitions", "merge")
            /\ mem' = [mem EXCEPT ![p] = [Nothing EXCEPT !.made = bars]]
            /\ UNCHANGED <<stores, fetched, disturbed>>

ReadBack(p) ==
  stage[p] = "readback" /\ Deliver(p, FootprintStore_read(ask[p]))

fetch_footprint(p) ==
  \/ \E q \in FootQueries : StartFetch(p, q)
  \/ ReadStored(p) \/ ListPartitions(p) \/ ReadManifest(p) \/ ReadPayload(p)
  \/ NeedTrades(p) \/ FetchTrades(p) \/ FetchFails(p)
  \/ WritePayload(p) \/ PublishPayload(p)
  \/ Aggregate(p) \/ MergeStored(p) \/ ReplaceFootprint(p) \/ ReadBack(p)

(* A process may be killed anywhere: files are whole, some are not named. *)
KillFootprint(p) == stage[p] # "idle" /\ Answer(p, "killed", NoBars)

FootNext == Trade \/ \E p \in FootProc : fetch_footprint(p) \/ KillFootprint(p)

----------------------------------------------------------------------------
(* Without a lock, and after a crash at any step, a partition is never     *)
(* read torn: no call ever fails on a payload that is missing or does not  *)
(* match the checksum of its manifest.                                     *)
RawReadsNeverFail == \A p \in FootProc : outcome[p].status # "raw"

(* A call that went to the exchange answers with every trade the fetch     *)
(* returned for each bar, unless another process published a partition or  *)
(* a footprint meanwhile.                                                  *)
FetchedFootprintsAreWhole ==
  \A p \in FootProc :
    (outcome[p].status = "ok" /\ fetched[p].asked /\ ~disturbed[p]) =>
      LET whole == aggregate_trades_to_footprint(fetched[p].trades, ask[p]) IN
      \A b \in BarTimes : whole[b] # {} => outcome[p].bars[b] = whole[b]

===============================================================================
