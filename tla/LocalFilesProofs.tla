--------------------------- MODULE LocalFilesProofs ---------------------------
(***************************************************************************)
(* What the files beside the candle store promise, for every number of     *)
(* processes, calls, trades and segments: CSV ranges, the bar cache,       *)
(* trades with the footprints made of them, archive and offline files.     *)
(***************************************************************************)
EXTENDS LocalFiles, SharedFacts, FiniteSetTheorems

----------------------------------------------------------------------------
(* CSV ranges.  The offsets low and high only decide which row is looked   *)
(* at: what matters is that reading begins at the first row or at one      *)
(* whose time is not after the start.                                      *)

(* Row b may be the first one that is read. *)
Safe(b) ==
  /\ b \in 1..(file.n + 1)
  /\ b = 1 \/ (b <= file.n /\ start \in Int /\ file.time[b] <= start)

CsvInv ==
  /\ file \in Files /\ start \in Starts /\ end \in Ends
  /\ step \in {"seek", "scan", "done"}
  /\ \E b \in 1..(file.n + 1) : best = file.pos[b] /\ Safe(b)
  /\ step = "seek" => start \in Int /\ yielded = {}
  /\ row \in 1..(file.n + 1)
  /\ step = "scan" => yielded = {k \in 1..(row - 1) : InRange(k)}
  /\ SeekNeverSkips

LEMMA FileFacts ==
  ASSUME file \in Files
  PROVE  /\ file.n \in Nat
         /\ file.pos \in [1..(file.n + 1) -> Nat]
         /\ file.time \in [1..file.n -> Int]
         /\ \A i, j \in 1..(file.n + 1) : i < j => file.pos[i] < file.pos[j]
         /\ \A i, j \in 1..file.n : i < j => file.time[i] < file.time[j]
BY FilesAssumption

(* Rows before a safe one are before the range. *)
LEMMA NothingBeforeSafe ==
  ASSUME file \in Files, NEW b, Safe(b)
  PROVE  {k \in 1..(b - 1) : InRange(k)} = {}
<1>1. CASE b = 1
  BY <1>1
<1>2. CASE b # 1
  <2>1. b \in 1..file.n /\ start \in Int /\ file.time[b] <= start
    BY <1>2 DEF Safe
  <2>2. ASSUME NEW k \in 1..(b - 1) PROVE ~InRange(k)
    <3>0. k \in 1..file.n /\ k < b
      <4>1. file.n \in Nat
        BY FileFacts
      <4> QED BY <2>1, <4>1
    <3>1. file.time[k] < file.time[b]
      BY <2>1, <3>0, FileFacts
    <3>2. file.time[k] \in Int /\ file.time[b] \in Int
      BY <2>1, <3>0, FileFacts
    <3>3. ~(file.time[k] >= start) /\ start # NoBound
      BY <2>1, <3>1, <3>2, BoundsAssumption
    <3> QED BY <3>3 DEF InRange
  <2> QED BY <2>2
<1> QED BY <1>1, <1>2

(* fh.seek(best) puts the reader at a row it may begin with. *)
LEMMA SeekLands ==
  ASSUME file \in Files, NEW b \in 1..(file.n + 1), Safe(b), SeekTo(file.pos[b]),
         yielded = {}
  PROVE  row' = b /\ yielded = {k \in 1..(b - 1) : InRange(k)}
<1>1. \A k \in 1..(file.n + 1) : file.pos[k] = file.pos[b] => k = b
  <2> SUFFICES ASSUME NEW k \in 1..(file.n + 1), k # b PROVE file.pos[k] # file.pos[b]
    OBVIOUS
  <2>1. file.n \in Nat /\ file.pos[k] \in Nat /\ file.pos[b] \in Nat
    BY FileFacts
  <2>2. k < b => file.pos[k] < file.pos[b]
    BY FileFacts
  <2>3. b < k => file.pos[b] < file.pos[k]
    BY FileFacts
  <2> QED BY <2>1, <2>2, <2>3
<1>2. row' = b
  BY <1>1 DEF SeekTo
<1> QED BY <1>2, NothingBeforeSafe

LEMMA CsvInitInv == CsvInit => CsvInv
<1> SUFFICES ASSUME CsvInit PROVE CsvInv OBVIOUS
<1> USE DEF CsvInit, header_end
<1>1. file \in Files /\ file.n \in Nat
  BY FileFacts
<1>2. 1 \in 1..(file.n + 1) /\ Safe(1)
  BY <1>1 DEF Safe
<1>3. step \in {"seek", "scan"} /\ (step = "seek" => start \in Int)
  BY BoundsAssumption DEF SeekHelps
<1>4. row \in 1..(file.n + 1) /\ yielded = {k \in 1..(row - 1) : InRange(k)}
  BY <1>1, <1>2, NothingBeforeSafe
<1> QED BY <1>1, <1>2, <1>3, <1>4 DEF CsvInv, SeekNeverSkips

LEMMA CsvNextInv == CsvInv /\ [CsvNext]_csvvars => CsvInv'
<1> SUFFICES ASSUME CsvInv, [CsvNext]_csvvars PROVE CsvInv' OBVIOUS
<1> USE DEF CsvInv
<1>0. /\ file.n \in Nat /\ file.time \in [1..file.n -> Int]
      /\ start \in Int \cup {NoBound} /\ end \in Int \cup {NoBound} /\ NoBound \notin Int
  BY FileFacts, BoundsAssumption
<1>1. CASE Probe
  <2> USE <1>1 DEF Probe, Probing
  <2>1. UNCHANGED <<file, start, end, step, row, yielded>> OBVIOUS
  <2>2. \E b \in 1..(file.n + 1) : best' = file.pos[b] /\ Safe(b)
    <3>1. CASE Candidate \in 1..file.n /\ file.time[Candidate] <= start
      BY <1>0, <3>1 DEF Advance, Safe
    <3>2. CASE ~(Candidate \in 1..file.n /\ file.time[Candidate] <= start)
      BY <3>2 DEF Narrow
    <3> QED BY <3>1, <3>2
  <2> QED BY <2>1, <2>2 DEF SeekNeverSkips, InRange, Safe
<1>2. CASE GiveUp
  <2> USE <1>2 DEF GiveUp, Probing
  <2>1. UNCHANGED <<file, start, end, yielded>> /\ step' = "scan" /\ best' = file.pos[1]
    BY DEF SeekTo, header_end
  <2>2. 1 \in 1..(file.n + 1) /\ Safe(1)
    BY <1>0 DEF Safe
  <2>3. row' = 1 /\ yielded = {k \in 1..(1 - 1) : InRange(k)}
    BY <2>2, SeekLands DEF header_end
  <2> QED BY <2>1, <2>2, <2>3 DEF SeekNeverSkips, InRange, Safe
<1>3. CASE Sought
  <2> USE <1>3 DEF Sought
  <2>1. UNCHANGED <<file, start, end, yielded>> /\ step' = "scan" /\ best' = best
    BY DEF SeekTo
  <2>2. PICK b \in 1..(file.n + 1) : best = file.pos[b] /\ Safe(b)
    OBVIOUS
  <2>3. row' = b /\ yielded = {k \in 1..(b - 1) : InRange(k)}
    BY <2>2, SeekLands
  <2> QED BY <2>1, <2>2, <2>3 DEF SeekNeverSkips, InRange, Safe
<1>4. CASE iter_csv_range
  <2> USE <1>4 DEF iter_csv_range
  <2>1. UNCHANGED <<file, start, end, best>> OBVIOUS
  <2>2. CASE row > file.n \/ Past(row)
    <3>1. step' = "done" /\ UNCHANGED <<row, yielded>>
      BY <2>2
    <3>2. ASSUME NEW k \in 1..file.n, InRange(k) PROVE k \in 1..(row - 1)
      <4>1. CASE row > file.n
        BY <1>0, <4>1
      <4>2. CASE row \in 1..file.n /\ Past(row)
        <5>1. end \in Int /\ file.time[row] >= end /\ file.time[k] < end
          BY <1>0, <4>2, <3>2 DEF Past, InRange
        <5>2. row < k => file.time[row] < file.time[k]
          BY <4>2, FileFacts
        <5>3. row # k
          BY <5>1, <4>2, <1>0
        <5>4. file.time[row] \in Int /\ file.time[k] \in Int
          BY <4>2, <1>0
        <5>5. ~(row < k)
          BY <5>1, <5>2, <5>4
        <5> QED BY <5>5, <5>3, <1>0
      <4> QED BY <4>1, <4>2, <2>2, <1>0
    <3>3. yielded = {k \in 1..file.n : InRange(k)}
      BY <3>2, <1>0
    <3> QED BY <2>1, <3>1, <3>3, <1>0 DEF SeekNeverSkips, InRange, Safe
  <2>3. CASE ~(row > file.n \/ Past(row))
    <3>1. /\ row' = row + 1 /\ UNCHANGED step /\ row \in 1..file.n
          /\ yielded' = IF Early(row) THEN yielded ELSE yielded \cup {row}
      BY <2>3, <1>0
    <3>2. InRange(row) <=> ~Early(row)
      BY <2>3, <3>1, <1>0 DEF InRange, Early, Past
    <3>3. yielded' = {k \in 1..row : InRange(k)}
      BY <3>1, <3>2, <1>0
    <3> QED BY <2>1, <3>1, <3>3, <1>0 DEF SeekNeverSkips, InRange, Safe
  <2> QED BY <2>2, <2>3
<1>5. CASE UNCHANGED csvvars
  BY <1>5 DEF csvvars, SeekNeverSkips, InRange, Safe
<1> QED BY <1>1, <1>2, <1>3, <1>4, <1>5 DEF CsvNext, seek_csv_near_start

(* Every range read of a CSV segment yields exactly the rows of its range, *)
(* wherever the bisection of seek_csv_near_start ends.                     *)
THEOREM RangeReadsAreExact == CsvSpec => []SeekNeverSkips
<1>1. CsvInv => SeekNeverSkips
  BY DEF CsvInv
<1> QED BY CsvInitInv, CsvNextInv, <1>1, PTL DEF CsvSpec

CsvPart == IF part = "csv" THEN CsvInv ELSE step = "idle"

LEMMA CsvPartInit == Init => CsvPart
BY CsvInitInv DEF Init, CsvPart, CsvIdle

LEMMA CsvPartNext == CsvPart /\ [Next]_allvars => CsvPart'
<1> SUFFICES ASSUME CsvPart, [Next]_allvars PROVE CsvPart' OBVIOUS
<1>1. part' = part /\ (part = "csv" => [CsvNext]_csvvars)
  BY DEF Next, allvars, CsvStep, CacheStep, FootStep, ArchStep, OfflineStep
<1>2. part # "csv" => UNCHANGED csvvars
  BY DEF Next, allvars, CsvStep, CacheStep, FootStep, ArchStep, OfflineStep
<1>3. CASE part = "csv"
  BY <1>1, <1>3, CsvNextInv DEF CsvPart
<1>4. CASE part # "csv"
  BY <1>1, <1>2, <1>4 DEF CsvPart, csvvars
<1> QED BY <1>3, <1>4

(* The range reads of the composed files are exact too. *)
THEOREM LocalRangeReadsAreExact == Spec => []SeekNeverSkips
<1>1. CsvPart => SeekNeverSkips
  BY DEF CsvPart, CsvInv, SeekNeverSkips
<1> QED BY CsvPartInit, CsvPartNext, <1>1, PTL DEF Spec

----------------------------------------------------------------------------
(* The bar cache.  A reader compares only after it has seen a metadata     *)
(* file, which never goes away again: what it then finds equal to the rows *)
(* it read is a segment some writer was called with.                       *)

CacheTypeOK ==
  /\ DOMAIN doing = CacheProc /\ DOMAIN segment = CacheProc
  /\ DOMAIN answer = CacheProc /\ DOMAIN range = CacheProc

CacheInv ==
  /\ CacheTypeOK
  /\ meta \in {NoFile, Torn} \cup Segments
  /\ \A p \in CacheProc : doing[p] \in {"write", "metadata"} => segment[p] \in Segments
  /\ \A p \in CacheProc : doing[p] \in {"rows", "compare"} => meta # NoFile
  /\ CacheReadsAreWhole

LEMMA CacheInitInv == CacheInit => CacheInv
BY DEF CacheInit, CacheInv, CacheTypeOK, CacheReadsAreWhole, NoAnswer

LEMMA CacheNextInv == CacheInv /\ [CacheNext]_cachevars => CacheInv'
<1> SUFFICES ASSUME CacheInv, [CacheNext]_cachevars PROVE CacheInv' OBVIOUS
<1> USE DEF CacheInv, CacheTypeOK
<1>1. CASE UNCHANGED cachevars
  BY <1>1 DEF cachevars, CacheReadsAreWhole
<1>2. ASSUME NEW p \in CacheProc, NEW bars \in Segments, StartWrite(p, bars)
      PROVE  CacheInv'
  BY <1>2 DEF StartWrite, CacheTo, CacheReadsAreWhole, NoAnswer
<1>3. ASSUME NEW p \in CacheProc, WriteRow(p) PROVE CacheInv'
  BY <1>3 DEF WriteRow, CacheReadsAreWhole
<1>4. ASSUME NEW p \in CacheProc, OpenMetadata(p) PROVE CacheInv'
  BY <1>4, NoFileAssumption DEF OpenMetadata, CacheTo, CacheReadsAreWhole
<1>5. ASSUME NEW p \in CacheProc, WriteMetadata(p) PROVE CacheInv'
  BY <1>5, NoFileAssumption DEF WriteMetadata, CacheTo, CacheReadsAreWhole, bars_checksum
<1>6. ASSUME NEW p \in CacheProc, NEW r \in Ranges, StartRead(p, r) PROVE CacheInv'
  BY <1>6 DEF StartRead, CacheTo, CacheReadsAreWhole, NoAnswer
<1>7. ASSUME NEW p \in CacheProc, ReadRow(p) PROVE CacheInv'
  <2>1. /\ UNCHANGED <<meta, range, answer>> /\ DOMAIN segment' = CacheProc
        /\ \A q \in CacheProc \ {p} : segment'[q] = segment[q] /\ doing'[q] = doing[q]
    BY <1>7 DEF ReadRow, CacheTo
  <2>2. doing[p] = "rows" /\ DOMAIN doing' = CacheProc
        /\ doing'[p] \in {"idle", "rows", "compare"}
    BY <1>7 DEF ReadRow, CacheTo
  <2> QED BY <2>1, <2>2 DEF CacheReadsAreWhole
<1>8. ASSUME NEW p \in CacheProc, CompareChecksum(p) PROVE CacheInv'
  <2>1. answer'[p].ok => segment[p] \in Segments
                         /\ answer'[p].bars = BarsIn(segment[p], range[p])
    BY <1>8 DEF CompareChecksum, Verified, NoAnswer, bars_checksum
  <2>2. CacheReadsAreWhole'
    BY <1>8, <2>1 DEF CompareChecksum, CacheReadsAreWhole
  <2> QED BY <1>8, <2>2 DEF CompareChecksum, CacheTo
<1>9. ASSUME NEW p \in CacheProc, KillCacheProcess(p) PROVE CacheInv'
  BY <1>9 DEF KillCacheProcess, CacheTo, CacheReadsAreWhole
<1> QED BY <1>1, <1>2, <1>3, <1>4, <1>5, <1>6, <1>7, <1>8, <1>9
        DEF CacheNext, write_cache_segment, read_cache_segment

(* A read that succeeds gives the range of one segment as one call of      *)
(* write_cache_segment was given it, for every number of processes that    *)
(* write, read and die in any order.                                       *)
THEOREM CacheReadsStayWhole == Spec => []CacheReadsAreWhole
<1>1. Init => CacheInv
  BY CacheInitInv DEF Init
<1>2. CacheInv /\ [Next]_allvars => CacheInv'
  <2>1. [Next]_allvars => [CacheNext]_cachevars
    BY DEF Next, allvars, CsvStep, CacheStep, FootStep, ArchStep, OfflineStep
  <2> QED BY <2>1, CacheNextInv
<1>3. CacheInv => CacheReadsAreWhole
  BY DEF CacheInv
<1> QED BY <1>1, <1>2, <1>3, PTL DEF Spec

----------------------------------------------------------------------------
(* Trades and footprints.  A payload file is named by the checksum of its  *)
(* content, so a file that is written again is the same file, and the file *)
(* a manifest names never goes away or changes.                            *)

PayloadOf(body) == [name |-> body, body |-> body]
ManifestOf(body) == [name |-> body, checksum |-> body]
TradeSets == SUBSET Trades
TradeDay(i) == TradeTime[i] \div DayMs
DaysOf(trades) == {TradeDay(i) : i \in trades}
OfDay(trades, d) == {i \in trades : TradeDay(i) = d}

Stages ==
  {"idle", "stored", "list", "partitions", "payload", "fetch", "write", "publish",
   "merge", "replace", "readback"}

Statuses == {"none", "ok", "incomplete", "raw", "exchange", "killed"}

FootTypeOK ==
  /\ now \in Nat
  /\ payloads \in [Days -> SUBSET {PayloadOf(s) : s \in TradeSets}]
  /\ manifest \in [Days -> {NoManifest} \cup {ManifestOf(s) : s \in TradeSets}]
  /\ footprint \in [BarTimes -> TradeSets]
  /\ stage \in [FootProc -> Stages]
  /\ DOMAIN ask = FootProc
  /\ mem \in [FootProc -> [todo : SUBSET Days,
                           opened : {NoManifest} \cup {ManifestOf(s) : s \in TradeSets},
                           rows : TradeSets, made : [BarTimes -> TradeSets]]]
  /\ fetched \in [FootProc -> [asked : BOOLEAN, trades : TradeSets]]
  /\ outcome \in [FootProc -> [status : Statuses, bars : [BarTimes -> TradeSets]]]
  /\ disturbed \in [FootProc -> BOOLEAN]

(* What Min gives on a set of days. *)
LEMMA MinOfNaturals ==
  ASSUME NEW S \in SUBSET Nat, S # {}
  PROVE  Min(S) \in S /\ \A y \in S : Min(S) <= y
<1>1. \E x \in S : \A y \in S : x <= y
  BY LeastNatural
<1> QED BY <1>1 DEF Min

LEMMA DaysAreNaturals == Days \subseteq Nat /\ \A i \in Trades : TradeDay(i) \in Days
<1>1. \A i \in Trades : TradeTime[i] \div DayMs \in Nat
  <2> SUFFICES ASSUME NEW i \in Trades PROVE TradeTime[i] \div DayMs \in Nat OBVIOUS
  <2>1. TradeTime[i] \in Nat /\ DayMs \in Nat \ {0}
    BY TradesAssumption
  <2> QED BY <2>1
<1> QED BY <1>1 DEF Days, TradeDay

LEMMA FirstDay ==
  ASSUME FootTypeOK, NEW p \in FootProc, mem[p].todo # {}
  PROVE  Min(mem[p].todo) \in mem[p].todo /\ Min(mem[p].todo) \in Days
<1>1. mem[p].todo \in SUBSET Days
  BY DEF FootTypeOK
<1> QED BY <1>1, DaysAreNaturals, MinOfNaturals

LEMMA BatchIsOfDay ==
  ASSUME FootTypeOK, NEW p \in FootProc
  PROVE  Batch(p) = OfDay(fetched[p].trades, Min(mem[p].todo)) /\ Batch(p) \in TradeSets
BY DEF Batch, OfDay, TradeDay, FootTypeOK, TradeSets

LEMMA AggregateType ==
  ASSUME NEW trades \in TradeSets, NEW q
  PROVE  aggregate_trades_to_footprint(trades, q) \in [BarTimes -> TradeSets]
BY DEF aggregate_trades_to_footprint, Of, TradeSets

LEMMA StoredType ==
  ASSUME FootTypeOK, NEW q
  PROVE  FootprintStore_read(q) \in [BarTimes -> TradeSets]
BY DEF FootTypeOK, FootprintStore_read, TradeSets

LEMMA NoBarsType == NoBars \in [BarTimes -> TradeSets]
BY DEF NoBars, TradeSets

(* The file of a batch is added; another of its name was the same file. *)
LEMMA PayloadsGrow ==
  ASSUME FootTypeOK, NEW p \in FootProc, WritePayload(p)
  PROVE  payloads' = [payloads EXCEPT ![Min(mem[p].todo)] = @ \cup {PayloadOf(Batch(p))}]
<1> DEFINE d == Min(mem[p].todo)
<1>1. d \in Days
  BY FirstDay DEF WritePayload
<1>2. payloads[d] \in SUBSET {PayloadOf(s) : s \in TradeSets}
  BY <1>1 DEF FootTypeOK
<1>3. \A f \in payloads[d] : f.name = Batch(p) => f = PayloadOf(Batch(p))
  BY <1>2 DEF PayloadOf
<1>4. {f \in payloads[d] : f.name # Batch(p)} \cup {PayloadOf(Batch(p))}
        = payloads[d] \cup {PayloadOf(Batch(p))}
  BY <1>3
<1> HIDE DEF d
<1>5. payloads' = [payloads EXCEPT ![d] =
        {f \in payloads[d] : f.name # Batch(p)} \cup {PayloadOf(Batch(p))}]
  BY <1>1 DEF WritePayload, file_name, PayloadOf, FootTypeOK, d
<1> QED BY <1>4, <1>5 DEF d

(* What each process relies on in the partitions, and why no read fails. *)
RawProc(p) ==
  /\ stage[p] \in {"partitions", "payload"} =>
       \A d \in mem[p].todo : manifest[d] # NoManifest
  /\ stage[p] \in {"payload", "publish"} => mem[p].todo # {}
  /\ stage[p] = "payload" =>
       \E s \in TradeSets : /\ mem[p].opened = ManifestOf(s)
                            /\ PayloadOf(s) \in payloads[Min(mem[p].todo)]
  /\ stage[p] = "publish" => PayloadOf(Batch(p)) \in payloads[Min(mem[p].todo)]
  /\ outcome[p].status # "raw"

(* The file a manifest names is there. *)
NamedFilesExist ==
  \A d \in Days : manifest[d] # NoManifest => PayloadOf(manifest[d].checksum) \in payloads[d]

RawInv == FootTypeOK /\ NamedFilesExist /\ \A p \in FootProc : RawProc(p)

(* What is published has happened. *)
PublishedHappened ==
  \A d \in Days : manifest[d] # NoManifest => manifest[d].checksum \subseteq Happened

(* Bars that hold, wherever a trade was fetched, the fetched trades.      *)
Agrees(p, bars) ==
  LET whole == aggregate_trades_to_footprint(fetched[p].trades, ask[p]) IN
  \A b \in BarTimes : whole[b] # {} => bars[b] = whole[b]

(* The partitions hold no trade of the query but the fetched ones, and all *)
(* of those, except in the partitions that are still to be published.      *)
Unpublished(p) == IF stage[p] \in {"write", "publish"} THEN mem[p].todo ELSE {}
PartitionsAgree(p) ==
  /\ \A d \in Days : manifest[d] # NoManifest =>
       Of(manifest[d].checksum, ask[p]) \subseteq fetched[p].trades
  /\ \A d \in DaysOf(fetched[p].trades) \ Unpublished(p) :
       manifest[d] = ManifestOf(OfDay(fetched[p].trades, d))

(* The trades read so far, and the partitions still to be read. *)
RowsAgree(p) ==
  /\ Of(mem[p].rows, ask[p]) \subseteq fetched[p].trades
  /\ \A i \in fetched[p].trades : i \in mem[p].rows \/ TradeDay(i) \in mem[p].todo

WholeProc(p) ==
  /\ stage[p] = "stored" => ~fetched[p].asked
  /\ stage[p] # "idle" => outcome[p].status = "none"
  /\ \A i \in fetched[p].trades : i \in Happened /\ Within(TradeTime[i], ask[p])
  /\ (fetched[p].asked /\ ~disturbed[p]) =>
       /\ stage[p] \in {"write", "publish", "list", "partitions", "payload"} =>
            PartitionsAgree(p)
       /\ stage[p] \in {"partitions", "payload"} => RowsAgree(p)
       /\ stage[p] = "payload" => mem[p].opened = manifest[Min(mem[p].todo)]
       /\ stage[p] \in {"merge", "replace"} => Agrees(p, mem[p].made)
       /\ stage[p] = "readback" => Agrees(p, footprint)
       /\ outcome[p].status = "ok" => Agrees(p, outcome[p].bars)

WholeInv == PublishedHappened /\ \A p \in FootProc : WholeProc(p)

----------------------------------------------------------------------------
(* Types *)

Mem == [todo : SUBSET Days, opened : {NoManifest} \cup {ManifestOf(s) : s \in TradeSets},
        rows : TradeSets, made : [BarTimes -> TradeSets]]

LEMMA NothingType == Nothing \in Mem
BY NoBarsType DEF Nothing, Mem, TradeSets

LEMMA AnswerType ==
  ASSUME FootTypeOK, NEW p \in FootProc, NEW status \in Statuses,
         NEW bars \in [BarTimes -> TradeSets], Answer(p, status, bars)
  PROVE  FootTypeOK'
<1>1. mem' \in [FootProc -> Mem]
  BY NothingType DEF Answer, FootTypeOK, Mem
<1>2. stage' \in [FootProc -> Stages]
  BY DEF Answer, FootTypeOK, Stages
<1>3. outcome' \in [FootProc -> [status : Statuses, bars : [BarTimes -> TradeSets]]]
  BY DEF Answer, FootTypeOK
<1>4. UNCHANGED <<now, payloads, manifest, footprint, ask, fetched, disturbed>>
  BY DEF Answer, stores
<1> QED BY <1>1, <1>2, <1>3, <1>4 DEF FootTypeOK, Mem

LEMMA DeliverAnswers ==
  ASSUME NEW p, NEW bars, Deliver(p, bars)
  PROVE  Answer(p, "incomplete", NoBars) \/ Answer(p, "ok", bars)
BY DEF Deliver

LEMMA DeliverType ==
  ASSUME FootTypeOK, NEW p \in FootProc, NEW bars \in [BarTimes -> TradeSets],
         Deliver(p, bars)
  PROVE  FootTypeOK'
<1>1. CASE Answer(p, "incomplete", NoBars)
  BY <1>1, AnswerType, NoBarsType DEF Statuses
<1>2. CASE Answer(p, "ok", bars)
  BY <1>2, AnswerType DEF Statuses
<1> QED BY <1>1, <1>2, DeliverAnswers

(* A step of a call that has not ended. *)
LEMMA MovesType ==
  ASSUME FootTypeOK, NEW p \in FootProc, NEW from, NEW to \in Stages, Moves(p, from, to),
         payloads' \in [Days -> SUBSET {PayloadOf(s) : s \in TradeSets}],
         manifest' \in [Days -> {NoManifest} \cup {ManifestOf(s) : s \in TradeSets}],
         footprint' \in [BarTimes -> TradeSets],
         mem' \in [FootProc -> Mem],
         fetched' \in [FootProc -> [asked : BOOLEAN, trades : TradeSets]],
         disturbed' \in [FootProc -> BOOLEAN]
  PROVE  FootTypeOK'
<1>1. stage' \in [FootProc -> Stages]
  BY DEF Moves, FootTypeOK
<1>2. UNCHANGED <<now, ask, outcome>>
  BY DEF Moves
<1> QED BY <1>1, <1>2 DEF FootTypeOK, Mem

LEMMA ReadTypes ==
  ASSUME FootTypeOK, NEW p \in FootProc, RawProc(p),
         ListPartitions(p) \/ ReadManifest(p) \/ ReadPayload(p) \/ NeedTrades(p)
  PROVE  FootTypeOK'
<1>0. mem \in [FootProc -> Mem] /\ mem[p] \in Mem
  BY DEF FootTypeOK, Mem
<1>1. CASE ListPartitions(p)
  <2>1. mem' \in [FootProc -> Mem]
    BY <1>0, <1>1 DEF ListPartitions, Mem, TradeSets
  <2> QED BY <1>1, <2>1, MovesType DEF ListPartitions, FootTypeOK, stores, Stages
<1>2. CASE ReadManifest(p)
  <2>1. Min(mem[p].todo) \in Days
    BY <1>2, FirstDay DEF ReadManifest
  <2>2. manifest[Min(mem[p].todo)] \in {NoManifest} \cup {ManifestOf(s) : s \in TradeSets}
    BY <2>1 DEF FootTypeOK
  <2>3. mem' \in [FootProc -> Mem]
    BY <1>0, <1>2, <2>2 DEF ReadManifest, Mem
  <2> QED BY <1>2, <2>3, MovesType DEF ReadManifest, FootTypeOK, stores, Stages
<1>3. CASE ReadPayload(p)
  <2>1. CASE Matching(p) = {}
    BY <1>3, <2>1, AnswerType, NoBarsType DEF ReadPayload, Statuses
  <2>2. CASE Matching(p) # {}
    <3> DEFINE read == UNION {f.body : f \in Matching(p)}
               d == Min(mem[p].todo)
    <3>1. d \in Days
      BY <1>3, FirstDay DEF ReadPayload, RawProc
    <3>2. payloads[d] \subseteq {PayloadOf(s) : s \in TradeSets}
      BY <3>1 DEF FootTypeOK
    <3>3. \A f \in Matching(p) : f.body \in TradeSets
      BY <3>2 DEF Matching, PayloadOf
    <3>4. read \in TradeSets
      BY <3>3 DEF TradeSets
    <3>5. mem' = [mem EXCEPT ![p].rows = @ \cup read, ![p].todo = @ \ {Min(@)},
                             ![p].opened = NoManifest]
      BY <1>3, <2>2 DEF ReadPayload
    <3> HIDE DEF read, d
    <3>6. mem' \in [FootProc -> Mem]
      BY <1>0, <3>4, <3>5 DEF Mem, TradeSets
    <3>7. Moves(p, "payload", "partitions") /\ UNCHANGED <<stores, fetched, disturbed>>
      BY <1>3, <2>2 DEF ReadPayload
    <3>8. "partitions" \in Stages
      BY DEF Stages
    <3>9. UNCHANGED <<payloads, manifest, footprint, fetched, disturbed>>
      BY <3>7 DEF stores
    <3>10. /\ payloads' \in [Days -> SUBSET {PayloadOf(s) : s \in TradeSets}]
           /\ manifest' \in [Days -> {NoManifest} \cup {ManifestOf(s) : s \in TradeSets}]
           /\ footprint' \in [BarTimes -> TradeSets]
           /\ fetched' \in [FootProc -> [asked : BOOLEAN, trades : TradeSets]]
           /\ disturbed' \in [FootProc -> BOOLEAN]
      BY <3>9 DEF FootTypeOK
    <3> QED BY <3>6, <3>7, <3>8, <3>10, MovesType
  <2> QED BY <2>1, <2>2
<1>4. CASE NeedTrades(p)
  BY <1>0, <1>4, MovesType DEF NeedTrades, FootTypeOK, stores, Stages
<1> QED BY <1>1, <1>2, <1>3, <1>4

LEMMA FetchTypes ==
  ASSUME FootTypeOK, NEW p \in FootProc, FetchTrades(p)
  PROVE  FootTypeOK'
<1> DEFINE trades == Of(Happened, ask[p])
           to == IF trades = {} THEN "list" ELSE "write"
<1>1. trades \in TradeSets
  BY DEF Of, Happened, TradeSets
<1>2. DaysOf(trades) \in SUBSET Days
  BY <1>1, DaysAreNaturals DEF DaysOf, TradeSets
<1>3. mem \in [FootProc -> Mem] /\ mem[p] \in Mem
  BY DEF FootTypeOK, Mem
<1>4. /\ Moves(p, "fetch", to) /\ UNCHANGED stores
      /\ fetched' = [fetched EXCEPT ![p] = [asked |-> TRUE, trades |-> trades]]
      /\ mem' = [mem EXCEPT ![p].todo = DaysOf(trades), ![p].rows = {}]
      /\ disturbed' = [disturbed EXCEPT ![p] = FALSE]
  BY DEF FetchTrades, DaysOf, TradeDay
<1>5. to \in Stages
  BY DEF Stages
<1> HIDE DEF trades, to
<1>6. mem' \in [FootProc -> Mem]
  BY <1>2, <1>3, <1>4 DEF Mem, TradeSets
<1>7. fetched' \in [FootProc -> [asked : BOOLEAN, trades : TradeSets]]
  BY <1>1, <1>4 DEF FootTypeOK
<1>8. /\ payloads' \in [Days -> SUBSET {PayloadOf(s) : s \in TradeSets}]
      /\ manifest' \in [Days -> {NoManifest} \cup {ManifestOf(s) : s \in TradeSets}]
      /\ footprint' \in [BarTimes -> TradeSets]
      /\ disturbed' \in [FootProc -> BOOLEAN]
  BY <1>4 DEF FootTypeOK, stores
<1>9. Moves(p, "fetch", to)
  BY <1>4
<1> QED BY <1>5, <1>6, <1>7, <1>8, <1>9, MovesType

LEMMA WriteTypes ==
  ASSUME FootTypeOK, NEW p \in FootProc, RawProc(p), WritePayload(p) \/ PublishPayload(p)
  PROVE  FootTypeOK'
<1> DEFINE d == Min(mem[p].todo)
<1>1. mem \in [FootProc -> Mem] /\ mem[p] \in Mem
  BY DEF FootTypeOK, Mem
<1>2. d \in Days
  BY FirstDay DEF WritePayload, PublishPayload, RawProc, Moves
<1>3. Batch(p) \in TradeSets
  BY BatchIsOfDay
<1>4. CASE WritePayload(p)
  <2>1. payloads' = [payloads EXCEPT ![d] = @ \cup {PayloadOf(Batch(p))}]
    BY <1>4, PayloadsGrow
  <2> HIDE DEF d
  <2>2. payloads' \in [Days -> SUBSET {PayloadOf(s) : s \in TradeSets}]
    BY <1>2, <1>3, <2>1 DEF FootTypeOK
  <2>3. UNCHANGED <<manifest, footprint, mem, fetched, disturbed>>
        /\ Moves(p, "write", "publish") /\ "publish" \in Stages
    BY <1>4 DEF WritePayload, Stages
  <2> QED BY <1>1, <2>2, <2>3, MovesType DEF FootTypeOK
<1>5. CASE PublishPayload(p)
  <2> DEFINE to == IF mem[p].todo = {d} THEN "list" ELSE "write"
  <2>1. /\ Moves(p, "publish", to) /\ UNCHANGED <<payloads, footprint, fetched>>
        /\ manifest' = [manifest EXCEPT ![d] = ManifestOf(Batch(p))]
        /\ mem' = [mem EXCEPT ![p].todo = @ \ {d}]
        /\ Disturb(p)
    BY <1>5 DEF PublishPayload, ManifestOf, file_name
  <2>2. to \in Stages
    BY DEF Stages
  <2> HIDE DEF d, to
  <2>3. mem' \in [FootProc -> Mem]
    BY <1>1, <2>1 DEF Mem
  <2>4. manifest' \in [Days -> {NoManifest} \cup {ManifestOf(s) : s \in TradeSets}]
    BY <1>2, <1>3, <2>1 DEF FootTypeOK
  <2>5. disturbed' \in [FootProc -> BOOLEAN]
    BY <2>1 DEF Disturb
  <2>6. /\ payloads' \in [Days -> SUBSET {PayloadOf(s) : s \in TradeSets}]
        /\ footprint' \in [BarTimes -> TradeSets]
        /\ fetched' \in [FootProc -> [asked : BOOLEAN, trades : TradeSets]]
    BY <2>1 DEF FootTypeOK
  <2>7. Moves(p, "publish", to)
    BY <2>1
  <2> QED BY <2>2, <2>3, <2>4, <2>5, <2>6, <2>7, MovesType
<1> QED BY <1>4, <1>5

LEMMA MakeTypes ==
  ASSUME FootTypeOK, NEW p \in FootProc,
         Aggregate(p) \/ MergeStored(p) \/ ReplaceFootprint(p) \/ ReadBack(p)
  PROVE  FootTypeOK'
<1>0. mem \in [FootProc -> Mem] /\ mem[p] \in Mem
  BY DEF FootTypeOK, Mem
<1>1. CASE Aggregate(p)
  <2> DEFINE bars == aggregate_trades_to_footprint(mem[p].rows, ask[p])
  <2>1. bars \in [BarTimes -> TradeSets]
    BY <1>0, AggregateType DEF Mem
  <2>2. CASE bars = NoBars
    BY <1>1, <2>2, NoBarsType, DeliverType DEF Aggregate
  <2>3. CASE bars # NoBars
    <3>1. /\ Moves(p, "partitions", "merge") /\ UNCHANGED <<stores, fetched, disturbed>>
          /\ mem' = [mem EXCEPT ![p] = [Nothing EXCEPT !.made = bars]]
      BY <1>1, <2>3 DEF Aggregate
    <3> HIDE DEF bars
    <3>2. [Nothing EXCEPT !.made = bars] \in Mem
      BY <2>1, NothingType DEF Mem
    <3>3. mem' \in [FootProc -> Mem]
      BY <1>0, <3>1, <3>2
    <3>4. UNCHANGED <<payloads, manifest, footprint, fetched, disturbed>>
      BY <3>1 DEF stores
    <3> QED BY <3>1, <3>3, <3>4, MovesType DEF FootTypeOK, Stages
  <2> QED BY <2>2, <2>3
<1>2. CASE MergeStored(p)
  <2> DEFINE bars == Merge(FootprintStore_read(ask[p]), mem[p].made)
  <2>1. bars \in [BarTimes -> TradeSets]
    BY <1>0, StoredType DEF Mem, Merge
  <2>2. /\ Moves(p, "merge", "replace") /\ UNCHANGED <<stores, fetched, disturbed>>
        /\ mem' = [mem EXCEPT ![p].made = bars]
    BY <1>0, <1>2 DEF MergeStored, Mem
  <2> HIDE DEF bars
  <2>3. mem' \in [FootProc -> Mem]
    BY <1>0, <2>1, <2>2 DEF Mem
  <2>4. UNCHANGED <<payloads, manifest, footprint, fetched, disturbed>>
    BY <2>2 DEF stores
  <2> QED BY <2>2, <2>3, <2>4, MovesType DEF FootTypeOK, Stages
<1>3. CASE ReplaceFootprint(p)
  <2>1. footprint' \in [BarTimes -> TradeSets]
    BY <1>0, <1>3 DEF ReplaceFootprint, Mem
  <2>2. disturbed' \in [FootProc -> BOOLEAN]
    BY <1>3 DEF ReplaceFootprint, Disturb
  <2>3. Moves(p, "replace", "readback") /\ UNCHANGED <<payloads, manifest, mem, fetched>>
    BY <1>3 DEF ReplaceFootprint
  <2> QED BY <1>0, <2>1, <2>2, <2>3, MovesType DEF FootTypeOK, Stages
<1>4. CASE ReadBack(p)
  <2>1. PICK have : have = FootprintStore_read(ask[p])
    OBVIOUS
  <2>2. have \in [BarTimes -> TradeSets] /\ Deliver(p, have)
    BY <1>4, <2>1, StoredType DEF ReadBack
  <2> QED BY <2>2, DeliverType
<1> QED BY <1>1, <1>2, <1>3, <1>4

LEMMA StartTypes ==
  ASSUME FootTypeOK, NEW p \in FootProc,
         \/ \E q \in FootQueries : StartFetch(p, q)
         \/ ReadStored(p) \/ FetchFails(p) \/ KillFootprint(p)
  PROVE  FootTypeOK'
<1>1. ASSUME NEW q \in FootQueries, StartFetch(p, q) PROVE FootTypeOK'
  <2>1. stage' \in [FootProc -> Stages]
    BY <1>1 DEF StartFetch, FootTypeOK, Stages
  <2>2. outcome' \in [FootProc -> [status : Statuses, bars : [BarTimes -> TradeSets]]]
    BY <1>1, NoBarsType DEF StartFetch, FootTypeOK, NoReply, Statuses
  <2>3. fetched' \in [FootProc -> [asked : BOOLEAN, trades : TradeSets]]
    BY <1>1 DEF StartFetch, FootTypeOK, NoTrades, TradeSets
  <2>4. disturbed' \in [FootProc -> BOOLEAN] /\ DOMAIN ask' = FootProc
    BY <1>1 DEF StartFetch, FootTypeOK
  <2>5. UNCHANGED <<now, payloads, manifest, footprint, mem>>
    BY <1>1 DEF StartFetch, stores
  <2> QED BY <2>1, <2>2, <2>3, <2>4, <2>5 DEF FootTypeOK
<1>2. CASE ReadStored(p)
  <2>1. PICK have : have = FootprintStore_read(ask[p])
    OBVIOUS
  <2>2. have \in [BarTimes -> TradeSets]
    BY <2>1, StoredType
  <2>3. CASE Deliver(p, have)
    BY <2>2, <2>3, DeliverType
  <2>4. CASE Moves(p, "stored", "list") /\ UNCHANGED <<stores, mem, fetched, disturbed>>
    <3>1. mem \in [FootProc -> Mem]
      BY DEF FootTypeOK, Mem
    <3>2. UNCHANGED <<payloads, manifest, footprint, mem, fetched, disturbed>>
      BY <2>4 DEF stores
    <3> QED BY <2>4, <3>1, <3>2, MovesType DEF FootTypeOK, Stages
  <2> QED BY <1>2, <2>1, <2>3, <2>4 DEF ReadStored
<1>3. CASE FetchFails(p)
  BY <1>3, AnswerType, NoBarsType DEF FetchFails, Statuses
<1>4. CASE KillFootprint(p)
  BY <1>4, AnswerType, NoBarsType DEF KillFootprint, Statuses
<1> QED BY <1>1, <1>2, <1>3, <1>4

LEMMA FootStepType ==
  ASSUME FootTypeOK, \A p \in FootProc : RawProc(p), [FootNext]_footvars
  PROVE  FootTypeOK'
<1>1. CASE UNCHANGED footvars
  BY <1>1 DEF footvars, FootTypeOK
<1>2. CASE Trade
  BY <1>2 DEF Trade, stores, FootTypeOK
<1>3. ASSUME NEW p \in FootProc, fetch_footprint(p) \/ KillFootprint(p) PROVE FootTypeOK'
  BY <1>3, ReadTypes, FetchTypes, WriteTypes, MakeTypes, StartTypes DEF fetch_footprint
<1> QED BY <1>1, <1>2, <1>3 DEF FootNext

----------------------------------------------------------------------------
(* Reads of the partitions *)

(* A process changes nothing of another but that it is disturbed. *)
Own(q) == <<stage[q], mem[q], fetched[q], outcome[q], ask[q]>>

LEMMA MovesOwn ==
  ASSUME FootTypeOK, NEW p \in FootProc, NEW from, NEW to, Moves(p, from, to)
  PROVE  /\ stage[p] = from /\ stage'[p] = to
         /\ outcome' = outcome /\ ask' = ask /\ now' = now
         /\ \A q \in FootProc \ {p} : stage'[q] = stage[q]
BY DEF Moves, FootTypeOK

LEMMA AnswerOwn ==
  ASSUME FootTypeOK, NEW p \in FootProc, NEW status, NEW bars, Answer(p, status, bars)
  PROVE  /\ stage'[p] = "idle" /\ mem'[p] = Nothing
         /\ outcome'[p] = [status |-> status, bars |-> bars]
         /\ ask' = ask /\ fetched' = fetched /\ now' = now /\ disturbed' = disturbed
         /\ payloads' = payloads /\ manifest' = manifest /\ footprint' = footprint
         /\ \A q \in FootProc \ {p} : Own(q)' = Own(q)
BY DEF Answer, FootTypeOK, stores, Own

(* What a step of p leaves alone. *)
LEMMA OthersKeep ==
  ASSUME FootTypeOK, NEW p \in FootProc, fetch_footprint(p) \/ KillFootprint(p),
         NEW q \in FootProc \ {p}
  PROVE  UNCHANGED <<stage[q], mem[q], fetched[q], outcome[q], ask[q]>>
<1> USE DEF Own
<1>1. ASSUME NEW status, NEW bars, Answer(p, status, bars) PROVE Own(q)' = Own(q)
  BY <1>1, AnswerOwn
<1>2. ASSUME NEW bars, Deliver(p, bars) PROVE Own(q)' = Own(q)
  BY <1>1, <1>2, DeliverAnswers
<1>3. ASSUME NEW x \in FootQueries, StartFetch(p, x) PROVE Own(q)' = Own(q)
  BY <1>3 DEF StartFetch, FootTypeOK
<1>4. CASE ReadStored(p)
  <2>1. PICK have : have = FootprintStore_read(ask[p])
    OBVIOUS
  <2>2. CASE Deliver(p, have)
    BY <1>2, <2>2
  <2>3. CASE Moves(p, "stored", "list") /\ UNCHANGED <<stores, mem, fetched, disturbed>>
    BY <2>3, MovesOwn
  <2> QED BY <1>4, <2>1, <2>2, <2>3 DEF ReadStored
<1>5. CASE ListPartitions(p)
  BY <1>5, MovesOwn DEF ListPartitions, FootTypeOK
<1>6. CASE ReadManifest(p)
  BY <1>6, MovesOwn DEF ReadManifest, FootTypeOK
<1>7. CASE ReadPayload(p)
  <2>1. CASE Matching(p) = {}
    BY <1>1, <1>7, <2>1 DEF ReadPayload
  <2>2. CASE Matching(p) # {}
    <3>1. PICK to : Moves(p, "payload", to)
      BY <1>7, <2>2 DEF ReadPayload
    <3>2. stage'[q] = stage[q] /\ outcome' = outcome /\ ask' = ask
      BY <3>1, MovesOwn
    <3>3. fetched' = fetched /\ mem'[q] = mem[q]
      BY <1>7, <2>2 DEF ReadPayload, FootTypeOK
    <3> QED BY <3>2, <3>3
  <2> QED BY <2>1, <2>2
<1>8. CASE NeedTrades(p)
  BY <1>8, MovesOwn DEF NeedTrades
<1>9. CASE FetchTrades(p)
  BY <1>9, MovesOwn DEF FetchTrades, FootTypeOK
<1>10. CASE FetchFails(p) \/ KillFootprint(p)
  BY <1>1, <1>10 DEF FetchFails, KillFootprint
<1>11. CASE WritePayload(p)
  BY <1>11, MovesOwn DEF WritePayload
<1>12. CASE PublishPayload(p)
  BY <1>12, MovesOwn DEF PublishPayload, FootTypeOK
<1>13. CASE Aggregate(p)
  <2>1. PICK have : have = aggregate_trades_to_footprint(mem[p].rows, ask[p])
    OBVIOUS
  <2>2. CASE Deliver(p, have)
    BY <1>2, <2>2
  <2>3. CASE /\ Moves(p, "partitions", "merge") /\ UNCHANGED <<stores, fetched, disturbed>>
             /\ mem' = [mem EXCEPT ![p] = [Nothing EXCEPT !.made = have]]
    BY <2>3, MovesOwn DEF FootTypeOK
  <2> QED BY <1>13, <2>1, <2>2, <2>3 DEF Aggregate
<1>14. CASE MergeStored(p)
  BY <1>14, MovesOwn DEF MergeStored, FootTypeOK
<1>15. CASE ReplaceFootprint(p)
  BY <1>15, MovesOwn DEF ReplaceFootprint
<1>16. CASE ReadBack(p)
  <2>1. PICK have : have = FootprintStore_read(ask[p])
    OBVIOUS
  <2> QED BY <1>2, <1>16, <2>1 DEF ReadBack
<1>17. Own(q)' = Own(q)
  BY <1>3, <1>4, <1>5, <1>6, <1>7, <1>8, <1>9, <1>10, <1>11, <1>12, <1>13, <1>14, <1>15,
     <1>16 DEF fetch_footprint
<1> QED BY <1>17

(* Files are only added, partitions only published or replaced. *)
StoresGrow ==
  /\ \A d \in Days : payloads[d] \subseteq payloads'[d]
  /\ \A d \in Days : manifest[d] # NoManifest => manifest'[d] # NoManifest

LEMMA RawStays ==
  ASSUME FootTypeOK, NEW q \in FootProc, RawProc(q), StoresGrow,
         UNCHANGED <<stage[q], mem[q], fetched[q], outcome[q], ask[q]>>
  PROVE  RawProc(q)'
<1>1. mem[q].todo # {} => Min(mem[q].todo) \in Days
  BY FirstDay
<1>2. mem[q].todo \subseteq Days
  BY DEF FootTypeOK
<1>3. Batch(q)' = Batch(q)
  BY DEF Batch
<1>4. (mem[q].todo)' = mem[q].todo /\ Min(mem[q].todo)' = Min(mem[q].todo)
  OBVIOUS
<1> QED BY <1>1, <1>2, <1>3, <1>4 DEF RawProc, StoresGrow

(* Where a call reads or writes no partition, it relies on none. *)
LEMMA RawElsewhere ==
  ASSUME NamedFilesExist, NEW p \in FootProc,
         payloads' = payloads, manifest' = manifest,
         stage'[p] \notin {"partitions", "payload", "publish"}, outcome'[p].status # "raw"
  PROVE  StoresGrow /\ NamedFilesExist' /\ RawProc(p)'
BY DEF StoresGrow, NamedFilesExist, RawProc

LEMMA AnswerRaw ==
  ASSUME FootTypeOK, NamedFilesExist, NEW p \in FootProc, NEW status, NEW bars,
         status # "raw", Answer(p, status, bars)
  PROVE  StoresGrow /\ NamedFilesExist' /\ RawProc(p)'
<1>1. /\ stage'[p] = "idle" /\ outcome'[p].status = status
      /\ payloads' = payloads /\ manifest' = manifest
  BY DEF Answer, FootTypeOK, stores
<1> QED BY <1>1, RawElsewhere

LEMMA DeliverRaw ==
  ASSUME FootTypeOK, NamedFilesExist, NEW p \in FootProc, NEW bars, Deliver(p, bars)
  PROVE  StoresGrow /\ NamedFilesExist' /\ RawProc(p)'
<1>1. CASE Answer(p, "incomplete", NoBars)
  BY <1>1, AnswerRaw
<1>2. CASE Answer(p, "ok", bars)
  BY <1>2, AnswerRaw
<1> QED BY <1>1, <1>2, DeliverAnswers

LEMMA ReadRaw ==
  ASSUME FootTypeOK, NamedFilesExist, NEW p \in FootProc, RawProc(p),
         ListPartitions(p) \/ ReadManifest(p) \/ ReadPayload(p)
  PROVE  StoresGrow /\ NamedFilesExist' /\ RawProc(p)'
<1>0. mem \in [FootProc -> Mem] /\ mem[p] \in Mem
  BY DEF FootTypeOK, Mem
<1>1. CASE ListPartitions(p)
  <2>1. /\ stage'[p] = "partitions" /\ outcome' = outcome
        /\ payloads' = payloads /\ manifest' = manifest
        /\ mem'[p].todo = {d \in Days : manifest[d] # NoManifest}
    BY <1>0, <1>1, MovesOwn DEF ListPartitions, Mem, stores
  <2> QED BY <2>1 DEF StoresGrow, NamedFilesExist, RawProc
<1>2. CASE ReadManifest(p)
  <2> DEFINE d == Min(mem[p].todo)
  <2>1. /\ stage[p] = "partitions" /\ stage'[p] = "payload" /\ outcome' = outcome
        /\ payloads' = payloads /\ manifest' = manifest
        /\ mem'[p].todo = mem[p].todo /\ mem[p].todo # {}
        /\ mem'[p].opened = manifest[d]
    BY <1>0, <1>2, MovesOwn DEF ReadManifest, Mem, stores
  <2>2. d \in mem[p].todo /\ d \in Days
    BY <2>1, FirstDay
  <2>3. manifest[d] # NoManifest /\ \A x \in mem[p].todo : manifest[x] # NoManifest
    BY <2>1, <2>2 DEF RawProc
  <2>4. PICK s \in TradeSets : manifest[d] = ManifestOf(s)
    BY <2>2, <2>3 DEF FootTypeOK
  <2>5. PayloadOf(s) \in payloads[d]
    BY <2>2, <2>3, <2>4 DEF NamedFilesExist, ManifestOf
  <2>6. Min((mem[p].todo)') = d
    BY <2>1
  <2> HIDE DEF d
  <2> QED BY <2>1, <2>3, <2>4, <2>5, <2>6 DEF StoresGrow, NamedFilesExist, RawProc
<1>3. CASE ReadPayload(p)
  <2> DEFINE d == Min(mem[p].todo)
  <2>1. PICK s \in TradeSets : mem[p].opened = ManifestOf(s) /\ PayloadOf(s) \in payloads[d]
    BY <1>3 DEF ReadPayload, RawProc
  <2>2. PayloadOf(s) \in Matching(p)
    BY <2>1 DEF Matching, ManifestOf, PayloadOf
  <2>3. /\ Moves(p, "payload", "partitions") /\ UNCHANGED <<stores, fetched, disturbed>>
        /\ mem'[p].todo = mem[p].todo \ {d}
    <3>1. /\ Moves(p, "payload", "partitions") /\ UNCHANGED <<stores, fetched, disturbed>>
          /\ mem' = [mem EXCEPT ![p].rows = @ \cup UNION {f.body : f \in Matching(p)},
                               ![p].todo = @ \ {Min(@)}, ![p].opened = NoManifest]
      BY <1>3, <2>2 DEF ReadPayload
    <3> QED BY <1>0, <3>1 DEF Mem
  <2>4. /\ stage[p] = "payload" /\ stage'[p] = "partitions" /\ outcome' = outcome
        /\ payloads' = payloads /\ manifest' = manifest
    BY <2>3, MovesOwn DEF stores
  <2> HIDE DEF d
  <2> QED BY <2>3, <2>4 DEF StoresGrow, NamedFilesExist, RawProc
<1> QED BY <1>1, <1>2, <1>3

LEMMA WriteRaw ==
  ASSUME FootTypeOK, NamedFilesExist, NEW p \in FootProc, RawProc(p),
         WritePayload(p) \/ PublishPayload(p)
  PROVE  StoresGrow /\ NamedFilesExist' /\ RawProc(p)'
<1> DEFINE d == Min(mem[p].todo)
<1>0. mem \in [FootProc -> Mem] /\ mem[p] \in Mem
  BY DEF FootTypeOK, Mem
<1>1. d \in Days
  BY FirstDay DEF WritePayload, PublishPayload, RawProc, Moves
<1>2. CASE WritePayload(p)
  <2>1. payloads' = [payloads EXCEPT ![d] = @ \cup {PayloadOf(Batch(p))}]
    BY <1>2, PayloadsGrow
  <2>2. /\ stage'[p] = "publish" /\ UNCHANGED <<outcome, manifest, mem, fetched>>
        /\ mem[p].todo # {}
    BY <1>2, MovesOwn DEF WritePayload
  <2>3. Batch(p)' = Batch(p) /\ Min((mem[p].todo)') = d
    BY <2>2 DEF Batch
  <2> HIDE DEF d
  <2>4. /\ \A x \in Days : payloads[x] \subseteq payloads'[x]
        /\ PayloadOf(Batch(p)) \in payloads'[d]
    BY <1>1, <2>1 DEF FootTypeOK
  <2> QED BY <2>2, <2>3, <2>4 DEF StoresGrow, NamedFilesExist, RawProc
<1>3. CASE PublishPayload(p)
  <2>1. /\ stage[p] = "publish" /\ stage'[p] \in {"list", "write"}
        /\ UNCHANGED <<outcome, payloads>>
    BY <1>3, MovesOwn DEF PublishPayload
  <2>2. manifest' = [manifest EXCEPT ![d] = ManifestOf(Batch(p))]
    BY <1>3 DEF PublishPayload, ManifestOf, file_name
  <2>3. ManifestOf(Batch(p)) # NoManifest
    BY BatchIsOfDay, NoManifestAssumption DEF ManifestOf, TradeSets
  <2>4. PayloadOf(Batch(p)) \in payloads[d]
    BY <2>1 DEF RawProc
  <2> HIDE DEF d
  <2>5. /\ manifest'[d] = ManifestOf(Batch(p))
        /\ \A x \in Days : x # d => manifest'[x] = manifest[x]
    BY <1>1, <2>2 DEF FootTypeOK
  <2>6. manifest'[d].checksum = Batch(p)
    BY <2>5 DEF ManifestOf
  <2>7. NamedFilesExist'
    BY <2>1, <2>4, <2>5, <2>6 DEF NamedFilesExist
  <2> QED BY <2>1, <2>3, <2>5, <2>7 DEF StoresGrow, RawProc
<1> QED BY <1>2, <1>3

LEMMA RawStep ==
  ASSUME RawInv, NEW p \in FootProc, fetch_footprint(p) \/ KillFootprint(p)
  PROVE  StoresGrow /\ NamedFilesExist' /\ RawProc(p)'
<1> USE DEF RawInv
<1>0. outcome[p].status # "raw" /\ outcome \in [FootProc -> [status : Statuses, bars : [BarTimes -> TradeSets]]]
  BY DEF RawProc, FootTypeOK
<1>1. ASSUME NEW q \in FootQueries, StartFetch(p, q)
      PROVE  StoresGrow /\ NamedFilesExist' /\ RawProc(p)'
  <2>1. stage'[p] \in {"stored", "list"} /\ outcome'[p] = NoReply
        /\ payloads' = payloads /\ manifest' = manifest
    BY <1>1 DEF StartFetch, FootTypeOK, stores
  <2> QED BY <2>1, RawElsewhere DEF NoReply
<1>2. CASE ReadStored(p)
  <2>1. PICK have : have = FootprintStore_read(ask[p])
    OBVIOUS
  <2>2. CASE Deliver(p, have)
    BY <2>2, DeliverRaw
  <2>3. CASE Moves(p, "stored", "list") /\ UNCHANGED <<stores, mem, fetched, disturbed>>
    BY <1>0, <2>3, MovesOwn, RawElsewhere DEF stores
  <2> QED BY <1>2, <2>1, <2>2, <2>3 DEF ReadStored
<1>3. CASE ListPartitions(p) \/ ReadManifest(p) \/ ReadPayload(p)
  BY <1>3, ReadRaw
<1>4. CASE NeedTrades(p)
  BY <1>0, <1>4, MovesOwn, RawElsewhere DEF NeedTrades, stores
<1>5. CASE FetchTrades(p)
  <2>1. stage'[p] \in {"list", "write"} /\ outcome' = outcome
        /\ payloads' = payloads /\ manifest' = manifest
    BY <1>5, MovesOwn DEF FetchTrades, stores
  <2> QED BY <1>0, <2>1, RawElsewhere
<1>6. CASE FetchFails(p) \/ KillFootprint(p)
  BY <1>6, AnswerRaw DEF FetchFails, KillFootprint
<1>7. CASE WritePayload(p) \/ PublishPayload(p)
  BY <1>7, WriteRaw
<1>8. CASE Aggregate(p)
  <2>1. PICK have : have = aggregate_trades_to_footprint(mem[p].rows, ask[p])
    OBVIOUS
  <2>2. CASE Deliver(p, have)
    BY <2>2, DeliverRaw
  <2>3. CASE Moves(p, "partitions", "merge") /\ UNCHANGED <<stores, fetched, disturbed>>
    BY <1>0, <2>3, MovesOwn, RawElsewhere DEF stores
  <2> QED BY <1>8, <2>1, <2>2, <2>3 DEF Aggregate
<1>9. CASE MergeStored(p)
  BY <1>0, <1>9, MovesOwn, RawElsewhere DEF MergeStored, stores
<1>10. CASE ReplaceFootprint(p)
  BY <1>0, <1>10, MovesOwn, RawElsewhere DEF ReplaceFootprint
<1>11. CASE ReadBack(p)
  <2>1. PICK have : have = FootprintStore_read(ask[p])
    OBVIOUS
  <2> QED BY <1>11, <2>1, DeliverRaw DEF ReadBack
<1> QED BY <1>1, <1>2, <1>3, <1>4, <1>5, <1>6, <1>7, <1>8, <1>9, <1>10, <1>11
        DEF fetch_footprint

LEMMA RawNextInv == RawInv /\ [FootNext]_footvars => RawInv'
<1> SUFFICES ASSUME RawInv, [FootNext]_footvars PROVE RawInv' OBVIOUS
<1>1. FootTypeOK'
  BY FootStepType DEF RawInv
<1>2. CASE UNCHANGED footvars \/ Trade
  <2>1. UNCHANGED <<payloads, manifest, stage, mem, fetched, outcome>>
    BY <1>2 DEF footvars, Trade, stores
  <2>2. NamedFilesExist'
    BY <2>1 DEF NamedFilesExist, RawInv
  <2>3. \A p \in FootProc : Batch(p)' = Batch(p)
    BY <2>1 DEF Batch
  <2>4. \A p \in FootProc : RawProc(p)'
    BY <2>1, <2>3 DEF RawProc, RawInv
  <2> QED BY <1>1, <2>2, <2>4 DEF RawInv
<1>3. ASSUME NEW p \in FootProc, fetch_footprint(p) \/ KillFootprint(p) PROVE RawInv'
  <2>1. StoresGrow /\ NamedFilesExist' /\ RawProc(p)'
    BY <1>3, RawStep
  <2>2. ASSUME NEW q \in FootProc \ {p} PROVE RawProc(q)'
    <3>1. UNCHANGED <<stage[q], mem[q], fetched[q], outcome[q], ask[q]>>
      BY <1>3, OthersKeep DEF RawInv
    <3> QED BY <2>1, <3>1, RawStays DEF RawInv
  <2> QED BY <1>1, <2>1, <2>2 DEF RawInv
<1> QED BY <1>2, <1>3 DEF FootNext

LEMMA RawInitInv == FootInit => RawInv
<1> SUFFICES ASSUME FootInit PROVE RawInv OBVIOUS
<1>1. FootTypeOK
  BY NoBarsType, NothingType
     DEF FootInit, FootTypeOK, Mem, Stages, Statuses, NoTrades, NoReply, TradeSets
<1> QED BY <1>1 DEF FootInit, RawInv, NamedFilesExist, RawProc, NoReply

(* [Next] of the composed files is a step of the footprint part or leaves  *)
(* its variables alone.                                                    *)
LEMMA FootSteps == [Next]_allvars => [FootNext]_footvars
BY DEF Next, allvars, CsvStep, CacheStep, FootStep, ArchStep, OfflineStep

(* However processes that share a cache directory interleave, and wherever *)
(* one of them dies, RawStore.read_range never meets a payload that is     *)
(* missing or does not match its manifest.                                 *)
THEOREM RawReadsStayWhole == Spec => []RawReadsNeverFail
<1>1. Init => RawInv
  BY RawInitInv DEF Init
<1>2. RawInv /\ [Next]_allvars => RawInv'
  BY FootSteps, RawNextInv
<1>3. RawInv => RawReadsNeverFail
  BY DEF RawInv, RawProc, RawReadsNeverFail
<1> QED BY <1>1, <1>2, <1>3, PTL DEF Spec

----------------------------------------------------------------------------
(* Footprints of a call that went to the exchange *)

(* Another process either publishes, and q is disturbed, or leaves what q  *)
(* reads as it was.                                                        *)
NotSeen(q) ==
  \/ disturbed'[q]
  \/ manifest' = manifest /\ footprint' = footprint /\ disturbed'[q] = disturbed[q]

LEMMA OthersSee ==
  ASSUME FootTypeOK, NEW p \in FootProc, fetch_footprint(p) \/ KillFootprint(p),
         NEW q \in FootProc \ {p}
  PROVE  now' = now /\ NotSeen(q)
<1> USE DEF NotSeen
<1>1. ASSUME NEW status, NEW bars, Answer(p, status, bars) PROVE now' = now /\ NotSeen(q)
  BY <1>1 DEF Answer, stores
<1>2. ASSUME NEW bars, Deliver(p, bars) PROVE now' = now /\ NotSeen(q)
  BY <1>1, <1>2, DeliverAnswers
<1>3. ASSUME NEW x \in FootQueries, StartFetch(p, x) PROVE now' = now /\ NotSeen(q)
  BY <1>3 DEF StartFetch, stores, FootTypeOK
<1>4. CASE ReadStored(p)
  <2>1. PICK have : have = FootprintStore_read(ask[p])
    OBVIOUS
  <2>2. CASE Deliver(p, have)
    BY <1>2, <2>2
  <2>3. CASE Moves(p, "stored", "list") /\ UNCHANGED <<stores, mem, fetched, disturbed>>
    BY <2>3 DEF Moves, stores
  <2> QED BY <1>4, <2>1, <2>2, <2>3 DEF ReadStored
<1>5. CASE ListPartitions(p) \/ ReadManifest(p) \/ NeedTrades(p) \/ MergeStored(p)
  BY <1>5 DEF ListPartitions, ReadManifest, NeedTrades, MergeStored, Moves, stores
<1>6. CASE ReadPayload(p)
  <2>1. CASE Matching(p) = {}
    BY <1>1, <1>6, <2>1 DEF ReadPayload
  <2>2. CASE Matching(p) # {}
    BY <1>6, <2>2 DEF ReadPayload, Moves, stores
  <2> QED BY <2>1, <2>2
<1>7. CASE FetchTrades(p)
  BY <1>7 DEF FetchTrades, Moves, stores, FootTypeOK
<1>8. CASE FetchFails(p) \/ KillFootprint(p)
  BY <1>1, <1>8 DEF FetchFails, KillFootprint
<1>9. CASE WritePayload(p)
  BY <1>9 DEF WritePayload, Moves
<1>10. CASE PublishPayload(p) \/ ReplaceFootprint(p)
  BY <1>10 DEF PublishPayload, ReplaceFootprint, Moves, Disturb
<1>11. CASE Aggregate(p)
  <2>1. PICK have : have = aggregate_trades_to_footprint(mem[p].rows, ask[p])
    OBVIOUS
  <2>2. CASE Deliver(p, have)
    BY <1>2, <2>2
  <2>3. CASE Moves(p, "partitions", "merge") /\ UNCHANGED <<stores, fetched, disturbed>>
    BY <2>3 DEF Moves, stores
  <2> QED BY <1>11, <2>1, <2>2, <2>3 DEF Aggregate
<1>12. CASE ReadBack(p)
  <2>1. PICK have : have = FootprintStore_read(ask[p])
    OBVIOUS
  <2> QED BY <1>2, <1>12, <2>1 DEF ReadBack
<1> QED BY <1>3, <1>4, <1>5, <1>6, <1>7, <1>8, <1>9, <1>10, <1>11, <1>12
        DEF fetch_footprint

LEMMA WholeStays ==
  ASSUME FootTypeOK, NEW q \in FootProc, WholeProc(q), NotSeen(q),
         Happened \subseteq Happened',
         UNCHANGED <<stage[q], mem[q], fetched[q], outcome[q], ask[q]>>
  PROVE  WholeProc(q)'
<1>1. /\ (stage[q] = "stored" => ~fetched[q].asked)'
      /\ (stage[q] # "idle" => outcome[q].status = "none")'
      /\ (\A i \in fetched[q].trades : i \in Happened /\ Within(TradeTime[i], ask[q]))'
  BY DEF WholeProc
<1>2. CASE disturbed'[q]
  BY <1>1, <1>2 DEF WholeProc
<1>3. CASE manifest' = manifest /\ footprint' = footprint /\ disturbed'[q] = disturbed[q]
  <2>1. PartitionsAgree(q) => PartitionsAgree(q)'
    BY <1>3 DEF PartitionsAgree, Unpublished
  <2>2. RowsAgree(q) => RowsAgree(q)'
    BY DEF RowsAgree
  <2>3. /\ Agrees(q, mem[q].made) => Agrees(q, mem[q].made)'
        /\ Agrees(q, footprint) => Agrees(q, footprint)'
        /\ Agrees(q, outcome[q].bars) => Agrees(q, outcome[q].bars)'
    BY <1>3 DEF Agrees
  <2>4. Min(mem[q].todo)' = Min(mem[q].todo)
    OBVIOUS
  <2> QED BY <1>1, <1>3, <2>1, <2>2, <2>3, <2>4 DEF WholeProc
<1> QED BY <1>2, <1>3 DEF NotSeen

(* The end of a call. *)
LEMMA AnswerWhole ==
  ASSUME FootTypeOK, PublishedHappened, NEW p \in FootProc, WholeProc(p), NEW status, NEW bars,
         Answer(p, status, bars),
         (status = "ok" /\ fetched[p].asked /\ ~disturbed[p]) => Agrees(p, bars)
  PROVE  PublishedHappened' /\ WholeProc(p)'
<1>1. /\ stage'[p] = "idle" /\ outcome'[p].status = status /\ outcome'[p].bars = bars
      /\ UNCHANGED <<now, manifest, ask, fetched, disturbed>>
  BY DEF Answer, FootTypeOK, stores
<1>2. Happened' = Happened
  BY <1>1 DEF Happened
<1>3. Agrees(p, bars) => Agrees(p, outcome[p].bars)'
  BY <1>1 DEF Agrees
<1>4. PublishedHappened'
  BY <1>1, <1>2 DEF PublishedHappened
<1> QED BY <1>1, <1>2, <1>3, <1>4 DEF WholeProc

LEMMA DeliverWhole ==
  ASSUME FootTypeOK, PublishedHappened, NEW p \in FootProc, WholeProc(p), NEW bars,
         Deliver(p, bars), (fetched[p].asked /\ ~disturbed[p]) => Agrees(p, bars)
  PROVE  PublishedHappened' /\ WholeProc(p)'
<1>1. CASE Answer(p, "incomplete", NoBars)
  BY <1>1, AnswerWhole
<1>2. CASE Answer(p, "ok", bars)
  BY <1>2, AnswerWhole
<1> QED BY <1>1, <1>2, DeliverAnswers

(* A partition that names fetched trades is published. *)
LEMMA ManifestIsSome ==
  ASSUME NEW s \in TradeSets PROVE ManifestOf(s) # NoManifest
BY NoManifestAssumption DEF ManifestOf, TradeSets

LEMMA ListWhole ==
  ASSUME FootTypeOK, PublishedHappened, NEW p \in FootProc, WholeProc(p), ListPartitions(p)
  PROVE  PublishedHappened' /\ WholeProc(p)'
<1>0. mem \in [FootProc -> Mem] /\ mem[p] \in Mem
  BY DEF FootTypeOK, Mem
<1>1. /\ stage[p] = "list" /\ stage'[p] = "partitions"
      /\ UNCHANGED <<now, outcome, manifest, ask, fetched, disturbed>>
      /\ mem'[p].todo = {d \in Days : manifest[d] # NoManifest} /\ mem'[p].rows = {}
  BY <1>0, MovesOwn DEF ListPartitions, Mem, stores
<1>2. Happened' = Happened
  BY <1>1 DEF Happened
<1>3. PublishedHappened'
  BY <1>1, <1>2 DEF PublishedHappened
<1>4. ASSUME fetched[p].asked, ~disturbed[p] PROVE PartitionsAgree(p)' /\ RowsAgree(p)'
  <2>1. PartitionsAgree(p)
    BY <1>1, <1>4 DEF WholeProc
  <2>2. Unpublished(p) = {} /\ Unpublished(p)' = {}
    BY <1>1 DEF Unpublished
  <2>3. PartitionsAgree(p)'
    BY <1>1, <2>1, <2>2 DEF PartitionsAgree
  <2>4. ASSUME NEW i \in fetched[p].trades PROVE TradeDay(i) \in mem'[p].todo
    <3>1. i \in Trades /\ TradeDay(i) \in Days /\ TradeDay(i) \in DaysOf(fetched[p].trades)
      BY DaysAreNaturals DEF FootTypeOK, TradeSets, DaysOf
    <3>2. manifest[TradeDay(i)] = ManifestOf(OfDay(fetched[p].trades, TradeDay(i)))
      BY <2>1, <2>2, <3>1 DEF PartitionsAgree
    <3>3. OfDay(fetched[p].trades, TradeDay(i)) \in TradeSets
      BY DEF OfDay, FootTypeOK, TradeSets
    <3> QED BY <1>1, <3>1, <3>2, <3>3, ManifestIsSome
  <2>5. Of(mem'[p].rows, ask'[p]) = {}
    BY <1>1 DEF Of
  <2>6. RowsAgree(p)'
    BY <1>1, <2>4, <2>5 DEF RowsAgree
  <2> QED BY <2>3, <2>6
<1> QED BY <1>1, <1>2, <1>3, <1>4 DEF WholeProc

LEMMA ManifestWhole ==
  ASSUME FootTypeOK, PublishedHappened, NEW p \in FootProc, WholeProc(p), ReadManifest(p)
  PROVE  PublishedHappened' /\ WholeProc(p)'
<1>0. mem \in [FootProc -> Mem] /\ mem[p] \in Mem
  BY DEF FootTypeOK, Mem
<1>1. /\ stage[p] = "partitions" /\ stage'[p] = "payload"
      /\ UNCHANGED <<now, outcome, manifest, ask, fetched, disturbed>>
      /\ mem'[p].todo = mem[p].todo /\ mem'[p].rows = mem[p].rows
      /\ mem'[p].opened = manifest[Min(mem[p].todo)]
  BY <1>0, MovesOwn DEF ReadManifest, Mem, stores
<1>2. Happened' = Happened
  BY <1>1 DEF Happened
<1>3. PublishedHappened'
  BY <1>1, <1>2 DEF PublishedHappened
<1>4. ASSUME fetched[p].asked, ~disturbed[p] PROVE PartitionsAgree(p)' /\ RowsAgree(p)'
  <2>1. PartitionsAgree(p) /\ RowsAgree(p)
    BY <1>1, <1>4 DEF WholeProc
  <2>2. Unpublished(p) = {} /\ Unpublished(p)' = {}
    BY <1>1 DEF Unpublished
  <2>3. PartitionsAgree(p)'
    BY <1>1, <2>1, <2>2 DEF PartitionsAgree
  <2>4. RowsAgree(p)'
    BY <1>1, <2>1 DEF RowsAgree
  <2> QED BY <2>3, <2>4
<1>5. (mem[p].opened = manifest[Min(mem[p].todo)])'
  BY <1>1
<1> QED BY <1>1, <1>2, <1>3, <1>4, <1>5 DEF WholeProc

LEMMA PayloadWhole ==
  ASSUME FootTypeOK, PublishedHappened, NEW p \in FootProc, RawProc(p), WholeProc(p),
         ReadPayload(p)
  PROVE  PublishedHappened' /\ WholeProc(p)'
<1> DEFINE d == Min(mem[p].todo)
<1>0. mem \in [FootProc -> Mem] /\ mem[p] \in Mem /\ stage[p] = "payload"
  BY DEF FootTypeOK, Mem, ReadPayload
<1>1. d \in mem[p].todo /\ d \in Days
  BY <1>0, FirstDay DEF RawProc
<1>2. PICK s \in TradeSets : mem[p].opened = ManifestOf(s) /\ PayloadOf(s) \in payloads[d]
  BY <1>0 DEF RawProc
<1>3. Matching(p) = {PayloadOf(s)}
  <2>1. payloads[d] \subseteq {PayloadOf(x) : x \in TradeSets}
    BY <1>1 DEF FootTypeOK
  <2>2. PayloadOf(s) \in Matching(p)
    BY <1>2 DEF Matching, ManifestOf, PayloadOf
  <2>3. \A f \in Matching(p) : f = PayloadOf(s)
    BY <1>2, <2>1 DEF Matching, ManifestOf, PayloadOf
  <2> QED BY <2>2, <2>3
<1>4. UNION {f.body : f \in Matching(p)} = s
  BY <1>3 DEF PayloadOf
<1>5. /\ Moves(p, "payload", "partitions") /\ UNCHANGED <<stores, fetched, disturbed>>
      /\ mem' = [mem EXCEPT ![p].rows = @ \cup s,
                            ![p].todo = @ \ {Min(@)}, ![p].opened = NoManifest]
  BY <1>3, <1>4 DEF ReadPayload
<1>6. /\ stage'[p] = "partitions"
      /\ UNCHANGED <<now, outcome, manifest, ask, fetched, disturbed>>
      /\ mem'[p].todo = mem[p].todo \ {d} /\ mem'[p].rows = mem[p].rows \cup s
  BY <1>0, <1>5, MovesOwn DEF Mem, stores
<1> HIDE DEF d
<1>7. Happened' = Happened
  BY <1>6 DEF Happened
<1>8. PublishedHappened'
  BY <1>6, <1>7 DEF PublishedHappened
<1>9. ASSUME fetched[p].asked, ~disturbed[p] PROVE PartitionsAgree(p)' /\ RowsAgree(p)'
  <2>1. PartitionsAgree(p) /\ RowsAgree(p) /\ manifest[d] = ManifestOf(s)
    BY <1>0, <1>2, <1>9 DEF WholeProc, d
  <2>2. Unpublished(p) = {} /\ Unpublished(p)' = {}
    BY <1>0, <1>6 DEF Unpublished
  <2>3. PartitionsAgree(p)'
    BY <1>6, <2>1, <2>2 DEF PartitionsAgree
  <2>4. Of(s, ask[p]) \subseteq fetched[p].trades
    BY <1>1, <2>1, ManifestIsSome DEF PartitionsAgree, ManifestOf
  <2>5. Of(mem[p].rows \cup s, ask[p]) \subseteq fetched[p].trades
    BY <2>1, <2>4 DEF RowsAgree, Of
  <2>6. ASSUME NEW i \in fetched[p].trades, TradeDay(i) = d PROVE i \in s
    <3>1. manifest[d] = ManifestOf(OfDay(fetched[p].trades, d))
      BY <2>1, <2>2, <2>6 DEF PartitionsAgree, DaysOf
    <3>2. s = OfDay(fetched[p].trades, d)
      BY <2>1, <3>1 DEF ManifestOf
    <3> QED BY <2>6, <3>2 DEF OfDay
  <2>7. RowsAgree(p)'
    BY <1>6, <2>1, <2>5, <2>6 DEF RowsAgree
  <2> QED BY <2>3, <2>7
<1> QED BY <1>0, <1>6, <1>7, <1>8, <1>9 DEF WholeProc

LEMMA FetchWhole ==
  ASSUME FootTypeOK, PublishedHappened, NEW p \in FootProc, WholeProc(p), FetchTrades(p)
  PROVE  PublishedHappened' /\ WholeProc(p)'
<1> DEFINE trades == Of(Happened, ask[p])
<1>0. mem \in [FootProc -> Mem] /\ mem[p] \in Mem
  BY DEF FootTypeOK, Mem
<1>1. /\ stage[p] = "fetch" /\ stage'[p] = IF trades = {} THEN "list" ELSE "write"
      /\ UNCHANGED <<now, outcome, ask, manifest>>
      /\ fetched'[p].trades = trades
  BY MovesOwn DEF FetchTrades, stores, FootTypeOK
<1>2. mem'[p].todo = DaysOf(trades)
  BY <1>0 DEF FetchTrades, DaysOf, TradeDay, Mem
<1>3. Happened' = Happened
  BY <1>1 DEF Happened
<1>4. PublishedHappened'
  BY <1>1, <1>3 DEF PublishedHappened
<1>5. \A i \in trades : i \in Happened /\ Within(TradeTime[i], ask[p])
  BY DEF Of
<1>6. \A d \in Days : manifest[d] # NoManifest =>
        Of(manifest[d].checksum, ask[p]) \subseteq trades
  BY DEF PublishedHappened, Of
<1> HIDE DEF trades
<1>7. DaysOf(trades) \ Unpublished(p)' = {}
  BY <1>1, <1>2 DEF Unpublished, DaysOf
<1>8. PartitionsAgree(p)'
  BY <1>1, <1>6, <1>7 DEF PartitionsAgree
<1> QED BY <1>1, <1>3, <1>4, <1>5, <1>8 DEF WholeProc

LEMMA WriteWhole ==
  ASSUME FootTypeOK, PublishedHappened, NEW p \in FootProc, WholeProc(p), WritePayload(p)
  PROVE  PublishedHappened' /\ WholeProc(p)'
<1>1. /\ stage[p] = "write" /\ stage'[p] = "publish"
      /\ UNCHANGED <<now, outcome, ask, manifest, mem, fetched, disturbed>>
  BY MovesOwn DEF WritePayload
<1>2. Happened' = Happened
  BY <1>1 DEF Happened
<1>3. PublishedHappened'
  BY <1>1, <1>2 DEF PublishedHappened
<1>4. Unpublished(p)' = Unpublished(p)
  BY <1>1 DEF Unpublished
<1>5. PartitionsAgree(p) => PartitionsAgree(p)'
  BY <1>1, <1>4 DEF PartitionsAgree
<1> QED BY <1>1, <1>2, <1>3, <1>5 DEF WholeProc

LEMMA PublishWhole ==
  ASSUME FootTypeOK, PublishedHappened, NEW p \in FootProc, RawProc(p), WholeProc(p),
         PublishPayload(p)
  PROVE  PublishedHappened' /\ WholeProc(p)'
<1> DEFINE d == Min(mem[p].todo)
           batch == OfDay(fetched[p].trades, d)
<1>0. mem \in [FootProc -> Mem] /\ mem[p] \in Mem
  BY DEF FootTypeOK, Mem
<1>1. /\ stage[p] = "publish"
      /\ stage'[p] = IF mem[p].todo = {d} THEN "list" ELSE "write"
      /\ UNCHANGED <<now, outcome, ask, fetched>>
      /\ mem'[p].todo = mem[p].todo \ {d}
      /\ disturbed'[p] = disturbed[p]
  BY <1>0, MovesOwn DEF PublishPayload, Mem, Disturb, FootTypeOK
<1>2. d \in mem[p].todo /\ d \in Days
  BY <1>1, FirstDay DEF RawProc
<1>3. manifest' = [manifest EXCEPT ![d] = ManifestOf(batch)]
  BY BatchIsOfDay DEF PublishPayload, ManifestOf, file_name
<1>4. batch \subseteq fetched[p].trades
  BY DEF OfDay
<1>5. ManifestOf(batch).checksum = batch
  BY DEF ManifestOf
<1>6. /\ manifest'[d] = ManifestOf(batch)
      /\ \A x \in Days \ {d} : manifest'[x] = manifest[x]
  BY <1>2, <1>3 DEF FootTypeOK
<1>7. Happened' = Happened
  BY <1>1 DEF Happened
<1>8. \A i \in fetched[p].trades : i \in Happened /\ Within(TradeTime[i], ask[p])
  BY DEF WholeProc
<1>9. DaysOf(fetched[p].trades) \subseteq Days
  BY DaysAreNaturals DEF DaysOf, FootTypeOK, TradeSets
<1> HIDE DEF d
<1>10. PublishedHappened'
  <2>1. ASSUME NEW x \in Days, manifest'[x] # NoManifest
        PROVE  manifest'[x].checksum \subseteq Happened'
    BY <1>4, <1>5, <1>6, <1>7, <1>8, <2>1 DEF PublishedHappened
  <2> QED BY <2>1 DEF PublishedHappened
<1>11. Unpublished(p) = mem[p].todo /\ Unpublished(p)' = mem[p].todo \ {d}
  BY <1>1 DEF Unpublished
<1>12. ASSUME PartitionsAgree(p) PROVE PartitionsAgree(p)'
  <2>1. ASSUME NEW x \in Days, manifest'[x] # NoManifest
        PROVE  Of(manifest'[x].checksum, ask[p]) \subseteq fetched[p].trades
    <3>1. CASE x = d
      BY <1>4, <1>5, <1>6, <3>1 DEF Of
    <3>2. CASE x # d
      BY <1>6, <1>12, <2>1, <3>2 DEF PartitionsAgree
    <3> QED BY <3>1, <3>2
  <2>2. ASSUME NEW x \in DaysOf(fetched[p].trades) \ (mem[p].todo \ {d})
        PROVE  manifest'[x] = ManifestOf(OfDay(fetched[p].trades, x))
    <3>1. CASE x = d
      BY <1>6, <3>1
    <3>2. CASE x # d
      BY <1>6, <1>9, <1>11, <1>12, <2>2, <3>2 DEF PartitionsAgree
    <3> QED BY <3>1, <3>2
  <2> QED BY <1>1, <1>11, <2>1, <2>2 DEF PartitionsAgree
<1> QED BY <1>1, <1>7, <1>8, <1>10, <1>12 DEF WholeProc

(* Once every partition is read, the trades of the query are the fetched. *)
LEMMA RowsAreFetched ==
  ASSUME FootTypeOK, NEW p \in FootProc, WholeProc(p), RowsAgree(p), mem[p].todo = {}
  PROVE  aggregate_trades_to_footprint(mem[p].rows, ask[p])
           = aggregate_trades_to_footprint(fetched[p].trades, ask[p])
<1>1. \A i \in fetched[p].trades : i \in mem[p].rows /\ Within(TradeTime[i], ask[p])
  BY DEF WholeProc, RowsAgree
<1>2. Of(mem[p].rows, ask[p]) = Of(fetched[p].trades, ask[p])
  BY <1>1 DEF RowsAgree, Of
<1> QED BY <1>2 DEF aggregate_trades_to_footprint

LEMMA AggregateWhole ==
  ASSUME FootTypeOK, PublishedHappened, NEW p \in FootProc, WholeProc(p), Aggregate(p)
  PROVE  PublishedHappened' /\ WholeProc(p)'
<1>0. mem \in [FootProc -> Mem] /\ mem[p] \in Mem
  BY DEF FootTypeOK, Mem
<1>1. PICK bars : bars = aggregate_trades_to_footprint(mem[p].rows, ask[p])
  OBVIOUS
<1>2. (fetched[p].asked /\ ~disturbed[p]) =>
        bars = aggregate_trades_to_footprint(fetched[p].trades, ask[p])
  BY <1>1, RowsAreFetched DEF Aggregate, WholeProc
<1>3. (fetched[p].asked /\ ~disturbed[p]) => Agrees(p, bars)
  BY <1>2 DEF Agrees
<1>4. CASE Deliver(p, bars)
  BY <1>3, <1>4, DeliverWhole
<1>5. CASE /\ Moves(p, "partitions", "merge") /\ UNCHANGED <<stores, fetched, disturbed>>
           /\ mem' = [mem EXCEPT ![p] = [Nothing EXCEPT !.made = bars]]
  <2>1. /\ stage[p] = "partitions" /\ stage'[p] = "merge"
        /\ UNCHANGED <<now, outcome, ask, manifest, fetched, disturbed>>
    BY <1>5, MovesOwn DEF stores
  <2>2. mem'[p].made = bars
    BY <1>0, <1>5, NothingType DEF Mem
  <2>3. Happened' = Happened
    BY <2>1 DEF Happened
  <2>4. PublishedHappened'
    BY <2>1, <2>3 DEF PublishedHappened
  <2>5. Agrees(p, bars) => Agrees(p, mem[p].made)'
    BY <2>1, <2>2 DEF Agrees
  <2> QED BY <1>3, <2>1, <2>3, <2>4, <2>5 DEF WholeProc
<1> QED BY <1>1, <1>4, <1>5 DEF Aggregate

LEMMA StoreWhole ==
  ASSUME FootTypeOK, PublishedHappened, NEW p \in FootProc, WholeProc(p),
         MergeStored(p) \/ ReplaceFootprint(p)
  PROVE  PublishedHappened' /\ WholeProc(p)'
<1>0. mem \in [FootProc -> Mem] /\ mem[p] \in Mem
  BY DEF FootTypeOK, Mem
<1>1. /\ stage[p] \in {"merge", "replace"}
      /\ UNCHANGED <<now, outcome, ask, manifest, fetched>> /\ disturbed'[p] = disturbed[p]
  BY MovesOwn DEF MergeStored, ReplaceFootprint, stores, Disturb, FootTypeOK
<1>2. Happened' = Happened
  BY <1>1 DEF Happened
<1>3. PublishedHappened'
  BY <1>1, <1>2 DEF PublishedHappened
<1>4. CASE MergeStored(p)
  <2>1. stage'[p] = "replace"
    BY <1>4, MovesOwn DEF MergeStored
  <2>2. mem'[p].made = Merge(FootprintStore_read(ask[p]), mem[p].made)
    BY <1>0, <1>4 DEF MergeStored, Mem
  <2>3. \A b \in BarTimes : mem[p].made[b] # {} => mem'[p].made[b] = mem[p].made[b]
    BY <2>2 DEF Merge
  <2>4. Agrees(p, mem[p].made) => Agrees(p, mem[p].made)'
    BY <1>1, <2>3 DEF Agrees
  <2> QED BY <1>1, <1>2, <1>3, <2>1, <2>4 DEF WholeProc
<1>5. CASE ReplaceFootprint(p)
  <2>1. stage'[p] = "readback" /\ footprint' = mem[p].made
    BY <1>5, MovesOwn DEF ReplaceFootprint
  <2>2. Agrees(p, mem[p].made) => Agrees(p, footprint)'
    BY <1>1, <2>1 DEF Agrees
  <2> QED BY <1>1, <1>2, <1>3, <2>1, <2>2 DEF WholeProc
<1> QED BY <1>4, <1>5

LEMMA ReadBackWhole ==
  ASSUME FootTypeOK, PublishedHappened, NEW p \in FootProc, WholeProc(p), ReadBack(p)
  PROVE  PublishedHappened' /\ WholeProc(p)'
<1>1. PICK bars : bars = FootprintStore_read(ask[p])
  OBVIOUS
<1>2. stage[p] = "readback" /\ Deliver(p, bars)
  BY <1>1 DEF ReadBack
<1>3. ASSUME fetched[p].asked, ~disturbed[p] PROVE Agrees(p, bars)
  <2>1. Agrees(p, footprint)
    BY <1>2, <1>3 DEF WholeProc
  <2>2. \A b \in BarTimes :
          aggregate_trades_to_footprint(fetched[p].trades, ask[p])[b] # {} => Within(b, ask[p])
    BY DEF aggregate_trades_to_footprint
  <2>3. \A b \in BarTimes : Within(b, ask[p]) => bars[b] = footprint[b]
    BY <1>1 DEF FootprintStore_read
  <2> QED BY <2>1, <2>2, <2>3 DEF Agrees
<1> QED BY <1>2, <1>3, DeliverWhole

LEMMA StartWhole ==
  ASSUME FootTypeOK, PublishedHappened, NEW p \in FootProc, WholeProc(p),
         (\E q \in FootQueries : StartFetch(p, q)) \/ ReadStored(p) \/ NeedTrades(p)
  PROVE  PublishedHappened' /\ WholeProc(p)'
<1>1. ASSUME NEW q \in FootQueries, StartFetch(p, q)
      PROVE  PublishedHappened' /\ WholeProc(p)'
  <2>1. /\ UNCHANGED <<now, manifest>> /\ fetched'[p] = NoTrades
        /\ outcome'[p] = NoReply
    BY <1>1 DEF StartFetch, FootTypeOK, stores
  <2>2. Happened' = Happened
    BY <2>1 DEF Happened
  <2>3. PublishedHappened'
    BY <2>1, <2>2 DEF PublishedHappened
  <2> QED BY <2>1, <2>3 DEF WholeProc, NoTrades, NoReply
<1>2. CASE ReadStored(p)
  <2>1. PICK have : have = FootprintStore_read(ask[p])
    OBVIOUS
  <2>2. stage[p] = "stored" /\ ~fetched[p].asked
    BY <1>2 DEF ReadStored, WholeProc
  <2>3. CASE Deliver(p, have)
    BY <2>2, <2>3, DeliverWhole
  <2>4. CASE Moves(p, "stored", "list") /\ UNCHANGED <<stores, mem, fetched, disturbed>>
    <3>1. stage'[p] = "list" /\ UNCHANGED <<now, outcome, ask, manifest, fetched>>
      BY <2>4, MovesOwn DEF stores
    <3>2. Happened' = Happened
      BY <3>1 DEF Happened
    <3>3. PublishedHappened'
      BY <3>1, <3>2 DEF PublishedHappened
    <3> QED BY <2>2, <3>1, <3>2, <3>3 DEF WholeProc
  <2> QED BY <1>2, <2>1, <2>3, <2>4 DEF ReadStored
<1>3. CASE NeedTrades(p)
  <2>1. /\ stage[p] = "partitions" /\ stage'[p] = "fetch" /\ ~fetched[p].asked
        /\ UNCHANGED <<now, outcome, ask, manifest, fetched>>
    BY <1>3, MovesOwn DEF NeedTrades, Enough, stores
  <2>2. Happened' = Happened
    BY <2>1 DEF Happened
  <2>3. PublishedHappened'
    BY <2>1, <2>2 DEF PublishedHappened
  <2> QED BY <2>1, <2>2, <2>3 DEF WholeProc
<1> QED BY <1>1, <1>2, <1>3

LEMMA WholeStep ==
  ASSUME RawInv, WholeInv, NEW p \in FootProc, fetch_footprint(p) \/ KillFootprint(p)
  PROVE  PublishedHappened' /\ WholeProc(p)'
<1>1. FootTypeOK /\ RawProc(p) /\ PublishedHappened /\ WholeProc(p)
  BY DEF RawInv, WholeInv
<1>2. CASE FetchFails(p) \/ KillFootprint(p)
  BY <1>1, <1>2, AnswerWhole DEF FetchFails, KillFootprint
<1> QED BY <1>1, <1>2, ListWhole, ManifestWhole, PayloadWhole, FetchWhole, WriteWhole,
           PublishWhole, AggregateWhole, StoreWhole, ReadBackWhole, StartWhole
        DEF fetch_footprint

LEMMA WholeNextInv == RawInv /\ WholeInv /\ [FootNext]_footvars => WholeInv'
<1> SUFFICES ASSUME RawInv, WholeInv, [FootNext]_footvars PROVE WholeInv' OBVIOUS
<1>1. ASSUME UNCHANGED <<manifest, footprint, stage, ask, mem, fetched, outcome, disturbed>>,
             Happened \subseteq Happened'
      PROVE  WholeInv'
  <2>1. PublishedHappened'
    BY <1>1 DEF WholeInv, PublishedHappened
  <2>2. ASSUME NEW q \in FootProc PROVE WholeProc(q)'
    <3>1. NotSeen(q) /\ WholeProc(q) /\ FootTypeOK
      BY <1>1 DEF NotSeen, WholeInv, RawInv
    <3> QED BY <1>1, <3>1, WholeStays
  <2> QED BY <2>1, <2>2 DEF WholeInv
<1>2. CASE UNCHANGED footvars
  BY <1>1, <1>2 DEF footvars, Happened
<1>3. CASE Trade
  <2>1. Happened \subseteq Happened'
    <3>1. now' = now + 1 /\ now \in Nat
      BY <1>3 DEF Trade, RawInv, FootTypeOK
    <3>2. \A i \in Trades : TradeTime[i] \in Nat
      BY TradesAssumption
    <3> QED BY <3>1, <3>2 DEF Happened
  <2> QED BY <1>1, <1>3, <2>1 DEF Trade, stores
<1>4. ASSUME NEW p \in FootProc, fetch_footprint(p) \/ KillFootprint(p) PROVE WholeInv'
  <2>1. PublishedHappened' /\ WholeProc(p)'
    BY <1>4, WholeStep
  <2>2. ASSUME NEW q \in FootProc \ {p} PROVE WholeProc(q)'
    <3>1. now' = now /\ NotSeen(q)
      BY <1>4, OthersSee DEF RawInv
    <3>2. UNCHANGED <<stage[q], mem[q], fetched[q], outcome[q], ask[q]>>
      BY <1>4, OthersKeep DEF RawInv
    <3>3. Happened' = Happened
      BY <3>1 DEF Happened
    <3> QED BY <3>1, <3>2, <3>3, WholeStays DEF RawInv, WholeInv
  <2> QED BY <2>1, <2>2 DEF WholeInv
<1> QED BY <1>2, <1>3, <1>4 DEF FootNext

LEMMA WholeInitInv == FootInit => WholeInv
BY DEF FootInit, WholeInv, PublishedHappened, WholeProc, NoTrades, NoReply

(* A call of fetch_footprint that went to the exchange answers with every  *)
(* trade the fetch returned for each bar, for every number of processes,   *)
(* trades and queries, unless another process published meanwhile.         *)
THEOREM FetchedFootprintsStayWhole == Spec => []FetchedFootprintsAreWhole
<1>1. Init => RawInv /\ WholeInv
  BY RawInitInv, WholeInitInv DEF Init
<1>2. RawInv /\ WholeInv /\ [Next]_allvars => RawInv' /\ WholeInv'
  BY FootSteps, RawNextInv, WholeNextInv
<1>3. WholeInv => FetchedFootprintsAreWhole
  BY DEF WholeInv, WholeProc, FetchedFootprintsAreWhole, Agrees
<1> QED BY <1>1, <1>2, <1>3, PTL DEF Spec

----------------------------------------------------------------------------
(* Archive files.  While a call runs, each file of its period is still to  *)
(* be loaded, has failed, or has its bars among the loaded ones (Covered): *)
(* when none is left, a candle that is not there is in no file that could  *)
(* be read.  That each candle has a file at all is arithmetic on days and  *)
(* months and, for a fill, on the gaps between the REST candles.           *)

(* Whole multiples, and that division is monotone. *)
LEMMA Division ==
  ASSUME NEW a \in Nat, NEW d \in Nat \ {0}
  PROVE  /\ a \div d \in Nat /\ a % d \in Nat /\ a % d < d
         /\ a = ((a \div d) * d) + (a % d)
         /\ \A b \in Nat : a <= b => a \div d <= b \div d
<1>1. \A c \in Nat : c \div d \in Nat /\ (c \div d) * d <= c /\ c < ((c \div d) * d) + d
  OBVIOUS
<1>2. a % d \in Nat /\ a % d < d /\ a = ((a \div d) * d) + (a % d)
  OBVIOUS
<1>3. ASSUME NEW b \in Nat, a <= b PROVE a \div d <= b \div d
  <2>1. PICK x \in Nat, y \in Nat : x = a \div d /\ y = b \div d
    BY <1>1
  <2>2. x * d <= a /\ b < (y * d) + d
    BY <1>1, <2>1
  <2>3. x * d < (y + 1) * d
    BY <1>3, <2>2
  <2>4. x < y + 1
    BY <2>3
  <2> QED BY <2>1, <2>4
<1> QED BY <1>1, <1>2, <1>3

(* Days and months follow each other. *)
LEMMA Calendar ==
  ASSUME NEW s \in Nat, NEW t \in Nat, s <= t
  PROVE  /\ DayOf(s) \in Nat /\ DayOf(t) \in Nat /\ DayOf(s) <= DayOf(t)
         /\ MonthOf(s) \in Nat /\ MonthOf(t) \in Nat /\ MonthOf(s) <= MonthOf(t)
         /\ TimeOfDay(s) \in Nat
<1>1. DayOf(s) \in Nat /\ DayOf(t) \in Nat /\ DayOf(s) <= DayOf(t) /\ TimeOfDay(s) \in Nat
  BY Division, ArchiveAssumption DEF DayOf, TimeOfDay
<1>2. PICK x \in Nat, y \in Nat : x = DayOf(s) /\ y = DayOf(t) /\ x <= y
  BY <1>1
<1>3. x \div DaysPerMonth \in Nat /\ y \div DaysPerMonth \in Nat
      /\ x \div DaysPerMonth <= y \div DaysPerMonth
  BY <1>2, Division, ArchiveAssumption
<1> QED BY <1>1, <1>2, <1>3 DEF MonthOf

(* Candles of a range lie BarLength apart. *)
LEMMA Grid ==
  ASSUME NEW s \in Nat, NEW e \in Nat, NEW v \in Expected(s, e), NEW t \in Expected(s, e),
         v < t
  PROVE  v + BarLength <= t
<1>1. v \in Nat /\ t \in Nat /\ s <= v /\ (v - s) % BarLength = 0 /\ (t - s) % BarLength = 0
  BY DEF Expected
<1>2. PICK x \in Nat, y \in Nat : x * BarLength = v - s /\ y * BarLength = t - s
  <2>1. v - s \in Nat /\ t - s \in Nat
    BY <1>1
  <2>2. PICK a \in Nat, b \in Nat : a = v - s /\ b = t - s
    BY <2>1
  <2>3. a % BarLength = 0 /\ b % BarLength = 0
    BY <1>1, <2>2
  <2>4. /\ a \div BarLength \in Nat /\ a = ((a \div BarLength) * BarLength) + 0
        /\ b \div BarLength \in Nat /\ b = ((b \div BarLength) * BarLength) + 0
    BY <2>3, Division, ArchiveAssumption
  <2>5. PICK x \in Nat, y \in Nat : x = a \div BarLength /\ y = b \div BarLength
    BY <2>4
  <2>6. a = (x * BarLength) + 0 /\ b = (y * BarLength) + 0
    BY <2>4, <2>5
  <2>7. x * BarLength = a /\ y * BarLength = b
    BY <2>6, ArchiveAssumption
  <2> QED BY <2>2, <2>7
<1>3. BarLength \in Nat \ {0}
  BY ArchiveAssumption
<1>4. x * BarLength < y * BarLength
  BY <1>1, <1>2, <1>3
<1>5. x + 1 <= y
  BY <1>3, <1>4
<1>6. (x + 1) * BarLength <= y * BarLength
  BY <1>3, <1>5
<1>7. (x + 1) * BarLength = (x * BarLength) + BarLength
  BY <1>3
<1>8. PICK a \in Nat, b \in Nat : a = x * BarLength /\ b = y * BarLength
  BY <1>3
<1> QED BY <1>1, <1>2, <1>3, <1>6, <1>7, <1>8

(* Every missing candle lies in a gap. *)
LEMMA GapsCover ==
  ASSUME NEW s \in Nat, NEW e \in Nat, NEW missing \in SUBSET Expected(s, e),
         NEW t \in missing
  PROVE  \E i \in Coalesced(missing, e) :
           i[1] \in Nat /\ i[2] \in Nat /\ i[1] <= t /\ t < i[2]
<1> DEFINE First == {u \in missing : (u - BarLength) \notin missing}
           lasts(u) == {v \in missing : v >= u /\ (v + BarLength) \notin missing}
           last(u) == Min(lasts(u))
<1>0. BarLength \in Nat \ {0}
  BY ArchiveAssumption
<1>1. \A u \in missing : u \in Nat /\ u < e /\ u \in Expected(s, e)
  BY DEF Expected
<1>2. PICK m \in missing : \A u \in missing : m <= u
  BY <1>1, LeastNatural
<1>3. m \in {u \in First : u <= t}
  BY <1>0, <1>1, <1>2
<1>4. PICK a \in {u \in First : u <= t} : \A u \in {u \in First : u <= t} : u <= a
  <2>1. {u \in First : u <= t} \in SUBSET Nat
    BY <1>1
  <2> QED BY <1>1, <1>3, <2>1, GreatestNatural
<1>5. a \in First /\ a \in missing /\ a <= t
  BY <1>4
<1>6. \E z \in missing : \A u \in missing : u <= z
  <2>1. missing \in SUBSET Nat /\ missing # {} /\ \A u \in missing : u <= e
    BY <1>1
  <2> QED BY <2>1, GreatestNatural
<1>7. PICK z \in missing : \A u \in missing : u <= z
  BY <1>6
<1>8. lasts(a) # {} /\ lasts(a) \in SUBSET Nat
  BY <1>0, <1>1, <1>5, <1>7
<1>9. PICK l \in lasts(a) : \A v \in lasts(a) : l <= v
  BY <1>8, LeastNatural
<1>10. last(a) = l
  <2>1. PICK L : L = lasts(a)
    OBVIOUS
  <2>2. L \in SUBSET Nat /\ l \in L /\ \A v \in L : l <= v
    BY <1>8, <1>9, <2>1
  <2>3. Min(L) \in L /\ \A v \in L : Min(L) <= v
    BY <2>2, MinOfNaturals
  <2>4. PICK x \in Nat : x = Min(L) /\ x <= l /\ l <= x
    BY <2>2, <2>3
  <2> QED BY <1>8, <1>9, <2>1, <2>4
<1>11. t <= l
  <2>1. SUFFICES ASSUME l < t PROVE FALSE
    BY <1>1, <1>9
  <2> DEFINE After == {u \in missing : l < u}
  <2>2. PICK w \in After : \A u \in After : w <= u
    <3>1. t \in After /\ After \in SUBSET Nat
      BY <1>1, <2>1
    <3> QED BY <3>1, LeastNatural
  <2>3. w \in missing /\ l < w /\ w <= t /\ l \in missing /\ a <= l
    BY <1>9, <2>1, <2>2
  <2>4. l + BarLength <= w
    BY <1>1, <2>3, Grid
  <2>5. l + BarLength # w
    BY <1>9, <2>3
  <2>6. (w - BarLength) \notin missing
    BY <1>0, <1>1, <2>2, <2>3, <2>4, <2>5
  <2>7. w \in First /\ w <= a
    BY <1>4, <2>3, <2>6
  <2> QED BY <1>1, <1>5, <2>3, <2>7
<1>12. PICK g \in Nat : g = Min({e, l + BarLength}) /\ t < g
  <2>1. l \in Nat
    BY <1>1, <1>9
  <2>2. \E x \in {e, l + BarLength} : \A y \in {e, l + BarLength} : x <= y
    BY <1>0, <2>1, LeastNatural
  <2>3. Min({e, l + BarLength}) \in {e, l + BarLength}
    BY <2>2 DEF Min
  <2> QED BY <1>0, <1>1, <1>11, <2>1, <2>3
<1>13. <<a, g>> \in Coalesced(missing, e)
  BY <1>5, <1>10, <1>12 DEF Coalesced
<1> QED BY <1>1, <1>5, <1>12, <1>13

(* The files of a stretch hold every candle of it, months that are passed *)
(* over excepted.                                                          *)
LEMMA FilesOfStretch ==
  ASSUME NEW I, NEW i \in I, NEW t \in Nat, i[1] \in Nat, i[2] \in Nat,
         i[1] <= t, t < i[2]
  PROVE  /\ DayOf(t) \in FilesFor("daily", I)
         /\ MonthOf(t) \in FilesFor("monthly", I) \/ PassedOver(t, i[1], i[2])
<1>1. i[2] - 1 \in Nat /\ t <= i[2] - 1
  OBVIOUS
<1>2. PICK a \in Nat, e \in Nat : a = i[1] /\ e = i[2] - 1 /\ a <= t /\ t <= e
  BY <1>1
<1>3. /\ DayOf(a) \in Nat /\ DayOf(t) \in Nat /\ DayOf(a) <= DayOf(t)
      /\ MonthOf(a) \in Nat /\ MonthOf(t) \in Nat /\ MonthOf(a) <= MonthOf(t)
      /\ TimeOfDay(a) \in Nat
  BY <1>2, Calendar
<1>4. /\ DayOf(e) \in Nat /\ DayOf(t) <= DayOf(e)
      /\ MonthOf(e) \in Nat /\ MonthOf(t) <= MonthOf(e)
  BY <1>2, Calendar
<1>5. TimeOfDay(e) \in Nat
  BY <1>2, Division, ArchiveAssumption DEF TimeOfDay
<1>6. DayOf(t) \in DayOf(a)..DayOf(e) /\ MonthOf(t) \in MonthOf(a)..MonthOf(e)
  BY <1>3, <1>4
<1>7. DayOf(t) \in days_between(i[1], i[2])
  BY <1>2, <1>6 DEF days_between
<1>8. MonthOf(t) \in months_between(i[1], i[2])
      \/ (MonthOf(t) = MonthOf(e) /\ TimeOfDay(a) > TimeOfDay(e))
  <2>1. \/ MonthOf(t) < MonthOf(e) \/ TimeOfDay(a) <= TimeOfDay(e)
        \/ MonthOf(t) = MonthOf(e) /\ TimeOfDay(a) > TimeOfDay(e)
    BY <1>3, <1>4, <1>5
  <2> QED BY <1>2, <1>6, <2>1 DEF months_between
<1>9. DayOf(t) \in FilesFor("daily", I)
  BY <1>7 DEF FilesFor, days_for
<1>10. MonthOf(t) \in months_between(i[1], i[2]) => MonthOf(t) \in FilesFor("monthly", I)
  BY DEF FilesFor, months_for
<1> QED BY <1>2, <1>8, <1>9, <1>10 DEF PassedOver

Tasks == [op : {"none", "fetch", "fill"}, start : Nat, end : Nat, have : SUBSET Nat]

(* Every file but those of todo was loaded or is among the failed. *)
Covered(q, failed, bars, kind, todo) ==
  \A n \in FilesFor(kind, Stretches(q)) :
    \/ n \in todo \/ <<kind, n>> \in failed
    \/ BarsOf(<<kind, n>>, q.start, q.end) \subseteq bars

(* Every candle the archive is to fill lies in a stretch it is read for. *)
LEMMA MissingIsInStretch ==
  ASSUME NEW q \in Tasks, q.op \in {"fetch", "fill"}, NEW t \in Missing(q)
  PROVE  /\ t \in Nat /\ q.start <= t /\ t < q.end
         /\ \E i \in Stretches(q) : i[1] \in Nat /\ i[2] \in Nat /\ i[1] <= t /\ t < i[2]
<1>1. /\ q.start \in Nat /\ q.end \in Nat
      /\ t \in Expected(q.start, q.end) /\ Missing(q) \in SUBSET Expected(q.start, q.end)
  BY DEF Tasks, Missing, missing_starts
<1>2. t \in Nat /\ q.start <= t /\ t < q.end
  BY <1>1 DEF Expected
<1>3. CASE q.op = "fetch"
  <2>1. <<q.start, q.end>> \in Stretches(q)
    BY <1>3 DEF Stretches
  <2> QED BY <1>1, <1>2, <2>1
<1>4. CASE q.op = "fill"
  <2>1. Stretches(q) = Coalesced(Missing(q), q.end)
    BY <1>4 DEF Stretches, Gaps
  <2>2. PICK s \in Nat, e \in Nat, m \in SUBSET Nat :
          s = q.start /\ e = q.end /\ m = Missing(q) /\ m \in SUBSET Expected(s, e)
    BY <1>1 DEF Expected
  <2>3. \E i \in Coalesced(m, e) : i[1] \in Nat /\ i[2] \in Nat /\ i[1] <= t /\ t < i[2]
    BY <2>2, GapsCover
  <2> QED BY <1>2, <2>1, <2>2, <2>3
<1> QED BY <1>3, <1>4

(* A file that was loaded has no row for a candle that is not there. *)
LEMMA UnloadedIsLacking ==
  ASSUME NEW q \in Tasks, NEW failed, NEW bars, NEW kind, NEW n, NEW t \in Nat,
         q.start <= t, t < q.end, t \notin OpenTimesOf(bars),
         n \in FilesFor(kind, Stretches(q)), Covered(q, failed, bars, kind, {})
  PROVE  Lacks(failed, <<kind, n>>, t)
<1>1. PICK f : f = <<kind, n>>
  OBVIOUS
<1>2. f \in failed \/ BarsOf(f, q.start, q.end) \subseteq bars
  BY <1>1 DEF Covered
<1>3. ASSUME BarsOf(f, q.start, q.end) \subseteq bars, NEW raw \in published[f],
             normalize_open_time(raw) = t
      PROVE  FALSE
  <2>1. PICK s, e : s = q.start /\ e = q.end /\ s <= t /\ t < e
    OBVIOUS
  <2>2. [t |-> t, from |-> f[1],
         rows |-> {x \in published[f] : normalize_open_time(x) = t}] \in BarsOf(f, s, e)
    BY <1>3, <2>1 DEF BarsOf
  <2>3. \E b \in BarsOf(f, q.start, q.end) : b.t = t
    BY <2>1, <2>2
  <2> QED BY <1>3, <2>3 DEF OpenTimesOf
<1> QED BY <1>1, <1>2, <1>3 DEF Lacks

(* Once all days, or all months, of a call are dealt with: what is not     *)
(* there has a cause.                                                      *)
LEMMA UnloadedDay ==
  ASSUME NEW q \in Tasks, NEW failed, NEW bars, q.op \in {"fetch", "fill"},
         Covered(q, failed, bars, "daily", {}), ~(Missing(q) \subseteq OpenTimesOf(bars))
  PROVE  DaysAreShort(q, failed)
<1>1. PICK u \in Missing(q) : u \notin OpenTimesOf(bars)
  OBVIOUS
<1>2. /\ u \in Nat /\ q.start <= u /\ u < q.end
      /\ \E i \in Stretches(q) : i[1] \in Nat /\ i[2] \in Nat /\ i[1] <= u /\ u < i[2]
  BY MissingIsInStretch
<1>3. DayOf(u) \in FilesFor("daily", Stretches(q))
  BY <1>2, FilesOfStretch
<1>4. Lacks(failed, <<"daily", DayOf(u)>>, u)
  BY <1>1, <1>2, <1>3, UnloadedIsLacking
<1> QED BY <1>4 DEF DaysAreShort

LEMMA UnloadedMonth ==
  ASSUME NEW q \in Tasks, NEW failed, NEW bars, q.op \in {"fetch", "fill"},
         Covered(q, failed, bars, "monthly", {}),
         NEW t \in Missing(q), t \notin OpenTimesOf(bars)
  PROVE  MonthIsShort(q, failed, t)
<1>1. /\ t \in Nat /\ q.start <= t /\ t < q.end
      /\ \E i \in Stretches(q) : i[1] \in Nat /\ i[2] \in Nat /\ i[1] <= t /\ t < i[2]
  BY MissingIsInStretch
<1>2. PICK i \in Stretches(q) : i[1] \in Nat /\ i[2] \in Nat /\ i[1] <= t /\ t < i[2]
  BY <1>1
<1>3. MonthOf(t) \in FilesFor("monthly", Stretches(q)) \/ PassedOver(t, i[1], i[2])
  BY <1>1, <1>2, FilesOfStretch
<1>4. CASE MonthOf(t) \in FilesFor("monthly", Stretches(q))
  <2>1. Lacks(failed, <<"monthly", MonthOf(t)>>, t)
    BY <1>1, <1>4, UnloadedIsLacking
  <2> QED BY <2>1 DEF MonthIsShort
<1>5. CASE PassedOver(t, i[1], i[2])
  BY <1>2, <1>5 DEF MonthIsShort
<1> QED BY <1>3, <1>4, <1>5

(* An reply made of the REST candles and of the bars of one period. *)
LEMMA OneSource ==
  ASSUME NEW q \in Tasks, NEW failed, NEW kind \in Periods, NEW A,
         \A b \in A : b.from = kind, \A b \in A : b.t \notin q.have,
         (q.op = "fetch" \/ q.have # {}) =>
           \A t \in Missing(q) \ OpenTimesOf(A) :
             MonthIsShort(q, failed, t) /\ DaysAreShort(q, failed)
  PROVE  Justified(q, failed, RestOnly(q.have) \cup A)
<1> DEFINE bars == RestOnly(q.have) \cup A
           archived == {b \in bars : b.from # "rest"}
<1>1. \A b \in RestOnly(q.have) : b.from = "rest"
  BY DEF RestOnly
<1>2. archived \subseteq A
  BY <1>1
<1>3. {b.from : b \in archived} \subseteq {kind}
  BY <1>2
<1>4. Cardinality({b.from : b \in archived}) <= 1
  <2>1. PICK T : T = {b.from : b \in archived}
    OBVIOUS
  <2>2. T = {} \/ T = {kind}
    BY <1>3, <2>1
  <2>3. Cardinality({}) = 0 /\ Cardinality({kind}) = 1
    BY FS_EmptySet, FS_Singleton
  <2>4. Cardinality(T) = 0 \/ Cardinality(T) = 1
    BY <2>2, <2>3
  <2>5. Cardinality(T) <= 1
    BY <2>4
  <2> QED BY <2>1, <2>5
<1>5. \A t \in OpenTimesOf(A) : t \in OpenTimesOf(bars)
  BY DEF OpenTimesOf
<1>6. (q.op = "fetch" \/ q.have # {}) =>
        \A t \in Missing(q) \ OpenTimesOf(bars) :
          MonthIsShort(q, failed, t) /\ DaysAreShort(q, failed)
  BY <1>5
<1>7. RestOnly(q.have) \subseteq bars /\ \A b \in archived : b.t \notin q.have
  BY <1>2
<1> QED BY <1>4, <1>6, <1>7 DEF Justified

(* What a call relies on: where it is, its task, the files that failed,    *)
(* the bars and the period it is loading, the files it has to load and its *)
(* answer.                                                                *)
CallOK(where, q, failed, bars, kind, todo, reply) ==
  /\ q.op = "fetch" => q.have = {}
  /\ \A x \in Periods : \A b \in bars[x] : b.from = x
  /\ where # "idle" => q.op \in {"fetch", "fill"}
  /\ where # "idle" => Covered(q, failed, bars[kind], kind, todo)
  /\ where # "idle" /\ q.op = "fetch" /\ kind = "daily" =>
       Covered(q, failed, bars["monthly"], "monthly", {})
  /\ where # "idle" /\ q.op = "fill" /\ kind = "monthly" => DaysAreShort(q, failed)
  /\ where = "idle" /\ reply.ok => Justified(q, failed, reply.bars)

ArchCall(p) ==
  CallOK(place[p], task[p], unread[p], loaded[p], period[p], files[p], given[p])

ArchTypeOK ==
  /\ DOMAIN place = ArchProc /\ DOMAIN files = ArchProc /\ DOMAIN unread = ArchProc
  /\ DOMAIN given = ArchProc /\ DOMAIN loaded = ArchProc
  /\ \A p \in ArchProc : DOMAIN loaded[p] = Periods
  /\ period \in [ArchProc -> Periods]
  /\ task \in [ArchProc -> Tasks]

ArchInv == ArchTypeOK /\ \A p \in ArchProc : ArchCall(p)

(* The same with names for the values, which a step then replaces. *)
ArchCallNamed(p) ==
  \A where, q, failed, bars, kind, todo, reply :
    /\ where = place[p] /\ q = task[p] /\ failed = unread[p] /\ bars = loaded[p]
    /\ kind = period[p] /\ todo = files[p] /\ reply = given[p]
    => CallOK(where, q, failed, bars, kind, todo, reply)

CallsNamed == \A p : ArchCall(p) <=> ArchCallNamed(p)

LEMMA Named == CallsNamed
  BY DEF CallsNamed, ArchCall, ArchCallNamed

LEMMA NamedAfter == CallsNamed'
  BY Named, PTL

(* What is published is all of the state that CallOK looks at. *)
LEMMA PublishedStays ==
  ASSUME published' = published, NEW CONSTANT where, NEW CONSTANT q, NEW CONSTANT failed,
         NEW CONSTANT bars, NEW CONSTANT kind, NEW CONSTANT todo, NEW CONSTANT reply,
         CallOK(where, q, failed, bars, kind, todo, reply)
  PROVE  CallOK(where, q, failed, bars, kind, todo, reply)'
<1>1. \A f, s, e : BarsOf(f, s, e)' = BarsOf(f, s, e)
  BY DEF BarsOf
<1>2. \A f, t : Lacks(failed, f, t)' <=> Lacks(failed, f, t)
  BY DEF Lacks
<1>3. \A x, k, S : Covered(q, failed, x, k, S)' <=> Covered(q, failed, x, k, S)
  BY <1>1 DEF Covered
<1>4. DaysAreShort(q, failed)' <=> DaysAreShort(q, failed)
  BY <1>2 DEF DaysAreShort
<1>5. \A t : MonthIsShort(q, failed, t)' <=> MonthIsShort(q, failed, t)
  BY <1>2 DEF MonthIsShort
<1>6. \A x : Justified(q, failed, x)' <=> Justified(q, failed, x)
  BY <1>4, <1>5 DEF Justified
<1> QED BY <1>3, <1>4, <1>6 DEF CallOK

(* A step after which what a call relies on holds. *)
LEMMA CallAfter ==
  ASSUME NEW p, published' = published,
         CallOK(place'[p], task'[p], unread'[p], loaded'[p], period'[p], files'[p], given'[p])
  PROVE  ArchCall(p)'
<1>1. ASSUME NEW CONSTANT where, NEW CONSTANT q, NEW CONSTANT failed, NEW CONSTANT bars,
             NEW CONSTANT kind, NEW CONSTANT todo, NEW CONSTANT reply,
             where = place'[p], q = task'[p], failed = unread'[p], bars = loaded'[p],
             kind = period'[p], todo = files'[p], reply = given'[p]
      PROVE  CallOK(where, q, failed, bars, kind, todo, reply)'
  BY <1>1, PublishedStays
<1>2. ArchCallNamed(p)'
  BY <1>1 DEF ArchCallNamed
<1>3. ArchCall(p)' <=> ArchCallNamed(p)'
  BY NamedAfter DEF CallsNamed
<1> QED BY <1>2, <1>3

(* More failed files and more bars only help. *)
LEMMA CoveredGrows ==
  ASSUME NEW q, NEW failed, NEW bars, NEW kind, NEW todo, NEW failed2, NEW bars2,
         failed \subseteq failed2, bars \subseteq bars2,
         Covered(q, failed, bars, kind, todo)
  PROVE  Covered(q, failed2, bars2, kind, todo)
<1> SUFFICES ASSUME NEW n \in FilesFor(kind, Stretches(q))
             PROVE  \/ n \in todo \/ <<kind, n>> \in failed2
                    \/ BarsOf(<<kind, n>>, q.start, q.end) \subseteq bars2
  BY DEF Covered
<1>1. PICK B : B = BarsOf(<<kind, n>>, q.start, q.end)
  OBVIOUS
<1>2. n \in todo \/ <<kind, n>> \in failed \/ B \subseteq bars
  BY <1>1 DEF Covered
<1> QED BY <1>1, <1>2

LEMMA ShortStays ==
  ASSUME NEW q, NEW failed, NEW failed2, failed \subseteq failed2, DaysAreShort(q, failed)
  PROVE  DaysAreShort(q, failed2)
<1>1. \A f, t : Lacks(failed, f, t) => Lacks(failed2, f, t)
  BY DEF Lacks
<1> QED BY <1>1 DEF DaysAreShort

(* One file is dealt with: it gave its bars, or it failed. *)
LEMMA FileDone ==
  ASSUME NEW q, NEW failed, NEW bars, NEW kind \in Periods, NEW todo, NEW reply,
         NEW where, NEW n, where # "idle", DOMAIN bars = Periods,
         CallOK(where, q, failed, bars, kind, todo, reply)
  PROVE  /\ CallOK("next", q, failed \cup {<<kind, n>>}, bars, kind, todo \ {n}, reply)
         /\ CallOK("next", q, failed,
                   [bars EXCEPT ![kind] = @ \cup BarsOf(<<kind, n>>, q.start, q.end)],
                   kind, todo \ {n}, reply)
<1> DEFINE failed2 == failed \cup {<<kind, n>>}
           B == BarsOf(<<kind, n>>, q.start, q.end)
           bars2 == [bars EXCEPT ![kind] = @ \cup B]
<1>1. /\ q.op \in {"fetch", "fill"} /\ (q.op = "fetch" => q.have = {})
      /\ \A x \in Periods : \A b \in bars[x] : b.from = x
      /\ Covered(q, failed, bars[kind], kind, todo)
      /\ q.op = "fetch" /\ kind = "daily" => Covered(q, failed, bars["monthly"], "monthly", {})
      /\ q.op = "fill" /\ kind = "monthly" => DaysAreShort(q, failed)
  BY DEF CallOK
<1>2. Covered(q, failed2, bars[kind], kind, todo \ {n})
  BY <1>1 DEF Covered
<1>3. Covered(q, failed, bars[kind] \cup B, kind, todo \ {n})
  BY <1>1 DEF Covered
<1>4. \A b \in B : b.from = kind
  BY DEF BarsOf
<1> HIDE DEF B
<1>5. bars2[kind] = bars[kind] \cup B /\ \A x \in Periods : x # kind => bars2[x] = bars[x]
  OBVIOUS
<1>6. \A x \in Periods : \A b \in bars2[x] : b.from = x
  BY <1>1, <1>4, <1>5
<1>7. q.op = "fetch" /\ kind = "daily" => Covered(q, failed2, bars["monthly"], "monthly", {})
  BY <1>1, CoveredGrows
<1>8. q.op = "fill" /\ kind = "monthly" => DaysAreShort(q, failed2)
  BY <1>1, ShortStays
<1>9. kind = "daily" => bars2["monthly"] = bars["monthly"]
  BY <1>5 DEF Periods
<1>10. CallOK("next", q, failed2, bars, kind, todo \ {n}, reply)
  BY <1>1, <1>2, <1>7, <1>8 DEF CallOK
<1>11. CallOK("next", q, failed, bars2, kind, todo \ {n}, reply)
  <2> HIDE DEF bars2
  <2> QED BY <1>1, <1>3, <1>5, <1>6, <1>9 DEF CallOK
<1> QED BY <1>10, <1>11 DEF B

(* A call begins with every file of its period to be loaded. *)
LEMMA LoadBegins ==
  ASSUME NEW q, NEW failed, NEW bars, NEW kind, NEW reply, q.op \in {"fetch", "fill"},
         q.op = "fetch" => q.have = {}, \A x \in Periods : \A b \in bars[x] : b.from = x,
         q.op = "fetch" /\ kind = "daily" =>
           Covered(q, failed, bars["monthly"], "monthly", {}),
         q.op = "fill" /\ kind = "monthly" => DaysAreShort(q, failed)
  PROVE  CallOK("next", q, failed, bars, kind, FilesFor(kind, Stretches(q)), reply)
<1>1. Covered(q, failed, bars[kind], kind, FilesFor(kind, Stretches(q)))
  BY DEF Covered
<1> QED BY <1>1 DEF CallOK

LEMMA AnswerGiven ==
  ASSUME NEW q, NEW failed, NEW bars, NEW kind, NEW todo, NEW ans,
         q.op = "fetch" => q.have = {}, \A x \in Periods : \A b \in bars[x] : b.from = x,
         Justified(q, failed, ans)
  PROVE  CallOK("idle", q, failed, bars, kind, todo, [ok |-> TRUE, bars |-> ans])
  BY DEF CallOK

LEMMA NothingGiven ==
  ASSUME NEW q, NEW failed, NEW bars, NEW kind, NEW todo, NEW where, NEW reply,
         CallOK(where, q, failed, bars, kind, todo, reply)
  PROVE  CallOK("idle", q, failed, bars, kind, todo, NotGiven)
<1>1. NotGiven.ok = FALSE
  BY DEF NotGiven
<1> QED BY <1>1 DEF CallOK

(* The answers of fetch_binance_archive_bars. *)
LEMMA FetchJustified ==
  ASSUME NEW q \in Tasks, NEW failed, NEW bars, NEW kind \in Periods,
         q.op = "fetch", q.have = {}, \A b \in bars : b.from = kind,
         \A t \in Missing(q) \ OpenTimesOf(bars) :
           MonthIsShort(q, failed, t) /\ DaysAreShort(q, failed)
  PROVE  Justified(q, failed, bars)
<1>1. RestOnly(q.have) \cup bars = bars
  BY DEF RestOnly
<1>2. Justified(q, failed, RestOnly(q.have) \cup bars)
  BY OneSource
<1> QED BY <1>1, <1>2

(* The answers of fill_binance_archive_gaps. *)
LEMMA FillJustified ==
  ASSUME NEW q \in Tasks, NEW failed, NEW bars, NEW kind \in Periods,
         q.op = "fill", \A b \in bars : b.from = kind,
         q.have # {} => \A t \in Missing(q) \ OpenTimesOf(bars) :
           MonthIsShort(q, failed, t) /\ DaysAreShort(q, failed)
  PROVE  Justified(q, failed, Filled(q, bars))
<1> DEFINE A == {b \in bars : b.t \in Missing(q)}
<1>1. /\ \A b \in A : b.from = kind
      /\ \A b \in A : b.t \notin q.have
  BY DEF Missing, missing_starts
<1>2. \A t \in Missing(q) : t \in OpenTimesOf(bars) => t \in OpenTimesOf(A)
  BY DEF OpenTimesOf
<1>3. (q.op = "fetch" \/ q.have # {}) =>
        \A t \in Missing(q) \ OpenTimesOf(A) :
          MonthIsShort(q, failed, t) /\ DaysAreShort(q, failed)
  BY <1>2
<1> HIDE DEF A
<1>4. Justified(q, failed, RestOnly(q.have) \cup A)
  BY <1>1, <1>3, OneSource
<1> QED BY <1>4 DEF A, Filled

ArchAct(p) ==
  \/ \E r \in ArchiveRanges :
       \/ fetch_binance_archive_bars(p, r)
       \/ \E have \in RestBars :
            fill_binance_archive_gaps(p, r, have \cap Expected(r[1], r[2]))
  \/ load_archive_file(p) \/ FetchEnds(p) \/ FillEnds(p) \/ KillArchive(p)

(* A step of p leaves the calls of the others alone. *)
OwnCall(p) ==
  /\ published' = published
  /\ \A x \in ArchProc \ {p} :
       /\ place'[x] = place[x] /\ task'[x] = task[x] /\ unread'[x] = unread[x]
       /\ loaded'[x] = loaded[x] /\ period'[x] = period[x] /\ files'[x] = files[x]
       /\ given'[x] = given[x]

LEMMA GiveTypes ==
  ASSUME ArchTypeOK, NEW p \in ArchProc, NEW bars, Give(p, bars)
  PROVE  /\ DOMAIN place' = ArchProc /\ DOMAIN files' = ArchProc /\ DOMAIN given' = ArchProc
         /\ period' \in [ArchProc -> Periods]
         /\ \A x \in ArchProc \ {p} : place'[x] = place[x] /\ given'[x] = given[x]
         /\ period' = period /\ files' = files
         /\ place'[p] = "idle" /\ given'[p] = [ok |-> TRUE, bars |-> bars]
  BY DEF ArchTypeOK, Give, ArchTo

LEMMA LoadTypes ==
  ASSUME ArchTypeOK, NEW p \in ArchProc, NEW kind \in Periods, NEW I, Load(p, kind, I)
  PROVE  /\ DOMAIN place' = ArchProc /\ DOMAIN files' = ArchProc /\ DOMAIN given' = ArchProc
         /\ period' \in [ArchProc -> Periods] /\ given' = given
         /\ \A x \in ArchProc \ {p} : place'[x] = place[x] /\ files'[x] = files[x]
         /\ \A x \in ArchProc \ {p} : period'[x] = period[x]
         /\ place'[p] = "next" /\ period'[p] = kind /\ files'[p] = FilesFor(kind, I)
<1>1. period' = [period EXCEPT ![p] = kind]
  BY DEF Load
<1>2. period' \in [ArchProc -> Periods] /\ period'[p] = kind
  BY <1>1 DEF ArchTypeOK
<1>3. \A x \in ArchProc \ {p} : period'[x] = period[x]
  BY <1>1 DEF ArchTypeOK
<1> QED BY <1>2, <1>3 DEF ArchTypeOK, Load, ArchTo

(* How the steps that start a call or end a period go on. *)
GivesOrLoads(p) ==
  \/ \E bars : Give(p, bars)
  \/ \E kind \in Periods : \E I : Load(p, kind, I)

LEMMA GivesOrLoadsOwn ==
  ASSUME ArchTypeOK, NEW p \in ArchProc, GivesOrLoads(p)
  PROVE  /\ DOMAIN place' = ArchProc /\ DOMAIN files' = ArchProc /\ DOMAIN given' = ArchProc
         /\ period' \in [ArchProc -> Periods]
         /\ \A x \in ArchProc \ {p} :
              /\ place'[x] = place[x] /\ period'[x] = period[x] /\ files'[x] = files[x]
              /\ given'[x] = given[x]
<1>1. CASE \E bars : Give(p, bars)
  BY <1>1, GiveTypes
<1>2. CASE \E kind \in Periods : \E I : Load(p, kind, I)
  BY <1>2, LoadTypes
<1> QED BY <1>1, <1>2 DEF GivesOrLoads

TaskOf(op, r, have) == [op |-> op, start |-> r[1], end |-> r[2], have |-> have]

(* What the start of a call sets, and what it leaves alone. *)
LEMMA TaskStarts ==
  ASSUME ArchTypeOK, NEW p \in ArchProc, NEW r \in ArchiveRanges,
         NEW op \in {"fetch", "fill"}, NEW have \in SUBSET Nat, StartTask(p, r, op, have)
  PROVE  /\ published' = published
         /\ task'[p] = TaskOf(op, r, have)
         /\ task'[p] \in Tasks
         /\ loaded'[p] = NothingLoaded /\ unread'[p] = {}
<1>1. r[1] \in Nat /\ r[2] \in Nat
  BY ArchiveAssumption
<1>2. PICK q : q = TaskOf(op, r, have)
  OBVIOUS
<1>3. q \in Tasks
  BY <1>1, <1>2 DEF Tasks, TaskOf
<1>4. task' = [task EXCEPT ![p] = q]
  BY <1>2 DEF StartTask, TaskOf
<1>5. task'[p] = q
  BY <1>4 DEF ArchTypeOK
<1>6. /\ loaded' = [loaded EXCEPT ![p] = NothingLoaded] /\ unread' = [unread EXCEPT ![p] = {}]
      /\ published' = published
  BY DEF StartTask
<1> QED BY <1>2, <1>3, <1>5, <1>6 DEF ArchTypeOK

LEMMA TaskOwn ==
  ASSUME ArchTypeOK, NEW p \in ArchProc, NEW r \in ArchiveRanges,
         NEW op \in {"fetch", "fill"}, NEW have \in SUBSET Nat, StartTask(p, r, op, have)
  PROVE  /\ published' = published
         /\ DOMAIN unread' = ArchProc /\ DOMAIN loaded' = ArchProc
         /\ \A x \in ArchProc : DOMAIN loaded'[x] = Periods
         /\ task' \in [ArchProc -> Tasks]
         /\ \A x \in ArchProc \ {p} : task'[x] = task[x]
         /\ \A x \in ArchProc \ {p} : unread'[x] = unread[x]
         /\ \A x \in ArchProc \ {p} : loaded'[x] = loaded[x]
<1>1. r[1] \in Nat /\ r[2] \in Nat
  BY ArchiveAssumption
<1>2. PICK q \in Tasks : q = [op |-> op, start |-> r[1], end |-> r[2], have |-> have]
  BY <1>1 DEF Tasks
<1>3. task' = [task EXCEPT ![p] = q]
  BY <1>2 DEF StartTask
<1>4. task' \in [ArchProc -> Tasks] /\ \A x \in ArchProc \ {p} : task'[x] = task[x]
  BY <1>3 DEF ArchTypeOK
<1>5. DOMAIN NothingLoaded = Periods
  BY DEF NothingLoaded
<1>6. /\ loaded' = [loaded EXCEPT ![p] = NothingLoaded] /\ unread' = [unread EXCEPT ![p] = {}]
      /\ published' = published
  BY DEF StartTask
<1> QED BY <1>4, <1>5, <1>6 DEF ArchTypeOK

LEMMA LoadMonthsEnds ==
  ASSUME NEW p, NEW q, LoadMonths(p, q)
  PROVE  GivesOrLoads(p)
<1>1. CASE Cardinality(months_for(Gaps(q))) > MaxMonths
  BY <1>1 DEF LoadMonths, GivesOrLoads
<1>2. CASE ~(Cardinality(months_for(Gaps(q))) > MaxMonths)
  BY <1>2 DEF LoadMonths, GivesOrLoads, Periods
<1> QED BY <1>1, <1>2

LEMMA StartEnds ==
  ASSUME NEW p, NEW r,
         fetch_binance_archive_bars(p, r)
         \/ \E have : fill_binance_archive_gaps(p, r, have)
  PROVE  GivesOrLoads(p)
<1>1. CASE fetch_binance_archive_bars(p, r)
  BY <1>1 DEF fetch_binance_archive_bars, GivesOrLoads, Periods
<1>2. ASSUME NEW have, fill_binance_archive_gaps(p, r, have) PROVE GivesOrLoads(p)
  <2>1. PICK q : q = task'[p]
    OBVIOUS
  <2>2. \/ Give(p, RestOnly(have)) \/ Load(p, "daily", Gaps(q)) \/ LoadMonths(p, q)
    BY <1>2, <2>1 DEF fill_binance_archive_gaps
  <2>3. Give(p, RestOnly(have)) \/ Load(p, "daily", Gaps(q)) => GivesOrLoads(p)
    BY DEF GivesOrLoads, Periods
  <2> QED BY <2>2, <2>3, LoadMonthsEnds
<1> QED BY <1>1, <1>2

LEMMA PeriodEnds ==
  ASSUME NEW p, FetchEnds(p) \/ FillEnds(p)
  PROVE  PeriodLoaded(p) /\ GivesOrLoads(p)
<1>1. CASE FetchEnds(p)
  <2>1. \/ Give(p, loaded[p][period[p]]) \/ Give(p, loaded[p]["monthly"])
        \/ Load(p, "daily", {<<task[p].start, task[p].end>>})
    BY <1>1 DEF FetchEnds
  <2> QED BY <1>1, <2>1 DEF FetchEnds, GivesOrLoads, Periods
<1>2. CASE FillEnds(p)
  <2>1. PICK q : q = task[p]
    OBVIOUS
  <2>2. Give(p, Filled(q, loaded[p][period[p]])) \/ LoadMonths(p, q)
    BY <1>2, <2>1 DEF FillEnds
  <2>3. Give(p, Filled(q, loaded[p][period[p]])) => GivesOrLoads(p)
    BY DEF GivesOrLoads
  <2> QED BY <1>2, <2>2, <2>3, LoadMonthsEnds DEF FillEnds
<1> QED BY <1>1, <1>2

LEMMA ArchOwn ==
  ASSUME ArchTypeOK, NEW p \in ArchProc, ArchAct(p)
  PROVE  OwnCall(p) /\ ArchTypeOK'
<1>1. ASSUME NEW r \in ArchiveRanges, NEW op \in {"fetch", "fill"}, NEW have \in SUBSET Nat,
             StartTask(p, r, op, have), GivesOrLoads(p)
      PROVE  OwnCall(p) /\ ArchTypeOK'
  <2>0. StartTask(p, r, op, have)
    BY <1>1
  <2>1. /\ published' = published
        /\ DOMAIN unread' = ArchProc /\ DOMAIN loaded' = ArchProc
        /\ \A x \in ArchProc : DOMAIN loaded'[x] = Periods
        /\ task' \in [ArchProc -> Tasks]
    BY <2>0, TaskOwn
  <2>3. \A x \in ArchProc \ {p} :
          task'[x] = task[x] /\ unread'[x] = unread[x] /\ loaded'[x] = loaded[x]
    BY <2>0, TaskOwn
  <2>2. /\ DOMAIN place' = ArchProc /\ DOMAIN files' = ArchProc /\ DOMAIN given' = ArchProc
        /\ period' \in [ArchProc -> Periods]
        /\ \A x \in ArchProc \ {p} :
             /\ place'[x] = place[x] /\ period'[x] = period[x] /\ files'[x] = files[x]
             /\ given'[x] = given[x]
    BY <1>1, GivesOrLoadsOwn
  <2>4. OwnCall(p)
    BY <2>1, <2>2, <2>3 DEF OwnCall
  <2>5. ArchTypeOK'
    BY <2>1, <2>2 DEF ArchTypeOK
  <2> QED BY <2>4, <2>5
<1>2. CASE PeriodLoaded(p) /\ GivesOrLoads(p)
  <2>1. /\ DOMAIN place' = ArchProc /\ DOMAIN files' = ArchProc /\ DOMAIN given' = ArchProc
        /\ period' \in [ArchProc -> Periods]
        /\ \A x \in ArchProc \ {p} :
             /\ place'[x] = place[x] /\ period'[x] = period[x] /\ files'[x] = files[x]
             /\ given'[x] = given[x]
    BY <1>2, GivesOrLoadsOwn
  <2>2. published' = published /\ task' = task /\ loaded' = loaded /\ unread' = unread
    BY <1>2 DEF PeriodLoaded
  <2> QED BY <2>1, <2>2 DEF OwnCall, ArchTypeOK
<1>3. CASE \/ FindFile(p) \/ Download(p) \/ DownloadFails(p) \/ DownloadBreaks(p)
           \/ WriteZip(p) \/ KillArchive(p)
  <2>1. /\ place' = [place EXCEPT ![p] = place'[p]] /\ published' = published
        /\ task' = task /\ period' = period /\ loaded' = loaded
    BY <1>3 DEF FindFile, Download, DownloadFails, DownloadBreaks, WriteZip, KillArchive,
                ArchTo, ArchTypeOK
  <2>2. /\ files' = files \/ files' = [files EXCEPT ![p] = @ \ {Min(@)}]
        /\ unread' = unread \/ unread' = [unread EXCEPT ![p] = @ \cup {File(p)}]
        /\ given' = given \/ given' = [given EXCEPT ![p] = NotGiven]
    BY <1>3 DEF FindFile, Download, DownloadFails, DownloadBreaks, WriteZip, KillArchive,
                NextFile, Unread
  <2> QED BY <2>1, <2>2 DEF OwnCall, ArchTypeOK
<1>4. CASE ReadZip(p)
  <2>1. PICK B : B = BarsOf(File(p), task[p].start, task[p].end)
    OBVIOUS
  <2>2. \/ loaded' = [loaded EXCEPT ![p][period[p]] = @ \cup B] /\ unread' = unread
        \/ loaded' = loaded /\ unread' = [unread EXCEPT ![p] = @ \cup {File(p)}]
    BY <1>4, <2>1 DEF ReadZip, Unread
  <2>3. /\ DOMAIN loaded' = ArchProc /\ \A x \in ArchProc : DOMAIN loaded'[x] = Periods
        /\ DOMAIN unread' = ArchProc
        /\ \A x \in ArchProc \ {p} : unread'[x] = unread[x] /\ loaded'[x] = loaded[x]
    BY <2>2 DEF ArchTypeOK
  <2>4. /\ place' = [place EXCEPT ![p] = "next"] /\ published' = published
        /\ task' = task /\ period' = period /\ given' = given
        /\ files' = [files EXCEPT ![p] = @ \ {Min(@)}]
    BY <1>4 DEF ReadZip, ArchTo, NextFile
  <2> QED BY <2>3, <2>4 DEF OwnCall, ArchTypeOK
<1>5. ASSUME NEW r \in ArchiveRanges, fetch_binance_archive_bars(p, r)
      PROVE  OwnCall(p) /\ ArchTypeOK'
  <2>1. StartTask(p, r, "fetch", {}) /\ GivesOrLoads(p)
    BY <1>5, StartEnds DEF fetch_binance_archive_bars
  <2> QED BY <1>1, <2>1
<1>6. ASSUME NEW r \in ArchiveRanges, NEW have \in RestBars,
             fill_binance_archive_gaps(p, r, have \cap Expected(r[1], r[2]))
      PROVE  OwnCall(p) /\ ArchTypeOK'
  <2>1. PICK h : h = have \cap Expected(r[1], r[2])
    OBVIOUS
  <2>2. h \in SUBSET Nat
    <3>1. r[1] \in Nat /\ r[2] \in Nat
      BY ArchiveAssumption
    <3> QED BY <2>1, <3>1 DEF Expected
  <2>3. StartTask(p, r, "fill", h) /\ GivesOrLoads(p)
    BY <1>6, <2>1, StartEnds DEF fill_binance_archive_gaps
  <2> QED BY <1>1, <2>2, <2>3
<1> QED BY <1>2, <1>3, <1>4, <1>5, <1>6, PeriodEnds DEF ArchAct, load_archive_file

(* After each action, the call it belongs to is as CallOK says. *)
LEMMA LoadCall ==
  ASSUME ArchTypeOK, NEW p \in ArchProc, NEW kind \in Periods, NEW CONSTANT q,
         NEW CONSTANT failed, NEW CONSTANT bars,
         q = task'[p], failed = unread'[p], bars = loaded'[p], published' = published,
         Load(p, kind, Stretches(q)), q.op \in {"fetch", "fill"},
         q.op = "fetch" => q.have = {}, \A x \in Periods : \A b \in bars[x] : b.from = x,
         q.op = "fetch" /\ kind = "daily" =>
           Covered(q, failed, bars["monthly"], "monthly", {}),
         q.op = "fill" /\ kind = "monthly" => DaysAreShort(q, failed)
  PROVE  ArchCall(p)'
<1>1. place'[p] = "next" /\ period'[p] = kind /\ files'[p] = FilesFor(kind, Stretches(q))
  BY LoadTypes
<1>2. CallOK("next", q, failed, bars, kind, FilesFor(kind, Stretches(q)), given'[p])
  BY LoadBegins
<1>3. CallOK(place'[p], task'[p], unread'[p], loaded'[p], period'[p], files'[p], given'[p])
  BY <1>1, <1>2
<1> QED BY <1>3, CallAfter

LEMMA GiveCall ==
  ASSUME ArchTypeOK, NEW p \in ArchProc, NEW CONSTANT q, NEW CONSTANT failed,
         NEW CONSTANT bars, NEW ans,
         q = task'[p], failed = unread'[p], bars = loaded'[p], published' = published,
         Give(p, ans), q.op = "fetch" => q.have = {},
         \A x \in Periods : \A b \in bars[x] : b.from = x,
         Justified(q, failed, ans)
  PROVE  ArchCall(p)'
<1>1. place'[p] = "idle" /\ given'[p] = [ok |-> TRUE, bars |-> ans]
  BY GiveTypes
<1>2. CallOK("idle", q, failed, bars, period'[p], files'[p], [ok |-> TRUE, bars |-> ans])
  BY AnswerGiven
<1>3. CallOK(place'[p], task'[p], unread'[p], loaded'[p], period'[p], files'[p], given'[p])
  BY <1>1, <1>2
<1> QED BY <1>3, CallAfter

LEMMA MonthsCall ==
  ASSUME ArchTypeOK, NEW p \in ArchProc, NEW CONSTANT q \in Tasks, NEW CONSTANT failed,
         NEW CONSTANT bars,
         q = task'[p], failed = unread'[p], bars = loaded'[p], published' = published,
         LoadMonths(p, q), q.op = "fill", DaysAreShort(q, failed),
         \A x \in Periods : \A b \in bars[x] : b.from = x
  PROVE  ArchCall(p)'
<1>1. Stretches(q) = Gaps(q)
  BY DEF Stretches
<1>2. CASE Cardinality(months_for(Gaps(q))) > MaxMonths
  <2>1. Give(p, Filled(q, {}))
    BY <1>2 DEF LoadMonths
  <2>2. \A t : MonthIsShort(q, failed, t)
    BY <1>1, <1>2 DEF MonthIsShort
  <2>3. "monthly" \in Periods
    BY DEF Periods
  <2>4. Justified(q, failed, Filled(q, {}))
    BY <2>2, <2>3, FillJustified
  <2> QED BY <2>1, <2>4, GiveCall
<1>3. CASE ~(Cardinality(months_for(Gaps(q))) > MaxMonths)
  <2>1. Load(p, "monthly", Stretches(q))
    BY <1>1, <1>3 DEF LoadMonths
  <2>2. "monthly" \in Periods
    BY DEF Periods
  <2> QED BY <2>1, <2>2, LoadCall
<1> QED BY <1>2, <1>3

LEMMA FetchCall ==
  ASSUME ArchTypeOK, NEW p \in ArchProc, NEW r \in ArchiveRanges,
         fetch_binance_archive_bars(p, r)
  PROVE  ArchCall(p)'
<1>1. StartTask(p, r, "fetch", {}) /\ Load(p, "monthly", {r})
  BY DEF fetch_binance_archive_bars
<1>2. PICK q, failed, bars : q = task'[p] /\ failed = unread'[p] /\ bars = loaded'[p]
  OBVIOUS
<1>3. /\ q = TaskOf("fetch", r, {})
      /\ bars = NothingLoaded /\ published' = published
  BY <1>1, <1>2, TaskStarts
<1>4. r = <<r[1], r[2]>>
  BY ArchiveAssumption
<1>5. Stretches(q) = {r} /\ q.op = "fetch" /\ q.have = {}
  BY <1>3, <1>4 DEF Stretches, TaskOf
<1>6. \A x \in Periods : \A b \in bars[x] : b.from = x
  BY <1>3 DEF NothingLoaded
<1>7. "monthly" \in Periods
  BY DEF Periods
<1>8. Load(p, "monthly", Stretches(q))
  BY <1>1, <1>5
<1> QED BY <1>2, <1>3, <1>5, <1>6, <1>7, <1>8, LoadCall

LEMMA FillCall ==
  ASSUME ArchTypeOK, NEW p \in ArchProc, NEW r \in ArchiveRanges, NEW have \in SUBSET Nat,
         fill_binance_archive_gaps(p, r, have)
  PROVE  ArchCall(p)'
<1>1. StartTask(p, r, "fill", have)
  BY DEF fill_binance_archive_gaps
<1>2. PICK q, failed, bars : q = task'[p] /\ failed = unread'[p] /\ bars = loaded'[p]
  OBVIOUS
<1>3. /\ q = TaskOf("fill", r, have) /\ q \in Tasks
      /\ bars = NothingLoaded /\ published' = published
  BY <1>1, <1>2, TaskStarts
<1>4. Stretches(q) = Gaps(q) /\ q.op = "fill" /\ q.have = have
  BY <1>3 DEF Stretches, TaskOf
<1>5. \A x \in Periods : \A b \in bars[x] : b.from = x
  BY <1>3 DEF NothingLoaded
<1>6. "daily" \in Periods
  BY DEF Periods
<1>7. CASE have = {} \/ Missing(q) = {}
  <2>1. Give(p, RestOnly(have))
    BY <1>2, <1>7 DEF fill_binance_archive_gaps
  <2>2. Filled(q, {}) = RestOnly(have)
    BY <1>4 DEF Filled
  <2>3. Justified(q, failed, Filled(q, {}))
    BY <1>3, <1>4, <1>6, <1>7, FillJustified
  <2> QED BY <1>2, <1>3, <1>4, <1>5, <2>1, <2>2, <2>3, GiveCall
<1>8. CASE ~(have = {} \/ Missing(q) = {}) /\ Cardinality(days_for(Gaps(q))) <= MaxDays
  <2>1. Load(p, "daily", Stretches(q))
    BY <1>2, <1>4, <1>8 DEF fill_binance_archive_gaps
  <2> QED BY <1>2, <1>3, <1>4, <1>5, <1>6, <2>1, LoadCall
<1>9. CASE ~(have = {} \/ Missing(q) = {}) /\ ~(Cardinality(days_for(Gaps(q))) <= MaxDays)
  <2>1. LoadMonths(p, q)
    BY <1>2, <1>9 DEF fill_binance_archive_gaps
  <2>2. DaysAreShort(q, failed)
    BY <1>4, <1>9 DEF DaysAreShort
  <2> QED BY <1>2, <1>3, <1>4, <1>5, <2>1, <2>2, MonthsCall
<1> QED BY <1>7, <1>8, <1>9

(* The facts a call that has loaded all files of its period ends with. *)
LEMMA LoadedFacts ==
  ASSUME ArchInv, NEW p \in ArchProc, PeriodLoaded(p), NEW CONSTANT q, NEW CONSTANT failed,
         NEW CONSTANT bars, NEW CONSTANT kind,
         q = task[p], failed = unread[p], bars = loaded[p], kind = period[p]
  PROVE  /\ q \in Tasks /\ kind \in Periods /\ q.op \in {"fetch", "fill"}
         /\ q = task'[p] /\ failed = unread'[p] /\ bars = loaded'[p] /\ published' = published
         /\ q.op = "fetch" => q.have = {}
         /\ \A x \in Periods : \A b \in bars[x] : b.from = x
         /\ Covered(q, failed, bars[kind], kind, {})
         /\ q.op = "fetch" /\ kind = "daily" => Covered(q, failed, bars["monthly"], "monthly", {})
         /\ q.op = "fill" /\ kind = "monthly" => DaysAreShort(q, failed)
<1>1. ArchTypeOK /\ CallOK("next", q, failed, bars, kind, {}, given[p])
  BY DEF ArchInv, ArchCall, PeriodLoaded
<1>2. q \in Tasks /\ kind \in Periods
  BY <1>1 DEF ArchTypeOK
<1>3. q = task'[p] /\ failed = unread'[p] /\ bars = loaded'[p] /\ published' = published
  BY DEF PeriodLoaded
<1> QED BY <1>1, <1>2, <1>3 DEF CallOK

LEMMA FetchEndsCall ==
  ASSUME ArchInv, NEW p \in ArchProc, FetchEnds(p)
  PROVE  ArchCall(p)'
<1>0. PICK q, failed, bars, kind :
        q = task[p] /\ failed = unread[p] /\ bars = loaded[p] /\ kind = period[p]
  OBVIOUS
<1>1. ArchTypeOK /\ PeriodLoaded(p) /\ q.op = "fetch"
  BY <1>0 DEF ArchInv, FetchEnds
<1>2. /\ q \in Tasks /\ kind \in Periods /\ q.have = {}
      /\ q = task'[p] /\ failed = unread'[p] /\ bars = loaded'[p] /\ published' = published
      /\ \A x \in Periods : \A b \in bars[x] : b.from = x
      /\ Covered(q, failed, bars[kind], kind, {})
      /\ kind = "daily" => Covered(q, failed, bars["monthly"], "monthly", {})
  BY <1>0, <1>1, LoadedFacts
<1>3. Missing(q) = Expected(q.start, q.end)
  BY <1>2 DEF Missing, missing_starts
<1>4. Stretches(q) = {<<q.start, q.end>>} /\ months_for(Stretches(q)) = months_between(q.start, q.end)
  <2>1. Stretches(q) = {<<q.start, q.end>>}
    BY <1>1 DEF Stretches
  <2>2. \A s, e : months_for({<<s, e>>}) = months_between(s, e)
    BY DEF months_for
  <2> QED BY <2>1, <2>2
<1>5. "monthly" \in Periods /\ "daily" \in Periods /\ (kind = "daily" \/ kind = "monthly")
  BY <1>2 DEF Periods
<1> DEFINE complete == range_coverage_complete(bars[kind], q.start, q.end)
           many == Cardinality(months_between(q.start, q.end)) > MaxMonths
<1>6. \/ complete /\ Give(p, bars[kind])
      \/ ~complete /\ (kind = "daily" \/ many) /\ Give(p, bars["monthly"])
      \/ ~complete /\ kind = "monthly" /\ Load(p, "daily", {<<q.start, q.end>>})
  BY <1>0, <1>5 DEF FetchEnds
<1>7. complete <=> Missing(q) \subseteq OpenTimesOf(bars[kind])
  BY <1>3 DEF range_coverage_complete
<1> HIDE DEF complete
<1>8. CASE complete /\ Give(p, bars[kind])
  <2>1. Justified(q, failed, bars[kind])
    BY <1>1, <1>2, <1>7, <1>8, FetchJustified
  <2> QED BY <1>1, <1>2, <1>8, <2>1, GiveCall
<1>9. CASE ~complete /\ (kind = "daily" \/ many) /\ Give(p, bars["monthly"])
  <2>1. DaysAreShort(q, failed)
    <3>1. CASE kind = "daily"
      BY <1>1, <1>2, <1>7, <1>9, <3>1, UnloadedDay
    <3>2. CASE many
      BY <1>1, <1>4, <3>2 DEF DaysAreShort
    <3> QED BY <1>9, <3>1, <3>2
  <2>2. Covered(q, failed, bars["monthly"], "monthly", {})
    BY <1>2, <1>5
  <2>3. \A t \in Missing(q) \ OpenTimesOf(bars["monthly"]) : MonthIsShort(q, failed, t)
    BY <1>1, <1>2, <2>2, UnloadedMonth
  <2>4. Justified(q, failed, bars["monthly"])
    BY <1>1, <1>2, <1>5, <2>1, <2>3, FetchJustified
  <2> QED BY <1>1, <1>2, <1>9, <2>4, GiveCall
<1>10. CASE kind = "monthly" /\ Load(p, "daily", {<<q.start, q.end>>})
  <2>1. Load(p, "daily", Stretches(q)) /\ Covered(q, failed, bars["monthly"], "monthly", {})
    BY <1>2, <1>4, <1>10
  <2> QED BY <1>1, <1>2, <1>5, <2>1, LoadCall
<1> QED BY <1>6, <1>8, <1>9, <1>10

LEMMA FillEndsCall ==
  ASSUME ArchInv, NEW p \in ArchProc, FillEnds(p)
  PROVE  ArchCall(p)'
<1>0. PICK q, failed, bars, kind :
        q = task[p] /\ failed = unread[p] /\ bars = loaded[p] /\ kind = period[p]
  OBVIOUS
<1>1. ArchTypeOK /\ PeriodLoaded(p) /\ q.op = "fill"
  BY <1>0 DEF ArchInv, FillEnds
<1>2. /\ q \in Tasks /\ kind \in Periods
      /\ q = task'[p] /\ failed = unread'[p] /\ bars = loaded'[p] /\ published' = published
      /\ \A x \in Periods : \A b \in bars[x] : b.from = x
      /\ Covered(q, failed, bars[kind], kind, {})
      /\ kind = "monthly" => DaysAreShort(q, failed)
  BY <1>0, <1>1, LoadedFacts
<1>3. kind = "daily" \/ kind = "monthly"
  BY <1>2 DEF Periods
<1>4. CASE Missing(q) \subseteq OpenTimesOf(bars[kind]) /\ Give(p, Filled(q, bars[kind]))
  <2>1. Justified(q, failed, Filled(q, bars[kind]))
    BY <1>1, <1>2, <1>4, FillJustified
  <2> QED BY <1>1, <1>2, <1>4, <2>1, GiveCall
<1>5. CASE kind = "monthly" /\ Give(p, Filled(q, bars[kind]))
  <2>1. \A t \in Missing(q) \ OpenTimesOf(bars[kind]) : MonthIsShort(q, failed, t)
    BY <1>1, <1>2, <1>5, UnloadedMonth
  <2>2. Justified(q, failed, Filled(q, bars[kind]))
    BY <1>1, <1>2, <1>5, <2>1, FillJustified
  <2> QED BY <1>1, <1>2, <1>5, <2>2, GiveCall
<1>6. CASE /\ kind = "daily" /\ ~(Missing(q) \subseteq OpenTimesOf(bars[kind]))
           /\ LoadMonths(p, q)
  <2>1. DaysAreShort(q, failed)
    BY <1>1, <1>2, <1>6, UnloadedDay
  <2> QED BY <1>1, <1>2, <1>6, <2>1, MonthsCall
<1>7. \/ Missing(q) \subseteq OpenTimesOf(bars[kind]) /\ Give(p, Filled(q, bars[kind]))
      \/ kind = "monthly" /\ Give(p, Filled(q, bars[kind]))
      \/ /\ kind = "daily" /\ ~(Missing(q) \subseteq OpenTimesOf(bars[kind]))
         /\ LoadMonths(p, q)
  BY <1>0, <1>3 DEF FillEnds
<1> QED BY <1>4, <1>5, <1>6, <1>7

LEMMA FileCall ==
  ASSUME ArchInv, NEW p \in ArchProc, load_archive_file(p) \/ KillArchive(p)
  PROVE  ArchCall(p)'
<1>0. PICK where, q, failed, bars, kind, todo, reply :
        /\ where = place[p] /\ q = task[p] /\ failed = unread[p] /\ bars = loaded[p]
        /\ kind = period[p] /\ todo = files[p] /\ reply = given[p]
  OBVIOUS
<1>1. ArchTypeOK /\ kind \in Periods /\ DOMAIN bars = Periods
  BY <1>0 DEF ArchInv, ArchTypeOK
<1>2. CallOK(where, q, failed, bars, kind, todo, reply)
  BY <1>0 DEF ArchInv, ArchCall
<1>3. CASE FindFile(p) \/ Download(p) \/ WriteZip(p)
  <2>1. /\ where # "idle" /\ place'[p] # "idle" /\ published' = published
        /\ q = task'[p] /\ failed = unread'[p] /\ bars = loaded'[p]
        /\ kind = period'[p] /\ todo = files'[p] /\ reply = given'[p]
    BY <1>0, <1>1, <1>3 DEF FindFile, Download, WriteZip, ArchTo, ArchTypeOK
  <2>2. CallOK(place'[p], q, failed, bars, kind, todo, reply)
    BY <1>2, <2>1 DEF CallOK
  <2>3. CallOK(place'[p], task'[p], unread'[p], loaded'[p], period'[p], files'[p], given'[p])
    BY <2>1, <2>2
  <2> QED BY <2>1, <2>3, CallAfter
<1>4. CASE DownloadBreaks(p) \/ KillArchive(p)
  <2>1. /\ place'[p] = "idle" /\ published' = published
        /\ q = task'[p] /\ failed = unread'[p] /\ bars = loaded'[p]
        /\ kind = period'[p] /\ todo = files'[p] /\ given'[p] = NotGiven
    BY <1>0, <1>1, <1>4 DEF DownloadBreaks, KillArchive, ArchTo, ArchTypeOK
  <2>2. CallOK("idle", q, failed, bars, kind, todo, NotGiven)
    BY <1>2, NothingGiven
  <2>3. CallOK(place'[p], task'[p], unread'[p], loaded'[p], period'[p], files'[p], given'[p])
    BY <2>1, <2>2
  <2> QED BY <2>1, <2>3, CallAfter
<1>5. PICK n : n = Min(todo)
  OBVIOUS
<1>6. File(p) = <<kind, n>>
  BY <1>0, <1>5 DEF File
<1>7. PICK B : B = BarsOf(<<kind, n>>, q.start, q.end)
  OBVIOUS
<1>8. ASSUME where # "idle"
      PROVE  /\ CallOK("next", q, failed \cup {<<kind, n>>}, bars, kind, todo \ {n}, reply)
             /\ CallOK("next", q, failed, [bars EXCEPT ![kind] = @ \cup B], kind, todo \ {n}, reply)
  BY <1>1, <1>2, <1>7, <1>8, FileDone
<1>9. CASE \/ DownloadFails(p)
           \/ ReadZip(p) /\ Unread(p) /\ loaded' = loaded
  <2>1. /\ where # "idle" /\ place'[p] = "next" /\ published' = published
        /\ q = task'[p] /\ failed \cup {<<kind, n>>} = unread'[p] /\ bars = loaded'[p]
        /\ kind = period'[p] /\ todo \ {n} = files'[p] /\ reply = given'[p]
    BY <1>0, <1>1, <1>5, <1>6, <1>9
       DEF DownloadFails, ReadZip, NextFile, Unread, ArchTo, ArchTypeOK
  <2>2. CallOK(place'[p], task'[p], unread'[p], loaded'[p], period'[p], files'[p], given'[p])
    BY <1>8, <2>1
  <2> QED BY <2>1, <2>2, CallAfter
<1>10. CASE /\ ReadZip(p) /\ unread' = unread
            /\ loaded' = [loaded EXCEPT ![p][period[p]] = @ \cup B]
  <2>1. loaded'[p] = [bars EXCEPT ![kind] = @ \cup B]
    BY <1>0, <1>1, <1>10 DEF ArchTypeOK
  <2>2. /\ where # "idle" /\ place'[p] = "next" /\ published' = published
        /\ q = task'[p] /\ failed = unread'[p]
        /\ kind = period'[p] /\ todo \ {n} = files'[p] /\ reply = given'[p]
    BY <1>0, <1>1, <1>5, <1>10 DEF ReadZip, NextFile, ArchTo, ArchTypeOK
  <2>3. CallOK(place'[p], task'[p], unread'[p], loaded'[p], period'[p], files'[p], given'[p])
    BY <1>8, <2>1, <2>2
  <2> QED BY <2>2, <2>3, CallAfter
<1>11. ReadZip(p) => \/ Unread(p) /\ loaded' = loaded
                     \/ /\ unread' = unread
                        /\ loaded' = [loaded EXCEPT ![p][period[p]] = @ \cup B]
  BY <1>0, <1>6, <1>7 DEF ReadZip
<1> QED BY <1>3, <1>4, <1>9, <1>10, <1>11 DEF load_archive_file

LEMMA ArchNextInv == ArchInv /\ [ArchNext]_archvars => ArchInv'
<1>1. ASSUME ArchInv, NEW p \in ArchProc, ArchAct(p) PROVE ArchInv'
  <2>1. OwnCall(p) /\ ArchTypeOK' /\ ArchTypeOK
    BY <1>1, ArchOwn DEF ArchInv
  <2>2. ArchCall(p)'
    <3>1. ASSUME NEW r \in ArchiveRanges, NEW have \in RestBars,
                 fill_binance_archive_gaps(p, r, have \cap Expected(r[1], r[2]))
          PROVE  ArchCall(p)'
      <4>1. r[1] \in Nat /\ r[2] \in Nat
        BY ArchiveAssumption
      <4>2. PICK h : h = have \cap Expected(r[1], r[2])
        OBVIOUS
      <4>3. h \in SUBSET Nat
        BY <4>1, <4>2 DEF Expected
      <4> QED BY <2>1, <3>1, <4>2, <4>3, FillCall
    <3> QED BY <1>1, <2>1, <3>1, FetchCall, FetchEndsCall, FillEndsCall, FileCall DEF ArchAct
  <2>3. ASSUME NEW x \in ArchProc, x # p PROVE ArchCall(x)'
    <3>1. CallOK(place[x], task[x], unread[x], loaded[x], period[x], files[x], given[x])
      BY <1>1 DEF ArchInv, ArchCall
    <3>2. published' = published
          /\ CallOK(place'[x], task'[x], unread'[x], loaded'[x], period'[x], files'[x], given'[x])
      BY <2>1, <2>3, <3>1 DEF OwnCall
    <3> QED BY <3>2, CallAfter
  <2> QED BY <2>1, <2>2, <2>3 DEF ArchInv
<1>2. ASSUME ArchInv, UNCHANGED archvars PROVE ArchInv'
  <2>1. /\ published' = published /\ place' = place /\ task' = task /\ period' = period
        /\ files' = files /\ loaded' = loaded /\ unread' = unread /\ given' = given
    BY <1>2 DEF archvars
  <2>2. ASSUME NEW x \in ArchProc PROVE ArchCall(x)'
    <3>1. CallOK(place'[x], task'[x], unread'[x], loaded'[x], period'[x], files'[x], given'[x])
      BY <1>2, <2>1 DEF ArchInv, ArchCall
    <3> QED BY <2>1, <3>1, CallAfter
  <2>3. ArchTypeOK'
    BY <1>2, <2>1 DEF ArchInv, ArchTypeOK
  <2> QED BY <2>2, <2>3 DEF ArchInv
<1>3. ArchNext => \E p \in ArchProc : ArchAct(p)
  BY DEF ArchNext, ArchAct
<1> QED BY <1>1, <1>2, <1>3

LEMMA ArchInitInv == ArchInit => ArchInv
<1> SUFFICES ASSUME ArchInit PROVE ArchInv OBVIOUS
<1>1. NoTask \in Tasks /\ NoTask.op = "none" /\ NotGiven.ok = FALSE
  BY DEF NoTask, Tasks, NotGiven
<1>2. DOMAIN NothingLoaded = Periods /\ \A x \in Periods : NothingLoaded[x] = {}
  BY DEF NothingLoaded
<1>3. task = [p \in ArchProc |-> NoTask] /\ loaded = [p \in ArchProc |-> NothingLoaded]
  BY DEF ArchInit
<1>4. task \in [ArchProc -> Tasks] /\ \A p \in ArchProc : loaded[p] = NothingLoaded
  BY <1>1, <1>3
<1>5. ArchTypeOK
  BY <1>2, <1>4 DEF ArchInit, ArchTypeOK, Periods
<1>6. ASSUME NEW p \in ArchProc PROVE ArchCall(p)
  <2>1. /\ place[p] = "idle" /\ task[p] = NoTask /\ loaded[p] = NothingLoaded
        /\ given[p] = NotGiven
    BY DEF ArchInit
  <2> QED BY <1>1, <1>2, <2>1 DEF ArchCall, CallOK
<1> QED BY <1>5, <1>6 DEF ArchInv

LEMMA ArchSteps == [Next]_allvars => [ArchNext]_archvars
  BY DEF Next, CsvStep, CacheStep, FootStep, ArchStep, OfflineStep, allvars, archvars

(* A candle is missing from an answer of the archive only because its      *)
(* month could not be read, has no such row, is passed over or is one of   *)
(* too many, and the days are too many or incomplete as well; no answer    *)
(* mixes the two kinds of file.                                            *)
THEOREM ShortfallsAreExplained == Spec => []ShortfallHasACause
<1>1. Init => ArchInv
  BY ArchInitInv DEF Init, ArchIdle
<1>2. ArchInv /\ [Next]_allvars => ArchInv'
  BY ArchSteps, ArchNextInv
<1>3. ArchInv => ShortfallHasACause
  BY DEF ArchInv, ArchCall, CallOK, ShortfallHasACause
<1> QED BY <1>1, <1>2, <1>3, PTL DEF Spec

----------------------------------------------------------------------------
(* Offline files. *)

(* fetch_bars of the offline provider against the reference. *)
OfflineJudged(rows, q, s) ==
  /\ s.status = "ok" <=>
       /\ Asked(rows, q) # {}
       /\ \A i, j \in Asked(rows, q) : rows[i].legible /\ rows[i].pr = rows[j].pr
       /\ Agreeing(rows, Asked(rows, q)) /\ Fitting(rows, Asked(rows, q), OnlyClosed(q))
  /\ s.status = "ok" => ServesNewest(rows, Asked(rows, q), "CLOSED_BAR_ONLY", s)

LEMMA FetchedIsJudged ==
  ASSUME NEW n \in Nat, NEW rows \in [1..n -> OfflineRows], NEW q
  PROVE  OfflineJudged(rows, q, Fetched(rows, q))
<1>1. PICK P : P = Asked(rows, q)
  OBVIOUS
<1>2. P \in SUBSET (1..n) /\ P \in SUBSET Nat
  BY <1>1 DEF Asked
<1>3. IsFiniteSet(P)
  <2>1. IsFiniteSet(1..n)
    BY FS_Interval
  <2> QED BY <1>2, <2>1, FS_Subset
<1>4. \A i \in P : rows[i] \in OfflineRows
  BY <1>2
<1>5. /\ \A i \in P : rows[i].t \in Nat
      /\ \A i \in P : rows[i].rev \in Nat
      /\ \A i \in P : rows[i].legible \in BOOLEAN
  BY <1>4, OfflineAssumption
<1>6. PICK T : T = {rows[i].pr : i \in P}
  OBVIOUS
<1>7. IsFiniteSet(T)
  <2> DEFINE F == [i \in P |-> rows[i].pr]
  <2>1. F \in Surjection(P, T)
    BY <1>6 DEF Surjection
  <2> HIDE DEF F
  <2> QED BY <1>3, <2>1, FS_Surjection
<1>8. Cardinality(T) = 1 <=> P # {} /\ \A i, j \in P : rows[i].pr = rows[j].pr
  <2>1. ASSUME Cardinality(T) = 1
        PROVE  P # {} /\ \A i, j \in P : rows[i].pr = rows[j].pr
    <3>1. \E x : T = {x}
      BY <1>7, <2>1, FS_Singleton
    <3> QED BY <1>6, <3>1
  <2>2. ASSUME P # {}, \A i, j \in P : rows[i].pr = rows[j].pr
        PROVE  Cardinality(T) = 1
    <3>1. PICK i \in P : TRUE
      BY <2>2
    <3>2. T = {rows[i].pr}
      BY <1>6, <2>2, <3>1
    <3> QED BY <3>2, FS_Singleton
  <2> QED BY <2>1, <2>2
<1>9. PICK pr : pr = CHOOSE x \in T : TRUE
  OBVIOUS
<1>10. PICK s : s = Fetched(rows, q)
  OBVIOUS
<1>11. s = IF (\E i \in P : ~rows[i].legible) \/ Cardinality(T) # 1
             THEN Refused
             ELSE build_public_snapshot(rows, P, pr, OnlyClosed(q))
  BY <1>1, <1>6, <1>9, <1>10 DEF Fetched
<1>12. CASE \E i \in P : ~rows[i].legible
  <2>1. s.status # "ok"
    BY <1>11, <1>12 DEF Refused
  <2> QED BY <1>1, <1>10, <1>12, <2>1 DEF OfflineJudged
<1>13. CASE Cardinality(T) # 1
  <2>1. s.status # "ok"
    BY <1>11, <1>13 DEF Refused
  <2>2. ~(P # {} /\ \A i, j \in P : rows[i].legible /\ rows[i].pr = rows[j].pr)
    BY <1>8, <1>13
  <2> QED BY <1>1, <1>10, <2>1, <2>2 DEF OfflineJudged
<1>14. CASE ~(\E i \in P : ~rows[i].legible) /\ Cardinality(T) = 1
  <2>1. P # {} /\ \A i, j \in P : rows[i].legible /\ rows[i].pr = rows[j].pr
    BY <1>8, <1>14
  <2>2. \A i \in P : rows[i].pr = pr
    <3>1. T # {}
      BY <1>6, <2>1
    <3>2. pr \in T
      BY <1>9, <3>1
    <3> QED BY <1>6, <2>1, <3>2
  <2>3. PICK c : c = OnlyClosed(q)
    OBVIOUS
  <2>4. s = build_public_snapshot(rows, P, pr, c)
    BY <1>11, <1>14, <2>3
  <2>5. c.policy = "CLOSED_BAR_ONLY"
    BY <2>3 DEF OnlyClosed
  <2>6. /\ s.status = "ok" <=> Agreeing(rows, P) /\ Fitting(rows, P, c)
        /\ s.status = "ok" => ServesNewest(rows, P, c.policy, s)
    <3>1. PICK f : f = rows
      OBVIOUS
    <3>3. \A i \in P : f[i].t \in Nat
      BY <1>5, <3>1
    <3>4. \A i \in P : f[i].rev \in Nat
      BY <1>5, <3>1
    <3>5. \A i \in P : f[i].pr = pr
      BY <2>2, <3>1
    <3>6. s = build_public_snapshot(f, P, pr, c)
      BY <2>4, <3>1
    <3>7. /\ s.status = "ok" <=> Agreeing(f, P) /\ Fitting(f, P, c)
          /\ s.status = "ok" => ServesNewest(f, P, c.policy, s)
      BY <1>2, <1>3, <3>3, <3>4, <3>5, <3>6, SnapshotVerdict
    <3> QED BY <3>1, <3>7
  <2> QED BY <1>1, <1>10, <2>1, <2>3, <2>5, <2>6 DEF OfflineJudged
<1> QED BY <1>12, <1>13, <1>14

(* A row that is asked for opens in the range: it fits when it closes      *)
(* there, and when no standing row overlaps another.                       *)
StandingRows(rows, P) ==
  {rows[i] : i \in {j \in NewestOf(rows, P) : rows[j].state # "REVOKED"}}

LEMMA FittingIsClosing ==
  ASSUME NEW rows, NEW q
  PROVE  Fitting(rows, Asked(rows, q), OnlyClosed(q)) <=>
           /\ \A i \in Asked(rows, q) : close_time_ms(rows[i].t) < q.end
           /\ \A r, s \in StandingRows(rows, Asked(rows, q)) : ~Overlap(r.t, s.t)
<1>1. OnlyClosed(q).start = q.start /\ OnlyClosed(q).end = q.end
  BY DEF OnlyClosed
<1>2. \A i \in Asked(rows, q) : Inside(rows[i].t, OnlyClosed(q)) <=>
                                close_time_ms(rows[i].t) < q.end
  BY <1>1 DEF Asked, Inside
<1>3. (\A r, s \in StandingRows(rows, Asked(rows, q)) : ~Overlap(r.t, s.t)) <=>
        \A i, j \in NewestOf(rows, Asked(rows, q)) :
          rows[i].state # "REVOKED" /\ rows[j].state # "REVOKED"
            => ~Overlap(rows[i].t, rows[j].t)
  BY DEF StandingRows
<1> QED BY <1>2, <1>3 DEF Fitting

(* The judgement of FetchedIsJudged is the one of the property. *)
LEMMA JudgedMatches ==
  OfflineJudged(offline, query, snapshot) => OfflineMatchesReference
<1> SUFFICES ASSUME OfflineJudged(offline, query, snapshot) PROVE OfflineMatchesReference
  OBVIOUS
<1> DEFINE asked == Asked(offline, query)
           newest == {i \in asked : \A j \in asked :
                        offline[j].t = offline[i].t => offline[j].rev <= offline[i].rev}
           standing == {offline[i] : i \in {j \in newest : offline[j].state # "REVOKED"}}
<1>1. newest = NewestOf(offline, Asked(offline, query))
  BY DEF NewestOf
<1>2. Fitting(offline, asked, OnlyClosed(query)) <=>
        /\ \A i \in asked : close_time_ms(offline[i].t) < query.end
        /\ \A r, s \in standing : ~Overlap(r.t, s.t)
  <2>1. PICK rows, q : rows = offline /\ q = query
    OBVIOUS
  <2>2. standing = StandingRows(offline, asked)
    BY <1>1 DEF StandingRows
  <2> HIDE DEF standing
  <2>3. Fitting(rows, Asked(rows, q), OnlyClosed(q)) <=>
          /\ \A i \in Asked(rows, q) : close_time_ms(rows[i].t) < q.end
          /\ \A r, s \in StandingRows(rows, Asked(rows, q)) : ~Overlap(r.t, s.t)
    BY FittingIsClosing
  <2> QED BY <2>1, <2>2, <2>3
<1>3. \A r : Servable(r, "CLOSED_BAR_ONLY") <=> r.state # "REVOKED" /\ r.final
  BY DEF Servable
<1>4. {r \in {offline[i] : i \in newest} : Servable(r, "CLOSED_BAR_ONLY")} =
        {r \in standing : r.final}
  BY <1>3
<1>5. /\ snapshot.status = "ok" <=>
           /\ asked # {}
           /\ \A i, j \in asked : offline[i].legible /\ offline[i].pr = offline[j].pr
           /\ Agreeing(offline, asked) /\ Fitting(offline, asked, OnlyClosed(query))
      /\ snapshot.status = "ok" =>
           {bar.row : bar \in snapshot.bars} =
             {r \in {offline[i] : i \in newest} : Servable(r, "CLOSED_BAR_ONLY")}
  BY <1>1 DEF OfflineJudged, ServesNewest
<1>6. snapshot.status = "ok" =>
        {bar.row : bar \in snapshot.bars} = {r \in standing : r.final}
  BY <1>4, <1>5
<1>7. Agreeing(offline, asked) <=>
        \A i \in asked : Consistent(offline, Group(offline, asked, offline[i].t))
  BY DEF Agreeing
<1> HIDE DEF asked, standing, newest
<1>8. snapshot.status = "ok" <=>
        /\ asked # {}
        /\ \A i, j \in asked : offline[i].legible /\ offline[i].pr = offline[j].pr
        /\ \A i \in asked : /\ close_time_ms(offline[i].t) < query.end
                            /\ Consistent(offline, Group(offline, asked, offline[i].t))
        /\ \A r, s \in standing : ~Overlap(r.t, s.t)
  BY <1>2, <1>5, <1>7
<1> QED BY <1>6, <1>8 DEF OfflineMatchesReference, asked, newest, standing

(* The answer is the one to the query, of the file as it was given. *)
OfflineInv ==
  /\ \E n \in Nat : offline \in [1..n -> OfflineRows]
  /\ snapshot = NoSnapshot \/ snapshot = Fetched(offline, query)

(* What an offline file gives does not depend on the order of its rows:    *)
(* _OfflineProviderAdapter.fetch_bars accepts exactly the files whose rows *)
(* are legible, share a provider_revision, close within the range and      *)
(* agree for each candle, where no two candles overlap, and serves the     *)
(* newest revisions, for files of any length, all ranges and all lengths   *)
(* of candles.                                                             *)
THEOREM OfflineFilesAreJudged == Spec => []OfflineMatchesReference
<1>1. Init => OfflineInv
  <2> SUFFICES ASSUME Init PROVE OfflineInv
    OBVIOUS
  <2>1. snapshot = NoSnapshot
    BY DEF Init, OfflineInit, OfflineIdle
  <2>2. CASE part = "offline"
    <3>1. PICK n \in 0..MaxRows : offline \in [1..n -> OfflineRows]
      BY <2>2 DEF Init, OfflineInit
    <3>2. n \in Nat
      BY OfflineAssumption
    <3> QED BY <2>1, <3>1, <3>2 DEF OfflineInv
  <2>3. CASE part # "offline"
    <3>1. offline = <<>>
      BY <2>3 DEF Init, OfflineIdle
    <3>2. offline \in [1..0 -> OfflineRows]
      BY <3>1
    <3> QED BY <2>1, <3>2 DEF OfflineInv
  <2> QED BY <2>2, <2>3
<1>2. OfflineInv /\ [Next]_allvars => OfflineInv'
  <2> SUFFICES ASSUME OfflineInv, [Next]_allvars PROVE OfflineInv'
    OBVIOUS
  <2>1. CASE OfflineStep
    <3>1. PICK q \in OfflineQueries : fetch_bars(q)
      BY <2>1 DEF OfflineStep, OfflineNext
    <3>2. offline' = offline /\ query' = q /\ snapshot' = Fetched(offline, q)
      BY <3>1 DEF fetch_bars
    <3> QED BY <3>2 DEF OfflineInv
  <2>2. CASE UNCHANGED offlinevars
    BY <2>2 DEF OfflineInv, offlinevars
  <2> QED BY <2>1, <2>2 DEF Next, CsvStep, CacheStep, FootStep, ArchStep, allvars
<1>3. OfflineInv => OfflineMatchesReference
  <2> SUFFICES ASSUME OfflineInv, snapshot # NoSnapshot
               PROVE  OfflineJudged(offline, query, snapshot)
    BY JudgedMatches DEF OfflineMatchesReference
  <2>1. PICK n \in Nat : offline \in [1..n -> OfflineRows]
    BY DEF OfflineInv
  <2>2. PICK rows, q : rows = offline /\ q = query
    OBVIOUS
  <2>3. OfflineJudged(rows, q, Fetched(rows, q))
    BY <2>1, <2>2, FetchedIsJudged
  <2> QED BY <2>2, <2>3 DEF OfflineInv
<1> QED BY <1>1, <1>2, <1>3, PTL DEF Spec

=============================================================================
