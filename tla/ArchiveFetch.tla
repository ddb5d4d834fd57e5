----------------------------- MODULE ArchiveFetch -----------------------------
(***************************************************************************)
(* Candles from the ZIP archives of Binance                                *)
(* (exchanges/binance/archive.py): one file for each month and one for     *)
(* each day, downloaded once into a directory that processes share without *)
(* a lock, and written in place.                                           *)
(*                                                                         *)
(* A row of a file is its raw time; a bar is its open time, the file it is *)
(* from and the rows merged into it.  Months have DaysPerMonth days.       *)
(***************************************************************************)
EXTENDS Integers, FiniteSetsExt

CONSTANTS
  ArchProc,        \* processes that share a cache directory
  Archives,        \* what may be published: rows of each file
  NotPublished,
  BarLength, DayLength, DaysPerMonth,
  ArchiveRanges,   \* the [start, end) asked for
  RestBars,        \* open times fill_binance_archive_gaps is given
  MaxMonths,       \* MAX_MONTHLY_ARCHIVE_MONTHS, 12 in the code
  MaxDays,         \* MAX_DAILY_ARCHIVE_DAYS, 45 in the code
  MaxArchCalls     \* bound on the calls

ASSUME ArchiveAssumption ==
  /\ BarLength \in Nat \ {0} /\ DayLength \in Nat \ {0} /\ DaysPerMonth \in Nat \ {0}
  /\ ArchiveRanges \subseteq Nat \X Nat /\ \A r \in ArchiveRanges : r[1] < r[2]

VARIABLES
  published,   \* what the exchange has published
  zips,        \* "absent", "torn" or "whole" for each file
  place,       \* where the call of each process is
  task,        \* what it was asked
  period,      \* "monthly" or "daily"
  files,       \* numbers of the files still to be loaded in this period
  loaded,      \* bars loaded in each period
  unread,      \* files that gave it nothing because they could not be read
  given,       \* its last answer
  archCalls

archvars == <<published, zips, place, task, period, files, loaded, unread, given,
              archCalls>>

Periods == {"monthly", "daily"}
NoTask == [op |-> "none", start |-> 0, end |-> 0, have |-> {}]
NothingLoaded == [x \in Periods |-> {}]
NotGiven == [ok |-> FALSE, bars |-> {}]

ArchInit ==
  /\ published \in Archives
  /\ zips = [f \in DOMAIN published |-> "absent"]
  /\ place = [p \in ArchProc |-> "idle"]
  /\ task = [p \in ArchProc |-> NoTask]
  /\ period = [p \in ArchProc |-> "monthly"]
  /\ files = [p \in ArchProc |-> {}]
  /\ loaded = [p \in ArchProc |-> NothingLoaded]
  /\ unread = [p \in ArchProc |-> {}]
  /\ given = [p \in ArchProc |-> NotGiven]
  /\ archCalls = 0

----------------------------------------------------------------------------
DayOf(t) == t \div DayLength
MonthOf(t) == DayOf(t) \div DaysPerMonth
TimeOfDay(t) == t % DayLength

(* The cursor keeps the time of day of the start. *)
months_between(s, e) ==
  {m \in MonthOf(s)..MonthOf(e - 1) :
     m < MonthOf(e - 1) \/ TimeOfDay(s) <= TimeOfDay(e - 1)}
days_between(s, e) == DayOf(s)..DayOf(e - 1)

months_for(intervals) == UNION {months_between(i[1], i[2]) : i \in intervals}
days_for(intervals) == UNION {days_between(i[1], i[2]) : i \in intervals}

FilesFor(kind, intervals) ==
  IF kind = "monthly" THEN months_for(intervals) ELSE days_for(intervals)

(* range(start, end, duration) *)
Expected(s, e) == {t \in s..(e - 1) : (t - s) % BarLength = 0}

OpenTimesOf(bars) == {b.t : b \in bars}

(* Mutant: the first and the last candle are taken for all of them. *)
range_coverage_by_ends(bars, s, e) ==
  {s, Max(Expected(s, e))} \subseteq OpenTimesOf(bars)

range_coverage_complete(bars, s, e) == Expected(s, e) \subseteq OpenTimesOf(bars)

missing_starts(have, s, e) == Expected(s, e) \ have

(* _coalesce_intervals over the intervals of the missing candles. *)
Coalesced(missing, e) ==
  LET last(s) == Min({t \in missing : t >= s /\ (t + BarLength) \notin missing}) IN
  {<<s, Min({e, last(s) + BarLength})>> :
     s \in {t \in missing : (t - BarLength) \notin missing}}

normalize_open_time(raw) == (raw \div BarLength) * BarLength

(* Rows of one open time are merged into one bar. *)
BarsOf(f, s, e) ==
  LET times == {normalize_open_time(raw) : raw \in published[f]} IN
  {[t |-> t, from |-> f[1],
    rows |-> {raw \in published[f] : normalize_open_time(raw) = t}] :
     t \in {u \in times : s <= u /\ u < e}}

----------------------------------------------------------------------------
ArchTo(p, where) == place' = [place EXCEPT ![p] = where]

Give(p, bars) ==
  /\ ArchTo(p, "idle")
  /\ given' = [given EXCEPT ![p] = [ok |-> TRUE, bars |-> bars]]
  /\ UNCHANGED <<period, files>>

Load(p, kind, intervals) ==
  /\ ArchTo(p, "next")
  /\ period' = [period EXCEPT ![p] = kind]
  /\ files' = [files EXCEPT ![p] = FilesFor(kind, intervals)]
  /\ UNCHANGED given

RestOnly(have) == {[t |-> t, from |-> "rest", rows |-> {}] : t \in have}

StartTask(p, r, op, have) ==
  /\ place[p] = "idle" /\ archCalls < MaxArchCalls
  /\ archCalls' = archCalls + 1
  /\ task' = [task EXCEPT ![p] = [op |-> op, start |-> r[1], end |-> r[2], have |-> have]]
  /\ loaded' = [loaded EXCEPT ![p] = NothingLoaded]
  /\ unread' = [unread EXCEPT ![p] = {}]
  /\ UNCHANGED <<published, zips>>

fetch_binance_archive_bars(p, r) ==
  /\ StartTask(p, r, "fetch", {})
  /\ Load(p, "monthly", {r})

(* What the archive fills: only what the REST result misses. *)
Missing(t) == missing_starts(t.have, t.start, t.end)
Gaps(t) == Coalesced(Missing(t), t.end)
Filled(t, bars) == RestOnly(t.have) \cup {b \in bars : b.t \in Missing(t)}

(* Monthly files are the fallback of the fill, unless they are too many. *)
LoadMonths(p, t) ==
  IF Cardinality(months_for(Gaps(t))) > MaxMonths
    THEN Give(p, Filled(t, {}))
    ELSE Load(p, "monthly", Gaps(t))

fill_binance_archive_gaps(p, r, have) ==
  LET t == task'[p] IN
  /\ StartTask(p, r, "fill", have)
  /\ IF have = {} \/ Missing(t) = {} THEN Give(p, RestOnly(have))
     ELSE IF Cardinality(days_for(Gaps(t))) <= MaxDays THEN Load(p, "daily", Gaps(t))
     ELSE LoadMonths(p, t)

----------------------------------------------------------------------------
(* _load_archive_file *)

(* Files are loaded in the order of their dates. *)
File(p) == <<period[p], Min(files[p])>>
NextFile(p) == files' = [files EXCEPT ![p] = @ \ {Min(@)}]
Unread(p) == unread' = [unread EXCEPT ![p] = @ \cup {File(p)}]

FindFile(p) ==
  /\ place[p] = "next" /\ files[p] # {}
  /\ ArchTo(p, IF zips[File(p)] = "absent" THEN "download" ELSE "open")
  /\ UNCHANGED <<published, zips, task, period, files, loaded, unread, given, archCalls>>

(* The answer is complete before the file is opened for writing. *)
Download(p) ==
  /\ place[p] = "download" /\ published[File(p)] # NotPublished
  /\ zips' = [zips EXCEPT ![File(p)] = "torn"]
  /\ ArchTo(p, "write")
  /\ UNCHANGED <<published, task, period, files, loaded, unread, given, archCalls>>

DownloadFails(p) ==
  /\ place[p] = "download"
  /\ ArchTo(p, "next") /\ NextFile(p) /\ Unread(p)
  /\ UNCHANGED <<published, zips, task, period, loaded, given, archCalls>>

(* An answer that breaks off raises what is not caught here. *)
DownloadBreaks(p) ==
  /\ place[p] = "download" /\ published[File(p)] # NotPublished
  /\ ArchTo(p, "idle")
  /\ given' = [given EXCEPT ![p] = NotGiven]
  /\ UNCHANGED <<published, zips, task, period, files, loaded, unread, archCalls>>

WriteZip(p) ==
  /\ place[p] = "write"
  /\ zips' = [zips EXCEPT ![File(p)] = "whole"]
  /\ ArchTo(p, "open")
  /\ UNCHANGED <<published, task, period, files, loaded, unread, given, archCalls>>

(* A ZIP that cannot be opened gives nothing, and stays. *)
ReadZip(p) ==
  LET bars == BarsOf(File(p), task[p].start, task[p].end) IN
  /\ place[p] = "open"
  /\ IF zips[File(p)] = "whole"
       THEN /\ loaded' = [loaded EXCEPT ![p][period[p]] = @ \cup bars]
            /\ UNCHANGED unread
       ELSE Unread(p) /\ UNCHANGED loaded
  /\ ArchTo(p, "next") /\ NextFile(p)
  /\ UNCHANGED <<published, zips, task, period, given, archCalls>>

load_archive_file(p) ==
  FindFile(p) \/ Download(p) \/ DownloadFails(p) \/ DownloadBreaks(p)
  \/ WriteZip(p) \/ ReadZip(p)

(* All files of a period are loaded. *)
PeriodLoaded(p) ==
  /\ place[p] = "next" /\ files[p] = {}
  /\ UNCHANGED <<published, zips, task, loaded, unread, archCalls>>

FetchEnds(p) ==
  LET t == task[p]
      bars == loaded[p][period[p]]
      complete == range_coverage_complete(bars, t.start, t.end)
      many == Cardinality(months_between(t.start, t.end)) > MaxMonths
  IN
  /\ t.op = "fetch" /\ PeriodLoaded(p)
  /\ IF complete THEN Give(p, bars)
     ELSE IF period[p] = "daily" \/ (bars # {} /\ many) THEN Give(p, loaded[p]["monthly"])
     ELSE Load(p, "daily", {<<t.start, t.end>>})

FillEnds(p) ==
  LET t == task[p]
      bars == loaded[p][period[p]]
  IN
  /\ t.op = "fill" /\ PeriodLoaded(p)
  /\ IF period[p] = "monthly" \/ Missing(t) \subseteq OpenTimesOf(bars)
       THEN Give(p, Filled(t, bars)) ELSE LoadMonths(p, t)

KillArchive(p) ==
  /\ place[p] # "idle"
  /\ ArchTo(p, "idle")
  /\ given' = [given EXCEPT ![p] = NotGiven]
  /\ UNCHANGED <<published, zips, task, period, files, loaded, unread, archCalls>>

ArchNext ==
  \E p \in ArchProc :
    \/ \E r \in ArchiveRanges :
         \/ fetch_binance_archive_bars(p, r)
         \/ \E have \in RestBars :
              fill_binance_archive_gaps(p, r, have \cap Expected(r[1], r[2]))
    \/ load_archive_file(p) \/ FetchEnds(p) \/ FillEnds(p) \/ KillArchive(p)

----------------------------------------------------------------------------
(* A file the call could not read, or that has no row for the candle. *)
Lacks(failed, f, t) ==
  \/ f \in failed \/ published[f] = NotPublished
  \/ \A raw \in published[f] : normalize_open_time(raw) # t

(* The last month of a stretch is passed over when the stretch starts at a *)
(* later time of day than it ends.                                         *)
PassedOver(t, s, e) ==
  MonthOf(t) = MonthOf(e - 1) /\ TimeOfDay(s) > TimeOfDay(e - 1)

(* What the archive is read for. *)
Stretches(q) == IF q.op = "fetch" THEN {<<q.start, q.end>>} ELSE Gaps(q)

MonthIsShort(q, failed, t) ==
  \/ Lacks(failed, <<"monthly", MonthOf(t)>>, t)
  \/ \E i \in Stretches(q) : i[1] <= t /\ t < i[2] /\ PassedOver(t, i[1], i[2])
  \/ Cardinality(months_for(Stretches(q))) > MaxMonths

DaysAreShort(q, failed) ==
  \/ \E u \in Missing(q) : Lacks(failed, <<"daily", DayOf(u)>>, u)
  \/ q.op = "fetch" /\ Cardinality(months_for(Stretches(q))) > MaxMonths
  \/ q.op = "fill" /\ ~(Cardinality(days_for(Stretches(q))) <= MaxDays)

Justified(q, failed, bars) ==
  LET archived == {b \in bars : b.from # "rest"} IN
  /\ Cardinality({b.from : b \in archived}) <= 1
  /\ RestOnly(q.have) \subseteq bars
  /\ \A b \in archived : b.t \notin q.have
  /\ (q.op = "fetch" \/ q.have # {}) =>
       \A t \in Missing(q) \ OpenTimesOf(bars) :
         MonthIsShort(q, failed, t) /\ DaysAreShort(q, failed)

(* A candle is missing from an answer only for a reason: its month could   *)
(* not be read, has no such candle, is passed over or is one of too many,  *)
(* and the days, too, are too many or incomplete.  An answer never mixes   *)
(* monthly and daily files, and a fill leaves the REST candles alone.      *)
ShortfallHasACause ==
  \A p \in ArchProc :
    place[p] = "idle" /\ given[p].ok => Justified(task[p], unread[p], given[p].bars)

===============================================================================
