---------------------- MODULE MarketDataServiceProofs ----------------------
(***************************************************************************)
(* What MarketDataService keeps for any number of threads and processes,   *)
(* queries, candles, failures and ticks of the clock.  The candle store    *)
(* below it keeps its own invariant, IInv of CandleStoreProofs.            *)
(***************************************************************************)
EXTENDS MarketDataService, CandleStoreProofs, SharedFacts

Places == {"none", "flight", "after", "aggregate", "merge_derived", "reread"} \cup InFlight
Aggregates == UNION {[D -> SUBSET MarketBar] : D \in SUBSET Nat}
Req ==
  [op : {"fetch", "materialize"}, q : BarQuery, from : Nat, write : {"append", "merge"},
   final : SUBSET MarketBar, open : SUBSET MarketBar, changed : BOOLEAN, agg : Aggregates]

MTypeOK ==
  /\ now \in Nat
  /\ DOMAIN derived = Buckets
  /\ flight \in [Processes -> Proc \cup {Nil}]
  /\ at \in [Proc -> Places]
  /\ DOMAIN req = Proc
  /\ \A p \in Proc : at[p] # "none" => req[p] \in Req
  /\ DOMAIN answer = Proc

(* What a thread is about to store was over when it was fetched. *)
BatchesAreClosed ==
  \A p \in Proc : at[p] # "none" => \A b \in req[p].final : b.t < now

MInv ==
  /\ IInv /\ MTypeOK /\ FlightIsReleased
  /\ BatchesAreClosed /\ OnlyClosedAreFinal /\ AnswersAreComplete

Kept ==
  /\ \A t \in Times : closed[t] # Nil => closed'[t] # Nil
  /\ \A b \in Buckets : derived[b] # Nil => derived'[b] # Nil

----------------------------------------------------------------------------
(* What the pieces of an action do to the parts of the invariant. *)

LEMMA HomeIsProcess == \A p \in Proc : Home[p] \in Processes
BY DEF Processes

LEMMA NoAggregate == <<>> \in Aggregates
<1>1. <<>> \in [{} -> SUBSET MarketBar]
  OBVIOUS
<1> QED BY <1>1 DEF Aggregates

LEMMA RequestType ==
  ASSUME NEW op \in {"fetch", "materialize"}, NEW q \in BarQuery
  PROVE  Request(op, q) \in Req /\ Request(op, q).final = {}
BY NoAggregate DEF Request, Req, BarQuery

(* A service step that leaves the candle store alone. *)
LEMMA CandlesKeepIInv ==
  ASSUME IInv, UNCHANGED candles, calls' \in Nat
  PROVE  IInv'
BY DEF IInv, candles, TypeOK, CheckpointIsCommitted, JobInv, LockInv

LEMMA CoverageInRange ==
  ASSUME NEW q, coverage_complete(q)
  PROVE  Grid(q) \subseteq StoredTimes(q) \cap InRange(q)
BY DEF coverage_complete, Grid

(* A thread moves on, inside the flight or outside of it. *)
LEMMA MoveKeepsFlight ==
  ASSUME MTypeOK, FlightIsReleased, NEW p \in Proc, NEW to,
         at' = [at EXCEPT ![p] = to], flight' = flight,
         at[p] \in InFlight => to \in InFlight
  PROVE  FlightIsReleased'
BY NilIsNone DEF FlightIsReleased, MTypeOK

LEMMA LandedKeepsFlight ==
  ASSUME MTypeOK, FlightIsReleased, NEW p \in Proc, NEW to,
         at' = [at EXCEPT ![p] = to], flight' = [flight EXCEPT ![Home[p]] = Nil]
  PROVE  FlightIsReleased'
BY HomeIsProcess, NilIsNone DEF FlightIsReleased, MTypeOK

LEMMA RaiseKeepsFlight ==
  ASSUME MTypeOK, FlightIsReleased, NEW p \in Proc, NEW to,
         at' = [at EXCEPT ![p] = to],
         flight' = [h \in Processes |-> IF flight[h] = p THEN Nil ELSE flight[h]]
  PROVE  FlightIsReleased'
BY NilIsNone DEF FlightIsReleased, MTypeOK

(* An answer is complete when it is given, and stays what it is. *)
LEMMA AnswerComplete ==
  ASSUME MTypeOK, AnswersAreComplete, NEW p \in Proc, NEW a,
         answer' = [answer EXCEPT ![p] = a],
         a.status = "ok" /\ a.bars # {} => Grid(a.q) \subseteq a.bars
  PROVE  AnswersAreComplete'
BY DEF AnswersAreComplete, MTypeOK

LEMMA SourceBarType ==
  ASSUME NEW t \in Times, NEW v \in Values, NEW x \in {"rest", "archive"}
  PROVE  SourceBar(t, v, x) \in MarketBar /\ SourceBar(t, v, x).t = t
<1>1. (CHOOSE r \in Receipts : TRUE) \in Receipts
  BY ServiceAssumption
<1>2. x \in Transports
  BY ServiceAssumption
<1> QED BY <1>1, <1>2 DEF SourceBar, MarketBar

(* What the sources give is final only when it is over. *)
LEMMA FetchedFinal ==
  ASSUME MTypeOK, NEW from, NEW to, NEW v \in Values
  PROVE  /\ fetched_final(from, to, v) \in SUBSET MarketBar
         /\ fetched_open(from, to, v) \in SUBSET MarketBar
         /\ \A b \in fetched_final(from, to, v) : b.t < now
<1>1. \A t \in archive(from, to) : t \in Times /\ t < now
  BY DEF archive
<1>2. \A t \in rest(from, to) : t \in Times /\ t <= now /\ t \in Nat
  BY TimesAreNumbers DEF rest
<1>3. now \in Nat
  BY DEF MTypeOK
<1>4. \A t \in rest(from, to) \ {now} : t < now
  BY <1>2, <1>3
<1> QED BY <1>1, <1>2, <1>4, SourceBarType DEF fetched_final, fetched_open

----------------------------------------------------------------------------
(* Steps that leave the candle store and the derived candles alone. *)

LEMMA StoresKept ==
  ASSUME MInv, UNCHANGED <<candles, derived>>, now' = now
  PROVE  OnlyClosedAreFinal' /\ Kept
<1>1. closed' = closed /\ derived' = derived
  BY DEF candles
<1>2. Stored' = Stored
  BY <1>1 DEF Stored
<1> QED BY <1>1, <1>2 DEF MInv, OnlyClosedAreFinal, Kept

LEMMA Moved ==
  ASSUME MInv, NEW p \in Proc, NEW to \in Places \ {"none"},
         UNCHANGED <<candles, derived>>, now' = now, flight' = flight, answer' = answer,
         calls' \in Nat, at' = [at EXCEPT ![p] = to],
         at[p] \in InFlight => to \in InFlight,
         DOMAIN req' = Proc, \A q \in Proc \ {p} : req'[q] = req[q],
         req'[p] \in Req, \A b \in req'[p].final : b.t < now
  PROVE  MInv' /\ Kept
<1> USE DEF MInv
<1>1. IInv'
  BY CandlesKeepIInv
<1>2. OnlyClosedAreFinal' /\ Kept
  BY StoresKept
<1>3. FlightIsReleased'
  BY MoveKeepsFlight
<1>4. at' \in [Proc -> Places] /\ \A q \in Proc \ {p} : at'[q] = at[q]
  BY DEF MTypeOK
<1>5. MTypeOK'
  BY <1>4 DEF MTypeOK
<1>6. BatchesAreClosed'
  BY <1>4 DEF BatchesAreClosed
<1>7. AnswersAreComplete'
  BY DEF AnswersAreComplete
<1> QED BY <1>1, <1>2, <1>3, <1>5, <1>6, <1>7

LEMMA Answered ==
  ASSUME MInv, NEW p \in Proc, NEW status, NEW bars,
         UNCHANGED <<candles, derived>>, now' = now, req' = req, calls' \in Nat,
         Answer(p, status, bars),
         status = "ok" /\ bars # {} => Grid(req[p].q) \subseteq bars,
         \/ flight' = flight /\ at[p] \notin InFlight
         \/ flight' = [h \in Processes |-> IF flight[h] = p THEN Nil ELSE flight[h]]
  PROVE  MInv' /\ Kept
<1> USE DEF MInv
<1>1. IInv'
  BY CandlesKeepIInv
<1>2. OnlyClosedAreFinal' /\ Kept
  BY StoresKept
<1>3. at' = [at EXCEPT ![p] = "none"]
  BY DEF Answer
<1>4. FlightIsReleased'
  BY <1>3, MoveKeepsFlight, RaiseKeepsFlight
<1>5. at' \in [Proc -> Places] /\ at'[p] = "none" /\ \A q \in Proc \ {p} : at'[q] = at[q]
  BY <1>3 DEF MTypeOK, Places
<1>6. flight' \in [Processes -> Proc \cup {Nil}]
  BY DEF MTypeOK
<1>7. MTypeOK'
  BY <1>5, <1>6 DEF MTypeOK, Answer
<1>8. BatchesAreClosed'
  BY <1>5 DEF BatchesAreClosed
<1>9. AnswersAreComplete'
  BY AnswerComplete DEF Answer
<1> QED BY <1>1, <1>2, <1>4, <1>7, <1>8, <1>9

LEMMA LandedInv ==
  ASSUME MInv, NEW p \in Proc, NEW changed \in BOOLEAN, at[p] # "none",
         UNCHANGED candles, calls' \in Nat, Landed(p, changed)
  PROVE  MInv' /\ Kept
<1> USE DEF MInv
<1>0. /\ at' = [at EXCEPT ![p] = "after"] /\ UNCHANGED <<now, derived, answer>>
      /\ req' = [req EXCEPT ![p].changed = changed]
      /\ flight' = [flight EXCEPT ![Home[p]] = Nil]
  BY DEF Landed
<1>1. IInv'
  BY CandlesKeepIInv
<1>2. OnlyClosedAreFinal' /\ Kept
  BY <1>0, StoresKept
<1>3. FlightIsReleased'
  BY <1>0, LandedKeepsFlight
<1>4. at' \in [Proc -> Places] /\ \A q \in Proc \ {p} : at'[q] = at[q]
  BY <1>0 DEF MTypeOK, Places
<1>5. /\ DOMAIN req' = Proc /\ \A q \in Proc \ {p} : req'[q] = req[q]
      /\ req'[p] = [req[p] EXCEPT !.changed = changed]
  BY <1>0 DEF MTypeOK
<1>6. req'[p] \in Req /\ req'[p].final = req[p].final
  BY <1>5 DEF MTypeOK, Req
<1>7. flight' \in [Processes -> Proc \cup {Nil}]
  BY <1>0 DEF MTypeOK
<1>8. MTypeOK'
  BY <1>0, <1>4, <1>5, <1>6, <1>7 DEF MTypeOK
<1>9. BatchesAreClosed'
  BY <1>0, <1>4, <1>5, <1>6 DEF BatchesAreClosed
<1>10. AnswersAreComplete'
  BY <1>0 DEF AnswersAreComplete
<1> QED BY <1>1, <1>2, <1>3, <1>8, <1>9, <1>10

LEMMA RaiseInv ==
  ASSUME MInv, NEW p \in Proc, NEW status, status # "ok",
         UNCHANGED candles, calls' \in Nat, Raise(p, status)
  PROVE  MInv' /\ Kept
BY Answered DEF Raise

(* The request of a thread that is in a call. *)
LEMMA ReqFacts ==
  ASSUME MInv, NEW p \in Proc, at[p] # "none"
  PROVE  /\ req[p] \in Req /\ req[p].q \in BarQuery /\ req[p].op \in {"fetch", "materialize"}
         /\ req[p].write \in {"append", "merge"}
         /\ req[p].final \in SUBSET MarketBar /\ req[p].open \in SUBSET MarketBar
         /\ \A b \in req[p].final : b.t < now
         /\ DOMAIN req = Proc /\ calls \in Nat
BY DEF MInv, MTypeOK, Req, BatchesAreClosed, IInv, TypeOK

(* The store already has what is asked for. *)
LEMMA AnsweredAtOnce ==
  ASSUME MInv, NEW p \in Proc, NEW r, NEW a, at[p] = "none",
         UNCHANGED <<candles, derived>>, now' = now, flight' = flight, at' = at,
         calls' \in Nat,
         req' = [req EXCEPT ![p] = r], answer' = [answer EXCEPT ![p] = a],
         a.status = "ok" /\ a.bars # {} => Grid(a.q) \subseteq a.bars
  PROVE  MInv' /\ Kept
<1> USE DEF MInv
<1>1. IInv'
  BY CandlesKeepIInv
<1>2. OnlyClosedAreFinal' /\ Kept
  BY StoresKept
<1>3. FlightIsReleased'
  BY DEF FlightIsReleased
<1>4. DOMAIN req' = Proc /\ \A q \in Proc \ {p} : req'[q] = req[q]
  BY DEF MTypeOK
<1>5. MTypeOK'
  BY <1>4 DEF MTypeOK
<1>6. BatchesAreClosed'
  BY <1>4 DEF BatchesAreClosed
<1>7. AnswersAreComplete'
  BY AnswerComplete
<1> QED BY <1>1, <1>2, <1>3, <1>5, <1>6, <1>7

(* A call that has to fetch waits for the flight lock. *)
LEMMA CallWaits ==
  ASSUME MInv, NEW p \in Proc, NEW q \in BarQuery, NEW op \in {"fetch", "materialize"},
         req' = [req EXCEPT ![p] = Request(op, q)], Go(p, "none", "flight"),
         UNCHANGED <<answer, now, derived, flight, candles>>, calls' \in Nat
  PROVE  MInv' /\ Kept
<1>1. DOMAIN req' = Proc /\ \A x \in Proc \ {p} : req'[x] = req[x]
      /\ req'[p] = Request(op, q)
  BY DEF MInv, MTypeOK
<1>2. req'[p] \in Req /\ req'[p].final = {}
  BY <1>1, RequestType
<1>3. "flight" \in Places \ {"none"} /\ "none" \notin InFlight
  BY DEF Places, InFlight
<1>4. at' = [at EXCEPT ![p] = "flight"] /\ at[p] = "none"
  BY DEF Go
<1>5. UNCHANGED <<candles, derived>> /\ now' = now /\ flight' = flight /\ answer' = answer
  OBVIOUS
<1> QED BY <1>1, <1>2, <1>3, <1>4, <1>5, Moved

LEMMA CallInv ==
  ASSUME MInv, NEW p \in Proc, CallService(p)
  PROVE  MInv' /\ Kept
<1>0. calls' \in Nat
  BY DEF CallService, MInv, IInv, TypeOK
<1>1. PICK q \in Queries : fetch_bars(p, q) \/ materialize_bars(p, q)
  BY DEF CallService
<1>2. q \in BarQuery
  BY ServiceAssumption
<1>3. CASE fetch_bars(p, q)
  <2>1. /\ at[p] = "none" /\ req' = [req EXCEPT ![p] = Request("fetch", q)]
        /\ UNCHANGED <<now, derived, flight, candles>>
    BY <1>3 DEF fetch_bars
  <2>2. CASE coverage_complete(q)
    <3>1. PICK bars : bars = StoredTimes(q) \cap InRange(q)
      OBVIOUS
    <3>2. /\ at' = at
          /\ answer' = [answer EXCEPT ![p] =
               [status |-> "ok", q |-> q, op |-> "fetch", bars |-> bars]]
      BY <1>3, <2>2, <3>1 DEF fetch_bars
    <3>3. Grid(q) \subseteq bars
      BY <2>2, <3>1, CoverageInRange
    <3> QED BY <1>0, <2>1, <3>2, <3>3, AnsweredAtOnce
  <2>3. CASE ~coverage_complete(q)
    <3>1. Go(p, "none", "flight") /\ UNCHANGED answer
      BY <1>3, <2>3 DEF fetch_bars
    <3> QED BY <1>0, <1>2, <2>1, <3>1, CallWaits
  <2> QED BY <2>2, <2>3
<1>4. CASE materialize_bars(p, q)
  <2>1. /\ at[p] = "none" /\ req' = [req EXCEPT ![p] = Request("materialize", q)]
        /\ UNCHANGED <<now, derived, flight, candles>>
    BY <1>4 DEF materialize_bars
  <2>2. CASE stored_coverage_complete(q)
    <3>1. /\ at' = at
          /\ answer' = [answer EXCEPT ![p] =
               [status |-> "ok", q |-> q, op |-> "materialize", bars |-> {}]]
      BY <1>4, <2>2 DEF materialize_bars
    <3> QED BY <1>0, <2>1, <3>1, AnsweredAtOnce
  <2>3. CASE ~stored_coverage_complete(q)
    <3>1. Go(p, "none", "flight") /\ UNCHANGED answer
      BY <1>4, <2>3 DEF materialize_bars
    <3> QED BY <1>0, <1>2, <2>1, <3>1, CallWaits
  <2> QED BY <2>2, <2>3
<1> QED BY <1>1, <1>3, <1>4

(* A thread that only moves on. *)
LEMMA Goes ==
  ASSUME MInv, NEW p \in Proc, NEW from, NEW to \in Places \ {"none"}, Go(p, from, to),
         from # "none", from \in InFlight => to \in InFlight,
         UNCHANGED <<now, derived, flight, req, answer, candles>>, calls' = calls
  PROVE  MInv' /\ Kept
<1>1. at[p] = from /\ at' = [at EXCEPT ![p] = to]
  BY DEF Go
<1>2. /\ req[p] \in Req /\ \A b \in req[p].final : b.t < now
      /\ DOMAIN req = Proc /\ calls \in Nat
  BY <1>1, ReqFacts
<1>3. UNCHANGED <<candles, derived>> /\ now' = now /\ flight' = flight /\ answer' = answer
      /\ req' = req
  OBVIOUS
<1> QED BY <1>1, <1>2, <1>3, Moved

----------------------------------------------------------------------------
(* The flight: looking and fetching. *)

(* Where the tail of a series starts: after every stored candle. *)
LEMMA TailStart ==
  ASSUME MInv, NEW s \in Nat
  PROVE  LET start == Max({s} \cup {t + 1 : t \in Stored}) IN
           start \in Nat /\ s <= start /\ \A t \in Stored : t < start
<1> DEFINE S == {s} \cup {t + 1 : t \in Stored}
<1>1. now \in Nat /\ \A t \in Stored : t \in Nat /\ t < now
  BY TimesAreNumbers DEF MInv, MTypeOK, OnlyClosedAreFinal, Stored
<1>2. S \in SUBSET Nat /\ S # {}
  BY <1>1
<1>3. s + now \in Nat /\ \A y \in S : y <= s + now
  BY <1>1
<1>4. Max(S) \in S /\ \A y \in S : y <= Max(S)
  BY <1>2, <1>3, MaxFacts
<1>5. Max(S) \in Nat
  BY <1>2, <1>4
<1>6. s \in S /\ \A t \in Stored : t + 1 \in S
  OBVIOUS
<1> HIDE DEF S
<1>7. PICK m \in Nat : m = Max(S) /\ \A y \in S : y <= m
  BY <1>4, <1>5
<1>8. s <= m /\ \A t \in Stored : t < m
  BY <1>1, <1>6, <1>7
<1> QED BY <1>7, <1>8 DEF S

LEMMA EnsureInv ==
  ASSUME MInv, NEW p \in Proc, ensure_stored(p), calls' = calls
  PROVE  MInv' /\ Kept
<1> USE DEF MInv
<1>0. /\ at[p] = "flight" /\ at' = [at EXCEPT ![p] = "check"]
      /\ flight' = [flight EXCEPT ![Home[p]] = p]
      /\ UNCHANGED <<candles, derived>> /\ now' = now /\ req' = req /\ answer' = answer
  BY DEF ensure_stored, Go
<1>1. calls' \in Nat
  BY DEF IInv, TypeOK
<1>2. IInv'
  BY <1>0, <1>1, CandlesKeepIInv
<1>3. OnlyClosedAreFinal' /\ Kept
  BY <1>0, StoresKept
<1>4. at' \in [Proc -> Places] /\ at'[p] = "check" /\ \A q \in Proc \ {p} : at'[q] = at[q]
  BY <1>0 DEF MTypeOK, Places, InFlight
<1>5. flight' \in [Processes -> Proc \cup {Nil}]
  BY <1>0 DEF MTypeOK
<1>6. MTypeOK'
  BY <1>0, <1>4, <1>5 DEF MTypeOK
<1>7. FlightIsReleased'
  <2> SUFFICES ASSUME NEW h \in Processes, flight'[h] # Nil
               PROVE  Home[flight'[h]] = h /\ at'[flight'[h]] \in InFlight
    BY DEF FlightIsReleased
  <2>1. CASE h = Home[p]
    BY <1>0, <1>4, <2>1 DEF MTypeOK, InFlight
  <2>2. CASE h # Home[p]
    <3>1. flight'[h] = flight[h] /\ flight[h] \in Proc
      BY <1>0, <2>2 DEF MTypeOK
    <3>2. Home[flight[h]] = h /\ at[flight[h]] \in InFlight
      BY <3>1 DEF FlightIsReleased
    <3> QED BY <1>4, <2>2, <3>1, <3>2
  <2> QED BY <2>1, <2>2
<1>8. BatchesAreClosed'
  BY <1>0, <1>4 DEF BatchesAreClosed
<1>9. AnswersAreComplete'
  BY <1>0 DEF AnswersAreComplete
<1> QED BY <1>2, <1>3, <1>6, <1>7, <1>8, <1>9

LEMMA CheckInv ==
  ASSUME MInv, NEW p \in Proc, CheckCoverage(p) \/ Recheck(p), calls' = calls
  PROVE  MInv' /\ Kept
<1>0. calls' \in Nat /\ at[p] \in {"check", "recheck"} /\ UNCHANGED candles
  BY DEF MInv, IInv, TypeOK, CheckCoverage, Recheck
<1>1. CASE Landed(p, FALSE)
  BY <1>0, <1>1, LandedInv
<1>2. ASSUME NEW to \in {"manifest", "fetch_whole"}, NEW from \in {"check", "recheck"},
             Go(p, from, to), UNCHANGED <<now, derived, flight, req, answer>>
      PROVE  MInv' /\ Kept
  <2>1. to \in Places \ {"none"} /\ to \in InFlight /\ from # "none"
    BY DEF Places, InFlight
  <2> QED BY <1>0, <1>2, <2>1, Goes
<1> QED BY <1>1, <1>2 DEF CheckCoverage, Recheck

LEMMA ManifestInv ==
  ASSUME MInv, NEW p \in Proc, ReadManifest(p), calls' = calls
  PROVE  MInv' /\ Kept
<1>0. /\ at[p] = "manifest"
      /\ UNCHANGED <<candles, derived>> /\ now' = now /\ flight' = flight /\ answer' = answer
  BY DEF ReadManifest
<1>1. /\ req[p] \in Req /\ req[p].q \in BarQuery /\ \A b \in req[p].final : b.t < now
      /\ DOMAIN req = Proc /\ calls \in Nat
  BY <1>0, ReqFacts
<1>2. PICK start : start = Max({req[p].q.start} \cup {t + 1 : t \in Stored})
  OBVIOUS
<1>3. start \in Nat
  <2>1. req[p].q.start \in Nat
    BY <1>1 DEF BarQuery
  <2> QED BY <1>2, <2>1, TailStart
<1>4. "fetch_tail" \in Places \ {"none"} /\ "recheck" \in Places \ {"none"}
      /\ "fetch_tail" \in InFlight /\ "recheck" \in InFlight
  BY DEF Places, InFlight
<1>5. CASE Go(p, "manifest", "fetch_tail") /\ req' = [req EXCEPT ![p].from = start]
  <2>1. /\ DOMAIN req' = Proc /\ \A q \in Proc \ {p} : req'[q] = req[q]
        /\ req'[p] = [req[p] EXCEPT !.from = start]
    BY <1>1, <1>5
  <2>2. req'[p] \in Req /\ req'[p].final = req[p].final
    BY <1>1, <1>3, <2>1 DEF Req
  <2> QED BY <1>0, <1>1, <1>4, <1>5, <2>1, <2>2, Moved DEF Go
<1>6. CASE Go(p, "manifest", "recheck") /\ UNCHANGED req
  BY <1>0, <1>1, <1>4, <1>6, Moved DEF Go
<1> QED BY <1>2, <1>5, <1>6 DEF ReadManifest

(* A fetch that brought something. *)
LEMMA FetchedInv ==
  ASSUME MInv, NEW p \in Proc, NEW from, NEW to, NEW v \in Values,
         NEW write \in {"append", "merge"}, at[p] \in InFlight,
         at' = [at EXCEPT ![p] = "open"],
         req' = [req EXCEPT ![p].write = write,
                            ![p].final = fetched_final(from, to, v),
                            ![p].open = fetched_open(from, to, v)],
         UNCHANGED <<now, derived, flight, answer>>, UNCHANGED candles, calls' = calls
  PROVE  MInv' /\ Kept
<1>1. PICK final, open : final = fetched_final(from, to, v) /\ open = fetched_open(from, to, v)
  OBVIOUS
<1>2. final \in SUBSET MarketBar /\ open \in SUBSET MarketBar /\ \A b \in final : b.t < now
  BY <1>1, FetchedFinal DEF MInv
<1>3. at[p] # "none" /\ "open" \in Places \ {"none"} /\ "open" \in InFlight
  BY DEF InFlight, Places
<1>4. req[p] \in Req /\ DOMAIN req = Proc /\ calls \in Nat
  BY <1>3, ReqFacts
<1>5. /\ DOMAIN req' = Proc /\ \A q \in Proc \ {p} : req'[q] = req[q]
      /\ req'[p] = [req[p] EXCEPT !.write = write, !.final = final, !.open = open]
  BY <1>1, <1>4
<1>6. req'[p] \in Req /\ req'[p].final = final
  BY <1>2, <1>4, <1>5 DEF Req
<1>7. UNCHANGED <<candles, derived>> /\ now' = now /\ flight' = flight /\ answer' = answer
  OBVIOUS
<1> QED BY <1>2, <1>3, <1>4, <1>5, <1>6, <1>7, Moved

LEMMA FetchInv ==
  ASSUME MInv, NEW p \in Proc, FetchTail(p) \/ FetchWhole(p), calls' = calls
  PROVE  MInv' /\ Kept
<1>0. at[p] \in {"fetch_tail", "fetch_whole"} /\ at[p] \in InFlight /\ calls' \in Nat
      /\ UNCHANGED candles
  BY DEF FetchTail, FetchWhole, InFlight, MInv, IInv, TypeOK, fetch_from_sources
<1>1. PICK end, start, from : end = req[p].q.end /\ start = req[p].q.start
                              /\ from = req[p].from
  OBVIOUS
<1>2. CASE FetchTail(p)
  <2>1. PICK v \in Values : fetch_from_sources(p, req[p].from, v, "append",
          /\ Go(p, "fetch_tail", "recheck")
          /\ UNCHANGED <<now, derived, flight, req, answer>>)
    BY <1>2 DEF FetchTail
  <2>2. CASE fetched_final(from, end, v) \cup fetched_open(from, end, v) = {}
    <3>1. Go(p, "fetch_tail", "recheck") /\ UNCHANGED <<now, derived, flight, req, answer>>
      BY <1>1, <2>1, <2>2 DEF fetch_from_sources
    <3>2. "recheck" \in Places \ {"none"} /\ "recheck" \in InFlight
      BY DEF Places, InFlight
    <3> QED BY <1>0, <3>1, <3>2, Goes
  <2>3. CASE fetched_final(from, end, v) \cup fetched_open(from, end, v) # {}
    <3>1. /\ at' = [at EXCEPT ![p] = "open"]
          /\ req' = [req EXCEPT ![p].write = "append",
                                ![p].final = fetched_final(from, end, v),
                                ![p].open = fetched_open(from, end, v)]
          /\ UNCHANGED <<now, derived, flight, answer>>
      BY <1>1, <2>1, <2>3 DEF fetch_from_sources
    <3> QED BY <1>0, <3>1, FetchedInv
  <2> QED BY <2>2, <2>3
<1>3. CASE FetchWhole(p)
  <2>1. PICK v \in Values :
          fetch_from_sources(p, req[p].q.start, v, "merge", Landed(p, FALSE))
    BY <1>3 DEF FetchWhole
  <2>2. CASE fetched_final(start, end, v) \cup fetched_open(start, end, v) = {}
    <3>1. Landed(p, FALSE)
      BY <1>1, <2>1, <2>2 DEF fetch_from_sources
    <3> QED BY <1>0, <3>1, LandedInv
  <2>3. CASE fetched_final(start, end, v) \cup fetched_open(start, end, v) # {}
    <3>1. /\ at' = [at EXCEPT ![p] = "open"]
          /\ req' = [req EXCEPT ![p].write = "merge",
                                ![p].final = fetched_final(start, end, v),
                                ![p].open = fetched_open(start, end, v)]
          /\ UNCHANGED <<now, derived, flight, answer>>
      BY <1>1, <2>1, <2>3 DEF fetch_from_sources
    <3> QED BY <1>0, <3>1, FetchedInv
  <2> QED BY <2>2, <2>3
<1> QED BY <1>2, <1>3

----------------------------------------------------------------------------
(* The flight: storing. *)

(* A step of the candle store that changes no final candle. *)
LEMMA StoreStepInv ==
  ASSUME MInv, IInv', closed' = closed, UNCHANGED <<now, derived, flight, req, answer>>,
         UNCHANGED at
  PROVE  MInv' /\ Kept
<1> USE DEF MInv
<1>1. Stored' = Stored
  BY DEF Stored
<1>2. MTypeOK' /\ BatchesAreClosed' /\ FlightIsReleased'
  BY DEF MTypeOK, BatchesAreClosed, FlightIsReleased
<1>3. OnlyClosedAreFinal' /\ Kept
  BY <1>1 DEF OnlyClosedAreFinal, Kept
<1>4. AnswersAreComplete'
  BY DEF AnswersAreComplete
<1> QED BY <1>2, <1>3, <1>4

(* A step that stores or cleans up and moves on inside the flight. *)
LEMMA StoredInv ==
  ASSUME MInv, NEW p \in Proc, NEW to \in InFlight, IInv',
         \A t \in Times : closed[t] # Nil => closed'[t] # Nil,
         \A t \in Stored' : t < now,
         at[p] \in InFlight, at' = [at EXCEPT ![p] = to],
         now' = now, derived' = derived, flight' = flight, answer' = answer,
         DOMAIN req' = Proc, \A q \in Proc \ {p} : req'[q] = req[q],
         req'[p] \in Req, \A b \in req'[p].final : b.t < now
  PROVE  MInv' /\ Kept
<1> USE DEF MInv
<1>1. at' \in [Proc -> Places] /\ \A q \in Proc \ {p} : at'[q] = at[q]
  BY DEF MTypeOK, Places
<1>2. MTypeOK'
  BY <1>1 DEF MTypeOK
<1>3. FlightIsReleased'
  BY MoveKeepsFlight
<1>4. BatchesAreClosed'
  BY <1>1 DEF BatchesAreClosed
<1>5. OnlyClosedAreFinal' /\ Kept
  BY DEF OnlyClosedAreFinal, Kept
<1>6. AnswersAreComplete'
  BY DEF AnswersAreComplete
<1> QED BY <1>2, <1>3, <1>4, <1>5, <1>6

LEMMA PersistInv ==
  ASSUME MInv, NEW p \in Proc, PersistOpen(p), calls' = calls
  PROVE  MInv' /\ Kept
<1>0. /\ at[p] = "open" /\ at' = [at EXCEPT ![p] = "opened"]
      /\ now' = now /\ derived' = derived /\ flight' = flight /\ answer' = answer /\ req' = req
  BY DEF PersistOpen, Go
<1>1. at[p] \in InFlight /\ "opened" \in InFlight /\ at[p] # "none"
  BY <1>0 DEF InFlight
<1>2. /\ req[p] \in Req /\ req[p].open \in SUBSET MarketBar
      /\ (\A b \in req[p].final : b.t < now) /\ DOMAIN req = Proc /\ calls \in Nat
  BY <1>1, ReqFacts
<1>3. PICK b \in req[p].open : upsert_open(p, b)
  BY DEF PersistOpen
<1>4. IInv'
  <2>1. calls' \in Nat /\ b \in MarketBar /\ IInv
    BY <1>2 DEF MInv
  <2> QED BY <1>3, <2>1, UpsertOpenIInv
<1>5. closed' = closed
  BY <1>3, OthersKeepClosed
<1>6. Stored' = Stored
  BY <1>5 DEF Stored
<1>7. \A t \in Stored' : t < now
  BY <1>6 DEF MInv, OnlyClosedAreFinal
<1> QED BY <1>0, <1>1, <1>2, <1>4, <1>5, <1>7, StoredInv

LEMMA OpenDoneInv ==
  ASSUME MInv, NEW p \in Proc, OpenDone(p), calls' = calls
  PROVE  MInv' /\ Kept
<1>0. at[p] \in {"open", "opened"} /\ UNCHANGED candles
  BY DEF OpenDone
<1>1. /\ req[p] \in Req /\ req[p].write \in {"append", "merge"}
      /\ (\A b \in req[p].final : b.t < now) /\ DOMAIN req = Proc /\ calls \in Nat
  BY <1>0, ReqFacts
<1>2. CASE Landed(p, TRUE)
  BY <1>0, <1>1, <1>2, LandedInv
<1>3. CASE /\ at' = [at EXCEPT ![p] = req[p].write]
           /\ UNCHANGED <<now, derived, flight, req, answer>>
  <2>1. PICK to : to = req[p].write
    OBVIOUS
  <2>2. to \in InFlight /\ to \in Places \ {"none"}
    BY <1>1, <2>1 DEF InFlight, Places
  <2>3. UNCHANGED <<candles, derived>> /\ now' = now /\ flight' = flight /\ answer' = answer
        /\ req' = req /\ at' = [at EXCEPT ![p] = to]
    BY <1>0, <1>3, <2>1
  <2> QED BY <1>1, <2>2, <2>3, Moved
<1> QED BY <1>2, <1>3 DEF OpenDone

(* Rows of the exchange over the stored ones: nothing is lost. *)
LEMMA OverlaidFacts ==
  ASSUME MInv, NEW rows \in SUBSET MarketBar, \A b \in rows : b.t < now,
         closed' = Overlaid(rows)
  PROVE  /\ closed' \in [Times -> MarketBar \cup {Nil}]
         /\ \A t \in Times : closed[t] # Nil => closed'[t] # Nil
         /\ \A t \in Stored' : t < now
<1>1. closed \in [Times -> MarketBar \cup {Nil}] /\ \A t \in Stored : t < now
  BY DEF MInv, IInv, TypeOK, OnlyClosedAreFinal
<1>2. ASSUME NEW t \in Times, \E b \in rows : b.t = t
      PROVE  closed'[t] \in rows /\ t < now
  BY <1>2 DEF Overlaid
<1>3. \A t \in Times : (~\E b \in rows : b.t = t) => closed'[t] = closed[t]
  BY DEF Overlaid
<1>4. closed' = [t \in Times |-> closed'[t]]
  BY DEF Overlaid
<1>5. Nil \notin MarketBar
  BY NilIsNone
<1>6. \A t \in Times : closed'[t] \in MarketBar \cup {Nil}
  BY <1>1, <1>2, <1>3
<1>7. closed' \in [Times -> MarketBar \cup {Nil}]
  BY <1>4, <1>6
<1>8. \A t \in Times : closed[t] # Nil => closed'[t] # Nil
  BY <1>2, <1>3, <1>5
<1>9. ASSUME NEW t \in Stored' PROVE t < now
  BY <1>1, <1>2, <1>3, <1>9 DEF Stored
<1> QED BY <1>7, <1>8, <1>9

(* Neither does a write disturb what the calls of the store rely on. *)
LEMMA WriteIInv ==
  ASSUME IInv, closed' \in [Times -> MarketBar \cup {Nil}], fmt' \in {"csv", "parquet"},
         \A t \in Times : closed[t] # Nil => closed'[t] # Nil,
         UNCHANGED <<current, checkpoint, lock, pc, job, result, fails>>, calls' = calls
  PROVE  IInv'
<1> USE DEF IInv
<1>1. TypeOK'
  BY DEF TypeOK
<1>2. checkpoint # Nil => checkpoint.last \in Times \cup {Nil}
  BY DEF TypeOK, StreamCheckpoint
<1>3. CheckpointIsCommitted'
  BY <1>2 DEF CheckpointIsCommitted
<1>4. \A q \in Proc : pc[q] # "idle" =>
        /\ job[q].bar.t \in Times
        /\ job[q].seen # Nil => job[q].seen.last \in Times \cup {Nil}
  BY JobFacts
<1>5. JobInv'
  BY <1>4 DEF JobInv
<1>6. LockInv'
  BY DEF LockInv
<1> QED BY <1>1, <1>3, <1>5, <1>6

LEMMA WriteInv ==
  ASSUME MInv, NEW p \in Proc, append_stream(p) \/ MergeFinalized(p), calls' = calls
  PROVE  MInv' /\ Kept
<1>0. /\ at[p] \in {"append", "merge"} /\ at' = [at EXCEPT ![p] = "clean"]
      /\ now' = now /\ derived' = derived /\ flight' = flight /\ answer' = answer /\ req' = req
      /\ UNCHANGED <<current, checkpoint, lock, pc, job, result, fails>>
  BY DEF append_stream, MergeFinalized, Go
<1>1. at[p] \in InFlight /\ "clean" \in InFlight /\ at[p] # "none"
  BY <1>0 DEF InFlight
<1>2. /\ req[p] \in Req /\ req[p].final \in SUBSET MarketBar
      /\ (\A b \in req[p].final : b.t < now) /\ DOMAIN req = Proc
  BY <1>1, ReqFacts
<1>3. PICK rows \in SUBSET req[p].final : closed' = Overlaid(rows)
  BY DEF append_stream, MergeFinalized
<1>4. rows \in SUBSET MarketBar /\ \A b \in rows : b.t < now
  BY <1>2, <1>3
<1>5. /\ closed' \in [Times -> MarketBar \cup {Nil}]
      /\ \A t \in Times : closed[t] # Nil => closed'[t] # Nil
      /\ \A t \in Stored' : t < now
  BY <1>3, <1>4, OverlaidFacts
<1>6. fmt' \in {"csv", "parquet"}
  BY DEF append_stream, MergeFinalized, MInv, IInv, TypeOK
<1>7. IInv'
  BY <1>0, <1>5, <1>6, WriteIInv DEF MInv
<1> QED BY <1>0, <1>1, <1>2, <1>5, <1>7, StoredInv

LEMMA CleanInv ==
  ASSUME MInv, NEW p \in Proc, CleanCurrent(p), calls' = calls
  PROVE  MInv' /\ Kept
<1>0. /\ at[p] = "clean" /\ at' = at /\ req[p].final # {}
      /\ now' = now /\ derived' = derived /\ flight' = flight /\ answer' = answer
      /\ UNCHANGED <<closed, fmt, checkpoint, lock, pc, job, result, fails>>
  BY DEF CleanCurrent
<1>1. at[p] \in InFlight /\ "clean" \in InFlight /\ at[p] # "none"
  BY <1>0 DEF InFlight
<1>2. /\ req[p] \in Req /\ req[p].final \in SUBSET MarketBar
      /\ (\A b \in req[p].final : b.t < now) /\ DOMAIN req = Proc
  BY <1>1, ReqFacts
<1>3. First(p) \in MarketBar
  <2>1. {b.t : b \in req[p].final} \in SUBSET Nat /\ {b.t : b \in req[p].final} # {}
    BY <1>0, <1>2, TimesAreNumbers DEF MarketBar
  <2>2. PICK x \in {b.t : b \in req[p].final} : \A y \in {b.t : b \in req[p].final} : x <= y
    BY <2>1, LeastNatural
  <2>3. \E b \in req[p].final : \A c \in req[p].final : b.t <= c.t
    BY <2>2
  <2>4. First(p) \in req[p].final
    BY <2>3 DEF First
  <2> QED BY <1>2, <2>4
<1>4. PICK f \in MarketBar : f = First(p)
  BY <1>3
<1>5. /\ current' = [current EXCEPT ![<<f.x, f.t>>] = Nil]
      /\ req' = [req EXCEPT ![p].final = @ \ {f}]
  BY <1>4 DEF CleanCurrent
<1>6. /\ DOMAIN req' = Proc /\ \A q \in Proc \ {p} : req'[q] = req[q]
      /\ req'[p] = [req[p] EXCEPT !.final = @ \ {f}]
  BY <1>2, <1>5
<1>7. req'[p] \in Req /\ req'[p].final = req[p].final \ {f}
  BY <1>2, <1>6 DEF Req
<1>8. TypeOK'
  <2>1. IInv
    BY DEF MInv
  <2>2. <<f.x, f.t>> \in Transports \X Times
    BY DEF MarketBar
  <2> QED BY <1>0, <1>5, <2>1, <2>2 DEF IInv, TypeOK
<1>9. IInv'
  BY <1>0, <1>8 DEF MInv, IInv, CheckpointIsCommitted, JobInv, LockInv
<1>10. \A t \in Stored' : t < now
  BY <1>0 DEF MInv, OnlyClosedAreFinal, Stored
<1>11. at' = [at EXCEPT ![p] = "clean"]
  BY <1>0 DEF MInv, MTypeOK
<1>12. \A b \in req'[p].final : b.t < now
  BY <1>2, <1>7
<1> QED BY <1>0, <1>1, <1>6, <1>7, <1>9, <1>10, <1>11, <1>12, StoredInv

LEMMA EndFlightInv ==
  ASSUME MInv, NEW p \in Proc, calls' = calls,
         OpenFailed(p) \/ AppendRaises(p) \/ FetchFails(p) \/ Cleaned(p)
  PROVE  MInv' /\ Kept
<1>0. calls' \in Nat
  BY DEF MInv, IInv, TypeOK
<1>1. CASE OpenFailed(p) \/ FetchFails(p)
  BY <1>0, <1>1, RaiseInv DEF OpenFailed, FetchFails
<1>2. CASE AppendRaises(p)
  <2>1. PICK status \in {"unsupported", "conflict"} : Raise(p, status)
    BY <1>2 DEF AppendRaises
  <2> QED BY <1>0, <1>2, <2>1, RaiseInv DEF AppendRaises
<1>3. CASE Cleaned(p)
  BY <1>0, <1>3, LandedInv DEF Cleaned
<1> QED BY <1>1, <1>2, <1>3

----------------------------------------------------------------------------
(* After the flight. *)

LEMMA AnswerBaseInv ==
  ASSUME MInv, NEW p \in Proc, AnswerBase(p), calls' = calls
  PROVE  MInv' /\ Kept
<1>0. /\ calls' \in Nat /\ at[p] = "after" /\ UNCHANGED <<candles, derived>> /\ now' = now
      /\ flight' = flight /\ req' = req
  BY DEF MInv, IInv, TypeOK, AnswerBase
<1>1. at[p] \notin InFlight
  BY <1>0 DEF InFlight
<1>2. PICK bars : bars = StoredTimes(req[p].q) \cap InRange(req[p].q)
  OBVIOUS
<1>3. ASSUME NEW status, Answer(p, status, {}) PROVE MInv' /\ Kept
  BY <1>0, <1>1, <1>3, Answered
<1>4. ASSUME bars = {} \/ coverage_complete(req[p].q), Answer(p, "ok", bars)
      PROVE  MInv' /\ Kept
  <2>1. bars # {} => Grid(req[p].q) \subseteq bars
    BY <1>2, <1>4, CoverageInRange
  <2> QED BY <1>0, <1>1, <1>4, <2>1, Answered
<1> QED BY <1>2, <1>3, <1>4 DEF AnswerBase

LEMMA DerivedInv ==
  ASSUME MInv, NEW p \in Proc, CheckDerived(p) \/ Reread(p), calls' = calls
  PROVE  MInv' /\ Kept
<1>0. /\ calls' \in Nat /\ at[p] \in {"after", "reread"} /\ UNCHANGED <<candles, derived>>
      /\ now' = now /\ flight' = flight /\ req' = req
  BY DEF MInv, IInv, TypeOK, CheckDerived, Reread
<1>1. at[p] \notin InFlight
  BY <1>0 DEF InFlight
<1>2. PICK bars : bars = StoredTimes(req[p].q) \cap InRange(req[p].q)
  OBVIOUS
<1>3. ASSUME NEW status, Answer(p, status, {}) PROVE MInv' /\ Kept
  BY <1>0, <1>1, <1>3, Answered
<1>4. ASSUME coverage_complete(req[p].q), Answer(p, "ok", bars) PROVE MInv' /\ Kept
  <2>1. Grid(req[p].q) \subseteq bars
    BY <1>2, <1>4, CoverageInRange
  <2> QED BY <1>0, <1>1, <1>4, <2>1, Answered
<1>5. ASSUME NEW to \in {"reread", "aggregate"}, Go(p, "after", to), UNCHANGED answer
      PROVE  MInv' /\ Kept
  <2>1. to \in Places \ {"none"} /\ "after" \notin InFlight
    BY DEF Places, InFlight
  <2>2. UNCHANGED <<now, derived, flight, req, answer, candles>>
    BY <1>0, <1>5
  <2> QED BY <1>5, <2>1, <2>2, Goes
<1> QED BY <1>2, <1>3, <1>4, <1>5 DEF CheckDerived, Reread

(* What is aggregated are candles, so a derived candle is one. *)
LEMMA AggregateIsSome ==
  ASSUME MInv, NEW q \in BarQuery
  PROVE  aggregate_market_bars(q) \in Aggregates
<1> DEFINE base == {t \in Stored : q.start <= t /\ t < q.end
                      /\ q.start <= bucket_time(t) /\ bucket_time(t) < q.end}
           D == {bucket_time(t) : t \in base}
<1>1. \A t \in base : t \in Nat /\ closed[t] \in MarketBar
  BY TimesAreNumbers DEF MInv, IInv, TypeOK, Stored
<1>2. \A t \in base : bucket_time(t) \in Nat
  <2> SUFFICES ASSUME NEW t \in Nat PROVE bucket_time(t) \in Nat
    BY <1>1
  <2>1. Ratio \in Nat \ {0}
    BY ServiceAssumption
  <2>2. t \div Ratio \in Nat
    BY <2>1
  <2>3. \A a, b \in Nat : a * b \in Nat
    OBVIOUS
  <2> QED BY <2>1, <2>2, <2>3 DEF bucket_time
<1>3. D \in SUBSET Nat
  BY <1>2
<1>4. aggregate_market_bars(q) = [b \in D |-> {closed[t] : t \in {u \in base : bucket_time(u) = b}}]
  BY DEF aggregate_market_bars
<1>5. \A b \in D : {closed[t] : t \in {u \in base : bucket_time(u) = b}} \in SUBSET MarketBar
  BY <1>1
<1> HIDE DEF base, D
<1>6. aggregate_market_bars(q) \in [D -> SUBSET MarketBar]
  BY <1>4, <1>5
<1> QED BY <1>3, <1>6 DEF Aggregates

LEMMA AggregateInv ==
  ASSUME MInv, NEW p \in Proc, aggregate_stored_base(p), calls' = calls
  PROVE  MInv' /\ Kept
<1>0. /\ at[p] = "aggregate" /\ UNCHANGED <<candles, derived>>
      /\ now' = now /\ flight' = flight
  BY DEF aggregate_stored_base
<1>1. /\ at[p] \notin InFlight /\ at[p] # "none"
      /\ "merge_derived" \in Places \ {"none"} /\ "reread" \in Places \ {"none"}
  BY <1>0 DEF InFlight, Places
<1>2. /\ req[p] \in Req /\ req[p].q \in BarQuery
      /\ (\A b \in req[p].final : b.t < now) /\ DOMAIN req = Proc /\ calls \in Nat
  BY <1>1, ReqFacts
<1>3. PICK agg \in Aggregates : agg = aggregate_market_bars(req[p].q)
  BY <1>2, AggregateIsSome
<1>4. CASE /\ Go(p, "aggregate", "merge_derived") /\ req' = [req EXCEPT ![p].agg = agg]
           /\ UNCHANGED answer
  <2>1. /\ DOMAIN req' = Proc /\ \A q \in Proc \ {p} : req'[q] = req[q]
        /\ req'[p] = [req[p] EXCEPT !.agg = agg]
    BY <1>2, <1>4
  <2>2. req'[p] \in Req /\ req'[p].final = req[p].final
    BY <1>2, <2>1 DEF Req
  <2> QED BY <1>0, <1>1, <1>2, <1>4, <2>1, <2>2, Moved DEF Go
<1>5. CASE Answer(p, "ok", {}) /\ UNCHANGED req
  BY <1>0, <1>1, <1>2, <1>5, Answered
<1>6. CASE Go(p, "aggregate", "reread") /\ UNCHANGED <<req, answer>>
  <2>1. UNCHANGED <<now, derived, flight, req, answer, candles>>
    BY <1>0, <1>6
  <2> QED BY <1>0, <1>1, <1>6, <2>1, Goes
<1> QED BY <1>3, <1>4, <1>5, <1>6 DEF aggregate_stored_base

LEMMA MergeDerivedInv ==
  ASSUME MInv, NEW p \in Proc, merge_derived_bars(p), calls' = calls
  PROVE  MInv' /\ Kept
<1> USE DEF MInv
<1>0. /\ at[p] = "merge_derived" /\ at' = [at EXCEPT ![p] = "reread"]
      /\ UNCHANGED candles /\ now' = now /\ flight' = flight /\ req' = req /\ answer' = answer
      /\ derived' = [b \in Buckets |-> IF b \in DOMAIN req[p].agg THEN req[p].agg[b]
                                       ELSE derived[b]]
  BY DEF merge_derived_bars, Go
<1>1. /\ at[p] \notin InFlight /\ at[p] # "none" /\ "reread" \in Places
  BY <1>0 DEF InFlight, Places
<1>2. req[p].agg \in Aggregates /\ calls' \in Nat
  BY <1>1, ReqFacts DEF Req
<1>3. \A b \in DOMAIN req[p].agg : req[p].agg[b] # Nil
  <2>1. PICK D \in SUBSET Nat : req[p].agg \in [D -> SUBSET MarketBar]
    BY <1>2 DEF Aggregates
  <2>2. \A b \in DOMAIN req[p].agg : req[p].agg[b] \in SUBSET MarketBar
    BY <2>1
  <2> QED BY <2>2, ServiceAssumption
<1>4. closed' = closed
  BY <1>0 DEF candles
<1>5. Kept
  BY <1>0, <1>3, <1>4 DEF Kept
<1>6. IInv'
  BY <1>0, <1>2, CandlesKeepIInv
<1>7. OnlyClosedAreFinal'
  BY <1>0, <1>4 DEF OnlyClosedAreFinal, Stored
<1>8. FlightIsReleased'
  BY <1>0, <1>1, MoveKeepsFlight
<1>9. at' \in [Proc -> Places] /\ \A q \in Proc \ {p} : at'[q] = at[q]
  BY <1>0, <1>1 DEF MTypeOK
<1>10. MTypeOK'
  BY <1>0, <1>1, <1>9 DEF MTypeOK
<1>11. BatchesAreClosed'
  BY <1>0, <1>1, <1>9 DEF BatchesAreClosed
<1>12. AnswersAreComplete'
  BY <1>0 DEF AnswersAreComplete
<1> QED BY <1>5, <1>6, <1>7, <1>8, <1>10, <1>11, <1>12

----------------------------------------------------------------------------
(* The stream, the store's own steps, compaction and the clock. *)

(* A step of the candle store that stores only candles that are over. *)
LEMMA StoreWriteInv ==
  ASSUME MInv, IInv', UNCHANGED service,
         \A t \in Times : closed[t] # Nil => closed'[t] # Nil,
         \A t \in Stored' : t < now
  PROVE  MInv' /\ Kept
<1> USE DEF MInv
<1>0. /\ now' = now /\ derived' = derived /\ flight' = flight /\ at' = at
      /\ req' = req /\ answer' = answer
  BY DEF service
<1>1. MTypeOK' /\ BatchesAreClosed' /\ FlightIsReleased' /\ AnswersAreComplete'
  BY <1>0 DEF MTypeOK, BatchesAreClosed, FlightIsReleased, AnswersAreComplete
<1>2. OnlyClosedAreFinal' /\ Kept
  BY <1>0 DEF OnlyClosedAreFinal, Kept
<1> QED BY <1>1, <1>2

LEMMA StoreKeepsInv ==
  ASSUME MInv, IInv', UNCHANGED service, closed' = closed
  PROVE  MInv' /\ Kept
<1>1. Stored' = Stored
  BY DEF Stored
<1>2. (\A t \in Stored' : t < now) /\ \A t \in Times : closed[t] # Nil => closed'[t] # Nil
  BY <1>1 DEF MInv, OnlyClosedAreFinal
<1> QED BY <1>2, StoreWriteInv

(* commit_closed adds its own candle at most. *)
LEMMA CommitAddsOne ==
  ASSUME TypeOK, NEW p \in Proc, NEW b \in MarketBar, commit_closed(p, b)
  PROVE  \A t \in Times : t # b.t => closed'[t] = closed[t]
BY DEF commit_closed, CommitNewer, CommitDuplicate, CommitConflict, CommitMerge, store, TypeOK

LEMMA StreamInv ==
  ASSUME MInv, NEW p \in Proc, StreamCall(p)
  PROVE  MInv' /\ Kept
<1>0. calls' \in Nat /\ UNCHANGED service /\ IInv /\ TypeOK
  BY DEF StreamCall, MInv, IInv, TypeOK
<1>1. ASSUME NEW b \in OpenBars, upsert_open(p, b)
      PROVE  MInv' /\ Kept
  <2>1. b \in MarketBar
    BY BarsAssumption
  <2>2. IInv'
    BY <1>0, <1>1, <2>1, UpsertOpenIInv
  <2>3. closed' = closed
    BY <1>1, OthersKeepClosed
  <2> QED BY <1>0, <2>2, <2>3, StoreKeepsInv
<1>2. ASSUME NEW b \in ClosedBars, b.t < now, commit_closed(p, b)
      PROVE  MInv' /\ Kept
  <2>1. b \in MarketBar
    BY BarsAssumption
  <2>2. IInv'
    BY <1>0, <1>2, <2>1, CommitClosedIInv
  <2>3. \A t \in Times : closed[t] # Nil => closed'[t] = closed[t]
    BY <1>0, <1>2, <2>1, CommitKeepsFinal
  <2>4. \A t \in Times : t # b.t => closed'[t] = closed[t]
    BY <1>0, <1>2, <2>1, CommitAddsOne
  <2>5. \A t \in Stored' : t < now
    BY <1>2, <2>4 DEF MInv, OnlyClosedAreFinal, Stored
  <2>6. \A t \in Times : closed[t] # Nil => closed'[t] # Nil
    BY <2>3
  <2> QED BY <1>0, <2>2, <2>5, <2>6, StoreWriteInv
<1> QED BY <1>1, <1>2 DEF StreamCall

LEMMA StepInv ==
  ASSUME MInv, NEW p \in Proc, Step(p) \/ Fail(p), UNCHANGED service, calls' = calls
  PROVE  MInv' /\ Kept
<1>1. calls' \in Nat /\ IInv
  BY DEF MInv, IInv, TypeOK
<1>2. IInv'
  BY <1>1, StepIInv, FailIInv
<1>3. closed' = closed
  BY OthersKeepClosed
<1> QED BY <1>2, <1>3, StoreKeepsInv

LEMMA CompactInv ==
  ASSUME MInv, Compacted
  PROVE  MInv' /\ Kept
<1>1. PICK f \in {"csv", "parquet"} : compact(f) /\ UNCHANGED <<service, calls>>
  BY DEF Compacted
<1>2. fmt' = f /\ UNCHANGED <<closed, current, checkpoint, lock, pc, job, result, fails>>
      /\ UNCHANGED service /\ calls' = calls
  BY <1>1 DEF compact
<1>3. IInv'
  BY <1>2 DEF MInv, IInv, TypeOK, CheckpointIsCommitted, JobInv, LockInv
<1> QED BY <1>2, <1>3, StoreKeepsInv

LEMMA TickInv ==
  ASSUME MInv, Tick, calls' = calls
  PROVE  MInv' /\ Kept
<1> USE DEF MInv
<1>0. /\ now' = now + 1 /\ UNCHANGED candles
      /\ derived' = derived /\ flight' = flight /\ at' = at /\ req' = req /\ answer' = answer
  BY DEF Tick
<1>1. IInv' /\ now \in Nat
  BY <1>0, CandlesKeepIInv DEF IInv, TypeOK, MTypeOK
<1>2. closed' = closed /\ Stored' = Stored
  BY <1>0 DEF candles, Stored
<1>3. \A t \in Nat : t < now => t < now'
  BY <1>0, <1>1
<1>4. \A t \in Stored : t \in Nat
  BY TimesAreNumbers DEF Stored
<1>5. OnlyClosedAreFinal' /\ Kept
  BY <1>0, <1>2, <1>3, <1>4 DEF OnlyClosedAreFinal, Kept
<1>6. MTypeOK' /\ FlightIsReleased' /\ AnswersAreComplete'
  BY <1>0, <1>1 DEF MTypeOK, FlightIsReleased, AnswersAreComplete
<1>7. BatchesAreClosed'
  <2> SUFFICES ASSUME NEW p \in Proc, at[p] # "none", NEW b \in req[p].final
               PROVE  b.t < now'
    BY <1>0 DEF BatchesAreClosed
  <2>1. b \in MarketBar /\ b.t < now
    BY ReqFacts
  <2>2. b.t \in Nat
    BY <2>1, TimesAreNumbers DEF MarketBar
  <2> QED BY <1>3, <2>1, <2>2
<1> QED BY <1>1, <1>5, <1>6, <1>7

LEMMA ServiceStepInv ==
  ASSUME MInv, NEW p \in Proc, ServiceStep(p), calls' = calls
  PROVE  MInv' /\ Kept
BY EnsureInv, CheckInv, ManifestInv, FetchInv, PersistInv, EndFlightInv, OpenDoneInv,
   WriteInv, CleanInv, AnswerBaseInv, DerivedInv, AggregateInv, MergeDerivedInv
   DEF ServiceStep

LEMMA StutterInv ==
  ASSUME MInv, UNCHANGED mvars
  PROVE  MInv' /\ Kept
<1>1. UNCHANGED candles /\ calls' = calls /\ UNCHANGED service /\ closed' = closed
  BY DEF mvars, candles, service
<1>2. IInv'
  BY <1>1, CandlesKeepIInv DEF MInv, IInv, TypeOK
<1> QED BY <1>1, <1>2, StoreKeepsInv

LEMMA MNextInv ==
  ASSUME MInv, [MNext]_mvars
  PROVE  MInv' /\ Kept
<1>1. ASSUME NEW p \in Proc, Progress(p) PROVE MInv' /\ Kept
  BY <1>1, ServiceStepInv, StepInv DEF Progress
<1>2. ASSUME NEW p \in Proc, FetchFails(p), calls' = calls PROVE MInv' /\ Kept
  BY <1>2, EndFlightInv
<1>3. ASSUME NEW p \in Proc, StoreFails(p) PROVE MInv' /\ Kept
  BY <1>3, StepInv DEF StoreFails
<1> QED BY <1>1, <1>2, <1>3, CallInv, StreamInv, CompactInv, TickInv, StutterInv DEF MNext

LEMMA MInitInv == MInit => MInv
<1> SUFFICES ASSUME MInit PROVE MInv
  OBVIOUS
<1>1. IInv
  BY InitIInv DEF MInit
<1>2. \A p \in Proc : at[p] = "none" /\ answer[p] = Nil
  BY DEF MInit
<1>3. MTypeOK
  BY <1>2, ServiceAssumption DEF MInit, MTypeOK, Places
<1>4. FlightIsReleased /\ BatchesAreClosed /\ AnswersAreComplete
  BY <1>2 DEF MInit, FlightIsReleased, BatchesAreClosed, AnswersAreComplete
<1>5. Stored = {}
  BY DEF MInit, Init, Stored
<1> QED BY <1>1, <1>3, <1>4, <1>5 DEF MInv, OnlyClosedAreFinal

(* The inductive invariant of the service. *)
THEOREM ServiceInvariance == MSpec => []MInv
BY MInitInv, MNextInv, PTL DEF MSpec

(* The flight lock of _ensure_stored is released on every path, whichever  *)
(* of the network, the open row and the append raises.                     *)
THEOREM FlightsAreReleased == MSpec => []FlightIsReleased
BY ServiceInvariance, PTL DEF MInv

(* A candle that is still being formed when it is fetched never becomes a  *)
(* final candle of the series, for any number of threads, processes and    *)
(* stream deliveries and however far the clock runs before it is stored.   *)
THEOREM OnlyClosedBecomeFinal == MSpec => []OnlyClosedAreFinal
BY ServiceInvariance, PTL DEF MInv

(* fetch_bars answers with candles only when it has all the expected ones. *)
THEOREM AnswersStayComplete == MSpec => []AnswersAreComplete
BY ServiceInvariance, PTL DEF MInv

(* append_strictly_newer, the merge of a fetched range, _merge_derived_bars *)
(* and commit_closed lose no candle, base or derived, in any interleaving. *)
THEOREM CandlesAreNeverLost == MSpec => NoCandleLost
<1>1. MInv /\ [MNext]_mvars => [Kept]_mvars
  BY MNextInv
<1>2. MInv /\ [MNext]_mvars =>
        [/\ \A t \in Times : closed[t] # Nil => closed'[t] # Nil
         /\ \A b \in Buckets : derived[b] # Nil => derived'[b] # Nil]_mvars
  BY <1>1 DEF Kept
<1> QED BY <1>2, ServiceInvariance, PTL DEF MSpec, NoCandleLost

----------------------------------------------------------------------------
(* Single flight: all threads belong to one process and no stream commits  *)
(* candles beside them, so only the holder of the flight lock changes what *)
(* is stored, and what it has found out there stays true.                  *)

OneHome == (\A p, q \in Proc : Home[p] = Home[q]) /\ ClosedBars = {}

BaseMissing(q) == ~(InRange(q) \subseteq Stored)

Careful == {"manifest", "fetch_tail", "recheck", "fetch_whole", "open", "opened", "append"}

FlightOf(p) ==
  /\ at[p] \in InFlight => flight[Home[p]] = p
  /\ at[p] \in {"manifest", "fetch_tail", "recheck", "fetch_whole"} => BaseMissing(req[p].q)
  /\ at[p] = "fetch_tail" => \A t \in Stored : t < req[p].from
  /\ at[p] \in {"open", "opened", "append"} /\ req[p].write = "append" =>
       \A t \in Stored : \A b \in req[p].final : t < b.t
  /\ at[p] = "append" => req[p].write = "append" /\ req[p].final # {}
  /\ answer[p] # Nil => answer[p].status # "conflict"

FInv == \A p \in Proc : FlightOf(p)

(* On the base grid every open time in the range is expected. *)
LEMMA BaseCoverage ==
  ASSUME NEW q \in BarQuery
  PROVE  /\ coverage_complete(base_query(q)) <=> ~BaseMissing(q)
         /\ stored_coverage_complete(base_query(q)) <=> ~BaseMissing(q)
<1>1. PICK b : b = base_query(q)
  OBVIOUS
<1>2. b.tf = "base" /\ b.start = q.start /\ b.end = q.end /\ b.start \in Nat
  BY <1>1 DEF base_query, BarQuery
<1>3. Duration(b) = 1 /\ StoredTimes(b) = Stored
  BY <1>2 DEF Duration, StoredTimes
<1>4. InRange(b) = InRange(q)
  BY <1>2 DEF InRange
<1>5. \A t \in InRange(b) : (t - b.start) % 1 = 0
  BY <1>2, TimesAreNumbers DEF InRange
<1>6. Grid(b) = InRange(q)
  BY <1>3, <1>4, <1>5 DEF Grid
<1> QED BY <1>1, <1>3, <1>4, <1>6 DEF coverage_complete, stored_coverage_complete, BaseMissing

LEMMA CarefulInFlight == Careful \subseteq InFlight
BY DEF Careful, InFlight

(* The other threads notice nothing. *)
LEMMA OthersFly ==
  ASSUME OneHome, FInv, NEW p \in Proc,
         \A q \in Proc \ {p} : at'[q] = at[q] /\ req'[q] = req[q] /\ answer'[q] = answer[q],
         closed' = closed \/ at[p] \in InFlight,
         \A q \in Proc \ {p} : flight[Home[q]] = q => flight'[Home[q]] = q,
         FlightOf(p)'
  PROVE  FInv'
<1> SUFFICES ASSUME NEW q \in Proc \ {p} PROVE FlightOf(q)'
  BY DEF FInv
<1>1. FlightOf(q) /\ FlightOf(p)
  BY DEF FInv
<1>2. CASE at[q] \in InFlight
  <2>1. at[p] \notin InFlight
    BY <1>1, <1>2 DEF FlightOf, OneHome
  <2>2. closed' = closed /\ Stored' = Stored
    BY <2>1 DEF Stored
  <2>3. BaseMissing(req[q].q) => BaseMissing(req[q].q)'
    BY <2>2 DEF BaseMissing, InRange
  <2> QED BY <1>1, <1>2, <2>2, <2>3 DEF FlightOf, BaseMissing, InRange
<1>3. CASE at[q] \notin InFlight
  <2>1. at'[q] = at[q] /\ answer'[q] = answer[q] /\ at'[q] \notin InFlight
    BY <1>3
  <2>2. at'[q] \notin Careful
    BY <2>1, CarefulInFlight
  <2> QED BY <1>1, <2>1, <2>2 DEF FlightOf, Careful
<1> QED BY <1>2, <1>3

LEMMA QuietFlight ==
  ASSUME NEW p \in Proc, at'[p] \notin Careful,
         at'[p] \in InFlight => flight'[Home[p]] = p,
         answer'[p] # Nil => answer'[p].status # "conflict"
  PROVE  FlightOf(p)'
BY DEF FlightOf, Careful

(* A thread comes to a place where it relies on nothing it has read. *)
LEMMA ComesToRest ==
  ASSUME OneHome, MInv, FInv, NEW p \in Proc, NEW to, to \notin Careful,
         at' = [at EXCEPT ![p] = to], \A q \in Proc \ {p} : req'[q] = req[q],
         \A q \in Proc \ {p} : answer'[q] = answer[q],
         answer'[p] # Nil => answer'[p].status # "conflict",
         closed' = closed \/ at[p] \in InFlight,
         to \in InFlight => flight'[Home[p]] = p,
         \A q \in Proc \ {p} : flight[Home[q]] = q => flight'[Home[q]] = q
  PROVE  FInv'
<1>1. at'[p] = to /\ \A q \in Proc \ {p} : at'[q] = at[q]
  BY DEF MInv, MTypeOK
<1>2. FlightOf(p)'
  BY <1>1, QuietFlight
<1> QED BY <1>1, <1>2, OthersFly

LEMMA LandedFInv ==
  ASSUME OneHome, MInv, FInv, NEW p \in Proc, NEW changed, Landed(p, changed),
         at[p] \in InFlight, UNCHANGED candles
  PROVE  FInv'
<1>0. /\ at' = [at EXCEPT ![p] = "after"] /\ answer' = answer
      /\ req' = [req EXCEPT ![p].changed = changed]
      /\ flight' = [flight EXCEPT ![Home[p]] = Nil]
  BY DEF Landed
<1>1. "after" \notin Careful /\ "after" \notin InFlight
  BY DEF Careful, InFlight
<1>2. \A q \in Proc \ {p} : req'[q] = req[q] /\ answer'[q] = answer[q]
  BY <1>0 DEF MInv, MTypeOK
<1>3. flight[Home[p]] = p /\ (answer[p] # Nil => answer[p].status # "conflict")
  BY DEF FInv, FlightOf
<1>4. \A q \in Proc \ {p} : flight[Home[q]] = q => flight'[Home[q]] = q
  BY <1>0, <1>3, NilIsNone DEF OneHome
<1>5. closed' = closed
  BY DEF candles
<1> QED BY <1>0, <1>1, <1>2, <1>3, <1>4, <1>5, ComesToRest

LEMMA AnsweredFInv ==
  ASSUME OneHome, MInv, FInv, NEW p \in Proc, NEW status, NEW bars, status # "conflict",
         Answer(p, status, bars), UNCHANGED candles, req' = req,
         \/ flight' = flight
         \/ flight' = [h \in Processes |-> IF flight[h] = p THEN Nil ELSE flight[h]]
  PROVE  FInv'
<1>0. /\ at' = [at EXCEPT ![p] = "none"]
      /\ answer' = [answer EXCEPT ![p] =
            [status |-> status, q |-> req[p].q, op |-> req[p].op, bars |-> bars]]
  BY DEF Answer
<1>1. "none" \notin Careful /\ "none" \notin InFlight
  BY DEF Careful, InFlight
<1>2. (\A q \in Proc \ {p} : answer'[q] = answer[q]) /\ answer'[p].status = status
  BY <1>0 DEF MInv, MTypeOK
<1>3. \A q \in Proc \ {p} : flight[Home[q]] = q => flight'[Home[q]] = q
  BY HomeIsProcess
<1>4. closed' = closed
  BY DEF candles
<1> QED BY <1>0, <1>1, <1>2, <1>3, <1>4, ComesToRest

(* A thread that moves on and changes only its own request. *)
LEMMA MovedFInv ==
  ASSUME OneHome, MInv, FInv, NEW p \in Proc, NEW to, at' = [at EXCEPT ![p] = to],
         UNCHANGED candles, flight' = flight, answer' = answer,
         \A q \in Proc \ {p} : req'[q] = req[q],
         to \in InFlight => at[p] \in InFlight,
         to \in {"manifest", "fetch_tail", "recheck", "fetch_whole"} => BaseMissing(req'[p].q),
         to = "fetch_tail" => \A t \in Stored : t < req'[p].from,
         to \in {"open", "opened", "append"} /\ req'[p].write = "append" =>
           \A t \in Stored : \A b \in req'[p].final : t < b.t,
         to = "append" => req'[p].write = "append" /\ req'[p].final # {}
  PROVE  FInv'
<1>1. at'[p] = to /\ \A q \in Proc \ {p} : at'[q] = at[q]
  BY DEF MInv, MTypeOK
<1>2. closed' = closed /\ Stored' = Stored
  BY DEF candles, Stored
<1>3. FlightOf(p)
  BY DEF FInv
<1>4. BaseMissing(req'[p].q) => ~(InRange(req'[p].q) \subseteq Stored')
  BY <1>2 DEF BaseMissing
<1>5. FlightOf(p)'
  BY <1>1, <1>2, <1>3, <1>4 DEF FlightOf, BaseMissing, InRange
<1>6. \A q \in Proc \ {p} : answer'[q] = answer[q]
                           /\ (flight[Home[q]] = q => flight'[Home[q]] = q)
  OBVIOUS
<1> QED BY <1>1, <1>2, <1>5, <1>6, OthersFly

LEMMA CallFInv ==
  ASSUME OneHome, MInv, FInv, NEW p \in Proc, CallService(p)
  PROVE  FInv'
<1>1. PICK q \in Queries : fetch_bars(p, q) \/ materialize_bars(p, q)
  BY DEF CallService
<1>2. /\ at[p] = "none" /\ flight' = flight /\ UNCHANGED candles
      /\ \E op \in {"fetch", "materialize"} : req' = [req EXCEPT ![p] = Request(op, q)]
  BY <1>1 DEF fetch_bars, materialize_bars
<1>3. (\A x \in Proc \ {p} : req'[x] = req[x]) /\ closed' = closed
  BY <1>2 DEF MInv, MTypeOK, candles
<1>4. answer[p] # Nil => answer[p].status # "conflict"
  BY DEF FInv, FlightOf
<1>5. CASE at' = at /\ \E op \in {"fetch", "materialize"} : \E bars :
             answer' = [answer EXCEPT ![p] =
                          [status |-> "ok", q |-> q, op |-> op, bars |-> bars]]
  <2>1. (\A x \in Proc \ {p} : answer'[x] = answer[x]) /\ answer'[p].status = "ok"
    BY <1>5 DEF MInv, MTypeOK
  <2>2. at' = [at EXCEPT ![p] = "none"]
    BY <1>2, <1>5 DEF MInv, MTypeOK
  <2>3. "none" \notin Careful /\ "none" \notin InFlight
    BY DEF Careful, InFlight
  <2> QED BY <1>2, <1>3, <2>1, <2>2, <2>3, ComesToRest
<1>6. CASE Go(p, "none", "flight") /\ answer' = answer
  <2>1. "flight" \notin Careful /\ "flight" \notin InFlight
    BY DEF Careful, InFlight
  <2> QED BY <1>2, <1>3, <1>4, <1>6, <2>1, ComesToRest DEF Go
<1> QED BY <1>1, <1>5, <1>6 DEF fetch_bars, materialize_bars

LEMMA EnsureFInv ==
  ASSUME OneHome, MInv, FInv, NEW p \in Proc, ensure_stored(p)
  PROVE  FInv'
<1>0. /\ at' = [at EXCEPT ![p] = "check"] /\ flight[Home[p]] = Nil
      /\ flight' = [flight EXCEPT ![Home[p]] = p]
      /\ UNCHANGED candles /\ req' = req /\ answer' = answer
  BY DEF ensure_stored, Go
<1>1. "check" \notin Careful /\ closed' = closed
  BY <1>0 DEF Careful, candles
<1>2. flight'[Home[p]] = p
  BY <1>0, HomeIsProcess DEF MInv, MTypeOK
<1>3. \A q \in Proc \ {p} : flight[Home[q]] # q
  BY <1>0, NilIsNone DEF OneHome
<1>4. answer'[p] # Nil => answer'[p].status # "conflict"
  BY <1>0 DEF FInv, FlightOf
<1> QED BY <1>0, <1>1, <1>2, <1>3, <1>4, ComesToRest

LEMMA CheckFInv ==
  ASSUME OneHome, MInv, FInv, NEW p \in Proc, CheckCoverage(p) \/ Recheck(p)
  PROVE  FInv'
<1>0. at[p] \in {"check", "recheck"} /\ UNCHANGED candles /\ at[p] \in InFlight
      /\ at[p] # "none"
  BY DEF CheckCoverage, Recheck, InFlight
<1>1. req[p].q \in BarQuery
  BY <1>0, ReqFacts
<1>2. CASE Landed(p, FALSE)
  BY <1>0, <1>2, LandedFInv
<1>3. ASSUME NEW to \in {"manifest", "fetch_whole"}, at' = [at EXCEPT ![p] = to],
             BaseMissing(req[p].q), UNCHANGED <<now, derived, flight, req, answer>>
      PROVE  FInv'
  <2>1. flight' = flight /\ answer' = answer /\ req' = req
    BY <1>3
  <2> QED BY <1>0, <1>3, <2>1, MovedFInv
<1>4. /\ coverage_complete(base_query(req[p].q)) <=> ~BaseMissing(req[p].q)
      /\ stored_coverage_complete(base_query(req[p].q)) <=> ~BaseMissing(req[p].q)
  BY <1>1, BaseCoverage
<1> QED BY <1>2, <1>3, <1>4 DEF CheckCoverage, Recheck, Go

LEMMA ManifestFInv ==
  ASSUME OneHome, MInv, FInv, NEW p \in Proc, ReadManifest(p)
  PROVE  FInv'
<1>0. /\ at[p] = "manifest" /\ at[p] \in InFlight
      /\ UNCHANGED candles /\ flight' = flight /\ answer' = answer
  BY DEF ReadManifest, InFlight
<1>1. req[p] \in Req /\ req[p].q \in BarQuery /\ DOMAIN req = Proc
  BY <1>0, ReqFacts
<1>2. PICK start : start = Max({req[p].q.start} \cup {t + 1 : t \in Stored})
  OBVIOUS
<1>3. \A t \in Stored : t < start
  <2>1. req[p].q.start \in Nat
    BY <1>1 DEF BarQuery
  <2> QED BY <1>2, <2>1, TailStart
<1>4. BaseMissing(req[p].q)
  BY <1>0 DEF FInv, FlightOf
<1>5. CASE Go(p, "manifest", "fetch_tail") /\ req' = [req EXCEPT ![p].from = start]
  <2>1. /\ \A q \in Proc \ {p} : req'[q] = req[q]
        /\ req'[p] = [req[p] EXCEPT !.from = start]
    BY <1>1, <1>5
  <2>2. req'[p].q = req[p].q /\ req'[p].from = start
    BY <1>1, <2>1 DEF Req
  <2>3. BaseMissing(req'[p].q)
    BY <1>4, <2>2 DEF BaseMissing, InRange
  <2>4. \A t \in Stored : t < req'[p].from
    BY <1>3, <2>2
  <2>5. at' = [at EXCEPT ![p] = "fetch_tail"]
    BY <1>5 DEF Go
  <2>6. "fetch_tail" \notin {"open", "opened", "append"}
    OBVIOUS
  <2> QED BY <1>0, <2>1, <2>3, <2>4, <2>5, <2>6, MovedFInv
<1>6. CASE Go(p, "manifest", "recheck") /\ UNCHANGED req
  BY <1>0, <1>4, <1>6, MovedFInv DEF Go
<1> QED BY <1>2, <1>5, <1>6 DEF ReadManifest

(* Both sources start where they are asked to. *)
LEMMA FetchedFrom ==
  ASSUME MInv, NEW from \in Nat, NEW to \in Nat, NEW v \in Values
  PROVE  \A b \in fetched_final(from, to, v) : from <= b.t
<1>1. now \in Nat /\ Cutoff \in Nat
  BY ServiceAssumption DEF MInv, MTypeOK
<1>2. \A t \in archive(from, to) : t \in Nat /\ t < now /\ from <= t /\ t \in Times
  BY TimesAreNumbers DEF archive
<1> DEFINE S == {from, Cutoff} \cup {t + 1 : t \in archive(from, to)}
<1>3. S \in SUBSET Nat /\ S # {} /\ from \in S
  BY <1>1, <1>2
<1>4. from + Cutoff + now + 1 \in Nat /\ \A y \in S : y <= from + Cutoff + now + 1
  BY <1>1, <1>2
<1>5. Max(S) \in S /\ from <= Max(S)
  BY <1>3, <1>4, MaxFacts
<1>6. remaining_from(from, to) \in Nat /\ from <= remaining_from(from, to)
  BY <1>3, <1>5 DEF remaining_from
<1>7. \A t \in rest(from, to) : t \in Times /\ t \in Nat /\ remaining_from(from, to) <= t
  BY TimesAreNumbers DEF rest
<1>8. \A t \in rest(from, to) : from <= t
  BY <1>6, <1>7
<1>9. ASSUME NEW b \in fetched_final(from, to, v) PROVE from <= b.t
  <2>1. PICK t, x : /\ x \in {"rest", "archive"} /\ b = SourceBar(t, v, x)
                    /\ t \in archive(from, to) \cup rest(from, to)
    BY DEF fetched_final
  <2>2. t \in Times /\ from <= t
    BY <1>2, <1>7, <1>8, <2>1
  <2> QED BY <2>1, <2>2, SourceBarType
<1> QED BY <1>9

LEMMA FetchFInv ==
  ASSUME OneHome, MInv, FInv, NEW p \in Proc, FetchTail(p) \/ FetchWhole(p)
  PROVE  FInv'
<1>0. at[p] \in {"fetch_tail", "fetch_whole"} /\ at[p] \in InFlight /\ UNCHANGED candles
  BY DEF FetchTail, FetchWhole, InFlight, fetch_from_sources
<1>1. req[p] \in Req /\ DOMAIN req = Proc /\ req[p].from \in Nat /\ req[p].q.end \in Nat
  BY <1>0, ReqFacts DEF Req, BarQuery
<1>2. BaseMissing(req[p].q)
  BY <1>0 DEF FInv, FlightOf
<1>3. CASE Landed(p, FALSE)
  BY <1>0, <1>3, LandedFInv
<1>4. CASE Go(p, "fetch_tail", "recheck") /\ UNCHANGED <<now, derived, flight, req, answer>>
  <2>1. flight' = flight /\ answer' = answer /\ req' = req
    BY <1>4
  <2> QED BY <1>0, <1>2, <1>4, <2>1, MovedFInv DEF Go
<1>5. ASSUME NEW write \in {"append", "merge"}, NEW final, NEW open,
             at' = [at EXCEPT ![p] = "open"],
             req' = [req EXCEPT ![p].write = write, ![p].final = final, ![p].open = open],
             UNCHANGED <<now, derived, flight, answer>>,
             write = "append" => \A t \in Stored : \A b \in final : t < b.t
      PROVE  FInv'
  <2>1. /\ \A q \in Proc \ {p} : req'[q] = req[q]
        /\ req'[p] = [req[p] EXCEPT !.write = write, !.final = final, !.open = open]
    BY <1>1, <1>5
  <2>2. req'[p].write = write /\ req'[p].final = final
    BY <1>1, <2>1 DEF Req
  <2>3. flight' = flight /\ answer' = answer
    BY <1>5
  <2> QED BY <1>0, <1>5, <2>1, <2>2, <2>3, MovedFInv
<1>6. CASE FetchTail(p)
  <2>1. PICK v \in Values : fetch_from_sources(p, req[p].from, v, "append",
          /\ Go(p, "fetch_tail", "recheck")
          /\ UNCHANGED <<now, derived, flight, req, answer>>)
    BY <1>6 DEF FetchTail
  <2>2. PICK from \in Nat, end \in Nat : from = req[p].from /\ end = req[p].q.end
    BY <1>1
  <2>3. PICK final : final = fetched_final(from, end, v)
    OBVIOUS
  <2>4. \A t \in Stored : t < from /\ t \in Nat
    BY <1>6, <2>2, TimesAreNumbers DEF FetchTail, FInv, FlightOf, Stored
  <2>a. final \in SUBSET MarketBar
    BY <2>3, FetchedFinal DEF MInv
  <2>b. \A b \in final : b.t \in Nat
    BY <2>a, TimesAreNumbers DEF MarketBar
  <2>5. \A b \in final : from <= b.t /\ b.t \in Nat
    BY <2>3, <2>b, FetchedFrom
  <2>6. \A t \in Stored : \A b \in final : t < b.t
    BY <2>2, <2>4, <2>5
  <2> QED BY <1>4, <1>5, <2>1, <2>2, <2>3, <2>6 DEF fetch_from_sources
<1>7. CASE FetchWhole(p)
  <2>1. PICK v \in Values :
          fetch_from_sources(p, req[p].q.start, v, "merge", Landed(p, FALSE))
    BY <1>7 DEF FetchWhole
  <2> QED BY <1>3, <1>5, <2>1 DEF fetch_from_sources
<1> QED BY <1>6, <1>7

LEMMA PersistFInv ==
  ASSUME OneHome, MInv, FInv, NEW p \in Proc, PersistOpen(p)
  PROVE  FInv'
<1>0. /\ at[p] = "open" /\ at' = [at EXCEPT ![p] = "opened"] /\ at[p] \in InFlight
      /\ flight' = flight /\ answer' = answer /\ req' = req
  BY DEF PersistOpen, Go, InFlight
<1>1. closed' = closed
  BY OthersKeepClosed DEF PersistOpen
<1>2. FlightOf(p)
  BY DEF FInv
<1>3. at'[p] = "opened" /\ \A q \in Proc \ {p} : at'[q] = at[q]
  BY <1>0 DEF MInv, MTypeOK
<1>4. Stored' = Stored
  BY <1>1 DEF Stored
<1>5. FlightOf(p)'
  BY <1>0, <1>2, <1>3, <1>4 DEF FlightOf
<1> QED BY <1>0, <1>1, <1>3, <1>5, OthersFly

(* The candles of a batch have an earliest one. *)
LEMMA FirstOfBatch ==
  ASSUME MInv, NEW p \in Proc, at[p] # "none", req[p].final # {}
  PROVE  First(p) \in req[p].final /\ First(p).t \in Nat
<1>1. \A b \in req[p].final : b.t \in Nat
  BY ReqFacts, TimesAreNumbers DEF MarketBar
<1> DEFINE S == {b.t : b \in req[p].final}
<1>2. S \in SUBSET Nat /\ S # {}
  BY <1>1
<1>3. PICK m \in S : \A y \in S : m <= y
  BY <1>2, LeastNatural
<1>4. \E b \in req[p].final : \A c \in req[p].final : b.t <= c.t
  BY <1>3
<1> QED BY <1>1, <1>4 DEF First

(* A tail is appended where it was computed to start, so it meets no       *)
(* stored candle.                                                          *)
LEMMA NoConflict ==
  ASSUME MInv, FInv, NEW p \in Proc, at[p] = "append", fmt = "csv"
  PROVE  ~AppendRefused(p)
<1>1. /\ req[p].final # {}
      /\ \A t \in Stored : \A b \in req[p].final : t < b.t
  BY DEF FInv, FlightOf
<1>2. First(p) \in req[p].final /\ First(p).t \in Nat
  BY <1>1, FirstOfBatch
<1>a. now \in Nat /\ \A t \in Stored : t \in Nat /\ t < now
  BY TimesAreNumbers DEF MInv, MTypeOK, OnlyClosedAreFinal, Stored
<1>3. Stored \in SUBSET Nat /\ now \in Nat /\ \A t \in Stored : t <= now
  BY <1>a
<1>4. ASSUME Stored # {} PROVE Max(Stored) < First(p).t /\ Max(Stored) \in Nat
  <2>1. Max(Stored) \in Stored
    BY <1>3, <1>4, MaxFacts
  <2> QED BY <1>1, <1>2, <1>3, <2>1
<1>5. ASSUME NEW m \in Nat, NEW n \in Nat, m < n PROVE ~(n < m) /\ n # m
  BY <1>5
<1>6. Stored # {} => ~(First(p).t < Max(Stored)) /\ First(p).t # Max(Stored)
  BY <1>2, <1>4, <1>5
<1> QED BY <1>6 DEF AppendRefused

LEMMA EndFlightFInv ==
  ASSUME OneHome, MInv, FInv, NEW p \in Proc,
         OpenFailed(p) \/ AppendRaises(p) \/ FetchFails(p) \/ Cleaned(p)
  PROVE  FInv'
<1>1. ASSUME NEW status, status # "conflict", Raise(p, status), UNCHANGED candles
      PROVE  FInv'
  BY <1>1, AnsweredFInv DEF Raise
<1>2. CASE AppendRaises(p)
  <2>1. at[p] = "append" /\ AppendRefused(p)
    BY <1>2 DEF AppendRaises
  <2>2. fmt # "csv"
    BY <2>1, NoConflict
  <2>3. Raise(p, "unsupported") /\ UNCHANGED candles
    BY <1>2, <2>2 DEF AppendRaises
  <2> QED BY <1>1, <2>3
<1>3. CASE Cleaned(p)
  BY <1>3, LandedFInv DEF Cleaned, InFlight
<1> QED BY <1>1, <1>2, <1>3 DEF OpenFailed, FetchFails

LEMMA OpenDoneFInv ==
  ASSUME OneHome, MInv, FInv, NEW p \in Proc, OpenDone(p)
  PROVE  FInv'
<1>0. at[p] \in {"open", "opened"} /\ at[p] \in InFlight /\ UNCHANGED candles
  BY DEF OpenDone, InFlight
<1>1. req[p].write \in {"append", "merge"}
  BY <1>0, ReqFacts
<1>2. CASE Landed(p, TRUE)
  BY <1>0, <1>2, LandedFInv
<1>3. CASE /\ req[p].final # {} /\ at' = [at EXCEPT ![p] = req[p].write]
           /\ UNCHANGED <<now, derived, flight, req, answer>>
  <2>1. PICK to \in {"append", "merge"} : to = req[p].write
    BY <1>1
  <2>2. flight' = flight /\ answer' = answer /\ req' = req /\ at' = [at EXCEPT ![p] = to]
    BY <1>3, <2>1
  <2>3. req[p].write = "append" => \A t \in Stored : \A b \in req[p].final : t < b.t
    BY <1>0 DEF FInv, FlightOf
  <2> QED BY <1>0, <1>3, <2>1, <2>2, <2>3, MovedFInv
<1> QED BY <1>2, <1>3 DEF OpenDone

LEMMA WriteFInv ==
  ASSUME OneHome, MInv, FInv, NEW p \in Proc,
         append_stream(p) \/ MergeFinalized(p) \/ CleanCurrent(p)
  PROVE  FInv'
<1>0. /\ at[p] \in {"append", "merge", "clean"} /\ at' = [at EXCEPT ![p] = "clean"]
      /\ flight' = flight /\ answer' = answer
      /\ req' = req \/ \E r : req' = [req EXCEPT ![p].final = r]
  <2>1. CleanCurrent(p) => at' = [at EXCEPT ![p] = "clean"]
    BY DEF CleanCurrent, MInv, MTypeOK
  <2> QED BY <2>1 DEF append_stream, MergeFinalized, CleanCurrent, Go
<1>1. at[p] \in InFlight /\ "clean" \notin Careful
  BY <1>0 DEF InFlight, Careful
<1>2. \A q \in Proc \ {p} : req'[q] = req[q]
  BY <1>0 DEF MInv, MTypeOK
<1>3. flight'[Home[p]] = p /\ (answer[p] # Nil => answer[p].status # "conflict")
  BY <1>0, <1>1 DEF FInv, FlightOf
<1> QED BY <1>0, <1>1, <1>2, <1>3, ComesToRest

(* After the flight nothing found out under it is relied on. *)
LEMMA AfterFInv ==
  ASSUME OneHome, MInv, FInv, NEW p \in Proc,
         \/ AnswerBase(p) \/ CheckDerived(p) \/ Reread(p)
         \/ aggregate_stored_base(p) \/ merge_derived_bars(p)
  PROVE  FInv'
<1>0. flight' = flight /\ UNCHANGED candles
  BY DEF AnswerBase, CheckDerived, Reread, aggregate_stored_base, merge_derived_bars
<1>1. ASSUME NEW status \in {"ok", "coverage", "incomplete"}, NEW bars,
             Answer(p, status, bars), req' = req
      PROVE  FInv'
  BY <1>0, <1>1, AnsweredFInv
<1>2. ASSUME NEW to \in {"aggregate", "merge_derived", "reread"},
             at' = [at EXCEPT ![p] = to], answer' = answer,
             \A q \in Proc \ {p} : req'[q] = req[q]
      PROVE  FInv'
  <2>1. to \notin Careful /\ to \notin InFlight
    BY DEF Careful, InFlight
  <2>2. answer[p] # Nil => answer[p].status # "conflict"
    BY DEF FInv, FlightOf
  <2>3. closed' = closed
    BY <1>0 DEF candles
  <2> QED BY <1>0, <1>2, <2>1, <2>2, <2>3, ComesToRest
<1>3. CASE AnswerBase(p)
  BY <1>1, <1>3 DEF AnswerBase
<1>4. CASE CheckDerived(p)
  BY <1>1, <1>2, <1>4 DEF CheckDerived, Go
<1>5. CASE Reread(p)
  BY <1>1, <1>5 DEF Reread
<1>6. CASE aggregate_stored_base(p)
  <2>1. CASE Answer(p, "ok", {}) /\ req' = req
    BY <1>1, <2>1
  <2>2. CASE /\ Go(p, "aggregate", "merge_derived") /\ answer' = answer
             /\ \E agg : req' = [req EXCEPT ![p].agg = agg]
    BY <1>2, <2>2 DEF Go, MInv, MTypeOK
  <2>3. CASE Go(p, "aggregate", "reread") /\ req' = req /\ answer' = answer
    BY <1>2, <2>3 DEF Go
  <2> QED BY <1>6, <2>1, <2>2, <2>3 DEF aggregate_stored_base
<1>7. CASE merge_derived_bars(p)
  BY <1>2, <1>7 DEF merge_derived_bars, Go
<1> QED BY <1>3, <1>4, <1>5, <1>6, <1>7

(* What happens beside the threads changes no final candle. *)
LEMMA BesideFInv ==
  ASSUME FInv, closed' = closed, flight' = flight, at' = at, req' = req, answer' = answer
  PROVE  FInv'
<1>1. Stored' = Stored
  BY DEF Stored
<1> QED BY <1>1 DEF FInv, FlightOf, BaseMissing, InRange

LEMMA FNextInv ==
  ASSUME OneHome, MInv, FInv, [MNext]_mvars
  PROVE  FInv'
<1>1. ASSUME NEW p \in Proc, ServiceStep(p) PROVE FInv'
  BY <1>1, EnsureFInv, CheckFInv, ManifestFInv, FetchFInv, PersistFInv, EndFlightFInv,
     OpenDoneFInv, WriteFInv, AfterFInv DEF ServiceStep
<1>2. ASSUME NEW p \in Proc, Step(p) \/ Fail(p), UNCHANGED service PROVE FInv'
  BY <1>2, OthersKeepClosed, BesideFInv DEF service
<1>3. ASSUME NEW p \in Proc, StreamCall(p) PROVE FInv'
  <2>1. closed' = closed
    BY <1>3, OthersKeepClosed DEF StreamCall, OneHome
  <2> QED BY <1>3, <2>1, BesideFInv DEF StreamCall, service
<1>4. CASE Tick \/ Compacted \/ UNCHANGED mvars
  BY <1>4, BesideFInv DEF Tick, Compacted, compact, service, candles, mvars
<1> QED BY <1>1, <1>2, <1>3, <1>4, CallFInv, EndFlightFInv
        DEF MNext, Progress, StoreFails

(* Among the threads of one process that are the only writers of a series  *)
(* nobody asks the exchange for a range that is stored already, and no     *)
(* append ends in a conflict (_ensure_stored, one flight per series).      *)
THEOREM FlightsAreSingle == OneHome /\ MSpec => []SingleFlight
<1>1. MInit => FInv
  BY DEF MInit, FInv, FlightOf, InFlight
<1>2. MInv /\ FInv => SingleFlight
  <2> SUFFICES ASSUME MInv, FInv, NEW p \in Proc
               PROVE  /\ at[p] \in {"fetch_tail", "fetch_whole"} =>
                           ~coverage_complete(base_query(req[p].q))
                      /\ answer[p] # Nil => answer[p].status # "conflict"
    BY DEF SingleFlight
  <2>1. FlightOf(p)
    BY DEF FInv
  <2>2. ASSUME at[p] \in {"fetch_tail", "fetch_whole"}
        PROVE  ~coverage_complete(base_query(req[p].q))
    <3>1. req[p].q \in BarQuery
      BY <2>2, ReqFacts
    <3> QED BY <2>1, <2>2, <3>1, BaseCoverage DEF FlightOf
  <2> QED BY <2>1, <2>2 DEF FlightOf
<1>3. OneHome /\ MInv /\ FInv /\ [MNext]_mvars => FInv'
  BY FNextInv
<1>4. OneHome => OneHome'
  OBVIOUS
<1> QED BY <1>1, <1>2, <1>3, <1>4, ServiceInvariance, PTL DEF MSpec

=============================================================================
