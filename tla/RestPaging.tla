------------------------------ MODULE RestPaging ------------------------------
(***************************************************************************)
(* One REST fetch: binance_get_bars_sync and bybit_get_bars_sync, which    *)
(* page through the candles of a range; binance_get_agg_trades_sync, which *)
(* pages through trades; and public_market_get_bars_sync, which asks other *)
(* exchanges for one page.  The exchange is external: its clock runs while *)
(* the fetch does, candles open and close between two pages, any request   *)
(* may fail, and a cache may answer with the page before, time and again.   *)
(*                                                                         *)
(* An item is a candle, whose id is its open time, or a trade.  Time is in *)
(* milliseconds and a candle takes Step of them.  Every list of the code   *)
(* is sorted as soon as it is received and has one entry per id when it is *)
(* returned, so pages and results are sets; the length of the list that    *)
(* collects the pages, repeated entries included, is kept apart.           *)
(***************************************************************************)
EXTENDS Integers, FiniteSets

CONSTANTS
  Candles,      \* open times of the candles the exchange has, or will have
  Trades,       \* its trades: [id, time]
  Step,         \* timeframe_ms
  Cap,          \* cfg.max_limit_*: items in a page
  Requests,     \* what callers ask for
  MaxRetries,   \* max_retries
  LastNow,      \* bound: how far the exchange's clock runs
  Nil

Item == [id : Nat, time : Nat]
Kinds == {"bars", "trades", "public"}
Shapes == {"range", "start", "end", "size"}
Request ==
  [kind : Kinds, shape : Shapes, start : Nat \cup {Nil}, end : Nat \cup {Nil},
   max : (Nat \ {0}) \cup {Nil}, include : BOOLEAN]

ASSUME PagingAssumption ==
  /\ Nil \notin Nat \cup Requests
  /\ Candles \subseteq Nat /\ IsFiniteSet(Candles)
  /\ \A s, t \in Candles : s < t => s + Step <= t
  /\ Trades \subseteq Item /\ IsFiniteSet(Trades)
  /\ \A a, b \in Trades : a.id < b.id => a.time <= b.time
  /\ \A a, b \in Trades : a.id = b.id => a = b
  /\ {Step, Cap} \subseteq Nat \ {0}
  /\ {MaxRetries, LastNow} \subseteq Nat
  /\ Requests \subseteq Request
  /\ \A r \in Requests : r.end = Nil => r.max # Nil
  /\ \A r \in Requests : r.kind = "public" => r.max = Nil /\ r.start # Nil
  /\ \A r \in Requests : r.kind = "trades" => Nil \notin {r.start, r.end} /\ r.start < r.end

VARIABLES
  now,           \* the exchange's clock
  phase,         \* "idle", "time" or "page": what the next request asks for
  req,           \* the fetch in progress
  attempt,       \* attempts made at the current request
  server_time,   \* the exchange's time, read once
  cursor,        \* where the next page starts
  out,           \* the items of the pages so far
  len,           \* len(out), repeated items included, while a maximum reads it
  payload,       \* the last page as it was answered
  outcome,       \* how the fetch ended, what it returned
  repeats,       \* pages the exchange has repeated: 0, then 1, 2, 1, 2 ...
  began          \* history: the exchange's clock when the fetch began

vars == <<now, phase, req, attempt, server_time, cursor, out, len, payload,
          outcome, repeats, began>>
-----------------------------------------------------------------------------
(* Candles                                                                 *)

Candle(t) == [id |-> t, time |-> t]
close_time(t) == t + Step - 1
next_open_time(t) == close_time(t) + 1
IsFinal(t) == close_time(t) <= server_time

Earlier(a, b) == a.time < b.time \/ (a.time = b.time /\ a.id < b.id)
Oldest(n, S) == {x \in S : Cardinality({y \in S : Earlier(y, x)}) < n}
Newest(n, S) == {x \in S : Cardinality({y \in S : Earlier(x, y)}) < n}
LastTime(S) == CHOOSE t \in {x.time : x \in S} : \A x \in S : x.time <= t
InRange(t, lo, hi) == (lo # Nil => t >= lo) /\ (hi # Nil => t < hi)

(* The exchange: the oldest items from start on, or the newest when no     *)
(* start is given; a candle is there from the moment it opens.             *)
Available == IF req.kind = "trades" THEN {d \in Trades : d.time <= now}
             ELSE {Candle(t) : t \in {c \in Candles : c <= now}}
AnswerTo(start, end, limit) ==
  LET asked == {i \in Available : InRange(i.time, start, end)}
  IN IF start = Nil THEN Newest(limit, asked) ELSE Oldest(limit, asked)
-----------------------------------------------------------------------------
(* The loop                                                                *)

Smaller(a, b) == IF b # Nil /\ b < a THEN b ELSE a
PerPage == Smaller(Cap, req.max)
Limit == Smaller(PerPage, IF req.max = Nil THEN Nil ELSE req.max - len)

(* What a public exchange is asked for: most are given the range, some     *)
(* only its start, its end, or how many candles it has.                    *)
(* Mutant: a range is one candle shorter than it is. *)
RequestedLimitShort == Smaller(Cap, (req.end - req.start - 1) \div Step)
RequestedLimit == Smaller(Cap, (req.end - req.start + Step - 1) \div Step)
PublicRequest ==
  [lo |-> IF req.shape \in {"range", "start"} THEN req.start ELSE Nil,
   hi |-> IF req.shape \in {"range", "end"} THEN req.end ELSE Nil,
   limit |-> IF req.shape = "size" THEN RequestedLimit ELSE Cap]

(* normalize_*_klines leaves out the candles that were not over when the   *)
(* server's time was read; then the requested range.                       *)
(* Mutant: a candle that closed during the fetch is kept. *)
KeptNow(i) == req.kind = "bars" /\ ~req.include => close_time(i.time) <= now
Kept(i) == req.kind = "bars" /\ ~req.include => IsFinal(i.time)
Page(p) == {i \in p : Kept(i) /\ InRange(i.time, req.start, req.end)}

(* Public rows carry no finality: only the range is kept.                  *)
PublicPage(p) == {i \in p : InRange(i.time, req.start, req.end)}

(* No more candles than were asked for; trades are not cut.                *)
Final(o) == IF req.kind = "bars" /\ req.max # Nil THEN Oldest(req.max, o) ELSE o

Ended(status, o) ==
  /\ phase' = "idle"
  /\ outcome' = [status |-> status, final |-> Final(o)]
  /\ attempt' = 0
  /\ UNCHANGED <<now, req, server_time, cursor>>

(* The cursor after a full page, and the head of the loop it leads to.     *)
(* Mutant: the next page starts with the last candle of this one. *)
NextCursorSame(page) == LastTime(page)
NextCursor(page) ==
  IF req.kind = "bars" THEN next_open_time(LastTime(page)) ELSE LastTime(page) + 1
Stalled(c) == req.kind = "bars" /\ cursor # Nil /\ c <= cursor
Enough(c) == (req.end # Nil /\ c >= req.end) \/ (req.max # Nil /\ len' >= req.max)
(* Mutant: a full page is taken for the last one. *)
ShortOrFullPage(p, page) == Cardinality(page) <= Limit
ShortPage(p, page) == Cardinality(IF req.kind = "bars" THEN p ELSE page) < Limit

Take(p) ==
  LET page == Page(p)
      last == page = {} \/ ShortPage(p, page)
      c == NextCursor(page)
  IN /\ payload' = p
     /\ out' = out \cup page
     /\ len' = IF req.max = Nil THEN Cardinality(out') ELSE len + Cardinality(page)
     /\ UNCHANGED began
     /\ \/ /\ last
           /\ Ended("ok", out')
        \/ /\ ~last /\ Stalled(c)
           /\ Ended("MDPaginationStalled", {})
        \/ /\ ~last /\ ~Stalled(c) /\ Enough(c)
           /\ Ended("ok", out')
        \/ /\ ~last /\ ~Stalled(c) /\ ~Enough(c)
           /\ cursor' = c
           /\ attempt' = 0
           /\ UNCHANGED <<now, phase, req, server_time, outcome>>
-----------------------------------------------------------------------------
(* The actions                                                             *)

Init ==
  /\ now \in 0..LastNow
  /\ phase = "idle" /\ attempt = 0 /\ repeats = 0
  /\ req = Nil /\ server_time = Nil /\ cursor = Nil /\ began = Nil
  /\ out = {} /\ len = 0 /\ payload = {}
  /\ outcome = Nil

(* One fetch per behaviour: a fetch shares no state with another.          *)
Fetch(r) ==
  /\ req = Nil
  /\ req' = r
  /\ cursor' = r.start
  /\ phase' = IF r.kind = "bars" THEN "time" ELSE "page"
  /\ began' = now
  /\ UNCHANGED <<now, attempt, server_time, out, len, payload, outcome, repeats>>

(* _server_time_ms *)
ReadServerTime ==
  /\ phase = "time"
  /\ server_time' = now
  /\ phase' = "page"
  /\ attempt' = 0
  /\ UNCHANGED <<now, req, cursor, out, len, payload, outcome, repeats, began>>

ReadPage ==
  /\ phase = "page" /\ req.kind # "public"
  /\ UNCHANGED repeats
  /\ Take(AnswerTo(cursor, req.end, Limit))

(* One page, of which the range is kept, the candle being formed included. *)
ReadPublic ==
  /\ phase = "page" /\ req.kind = "public"
  /\ LET ask == PublicRequest IN payload' = AnswerTo(ask.lo, ask.hi, ask.limit)
  /\ out' = PublicPage(payload')
  /\ len' = Cardinality(out')
  /\ UNCHANGED <<repeats, began>>
  /\ Ended("ok", out')

(* A cache between the exchange and the client answers with the page       *)
(* before, cut to the limit asked for, and may do so again and again: only *)
(* the loop of candles looks for it.  repeats tells one repetition from    *)
(* the next, which may leave all else as it is, and stays finite.          *)
RepeatPage ==
  /\ phase = "page" /\ req.kind # "public" /\ payload # {}
  /\ repeats' = 1 + (repeats % 2)
  /\ Take(Oldest(Limit, payload))

(* _get_json: a rate limit, a 5xx or any other HTTP error is tried again   *)
(* until the attempts are used up.                                         *)
(* Mutant: one attempt too many. *)
GiveUpLate == attempt > MaxRetries
GiveUp == attempt >= MaxRetries
(* Mutant: the attempts start again instead of giving up. *)
RestartedAttempt ==
  /\ phase \in {"time", "page"}
  /\ attempt' = IF GiveUp THEN 0 ELSE attempt + 1
  /\ UNCHANGED <<now, phase, req, server_time, cursor, out, len, payload, outcome,
                 repeats, began>>
FailedAttempt ==
  /\ phase \in {"time", "page"}
  /\ UNCHANGED <<out, len, payload, repeats, began>>
  /\ \/ /\ GiveUp
        /\ Ended("MDNetworkUnavailable", {})
     \/ /\ ~GiveUp
        /\ attempt' = attempt + 1
        /\ UNCHANGED <<now, phase, req, server_time, cursor, outcome>>

(* A body of the wrong shape, a Bybit retCode that is neither zero nor a   *)
(* rate limit; a body that is no JSON, or a Retry-After that is a date,    *)
(* raises ValueError.  None is tried again.                                *)
BadAnswer ==
  /\ phase \in {"time", "page"}
  /\ UNCHANGED <<out, len, payload, repeats, began>>
  /\ \E s \in {"MDInvalidExchangeResponse", "ValueError"} : Ended(s, {})

Tick ==
  /\ now < LastNow
  /\ now' = now + 1
  /\ UNCHANGED <<phase, req, attempt, server_time, cursor, out, len, payload,
                 outcome, repeats, began>>

Next ==
  \/ \E r \in Requests : Fetch(r)
  \/ ReadServerTime
  \/ ReadPage
  \/ RepeatPage
  \/ ReadPublic
  \/ FailedAttempt
  \/ BadAnswer
  \/ Tick

Spec == Init /\ [][Next]_vars

(* An HTTP request ends within the client's timeout, one way or another,   *)
(* and every sleep between attempts is finite.                             *)
FairSpec ==
  Spec /\ WF_vars(ReadServerTime \/ ReadPage \/ RepeatPage \/ ReadPublic
                    \/ FailedAttempt \/ BadAnswer)
-----------------------------------------------------------------------------
(* Properties                                                              *)

Statuses == {"ok", "MDPaginationStalled", "MDNetworkUnavailable",
             "MDInvalidExchangeResponse", "ValueError"}

\* Types; no request is tried more than max_retries + 1 times, and the pages hold
\* candles and trades of the exchange only.
PTypeOK ==
  /\ now \in 0..LastNow
  /\ phase \in {"idle", "time", "page"}
  /\ req \in Requests \cup {Nil}
  /\ attempt \in 0..MaxRetries
  /\ {server_time, cursor, began} \subseteq Nat \cup {Nil}
  /\ out \cup payload \subseteq {Candle(t) : t \in Candles} \cup Trades
  /\ len \in Nat /\ len >= Cardinality(out)
  /\ outcome # Nil => outcome.status \in Statuses
  /\ repeats \in 0..2

Returned == outcome # Nil /\ outcome.status = "ok"

\* A fetch of candles that returns has every candle of its range that was over when
\* the server's time was read, up to the first max_bars, although candles
\* open and close between its pages, requests are tried again, and the exchange has
\* gaps; and no other unless include_open_candle.  Without a start the range begins
\* with the first candle returned.
BarsAreComplete ==
  Returned /\ req.kind = "bars" =>
    LET final == outcome.final
        over == {i \in final : IsFinal(i.time)}
        lo == IF req.start = Nil /\ final # {}
                THEN (CHOOSE i \in final : i \in Oldest(1, final)).time ELSE req.start
        due == {Candle(t) : t \in {c \in Candles : IsFinal(c) /\ InRange(c, lo, req.end)}}
    IN /\ lo # Nil => over = IF req.max = Nil THEN due ELSE Oldest(req.max, due)
       /\ ~req.include => final = over
       /\ req.max # Nil => Cardinality(final) <= req.max

\* MDPaginationStalled is raised only when the exchange did repeat a page: gaps in the
\* history, an excluded open candle or a short last page are not taken for a stall.
StallsAreReal ==
  outcome # Nil /\ outcome.status = "MDPaginationStalled" => repeats > 0

\* binance_get_agg_trades_sync goes on at the millisecond after the last trade of a
\* full page, so the other trades of that millisecond may be lost; no other trade of
\* the range that had happened when the fetch began is, unless there are max_trades;
\* a trade that a repeated page brings again counts among them.
OnlySplitMillisecondsLoseTrades ==
  Returned /\ req.kind = "trades" =>
    LET got == outcome.final IN
    \A d \in Trades \ got :
      InRange(d.time, req.start, req.end) /\ d.time <= began =>
        \/ /\ req.max # Nil
           /\ Cardinality(got) >= req.max \/ (repeats > 0 /\ len >= req.max)
        \/ \E e \in got : e.time = d.time

\* A public exchange's only page holds every candle of the range that had opened when
\* the fetch began, if the exchange's page is as long as the range; one that is asked
\* for a number of candles counts from the newest, so the range must reach the present.
PublicPageIsEnough ==
  Returned /\ req.kind = "public" =>
    LET due == {Candle(t) : t \in {c \in Candles :
                                     c <= began /\ InRange(c, req.start, req.end)}}
        fits == /\ req.end - req.start <= Cap * Step
                /\ req.shape = "size" => \A t \in Candles : t <= now => t < req.end
    IN fits => due \subseteq outcome.final

\* Every fetch ends, with its items or with an error, however often requests fail and
\* whatever page the exchange repeats; save that the loop of trades, which has no
\* check for a stall, goes on without max_trades while a full page is repeated.
FetchEnds ==
  \/ req # Nil ~> outcome # Nil
  \/ /\ []<><<RepeatPage>>_vars
     /\ <>(req # Nil /\ req.kind = "trades" /\ req.max = Nil)
=============================================================================
