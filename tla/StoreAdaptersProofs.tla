------------------------- MODULE StoreAdaptersProofs -------------------------
(***************************************************************************)
(* What the adapters and repair keep, for any number of processes, bars,   *)
(* sources and deaths: a repair leaves the series as its source has it and *)
(* loses no other write, stored candles change on purpose only, a write    *)
(* reports what it has done, and a snapshot serves what was stored.        *)
(***************************************************************************)
EXTENDS StoreAdapters, CandleStoreProofs, FiniteSetTheorems, SharedFacts

----------------------------------------------------------------------------
(* What repair_from_source makes of one open time.                         *)

Mine(source, t) == {i \in DOMAIN source : source[i].t = t}

LEMMA MineFacts ==
  ASSUME NEW source \in Seq(MarketBar), NEW t
  PROVE  /\ Mine(source, t) \in SUBSET Nat /\ \A i \in Mine(source, t) : i <= Len(source)
         /\ Len(source) \in Nat /\ DOMAIN source = 1..Len(source)
         /\ \A i \in DOMAIN source : source[i] \in MarketBar /\ source[i] # Nil
                                     /\ source[i].t \in Times
         /\ t \in SourceTimes(source) <=> Mine(source, t) # {}
<1>1. Len(source) \in Nat /\ DOMAIN source = 1..Len(source)
  OBVIOUS
<1>2. \A i \in DOMAIN source : source[i] \in MarketBar
  OBVIOUS
<1>3. \A b \in MarketBar : b # Nil /\ b.t \in Times
  BY NilIsNone DEF MarketBar
<1> QED BY <1>1, <1>2, <1>3 DEF Mine, SourceTimes

RepairOutcome(stored, source, t) ==
  /\ Taken(stored, source, t) # {} <=>
       \E i \in Mine(source, t) : stored[t] = Nil \/ stored[t].v # source[i].v
  /\ Repaired(stored, source, t) # Nil
  /\ stored[t] \in MarketBar \cup {Nil} => Repaired(stored, source, t) \in MarketBar
  /\ Repaired(stored, source, t).v = source[Max(Mine(source, t))].v
  /\ Taken(stored, source, t) = {} => Repaired(stored, source, t) = stored[t]

LEMMA RepairFacts ==
  ASSUME NEW stored, NEW source \in Seq(MarketBar), NEW t, t \in SourceTimes(source)
  PROVE  RepairOutcome(stored, source, t)
<1> DEFINE mine == Mine(source, t)
           before(i) == IF i = Min(mine) THEN stored[t] ELSE source[Max({j \in mine : j < i})]
<1> USE DEF RepairOutcome
<1>1. /\ mine \in SUBSET Nat /\ mine # {} /\ Len(source) \in Nat
      /\ \A i \in mine : i <= Len(source) /\ i \in DOMAIN source
      /\ \A i \in mine : source[i] \in MarketBar /\ source[i] # Nil
  BY MineFacts DEF Mine
<1>2. PICK first \in mine : first = Min(mine) /\ \A i \in mine : first <= i
  BY <1>1, MinFacts
<1>3. PICK last \in mine : last = Max(mine) /\ \A i \in mine : i <= last
  BY <1>1, MaxFacts
<1>4. PICK taken : taken = Taken(stored, source, t)
  OBVIOUS
<1>5. taken = {i \in mine : before(i) = Nil \/ before(i).v # source[i].v}
  BY <1>4 DEF Taken, Mine, same_canonical_candle
<1>6. before(first) = stored[t]
  BY <1>2
<1>7. ASSUME NEW i \in mine, i # first
      PROVE  \E j \in mine : /\ j < i /\ before(i) = source[j]
                             /\ \A k \in mine : k < i => k <= j
  <2> DEFINE earlier == {j \in mine : j < i}
  <2>1. first < i
    BY <1>1, <1>2, <1>7
  <2>2. earlier \in SUBSET Nat /\ earlier # {} /\ i \in Nat /\ \A j \in earlier : j <= i
    BY <1>1, <2>1
  <2>3. Max(earlier) \in earlier /\ \A k \in earlier : k <= Max(earlier)
    BY <2>2, MaxFacts
  <2>4. before(i) = source[Max(earlier)]
    BY <1>2, <1>7
  <2> QED BY <2>3, <2>4
<1> HIDE DEF mine, before
(* From one bar on nothing is taken: the prices stay the same. *)
<1>8. ASSUME NEW k \in mine, \A i \in mine : i > k => i \notin taken, NEW n \in mine, k <= n
      PROVE  source[n].v = source[k].v
  <2> DEFINE Bad == {i \in mine : k <= i /\ source[i].v # source[k].v}
  <2> SUFFICES ASSUME Bad # {} PROVE FALSE
    BY <1>8
  <2>1. PICK i \in Bad : \A j \in Bad : i <= j
    BY <1>1, LeastNatural
  <2>2. i \in mine /\ k < i /\ i \notin taken /\ i # first
    BY <1>1, <1>2, <1>8, <2>1
  <2>3. PICK j \in mine : j < i /\ before(i) = source[j] /\ \A m \in mine : m < i => m <= j
    BY <1>7, <2>2
  <2>4. k <= j /\ source[j].v = source[k].v
    BY <1>1, <1>8, <2>1, <2>2, <2>3
  <2>5. source[j].v = source[i].v
    BY <1>1, <1>5, <2>2, <2>3
  <2> QED BY <2>1, <2>4, <2>5
<1>9. CASE taken = {}
  <2>1. stored[t] # Nil /\ stored[t].v = source[first].v
    BY <1>2, <1>5, <1>6, <1>9
  <2>2. \A i \in mine : source[i].v = source[first].v
    BY <1>2, <1>8, <1>9
  <2>3. Repaired(stored, source, t) = stored[t]
    BY <1>4, <1>9 DEF Repaired
  <2> QED BY <1>3, <1>4, <1>9, <2>1, <2>2, <2>3 DEF mine
<1>10. CASE taken # {}
  <2>1. taken \in SUBSET Nat /\ \A i \in taken : i <= Len(source) /\ i \in mine
    BY <1>1, <1>5
  <2>2. PICK m \in taken : m = Max(taken) /\ \A i \in taken : i <= m
    BY <1>1, <1>10, <2>1, MaxFacts
  <2>3. m \in mine /\ (\A i \in mine : i > m => i \notin taken) /\ m <= last
    BY <1>1, <1>3, <2>1, <2>2
  <2>4. source[last].v = source[m].v
    BY <1>8, <2>3
  <2>5. Repaired(stored, source, t) = source[m]
    BY <1>4, <1>10, <2>2 DEF Repaired
  <2>6. ASSUME stored[t] # Nil, \A i \in mine : stored[t].v = source[i].v PROVE FALSE
    <3>1. CASE m = first
      BY <1>5, <1>6, <2>2, <2>3, <2>6, <3>1
    <3>2. CASE m # first
      <4>1. PICK j \in mine : before(m) = source[j]
        BY <1>7, <2>3, <3>2
      <4> QED BY <1>1, <1>5, <2>2, <2>3, <2>6, <4>1
    <3> QED BY <3>1, <3>2
  <2> QED BY <1>1, <1>3, <1>4, <1>10, <2>3, <2>4, <2>5, <2>6 DEF mine
<1> QED BY <1>9, <1>10

LEMMA AppliedTo ==
  ASSUME NEW seen, NEW src \in Seq(MarketBar)
  PROVE  (\E t \in SourceTimes(src) : Taken(seen, src, t) # {}) <=>
           \E i \in DOMAIN src : seen[src[i].t] = Nil \/ seen[src[i].t].v # src[i].v
<1>1. ASSUME NEW t \in SourceTimes(src)
      PROVE  Taken(seen, src, t) # {} <=>
               \E i \in Mine(src, t) : seen[t] = Nil \/ seen[t].v # src[i].v
  <2>1. RepairOutcome(seen, src, t)
    BY RepairFacts
  <2> QED BY <2>1 DEF RepairOutcome
<1> QED BY <1>1 DEF SourceTimes, Mine

(* It is applied exactly if its audit finds something. *)
LEMMA AppliedFacts ==
  ASSUME NEW r, r.source \in Seq(MarketBar)
  PROVE  Applied(r) <=> AuditIssues(r.seen, r.source, r.strict) # {}
<1>1. PICK src \in Seq(MarketBar) : src = r.source
  OBVIOUS
<1>2. PICK seen : seen = r.seen
  OBVIOUS
<1> DEFINE Differs(i) == seen[src[i].t] = Nil \/ seen[src[i].t].v # src[i].v
<1>3. (\E t \in SourceTimes(src) : Taken(seen, src, t) # {}) <=>
        \E i \in DOMAIN src : Differs(i)
  BY AppliedTo
<1>4. AuditIssues(seen, src, r.strict) # {} <=>
        \/ \E i \in DOMAIN src : Differs(i)
        \/ r.strict /\ \E t \in Times \ SourceTimes(src) : seen[t] # Nil
  BY DEF AuditIssues, same_canonical_candle
<1> QED BY <1>1, <1>2, <1>3, <1>4 DEF Applied

(* A source that lists no candle twice has one bar for each of its times.  *)
LEMMA DistinctTimes ==
  ASSUME NEW source \in Seq(MarketBar), Cardinality(SourceTimes(source)) = Len(source)
  PROVE  \A i, j \in DOMAIN source : source[i].t = source[j].t => i = j
<1> DEFINE f == [i \in 1..Len(source) |-> source[i].t]
<1>1. Len(source) \in Nat /\ DOMAIN source = 1..Len(source)
  OBVIOUS
<1>2. IsFiniteSet(1..Len(source)) /\ Cardinality(1..Len(source)) = Len(source)
  BY <1>1, UpToFacts
<1>3. f \in Surjection(1..Len(source), SourceTimes(source))
  BY <1>1 DEF Surjection, SourceTimes
<1>4. f \in Injection(1..Len(source), SourceTimes(source))
  BY <1>2, <1>3, FS_SurjSameCardinalityImpliesInj
<1> QED BY <1>1, <1>4 DEF Injection, IsInjective

----------------------------------------------------------------------------
(* The rows a snapshot writes, in order.                                   *)

(* A finite set as a sequence has every element in one place. *)
LEMMA SetToSeqFacts ==
  ASSUME NEW S, IsFiniteSet(S)
  PROVE  \E n \in Nat : /\ SetToSeq(S) \in [1..n -> S]
                        /\ \A i, j \in 1..n : SetToSeq(S)[i] = SetToSeq(S)[j] => i = j
                        /\ \A x \in S : \E i \in 1..n : SetToSeq(S)[i] = x
<1>1. Cardinality(S) \in Nat /\ Bijection(1..Cardinality(S), S) # {}
  BY FS_CardinalityType DEF ExistsBijection
<1>2. PICK n \in Nat : n = Cardinality(S)
  BY <1>1
<1>3. PICK f \in [1..n -> S] : IsInjective(f)
  BY <1>1, <1>2 DEF Bijection, Injection
<1>4. PICK s : s = SetToSeq(S)
  OBVIOUS
<1>5. s \in [1..n -> S] /\ IsInjective(s)
  BY <1>2, <1>3, <1>4 DEF SetToSeq
<1>6. \A i, j \in 1..n : s[i] = s[j] => i = j
  BY <1>5 DEF IsInjective
<1>7. s \in Injection(1..n, S)
  BY <1>5 DEF Injection
<1>8. IsFiniteSet(1..n) /\ Cardinality(1..n) = n
  BY UpToFacts
<1>9. s \in Surjection(1..n, S)
  BY <1>2, <1>7, <1>8, FS_Injection
<1>10. \A x \in S : \E i \in 1..n : s[i] = x
  BY <1>9 DEF Surjection
<1> QED BY <1>4, <1>5, <1>6, <1>10

----------------------------------------------------------------------------
(* The inductive invariant.                                                *)

Ats == {"none", "bar", "committing", "repair", "log", "service", "stored", "current",
        "build"}
Update == [bar : MarketBar, is_closed : BOOLEAN]
Fields == {"op", "todo", "rows", "wrote", "q", "seen", "cur", "source", "strict"}

ReqType(r) ==
  /\ DOMAIN r = Fields
  /\ r.todo \in Seq(Update)
  /\ r.rows \in Nat /\ r.wrote \in Nat
  /\ r.source \in Seq(MarketBar)
  /\ r.strict \in BOOLEAN

AType ==
  /\ at \in [Proc -> Ats]
  /\ DOMAIN req = Proc /\ \A p \in Proc : ReqType(req[p])
  /\ DOMAIN reply = Proc
  /\ revised \in SUBSET Times

(* An adapter uses the store itself only while it is committing a bar; a   *)
(* repair holds the writer lock from its read of the series on.            *)
Alone(p) ==
  /\ at[p] \notin {"none", "committing"} => pc[p] = "idle"
  /\ at[p] \in {"repair", "log"} => lock = p /\ DOMAIN req[p].seen = Times
  /\ at[p] = "repair" => req[p].seen = closed
  /\ at[p] = "service" => req[p].q \in Queries
  /\ at[p] \in {"service", "stored", "current", "build"} => req[p].op # "write"

(* Whether the call in progress has added its bar already. *)
Added(p) ==
  IF pc[p] = "idle" THEN result[p].status \in {"committed", "upserted"}
  ELSE pc[p] # "upsert_current" /\ job[p].status \in {"committed", "upserted"}

Raised(p) == pc[p] = "idle" /\ result[p].status \in {"conflict", "failed"}

(* rows lags behind what was written by the bar under way. *)
Counted(p) ==
  /\ at[p] = "bar" => req[p].rows = req[p].wrote
  /\ at[p] = "committing" =>
       /\ pc[p] = "idle" => result[p] # Nil
       /\ pc[p] = "upsert_current" => job[p].status = "upserted"
       /\ pc[p] = "delete_current" => job[p].status \in {"committed", "duplicate"}
       /\ pc[p] # "idle" => job[p].status \in {"upserted", "committed", "duplicate"}
       /\ IF pc[p] = "idle" /\ result[p].status = "failed"
            THEN req[p].wrote \in {req[p].rows, req[p].rows + 1}
            ELSE req[p].wrote = req[p].rows + IF Added(p) THEN 1 ELSE 0

(* Every closed bar of a series is still to come or stored, as long as no  *)
(* exception has ended the call.                                           *)
Pending(todo, b) == \E i \in DOMAIN todo : todo[i].bar = b /\ todo[i].is_closed
Written(b) == b.t \in revised \/ (closed[b.t] # Nil /\ closed[b.t].v = b.v)

Delivered(p) ==
  at[p] \in {"bar", "committing"} =>
    /\ req[p].op = "write" /\ req[p].seen \in SUBSET MarketBar
    /\ at[p] = "bar" \/ ~Raised(p) =>
         \A b \in req[p].seen : Pending(req[p].todo, b) \/ Written(b)

Converged(p) ==
  at[p] = "log" =>
    LET r == req[p] IN
    /\ \A t \in SourceTimes(r.source) :
         closed[t] # Nil /\ closed[t].v = r.source[Max(Mine(r.source, t))].v
    /\ r.strict => Stored = SourceTimes(r.source)

ProcInv(p) == Alone(p) /\ Counted(p) /\ Delivered(p) /\ Converged(p)

AInv == TypeOK /\ AType /\ \A p \in Proc : ProcInv(p)

LEMMA BlankFacts ==
  /\ ReqType(Blank) /\ Blank.todo = <<>> /\ Blank.rows = 0 /\ Blank.wrote = 0
  /\ DOMAIN Blank = Fields
  BY DEF Blank, ReqType, Fields

LEMMA InitAInv == AInit => AInv
<1> SUFFICES ASSUME AInit PROVE AInv
  OBVIOUS
<1>1. TypeOK
  BY InitIInv DEF AInit, IInv
<1>2. AType
  BY BlankFacts DEF AInit, AType, Ats
<1>3. \A p \in Proc : at[p] = "none"
  BY DEF AInit
<1> QED BY <1>1, <1>2, <1>3 DEF AInv, ProcInv, Alone, Counted, Delivered, Converged

----------------------------------------------------------------------------
(* What a step of one process means to the others: it leaves their calls   *)
(* alone, it writes nothing while another one holds the lock, and what it  *)
(* changes among the stored candles counts as revised.                     *)

Quiet(p) ==
  /\ \A q \in Proc \ {p} :
       /\ at'[q] = at[q] /\ req'[q] = req[q] /\ reply'[q] = reply[q]
       /\ pc'[q] = pc[q] /\ job'[q] = job[q] /\ result'[q] = result[q]
       /\ lock = q => lock' = q /\ closed' = closed
  /\ revised \subseteq revised'
  /\ \A t \in Times : closed[t] # Nil /\ closed'[t] # closed[t] => t \in revised'

LEMMA WrittenStays ==
  ASSUME NEW p \in Proc, Quiet(p), NEW b \in MarketBar, Written(b)
  PROVE  Written(b)'
<1>1. b.t \in Times
  BY DEF MarketBar
<1> QED BY <1>1 DEF Quiet, Written

LEMMA QuietKeeps ==
  ASSUME AInv, NEW p \in Proc, Quiet(p), NEW q \in Proc, q # p
  PROVE  ProcInv(q)'
<1>1. /\ at'[q] = at[q] /\ req'[q] = req[q] /\ reply'[q] = reply[q]
      /\ pc'[q] = pc[q] /\ job'[q] = job[q] /\ result'[q] = result[q]
      /\ lock = q => lock' = q /\ closed' = closed
  BY DEF Quiet
<1>2. Alone(q) /\ Counted(q) /\ Delivered(q) /\ Converged(q)
  BY DEF AInv, ProcInv
<1>3. Alone(q)'
  BY <1>1, <1>2 DEF Alone
<1>4. Counted(q)'
  BY <1>1, <1>2 DEF Counted, Added
<1>5. Delivered(q)'
  BY <1>1, <1>2, WrittenStays DEF Delivered, Raised, Pending
<1>6. Converged(q)'
  <2>1. at[q] = "log" => lock = q
    BY <1>2 DEF Alone
  <2> QED BY <1>1, <1>2, <2>1 DEF Converged, Stored
<1> QED BY <1>3, <1>4, <1>5, <1>6 DEF ProcInv

(* The calls of the candle store are quiet. *)
StoreQuiet(p) ==
  /\ \A q \in Proc \ {p} :
       /\ pc'[q] = pc[q] /\ job'[q] = job[q] /\ result'[q] = result[q]
       /\ lock = q => lock' = q /\ closed' = closed
  /\ \A t \in Times : closed[t] # Nil => closed'[t] = closed[t]

LEMMA CommitQuiet ==
  ASSUME TypeOK, NEW p \in Proc, NEW b \in MarketBar, commit_closed(p, b) \/ upsert_open(p, b)
  PROVE  StoreQuiet(p)
<1>1. \A t \in Times : closed[t] # Nil => closed'[t] = closed[t]
  BY CommitKeepsFinal, OthersKeepClosed
<1>2. lock = Nil /\ \A q \in Proc : q # Nil
  BY NilIsNone DEF commit_closed, CommitNewer, CommitDuplicate, CommitConflict, CommitMerge,
     upsert_open, LateOpenIgnored, AdmitOpen
<1>3. \A q \in Proc \ {p} : pc'[q] = pc[q] /\ job'[q] = job[q] /\ result'[q] = result[q]
  BY DEF commit_closed, CommitNewer, CommitDuplicate, CommitConflict, CommitMerge,
     upsert_open, LateOpenIgnored, AdmitOpen, Call, Return, TypeOK
<1> QED BY <1>1, <1>2, <1>3 DEF StoreQuiet

LEMMA StepQuiet ==
  ASSUME TypeOK, NEW p \in Proc, Step(p) \/ Fail(p)
  PROVE  StoreQuiet(p)
<1>1. closed' = closed
  BY OthersKeepClosed
<1>2. \A q \in Proc \ {p} : lock = q => lock' = q
  BY DEF Step, Fail, upsert_current, delete_current, get_checkpoint, update_checkpoint,
     Release, store
<1>3. \A q \in Proc \ {p} : pc'[q] = pc[q] /\ job'[q] = job[q] /\ result'[q] = result[q]
  BY DEF Step, Fail, upsert_current, delete_current, get_checkpoint, update_checkpoint,
     Goto, Return, TypeOK
<1> QED BY <1>1, <1>2, <1>3 DEF StoreQuiet

LEMMA StoreQuietIsQuiet ==
  ASSUME NEW p \in Proc, StoreQuiet(p), revised' = revised,
         \A q \in Proc \ {p} : at'[q] = at[q] /\ req'[q] = req[q] /\ reply'[q] = reply[q]
  PROVE  Quiet(p)
  BY DEF StoreQuiet, Quiet

----------------------------------------------------------------------------
(* Beginning, going on and replying.                                       *)

Done(p) == TypeOK' /\ AType' /\ Quiet(p) /\ ProcInv(p)'

LEMMA TypeKept ==
  ASSUME TypeOK, UNCHANGED candles, calls' \in Nat
  PROVE  TypeOK'
  BY DEF candles, TypeOK

(* The steps that leave the store alone are quiet. *)
LEMMA CandlesQuiet ==
  ASSUME NEW p \in Proc, UNCHANGED candles, revised \subseteq revised',
         \A q \in Proc \ {p} : at'[q] = at[q] /\ req'[q] = req[q] /\ reply'[q] = reply[q]
  PROVE  Quiet(p)
  BY DEF candles, Quiet

LEMMA BeginFacts ==
  ASSUME TypeOK, AType, NEW p \in Proc, NEW r, NEW to \in Ats, ReqType(r), Begin(p, r, to)
  PROVE  /\ AType' /\ calls' \in Nat /\ pc[p] = "idle" /\ at[p] = "none"
         /\ at'[p] = to /\ req'[p] = r /\ reply' = reply /\ revised' = revised
         /\ \A q \in Proc \ {p} : at'[q] = at[q] /\ req'[q] = req[q] /\ reply'[q] = reply[q]
<1>1. calls \in Nat /\ BoundsAssumption
  BY BoundsAssumption DEF TypeOK
<1> QED BY <1>1 DEF Begin, AType

LEMMA ProceedFacts ==
  ASSUME TypeOK, AType, NEW p \in Proc, NEW from, NEW to \in Ats, Proceed(p, from, to)
  PROVE  /\ at' \in [Proc -> Ats] /\ calls' \in Nat /\ at[p] = from /\ at'[p] = to
         /\ reply' = reply /\ DOMAIN reply' = Proc
         /\ \A q \in Proc \ {p} : at'[q] = at[q] /\ reply'[q] = reply[q]
<1>1. calls \in Nat
  BY DEF TypeOK
<1> QED BY <1>1 DEF Proceed, AType

LEMMA ReplyFacts ==
  ASSUME TypeOK, AType, NEW p \in Proc, NEW r, Reply(p, r)
  PROVE  /\ at' \in [Proc -> Ats] /\ calls' \in Nat /\ at'[p] = "none"
         /\ reply'[p] = r /\ DOMAIN reply' = Proc
         /\ \A q \in Proc \ {p} : at'[q] = at[q] /\ reply'[q] = reply[q]
<1>1. calls \in Nat
  BY DEF TypeOK
<1> QED BY <1>1 DEF Reply, AType, Ats

(* A process with no adapter call, or one that only reads, owes nothing. *)
LEMMA NothingOwed ==
  ASSUME NEW p \in Proc, at'[p] \in {"none", "stored", "current", "build"},
         at'[p] # "none" => pc'[p] = "idle" /\ req'[p].op # "write"
  PROVE  ProcInv(p)'
  BY DEF ProcInv, Alone, Counted, Delivered, Converged

LEMMA FetchDone ==
  ASSUME AInv, NEW p \in Proc, NEW q \in Queries, fetch_bars(p, q) \/ read(p, q)
  PROVE  Done(p)
<1>0. TypeOK /\ AType
  BY DEF AInv
<1>1. CASE fetch_bars(p, q)
  <2> DEFINE r == [Blank EXCEPT !.op = "fetch", !.q = q]
  <2>1. ReqType(r) /\ r.q = q /\ r.op = "fetch"
    BY BlankFacts DEF ReqType, Fields
  <2>2. Begin(p, r, "service") /\ UNCHANGED candles
    BY <1>1 DEF fetch_bars
  <2> HIDE DEF r
  <2>3. /\ AType' /\ calls' \in Nat /\ pc[p] = "idle" /\ at'[p] = "service" /\ req'[p] = r
        /\ revised' = revised
        /\ \A o \in Proc \ {p} : at'[o] = at[o] /\ req'[o] = req[o] /\ reply'[o] = reply[o]
    BY <1>0, <2>1, <2>2, BeginFacts DEF Ats
  <2>4. TypeOK' /\ Quiet(p)
    BY <1>0, <2>2, <2>3, TypeKept, CandlesQuiet
  <2>5. pc'[p] = "idle"
    BY <2>2, <2>3 DEF candles
  <2>6. ProcInv(p)'
    BY <2>1, <2>3, <2>5 DEF ProcInv, Alone, Counted, Delivered, Converged
  <2> QED BY <2>3, <2>4, <2>6 DEF Done
<1>2. CASE read(p, q)
  <2> DEFINE r == [Blank EXCEPT !.op = "read", !.q = q]
  <2>1. ReqType(r) /\ r.op = "read"
    BY BlankFacts DEF ReqType, Fields
  <2>2. Begin(p, r, "stored") /\ UNCHANGED candles
    BY <1>2 DEF read
  <2> HIDE DEF r
  <2>3. /\ AType' /\ calls' \in Nat /\ pc[p] = "idle" /\ at'[p] = "stored" /\ req'[p] = r
        /\ revised' = revised
        /\ \A o \in Proc \ {p} : at'[o] = at[o] /\ req'[o] = req[o] /\ reply'[o] = reply[o]
    BY <1>0, <2>1, <2>2, BeginFacts DEF Ats
  <2>4. TypeOK' /\ Quiet(p) /\ pc'[p] = "idle"
    BY <1>0, <2>2, <2>3, TypeKept, CandlesQuiet DEF candles
  <2> QED BY <2>1, <2>3, <2>4, NothingOwed DEF Done
<1> QED BY <1>1, <1>2

(* Calls that are over at once. *)
LEMMA AtOnce ==
  ASSUME AInv, NEW p \in Proc, at[p] = "none", UNCHANGED <<at, req>>, DOMAIN reply' = Proc,
         TypeOK', Quiet(p), revised' = revised
  PROVE  Done(p)
<1>1. AType'
  BY DEF AInv, AType
<1>2. at'[p] = "none"
  OBVIOUS
<1> QED BY <1>1, <1>2, NothingOwed DEF Done

LEMMA AuditDone ==
  ASSUME AInv, NEW p \in Proc, NEW source \in Sources, NEW strict \in BOOLEAN,
         audit_against_source(p, source, strict)
  PROVE  Done(p)
<1>1. TypeOK'
  <2>1. UNCHANGED candles /\ calls' \in Nat
    BY DEF audit_against_source, AInv, TypeOK
  <2> QED BY <2>1, TypeKept DEF AInv
<1>2. /\ DOMAIN reply' = Proc
      /\ \A q \in Proc \ {p} : at'[q] = at[q] /\ req'[q] = req[q] /\ reply'[q] = reply[q]
  BY DEF audit_against_source, AInv, AType
<1>3. Quiet(p)
  BY <1>2, CandlesQuiet DEF audit_against_source
<1> QED BY <1>1, <1>2, <1>3, AtOnce DEF audit_against_source

(* The reads of fetch_bars and read. *)
LEMMA ReadDone ==
  ASSUME AInv, NEW p \in Proc,
         get_market_bars(p) \/ get_current(p) \/ snapshot_from_market_bars(p)
  PROVE  Done(p)
<1>0. TypeOK /\ AType /\ DOMAIN req[p] = Fields /\ ReqType(req[p])
  BY DEF AInv, AType, ReqType
<1>1. UNCHANGED candles /\ revised' = revised
  BY DEF get_market_bars, get_current, snapshot_from_market_bars
<1>2. /\ at[p] \in {"stored", "current", "build"} /\ calls' \in Nat
      /\ at' \in [Proc -> Ats] /\ at'[p] \in {"none", "current", "build"}
      /\ DOMAIN reply' = Proc
      /\ \A q \in Proc \ {p} : at'[q] = at[q] /\ reply'[q] = reply[q]
  <2>1. CASE get_market_bars(p)
    BY <1>0, <2>1, ProceedFacts DEF get_market_bars, Ats
  <2>2. CASE get_current(p)
    BY <1>0, <2>2, ProceedFacts DEF get_current, Ats
  <2>3. CASE snapshot_from_market_bars(p)
    BY <1>0, <2>3, ReplyFacts DEF snapshot_from_market_bars, Ats
  <2> QED BY <2>1, <2>2, <2>3
<1>3. /\ DOMAIN req' = Proc /\ ReqType(req'[p]) /\ req'[p].op = req[p].op
      /\ \A q \in Proc \ {p} : req'[q] = req[q]
  <2>1. \A x : /\ ReqType([req[p] EXCEPT !.seen = x]) /\ ReqType([req[p] EXCEPT !.cur = x])
               /\ [req[p] EXCEPT !.seen = x].op = req[p].op
               /\ [req[p] EXCEPT !.cur = x].op = req[p].op
    BY <1>0 DEF ReqType, Fields
  <2>2. CASE get_market_bars(p)
    BY <1>0, <2>1, <2>2 DEF get_market_bars, AType
  <2>3. CASE get_current(p)
    <3>1. req' = req \/ \E x : req' = [req EXCEPT ![p].cur = x]
      BY <2>3 DEF get_current
    <3>2. ASSUME NEW x, req' = [req EXCEPT ![p].cur = x]
          PROVE  /\ DOMAIN req' = Proc /\ ReqType(req'[p]) /\ req'[p].op = req[p].op
                 /\ \A q \in Proc \ {p} : req'[q] = req[q]
      <4>1. /\ DOMAIN req' = Proc /\ req'[p] = [req[p] EXCEPT !.cur = x]
            /\ \A q \in Proc \ {p} : req'[q] = req[q]
        BY <1>0, <3>2 DEF AType
      <4>2. PICK c : c = [req[p] EXCEPT !.cur = x] /\ ReqType(c) /\ c.op = req[p].op
        BY <2>1
      <4>3. req'[p] = c
        BY <4>1, <4>2
      <4> QED BY <4>1, <4>2, <4>3
    <3>3. CASE req' = req
      BY <1>0, <3>3 DEF AType
    <3> QED BY <3>1, <3>2, <3>3
  <2>4. CASE snapshot_from_market_bars(p)
    BY <1>0, <2>4 DEF snapshot_from_market_bars, AType
  <2> QED BY <2>2, <2>3, <2>4
<1>4. AType'
  BY <1>0, <1>1, <1>2, <1>3 DEF AType
<1>5. TypeOK' /\ Quiet(p)
  BY <1>0, <1>1, <1>2, <1>3, TypeKept, CandlesQuiet
<1>6. pc'[p] = "idle" /\ req'[p].op # "write"
  BY <1>1, <1>2, <1>3 DEF candles, AInv, ProcInv, Alone
<1> QED BY <1>2, <1>4, <1>5, <1>6, NothingOwed DEF Done

----------------------------------------------------------------------------
(* Writing a series or a snapshot bar by bar.                              *)

LEMMA BarByBarDone ==
  ASSUME AInv, NEW p \in Proc, NEW todo \in Seq(Update), NEW bars \in SUBSET MarketBar,
         \A b \in bars : Pending(todo, b), BarByBar(p, todo, bars)
  PROVE  Done(p)
<1> DEFINE r == [Blank EXCEPT !.op = "write", !.todo = todo, !.seen = bars]
<1>1. ReqType(r) /\ r.op = "write" /\ r.todo = todo /\ r.seen = bars /\ r.rows = 0 /\ r.wrote = 0
  BY BlankFacts DEF ReqType, Fields
<1>2. Begin(p, r, "bar") /\ UNCHANGED candles
  BY DEF BarByBar
<1> HIDE DEF r
<1>3. /\ AType' /\ calls' \in Nat /\ pc[p] = "idle" /\ at'[p] = "bar" /\ req'[p] = r
      /\ revised' = revised
      /\ \A o \in Proc \ {p} : at'[o] = at[o] /\ req'[o] = req[o] /\ reply'[o] = reply[o]
  BY <1>1, <1>2, BeginFacts DEF AInv, Ats
<1>4. TypeOK' /\ Quiet(p) /\ pc'[p] = "idle"
  BY <1>2, <1>3, TypeKept, CandlesQuiet DEF AInv, candles
<1>5. Alone(p)' /\ Counted(p)' /\ Converged(p)'
  BY <1>1, <1>3, <1>4 DEF Alone, Counted, Converged
<1>6. Delivered(p)'
  BY <1>1, <1>3 DEF Delivered
<1> QED BY <1>3, <1>4, <1>5, <1>6 DEF Done, ProcInv

LEMMA SeqFacts ==
  ASSUME NEW S, NEW s \in Seq(S)
  PROVE  Len(s) \in Nat /\ DOMAIN s = 1..Len(s) /\ \A i \in DOMAIN s : s[i] \in S
  OBVIOUS

LEMMA FunctionIsSeq ==
  ASSUME NEW S, NEW n \in Nat, NEW f \in [1..n -> S]
  PROVE  f \in Seq(S)
  OBVIOUS

LEMMA SeriesBarByBar ==
  ASSUME AInv, NEW p \in Proc, NEW s \in Series, write_series(p, s),
         ~(s # <<>> /\ \A i \in DOMAIN s : s[i].closed)
  PROVE  Done(p)
<1> DEFINE bars == [i \in DOMAIN s |-> contract_to_market_bar(s[i])]
           todo == [i \in DOMAIN s |-> [bar |-> bars[i], is_closed |-> s[i].closed]]
           final == {bars[i] : i \in {j \in DOMAIN s : s[j].closed}}
<1>1. s \in Seq([t : Times, v : Int, closed : BOOLEAN])
      /\ \A i \in DOMAIN s : contract_to_market_bar(s[i]) \in MarketBar
  BY InputsAssumption
<1>2. /\ Len(s) \in Nat /\ DOMAIN s = 1..Len(s)
      /\ \A i \in DOMAIN s : s[i].closed \in BOOLEAN
  <2>1. PICK C : C = [t : Times, v : Int, closed : BOOLEAN]
    OBVIOUS
  <2>2. s \in Seq(C)
    BY <1>1, <2>1
  <2>3. Len(s) \in Nat /\ DOMAIN s = 1..Len(s) /\ \A i \in DOMAIN s : s[i] \in C
    BY <2>2, SeqFacts
  <2> QED BY <2>1, <2>3
<1>3. \A i \in DOMAIN s : bars[i] \in MarketBar /\ todo[i].bar = bars[i]
                          /\ todo[i].is_closed = s[i].closed
  BY <1>1
<1>4. BarByBar(p, todo, final)
  BY DEF write_series
<1>5. DOMAIN todo = 1..Len(s)
  BY <1>2
<1> HIDE DEF bars
<1>6. \A i \in 1..Len(s) : todo[i] \in Update
  BY <1>2, <1>3 DEF Update
<1>7. todo \in [1..Len(s) -> Update]
  BY <1>2, <1>5, <1>6
<1> HIDE DEF todo
<1>8. todo \in Seq(Update)
  BY <1>2, <1>7, FunctionIsSeq
<1>9. final \in SUBSET MarketBar /\ \A b \in final : Pending(todo, b)
  BY <1>2, <1>3, <1>5 DEF Pending
<1> QED BY <1>4, <1>8, <1>9, BarByBarDone

LEMMA SnapshotDone ==
  ASSUME AInv, NEW p \in Proc, NEW s \in Snapshots, write_snapshot(p, s)
  PROVE  Done(p)
<1> DEFINE rows == SetToSeq(KeptRows(s))
           kept == Ordered(rows, DOMAIN rows)
           todo == [i \in DOMAIN kept |-> [bar |-> market_bar_from_canonical(kept[i]),
                                           is_closed |-> kept[i].final]]
           final == {todo[i].bar : i \in {j \in DOMAIN todo : todo[j].is_closed}}
<1>1. CASE BarByBar(p, todo, final)
  <2>1. PICK n \in Nat : rows \in [1..n -> KeptRows(s)]
    BY SetToSeqFacts, InputsAssumption
  <2>2. \A row \in KeptRows(s) :
          /\ row.rev \in Nat /\ row.t \in Nat /\ row.final \in BOOLEAN
          /\ market_bar_from_canonical(row) \in MarketBar
    <3>1. \A row : market_bar_from_canonical(row) \in MarketBar => row.t \in Times
      BY DEF market_bar_from_canonical, MarketBar
    <3> QED BY <3>1, InputsAssumption, TimesAreNumbers
  <2>3. kept \in [1..n -> KeptRows(s)]
    <3>1. DOMAIN rows \in SUBSET Nat /\ IsFiniteSet(DOMAIN rows) /\ Cardinality(DOMAIN rows) = n
      BY <2>1, UpToFacts
    <3>2. \A i \in DOMAIN rows : rows[i].t \in Nat /\ rows[i].rev \in Nat
      BY <2>1, <2>2
    <3>3. PICK r, P : r = rows /\ P = DOMAIN rows
      OBVIOUS
    <3>4. /\ P \in SUBSET Nat /\ IsFiniteSet(P)
          /\ \A i \in P : r[i].t \in Nat /\ r[i].rev \in Nat
      BY <3>1, <3>2, <3>3
    <3>5. PICK e \in [1..Cardinality(P) -> P] :
            Ordered(r, P) = [k \in 1..Cardinality(P) |-> r[e[k]]]
      BY <3>4, OrderedFacts
    <3>6. Cardinality(P) = n /\ P = 1..n /\ \A i \in P : r[i] \in KeptRows(s)
      BY <2>1, <3>1, <3>3
    <3> QED BY <3>3, <3>5, <3>6
  <2> HIDE DEF kept
  <2>4. DOMAIN todo = 1..n
    BY <2>3
  <2>5. \A i \in 1..n : todo[i] \in Update
    BY <2>2, <2>3 DEF Update
  <2>6. todo \in [1..n -> Update]
    BY <2>4, <2>5
  <2> HIDE DEF todo
  <2>7. todo \in Seq(Update)
    BY <2>6, FunctionIsSeq
  <2>8. final \in SUBSET MarketBar /\ \A b \in final : Pending(todo, b)
    BY <2>4, <2>5 DEF Pending, Update
  <2> QED BY <1>1, <2>7, <2>8, BarByBarDone
<1>2. CASE /\ at[p] = "none" /\ calls' = calls + 1 /\ UNCHANGED <<candles, at, req, revised>>
           /\ \E r : reply' = [reply EXCEPT ![p] = r]
  <2>1. calls' \in Nat
    BY <1>2 DEF AInv, TypeOK
  <2>2. TypeOK'
    BY <1>2, <2>1, TypeKept DEF AInv
  <2>3. DOMAIN reply' = Proc /\ \A q \in Proc \ {p} : reply'[q] = reply[q]
    BY <1>2 DEF AInv, AType
  <2>4. Quiet(p)
    BY <1>2, <2>3, CandlesQuiet
  <2> QED BY <1>2, <2>2, <2>3, <2>4, AtOnce
<1> QED BY <1>1, <1>2 DEF write_snapshot

----------------------------------------------------------------------------
(* Writing many candles at once.                                           *)

LEMMA OverlayFacts ==
  ASSUME TypeOK, NEW bars \in SUBSET MarketBar
  PROVE  /\ Overlay(bars) \in [Times -> MarketBar \cup {Nil}]
         /\ \A t \in Times : t \notin OpenTimes(bars) => Overlay(bars)[t] = closed[t]
         /\ \A t \in OpenTimes(bars) : t \in Times /\ Overlay(bars)[t] \in bars
                                       /\ Overlay(bars)[t].t = t
<1>1. ASSUME NEW t \in OpenTimes(bars)
      PROVE  t \in Times /\ Overlay(bars)[t] \in bars /\ Overlay(bars)[t].t = t
  <2>1. PICK b \in bars : b.t = t
    BY DEF OpenTimes
  <2>2. t \in Times
    BY <2>1 DEF MarketBar
  <2>3. Overlay(bars)[t] = CHOOSE c \in bars : c.t = t
    BY <2>2 DEF Overlay
  <2> QED BY <2>1, <2>2, <2>3
<1>2. ASSUME NEW t \in Times, t \notin OpenTimes(bars)
      PROVE  Overlay(bars)[t] = closed[t]
  BY <1>2 DEF Overlay
<1>3. \A t \in Times : Overlay(bars)[t] \in MarketBar \cup {Nil}
  BY <1>1, <1>2 DEF TypeOK
<1>4. DOMAIN Overlay(bars) = Times /\ Overlay(bars) = [t \in Times |-> Overlay(bars)[t]]
  BY DEF Overlay
<1> QED BY <1>1, <1>2, <1>3, <1>4

(* _normalize_closed_batch keeps one bar of each time. *)
LEMMA IncomingFacts ==
  ASSUME NEW s \in Seq(MarketBar)
  PROVE  /\ Incoming(s) \in SUBSET MarketBar
         /\ \A b, c \in Incoming(s) : b.t = c.t => b = c
<1>1. Len(s) \in Nat /\ DOMAIN s = 1..Len(s) /\ \A i \in DOMAIN s : s[i] \in MarketBar
  BY SeqFacts
<1>2. ASSUME NEW i \in DOMAIN s, NEW j \in DOMAIN s, s[i].t = s[j].t,
             \A k \in 1..(i - 1) : s[k].t # s[i].t, \A k \in 1..(j - 1) : s[k].t # s[j].t
      PROVE  i = j
  <2>1. ~(i < j) /\ ~(j < i)
    <3>1. i < j => i \in 1..(j - 1)
      BY <1>1
    <3>2. j < i => j \in 1..(i - 1)
      BY <1>1
    <3> QED BY <1>2, <3>1, <3>2
  <2> QED BY <1>1, <2>1
<1> QED BY <1>1, <1>2 DEF Incoming

(* _bulk_write_closed leaves every stored candle as it is and stores the   *)
(* bars of the series, or does nothing.                                    *)
LEMMA BulkFacts ==
  ASSUME AInv, NEW p \in Proc, NEW s \in Seq(MarketBar), bulk_write_closed(p, s)
  PROVE  /\ closed' \in [Times -> MarketBar \cup {Nil}]
         /\ \A t \in Times : closed[t] # Nil => closed'[t] = closed[t]
         /\ BulkVerdict(s) = "ok" =>
              \A b \in Incoming(s) : closed'[b.t] # Nil /\ closed'[b.t].v = b.v
<1> DEFINE new == Incoming(s) \ Known(Incoming(s))
<1>0. TypeOK /\ \A b \in MarketBar : b # Nil /\ b.t \in Times
  BY NilIsNone DEF AInv, MarketBar
<1>1. /\ Incoming(s) \in SUBSET MarketBar
      /\ \A b, c \in Incoming(s) : b.t = c.t => b = c
  BY IncomingFacts
<1>2. new \in SUBSET MarketBar /\ new \subseteq Incoming(s)
  BY <1>1
<1>3. \A t \in OpenTimes(new) : closed[t] = Nil
  BY <1>0, <1>1 DEF OpenTimes, Known, Stored
<1>4. CASE BulkVerdict(s) # "ok"
  <2>1. closed' = closed
    BY <1>4 DEF bulk_write_closed
  <2> QED BY <1>0, <1>4, <2>1 DEF TypeOK
<1>5. CASE BulkVerdict(s) = "ok"
  <2>1. closed' = Overlay(new)
    BY <1>5 DEF bulk_write_closed
  <2>2. \A b \in Known(Incoming(s)) : closed[b.t].v = b.v
    BY <1>5 DEF BulkVerdict, same_canonical_candle
  <2> HIDE DEF new
  <2>3. /\ closed' \in [Times -> MarketBar \cup {Nil}]
        /\ \A t \in Times : t \notin OpenTimes(new) => closed'[t] = closed[t]
        /\ \A t \in OpenTimes(new) : t \in Times /\ closed'[t] \in new /\ closed'[t].t = t
    BY <1>0, <1>2, <2>1, OverlayFacts
  <2>4. \A t \in Times : closed[t] # Nil => closed'[t] = closed[t]
    BY <1>3, <2>3
  <2>5. ASSUME NEW b \in Incoming(s)
        PROVE  closed'[b.t] # Nil /\ closed'[b.t].v = b.v
    <3>1. b \in MarketBar /\ b.t \in Times
      BY <1>0, <1>1
    <3>2. CASE b \in new
      <4>1. b.t \in OpenTimes(new)
        BY <3>2 DEF OpenTimes
      <4>2. closed'[b.t] = b
        BY <1>1, <1>2, <2>3, <4>1
      <4> QED BY <1>0, <3>1, <4>2
    <3>3. CASE b \notin new
      <4>1. b \in Known(Incoming(s))
        BY <3>3 DEF new
      <4>2. closed[b.t] # Nil /\ closed[b.t].v = b.v
        BY <2>2, <4>1 DEF Known, Stored
      <4> QED BY <2>4, <3>1, <4>2
    <3> QED BY <3>2, <3>3
  <2> QED BY <2>3, <2>4, <2>5
<1> QED BY <1>4, <1>5

LEMMA BulkDone ==
  ASSUME AInv, NEW p \in Proc, NEW s \in Seq(MarketBar), bulk_write_closed(p, s)
  PROVE  Done(p)
<1>1. /\ closed' \in [Times -> MarketBar \cup {Nil}]
      /\ \A t \in Times : closed[t] # Nil => closed'[t] = closed[t]
  BY BulkFacts
<1>2. /\ at[p] = "none" /\ lock = Nil /\ calls' = calls + 1 /\ fmt' \in {"csv", fmt}
      /\ \E r : reply' = [reply EXCEPT ![p] = r]
      /\ UNCHANGED <<current, checkpoint, lock, pc, job, result, fails, at, req, revised>>
  BY DEF bulk_write_closed
<1>3. calls' \in Nat /\ DOMAIN reply' = Proc /\ \A q \in Proc \ {p} : reply'[q] = reply[q]
  BY <1>2 DEF AInv, TypeOK, AType
<1>4. TypeOK'
  BY <1>1, <1>2, <1>3 DEF AInv, TypeOK
<1>5. Quiet(p)
  <2>1. \A q \in Proc : lock # q
    BY <1>2, NilIsNone
  <2> QED BY <1>1, <1>2, <1>3, <2>1 DEF Quiet
<1> QED BY <1>2, <1>3, <1>4, <1>5, AtOnce

(* The bars of a closed series. *)
SeriesBars(s) == [i \in DOMAIN s |-> contract_to_market_bar(s[i])]

LEMMA SeriesBarsFacts ==
  ASSUME NEW s \in Series
  PROVE  SeriesBars(s) \in Seq(MarketBar)
<1>1. PICK C : C = [t : Times, v : Int, closed : BOOLEAN]
  OBVIOUS
<1>2. s \in Seq(C) /\ \A i \in DOMAIN s : contract_to_market_bar(s[i]) \in MarketBar
  BY <1>1, InputsAssumption
<1>3. Len(s) \in Nat /\ DOMAIN s = 1..Len(s)
  BY <1>2, SeqFacts
<1>4. SeriesBars(s) \in [1..Len(s) -> MarketBar]
  BY <1>2, <1>3 DEF SeriesBars
<1> QED BY <1>3, <1>4, FunctionIsSeq

LEMMA SeriesDone ==
  ASSUME AInv, NEW p \in Proc, NEW s \in Series, write_series(p, s)
  PROVE  Done(p)
<1>1. CASE s # <<>> /\ \A i \in DOMAIN s : s[i].closed
  <2>1. bulk_write_closed(p, SeriesBars(s))
    BY <1>1 DEF write_series, SeriesBars
  <2> QED BY <2>1, BulkDone, SeriesBarsFacts
<1>2. CASE ~(s # <<>> /\ \A i \in DOMAIN s : s[i].closed)
  BY <1>2, SeriesBarByBar
<1> QED BY <1>1, <1>2

----------------------------------------------------------------------------
(* The steps of a write bar by bar.                                        *)

(* How a call of the store leaves process p, and what it has written. *)
LEMMA CommitOutcome ==
  ASSUME TypeOK, NEW p \in Proc, NEW b \in MarketBar, commit_closed(p, b)
  PROVE  \/ /\ pc'[p] = "delete_current" /\ job'[p].status = "committed"
            /\ closed' # closed /\ closed'[b.t] = b
         \/ /\ pc'[p] = "delete_current" /\ job'[p].status = "duplicate"
            /\ closed' = closed /\ closed'[b.t] = b
         \/ /\ pc'[p] = "idle" /\ result'[p] # Nil /\ result'[p].status = "conflict"
            /\ closed' = closed
<1>0. b.t \in Times /\ b # Nil /\ closed \in [Times -> MarketBar \cup {Nil}]
      /\ DOMAIN pc = Proc /\ DOMAIN job = Proc /\ DOMAIN result = Proc
  BY NilIsNone DEF MarketBar, TypeOK
<1>1. CASE CommitNewer(p, b)
  <2>0. b.t \in Nat
    BY <1>0, TimesAreNumbers
  <2>1. ~(b.t > b.t)
    BY <2>0
  <2>2. closed[b.t] = Nil
    BY <1>0, <1>1, <2>1 DEF CommitNewer, IsNewer, Stored
  <2>3. closed'[b.t] = b /\ pc'[p] = "delete_current" /\ job'[p].status = "committed"
    BY <1>0, <1>1 DEF CommitNewer, Call
  <2> QED BY <1>0, <2>2, <2>3
<1>2. CASE CommitDuplicate(p, b)
  BY <1>0, <1>2 DEF CommitDuplicate, Call, market_bar_checksum
<1>3. CASE CommitConflict(p, b)
  <2>1. [status |-> "conflict", bar |-> b] \in CommitResult
    BY DEF CommitResult, Statuses
  <2>2. /\ pc'[p] = "idle" /\ closed' = closed
        /\ result'[p] = [status |-> "conflict", bar |-> b]
    BY <1>0, <1>3 DEF CommitConflict, Return, store
  <2> QED BY <2>1, <2>2, NilIsNone
<1>4. CASE CommitMerge(p, b)
  <2>1. closed'[b.t] = b /\ pc'[p] = "delete_current" /\ job'[p].status = "committed"
        /\ closed[b.t] = Nil
    BY <1>0, <1>4 DEF CommitMerge, Call
  <2> QED BY <1>0, <2>1
<1> QED BY <1>1, <1>2, <1>3, <1>4 DEF commit_closed

LEMMA UpsertOutcome ==
  ASSUME TypeOK, NEW p \in Proc, NEW b \in MarketBar, upsert_open(p, b)
  PROVE  /\ closed' = closed
         /\ \/ pc'[p] = "upsert_current" /\ job'[p].status = "upserted"
            \/ pc'[p] = "idle" /\ result'[p] # Nil /\ result'[p].status = "ignored"
<1>0. DOMAIN pc = Proc /\ DOMAIN job = Proc /\ DOMAIN result = Proc
  BY DEF TypeOK
<1>1. [status |-> "ignored", bar |-> b] \in CommitResult
  BY DEF CommitResult, Statuses
<1> QED BY <1>0, <1>1, NilIsNone
        DEF upsert_open, LateOpenIgnored, AdmitOpen, Call, Return, store

LEMMA WriteBarDone ==
  ASSUME AInv, NEW p \in Proc, WriteBar(p)
  PROVE  Done(p)
<1> DEFINE todo == req[p].todo
           n == IF closed' # closed THEN 1 ELSE 0
<1>0. TypeOK /\ AType /\ ReqType(req[p]) /\ ProcInv(p)
  BY DEF AInv, AType
<1>1. PICK u : u = Head(todo)
  OBVIOUS
<1>2. /\ todo \in Seq(Update) /\ todo # <<>>
      /\ u \in Update /\ u = todo[1] /\ Tail(todo) \in Seq(Update)
      /\ Len(todo) \in Nat /\ Len(todo) >= 1 /\ DOMAIN todo = 1..Len(todo)
      /\ DOMAIN Tail(todo) = 1..(Len(todo) - 1)
      /\ \A i \in 1..(Len(todo) - 1) : Tail(todo)[i] = todo[i + 1]
  <2>1. todo \in Seq(Update) /\ todo # <<>>
    BY <1>0 DEF ReqType, WriteBar
  <2> HIDE DEF todo
  <2> QED BY <1>1, <2>1
<1>3. u.bar \in MarketBar /\ u.is_closed \in BOOLEAN
  BY <1>2 DEF Update
<1>4. IF u.is_closed THEN commit_closed(p, u.bar) ELSE upsert_open(p, u.bar)
  BY <1>1 DEF WriteBar
<1>5. /\ at' \in [Proc -> Ats] /\ calls' \in Nat /\ at[p] = "bar" /\ at'[p] = "committing"
      /\ DOMAIN reply' = Proc
      /\ \A q \in Proc \ {p} : at'[q] = at[q] /\ reply'[q] = reply[q]
  BY <1>0, ProceedFacts DEF WriteBar, Ats
<1>6. /\ DOMAIN req' = Proc /\ \A q \in Proc \ {p} : req'[q] = req[q]
      /\ req'[p] = [[req[p] EXCEPT !.todo = Tail(todo)] EXCEPT !.wrote = req[p].wrote + n]
  BY <1>0 DEF WriteBar, AType, ReqType, Fields
<1>7. /\ DOMAIN req'[p] = Fields /\ req'[p].todo = Tail(todo)
      /\ req'[p].wrote = req[p].wrote + n
      /\ req'[p].op = req[p].op /\ req'[p].rows = req[p].rows /\ req'[p].seen = req[p].seen
      /\ req'[p].source = req[p].source /\ req'[p].strict = req[p].strict
  BY <1>0, <1>6 DEF ReqType, Fields
<1>8. n \in Nat /\ revised' = revised
  BY DEF WriteBar
<1>9. ReqType(req'[p])
  BY <1>0, <1>2, <1>7, <1>8 DEF ReqType
<1>10. AType'
  BY <1>0, <1>5, <1>6, <1>8, <1>9 DEF AType
<1>11. TypeOK'
  BY <1>0, <1>3, <1>4, <1>5, CommitClosedType, UpsertOpenType
<1>12. Quiet(p)
  <2>1. StoreQuiet(p)
    BY <1>0, <1>3, <1>4, CommitQuiet
  <2> QED BY <1>5, <1>6, <1>8, <2>1, StoreQuietIsQuiet
<1>13. req[p].rows = req[p].wrote /\ req[p].op = "write" /\ req[p].seen \in SUBSET MarketBar
       /\ \A b \in req[p].seen : Pending(todo, b) \/ Written(b)
  BY <1>0, <1>5 DEF ProcInv, Counted, Delivered
<1>14. \/ /\ pc'[p] = "delete_current" /\ job'[p].status = "committed" /\ n = 1
       \/ /\ pc'[p] = "delete_current" /\ job'[p].status = "duplicate" /\ n = 0
       \/ /\ pc'[p] = "upsert_current" /\ job'[p].status = "upserted" /\ n = 0
       \/ /\ pc'[p] = "idle" /\ result'[p] # Nil /\ n = 0
          /\ result'[p].status \in {"conflict", "ignored"}
  BY <1>0, <1>3, <1>4, CommitOutcome, UpsertOutcome
<1>15. Counted(p)'
  <2> HIDE DEF n
  <2>1. req'[p].wrote = req'[p].rows + n /\ req'[p].rows \in Nat
    BY <1>0, <1>7, <1>13 DEF ReqType
  <2> QED BY <1>5, <1>14, <2>1 DEF Counted, Added
<1>16. Delivered(p)'
  <2> SUFFICES ASSUME ~Raised(p)', NEW b \in req[p].seen
               PROVE  Pending(Tail(todo), b) \/ Written(b)'
    BY <1>5, <1>7, <1>13 DEF Delivered
  <2>1. b \in MarketBar /\ b.t \in Times /\ b # Nil
    BY <1>13, NilIsNone DEF MarketBar
  <2>2. CASE Written(b)
    BY <1>12, <2>1, <2>2, WrittenStays
  <2>3. CASE Pending(todo, b)
    <3>1. PICK i \in DOMAIN todo : todo[i].bar = b /\ todo[i].is_closed
      BY <2>3 DEF Pending
    <3>2. CASE i = 1
      <4>1. u.bar = b /\ commit_closed(p, b)
        BY <1>2, <1>4, <3>1, <3>2
      <4>2. closed'[b.t] = b
        BY <1>0, <2>1, <4>1, CommitOutcome DEF Raised
      <4> QED BY <2>1, <4>2 DEF Written
    <3>3. CASE i # 1
      <4>1. i - 1 \in 1..(Len(todo) - 1) /\ Tail(todo)[i - 1] = todo[i]
        BY <1>2, <3>1, <3>3
      <4> QED BY <1>2, <3>1, <4>1 DEF Pending
    <3> QED BY <3>2, <3>3
  <2> QED BY <1>13, <2>2, <2>3
<1>17. Alone(p)' /\ Converged(p)'
  BY <1>5 DEF Alone, Converged
<1> QED BY <1>10, <1>11, <1>12, <1>15, <1>16, <1>17 DEF Done, ProcInv

LEMMA BarWrittenDone ==
  ASSUME AInv, NEW p \in Proc, BarWritten(p)
  PROVE  Done(p)
<1> DEFINE n == IF result[p].status \in {"committed", "upserted"} THEN 1 ELSE 0
<1>0. TypeOK /\ AType /\ ReqType(req[p]) /\ ProcInv(p)
  BY DEF AInv, AType
<1>1. /\ at' \in [Proc -> Ats] /\ calls' \in Nat /\ at[p] = "committing" /\ at'[p] = "bar"
      /\ DOMAIN reply' = Proc
      /\ \A q \in Proc \ {p} : at'[q] = at[q] /\ reply'[q] = reply[q]
  BY <1>0, ProceedFacts DEF BarWritten, Ats
<1>2. /\ pc[p] = "idle" /\ result[p].status \notin {"conflict", "failed"}
      /\ UNCHANGED candles /\ revised' = revised
  BY DEF BarWritten
<1>3. /\ DOMAIN req' = Proc /\ \A q \in Proc \ {p} : req'[q] = req[q]
      /\ req'[p] = [req[p] EXCEPT !.rows = req[p].rows + n]
  BY <1>0 DEF BarWritten, AType, ReqType, Fields
<1>4. n \in Nat
  OBVIOUS
<1>5. /\ DOMAIN req'[p] = Fields /\ req'[p].todo = req[p].todo
      /\ req'[p].rows = req[p].rows + n /\ req'[p].wrote = req[p].wrote
      /\ req'[p].op = req[p].op /\ req'[p].seen = req[p].seen
      /\ req'[p].source = req[p].source /\ req'[p].strict = req[p].strict
  BY <1>0, <1>3 DEF ReqType, Fields
<1>6. ReqType(req'[p])
  BY <1>0, <1>4, <1>5 DEF ReqType
<1>7. AType'
  BY <1>0, <1>1, <1>2, <1>3, <1>6 DEF AType
<1>8. TypeOK' /\ Quiet(p) /\ pc'[p] = "idle"
  BY <1>0, <1>1, <1>2, <1>3, TypeKept, CandlesQuiet DEF candles
<1>9. Counted(p)'
  <2>1. req[p].wrote = req[p].rows + n
    BY <1>0, <1>1, <1>2 DEF ProcInv, Counted, Added
  <2> QED BY <1>1, <1>5, <2>1 DEF Counted
<1>10. Delivered(p)'
  <2>1. /\ req[p].op = "write" /\ req[p].seen \in SUBSET MarketBar
        /\ \A b \in req[p].seen : Pending(req[p].todo, b) \/ Written(b)
    BY <1>0, <1>1, <1>2 DEF ProcInv, Delivered, Raised
  <2>2. \A b \in req[p].seen : Written(b) => Written(b)'
    BY <1>8, <2>1, WrittenStays
  <2> QED BY <1>1, <1>5, <2>1, <2>2 DEF Delivered
<1>11. Alone(p)' /\ Converged(p)'
  BY <1>1, <1>8 DEF Alone, Converged
<1> QED BY <1>7, <1>8, <1>9, <1>10, <1>11 DEF Done, ProcInv

LEMMA WriteEndsDone ==
  ASSUME AInv, NEW p \in Proc, WriteEnds(p)
  PROVE  Done(p)
<1>0. TypeOK /\ AType
  BY DEF AInv
<1>1. UNCHANGED candles /\ req' = req /\ revised' = revised
  BY DEF WriteEnds
<1>2. /\ at' \in [Proc -> Ats] /\ calls' \in Nat /\ at'[p] = "none" /\ DOMAIN reply' = Proc
      /\ \A q \in Proc \ {p} : at'[q] = at[q] /\ reply'[q] = reply[q]
  BY <1>0, ReplyFacts DEF WriteEnds
<1>3. AType' /\ TypeOK' /\ Quiet(p)
  BY <1>0, <1>1, <1>2, TypeKept, CandlesQuiet DEF AType
<1> QED BY <1>2, <1>3, NothingOwed DEF Done

(* The later steps of a call of the store. *)
LEMMA StepOutcome ==
  ASSUME TypeOK, NEW p \in Proc, Step(p)
  PROVE  /\ pc[p] # "idle"
         /\ \/ /\ pc[p] \in {"upsert_current", "delete_current", "get_checkpoint"}
               /\ pc'[p] = IF pc[p] = "get_checkpoint" THEN "update_checkpoint"
                           ELSE "get_checkpoint"
               /\ job'[p].status = job[p].status
            \/ /\ pc[p] = "update_checkpoint" /\ pc'[p] = "idle" /\ result'[p] # Nil
               /\ result'[p].status = job[p].status
<1>0. DOMAIN pc = Proc /\ DOMAIN job = Proc /\ DOMAIN result = Proc
  BY DEF TypeOK
<1>1. CASE upsert_current(p) \/ delete_current(p)
  BY <1>0, <1>1 DEF upsert_current, delete_current, Goto
<1>2. CASE get_checkpoint(p)
  <2>1. job[p] \in Job
    BY <1>2, JobFacts DEF get_checkpoint, Goto
  <2> QED BY <1>0, <1>2, <2>1 DEF get_checkpoint, Goto, Job
<1>3. CASE update_checkpoint(p)
  <2>1. job[p] \in Job
    BY <1>3, JobFacts DEF update_checkpoint
  <2>2. [status |-> job[p].status, bar |-> job[p].bar] \in CommitResult
    BY <2>1 DEF Job, CommitResult
  <2>3. /\ pc[p] = "update_checkpoint" /\ pc'[p] = "idle"
        /\ result'[p] = [status |-> job[p].status, bar |-> job[p].bar]
    BY <1>0, <1>3 DEF update_checkpoint, Return
  <2> QED BY <2>2, <2>3, NilIsNone
<1> QED BY <1>1, <1>2, <1>3 DEF Step

LEMMA StoreStepDone ==
  ASSUME AInv, NEW p \in Proc, StoreStep(p)
  PROVE  Done(p)
<1> DEFINE n == IF pc[p] = "upsert_current" /\ at[p] = "committing" THEN 1 ELSE 0
<1>0. TypeOK /\ AType /\ ReqType(req[p]) /\ ProcInv(p) /\ Step(p)
  BY DEF AInv, AType, StoreStep
<1>1. /\ pc[p] # "idle"
      /\ \/ /\ pc[p] \in {"upsert_current", "delete_current", "get_checkpoint"}
            /\ pc'[p] = IF pc[p] = "get_checkpoint" THEN "update_checkpoint"
                        ELSE "get_checkpoint"
            /\ job'[p].status = job[p].status
         \/ /\ pc[p] = "update_checkpoint" /\ pc'[p] = "idle" /\ result'[p] # Nil
            /\ result'[p].status = job[p].status
  BY <1>0, StepOutcome
<1>2. at[p] \in {"none", "committing"} /\ at' = at /\ reply' = reply /\ revised' = revised
      /\ calls' \in Nat /\ closed' = closed
  BY <1>0, <1>1, OthersKeepClosed DEF StoreStep, AInv, ProcInv, Alone, TypeOK
<1>3. /\ DOMAIN req' = Proc /\ \A q \in Proc \ {p} : req'[q] = req[q]
      /\ req'[p] = [req[p] EXCEPT !.wrote = req[p].wrote + n]
  BY <1>0 DEF StoreStep, AType, ReqType, Fields
<1>4. n \in Nat
  OBVIOUS
<1>5. /\ DOMAIN req'[p] = Fields /\ req'[p].todo = req[p].todo
      /\ req'[p].rows = req[p].rows /\ req'[p].wrote = req[p].wrote + n
      /\ req'[p].op = req[p].op /\ req'[p].seen = req[p].seen
      /\ req'[p].source = req[p].source /\ req'[p].strict = req[p].strict
  BY <1>0, <1>3 DEF ReqType, Fields
<1>6. ReqType(req'[p])
  BY <1>0, <1>4, <1>5 DEF ReqType
<1>7. AType' /\ TypeOK'
  BY <1>0, <1>2, <1>3, <1>6, StepType DEF AType
<1>8. Quiet(p)
  BY <1>0, <1>2, <1>3, StepQuiet, StoreQuietIsQuiet
<1>9. ASSUME at[p] = "committing" PROVE Counted(p)'
  <2>1. /\ job[p].status \in {"upserted", "committed", "duplicate"}
        /\ pc[p] = "upsert_current" => job[p].status = "upserted"
        /\ req[p].wrote = req[p].rows + IF Added(p) THEN 1 ELSE 0
        /\ req[p].rows \in Nat
    BY <1>0, <1>1, <1>9 DEF ProcInv, Counted, ReqType
  <2>2. Added(p)' <=> Added(p) \/ pc[p] = "upsert_current"
    BY <1>1, <2>1 DEF Added
  <2>3. pc[p] = "upsert_current" => ~Added(p)
    BY DEF Added
  <2>4. req'[p].wrote = req'[p].rows + IF Added(p)' THEN 1 ELSE 0
    BY <1>5, <1>9, <2>1, <2>2, <2>3
  <2>5. pc'[p] # "idle" => job'[p].status = job[p].status
    BY <1>1
  <2>6. pc'[p] \notin {"upsert_current", "delete_current"}
    BY <1>1
  <2>7. pc'[p] = "idle" => result'[p] # Nil /\ result'[p].status # "failed"
    BY <1>1, <2>1
  <2> QED BY <1>2, <1>9, <2>1, <2>4, <2>5, <2>6, <2>7 DEF Counted
<1>10. ASSUME at[p] = "committing" PROVE Delivered(p)'
  <2>1. /\ req[p].op = "write" /\ req[p].seen \in SUBSET MarketBar
        /\ \A b \in req[p].seen : Pending(req[p].todo, b) \/ Written(b)
    BY <1>0, <1>1, <1>10 DEF ProcInv, Delivered, Raised
  <2>2. \A b \in req[p].seen : Written(b) => Written(b)'
    BY <1>8, <2>1, WrittenStays
  <2> QED BY <1>2, <1>5, <2>1, <2>2 DEF Delivered
<1>11. ProcInv(p)'
  BY <1>2, <1>9, <1>10 DEF ProcInv, Alone, Converged, Counted, Delivered
<1> QED BY <1>7, <1>8, <1>11 DEF Done

(* Calls of the store that are not made by an adapter. *)
LEMMA StartDone ==
  ASSUME AInv, NEW p \in Proc, at[p] = "none", Start(p), UNCHANGED adapters
  PROVE  Done(p)
<1>1. calls' \in Nat
  BY DEF Start, AInv, TypeOK
<1>2. PICK b \in MarketBar : upsert_open(p, b) \/ commit_closed(p, b)
  BY BarsAssumption DEF Start
<1>3. TypeOK' /\ StoreQuiet(p)
  BY <1>1, <1>2, UpsertOpenType, CommitClosedType, CommitQuiet DEF AInv
<1>4. Quiet(p)
  BY <1>3, StoreQuietIsQuiet DEF adapters
<1> QED BY <1>3, <1>4, AtOnce DEF adapters, AInv, AType

LEMMA FailDone ==
  ASSUME AInv, NEW p \in Proc, Fail(p), UNCHANGED calls, UNCHANGED adapters
  PROVE  Done(p)
<1>0. TypeOK /\ AType /\ ReqType(req[p]) /\ ProcInv(p) /\ calls' \in Nat
  BY DEF AInv, AType, TypeOK
<1>1. at' = at /\ req' = req /\ reply' = reply /\ revised' = revised
  BY DEF adapters
<1>2. TypeOK' /\ Quiet(p)
  BY <1>0, <1>1, FailType, StepQuiet, StoreQuietIsQuiet
<1>3. /\ pc[p] # "idle" /\ pc'[p] = "idle"
      /\ result'[p] = [status |-> "failed", bar |-> job[p].bar]
  BY <1>0 DEF Fail, TypeOK
<1>4. result'[p] # Nil
  <2>1. job[p].bar \in MarketBar
    BY <1>0, <1>3, JobFacts
  <2>2. result'[p] \in CommitResult
    BY <1>3, <2>1 DEF CommitResult, Statuses
  <2> QED BY <2>2, NilIsNone
<1>5. at[p] \in {"none", "committing"}
  BY <1>0, <1>3 DEF ProcInv, Alone
<1>6. ASSUME at[p] = "committing" PROVE Counted(p)'
  <2>1. req[p].wrote = req[p].rows + IF Added(p) THEN 1 ELSE 0
    BY <1>0, <1>3, <1>6 DEF ProcInv, Counted
  <2>2. req[p].wrote \in {req[p].rows, req[p].rows + 1}
    BY <1>0, <2>1 DEF ReqType
  <2>3. result'[p].status = "failed"
    BY <1>3
  <2> QED BY <1>1, <1>3, <1>4, <1>6, <2>2, <2>3 DEF Counted
<1>7. ASSUME at[p] = "committing" PROVE Delivered(p)'
  <2>1. Raised(p)'
    BY <1>3 DEF Raised
  <2> QED BY <1>0, <1>1, <1>7, <2>1 DEF ProcInv, Delivered
<1>8. ProcInv(p)'
  BY <1>1, <1>5, <1>6, <1>7 DEF ProcInv, Alone, Converged, Counted, Delivered
<1>9. AType'
  BY <1>0, <1>1 DEF AType
<1> QED BY <1>2, <1>8, <1>9 DEF Done

----------------------------------------------------------------------------
(* Repair.                                                                 *)

LEMMA RepairBeginsDone ==
  ASSUME AInv, NEW p \in Proc, NEW source \in Sources, NEW strict \in BOOLEAN,
         repair_from_source(p, source, strict)
  PROVE  Done(p)
<1> DEFINE r == [Blank EXCEPT !.op = "repair", !.source = source, !.strict = strict,
                              !.seen = closed]
<1>0. TypeOK /\ AType /\ source \in Seq(MarketBar)
  BY InputsAssumption DEF AInv
<1>1. ReqType(r) /\ r.seen = closed
  BY <1>0, BlankFacts DEF ReqType, Fields
<1>2. /\ Begin(p, r, "repair") /\ lock = Nil /\ lock' = p
      /\ UNCHANGED <<closed, fmt, current, checkpoint, pc, job, result, fails>>
  BY DEF repair_from_source
<1> HIDE DEF r
<1>3. /\ AType' /\ calls' \in Nat /\ pc[p] = "idle" /\ at'[p] = "repair" /\ req'[p] = r
      /\ revised' = revised
      /\ \A o \in Proc \ {p} : at'[o] = at[o] /\ req'[o] = req[o] /\ reply'[o] = reply[o]
  BY <1>0, <1>1, <1>2, BeginFacts DEF Ats
<1>4. TypeOK'
  BY <1>0, <1>2, <1>3 DEF TypeOK
<1>5. Quiet(p)
  <2>1. \A q \in Proc : lock # q
    BY <1>2, NilIsNone
  <2> QED BY <1>2, <1>3, <2>1 DEF Quiet
<1>6. Alone(p)'
  <2>1. DOMAIN closed = Times /\ pc'[p] = "idle" /\ lock' = p /\ closed' = closed
    BY <1>0, <1>2, <1>3 DEF TypeOK
  <2> QED BY <1>1, <1>3, <2>1 DEF Alone
<1>7. Counted(p)' /\ Delivered(p)' /\ Converged(p)'
  BY <1>3 DEF Counted, Delivered, Converged
<1> QED BY <1>3, <1>4, <1>5, <1>6, <1>7 DEF Done, ProcInv

(* What repair_replace makes of the series. *)
LEMMA ReplaceFacts ==
  ASSUME AInv, NEW p \in Proc, repair_replace(p)
  PROVE  LET src == req[p].source IN
         /\ closed' \in [Times -> MarketBar \cup {Nil}]
         /\ \A t \in SourceTimes(src) :
              /\ t \in Times /\ closed'[t] # Nil
              /\ closed'[t].v = src[Max(Mine(src, t))].v
              /\ closed[t] # Nil /\ closed'[t] # closed[t] =>
                   \E i \in DOMAIN src : src[i].t = t /\ src[i].v # closed[t].v
         /\ \A t \in Times \ SourceTimes(src) :
              closed'[t] = IF req[p].strict THEN Nil ELSE closed[t]
<1>0. TypeOK /\ AType /\ at[p] = "repair" /\ req[p].seen = closed
  BY DEF AInv, ProcInv, Alone, repair_replace, Proceed
<1>1. PICK src \in Seq(MarketBar) : src = req[p].source
  BY <1>0 DEF AType, ReqType
<1>2. PICK seen : seen = closed
  OBVIOUS
<1>3. seen \in [Times -> MarketBar \cup {Nil}]
  BY <1>0, <1>2 DEF TypeOK
<1>4. closed' = [t \in Times |-> IF t \in SourceTimes(src) THEN Repaired(seen, src, t)
                                 ELSE IF req[p].strict THEN Nil ELSE seen[t]]
  BY <1>0, <1>1, <1>2 DEF repair_replace
<1>5. ASSUME NEW t \in SourceTimes(src)
      PROVE  /\ t \in Times /\ closed'[t] # Nil /\ closed'[t] \in MarketBar
             /\ closed'[t].v = src[Max(Mine(src, t))].v
             /\ seen[t] # Nil /\ closed'[t] # seen[t] =>
                  \E i \in DOMAIN src : src[i].t = t /\ src[i].v # seen[t].v
  <2>1. t \in Times
    BY MineFacts DEF SourceTimes
  <2>2. RepairOutcome(seen, src, t)
    BY RepairFacts
  <2>3. closed'[t] = Repaired(seen, src, t)
    BY <1>4, <2>1
  <2>4. seen[t] \in MarketBar \cup {Nil}
    BY <1>3, <2>1
  <2>5. seen[t] # Nil /\ closed'[t] # seen[t] =>
          \E i \in Mine(src, t) : seen[t].v # src[i].v
    BY <2>2, <2>3 DEF RepairOutcome
  <2> QED BY <2>1, <2>2, <2>3, <2>4, <2>5 DEF RepairOutcome, Mine
<1>6. ASSUME NEW t \in Times \ SourceTimes(src)
      PROVE  closed'[t] = IF req[p].strict THEN Nil ELSE seen[t]
  BY <1>4
<1>7. \A t \in Times : closed'[t] \in MarketBar \cup {Nil}
  BY <1>3, <1>5, <1>6
<1>8. closed' = [t \in Times |-> closed'[t]]
  BY <1>4
<1>9. closed' \in [Times -> MarketBar \cup {Nil}]
  BY <1>7, <1>8
<1> QED BY <1>1, <1>2, <1>5, <1>6, <1>9

LEMMA ReplaceDone ==
  ASSUME AInv, NEW p \in Proc, repair_replace(p)
  PROVE  Done(p)
<1>0. TypeOK /\ AType /\ ProcInv(p)
  BY DEF AInv
<1>1. PICK src : src = req[p].source
  OBVIOUS
<1>2. /\ closed' \in [Times -> MarketBar \cup {Nil}]
      /\ \A t \in SourceTimes(src) :
           /\ t \in Times /\ closed'[t] # Nil
           /\ closed'[t].v = src[Max(Mine(src, t))].v
      /\ \A t \in Times \ SourceTimes(src) :
           closed'[t] = IF req[p].strict THEN Nil ELSE closed[t]
  BY <1>1, ReplaceFacts
<1>3. /\ at' \in [Proc -> Ats] /\ calls' \in Nat /\ at[p] = "repair" /\ at'[p] = "log"
      /\ reply' = reply
      /\ \A q \in Proc \ {p} : at'[q] = at[q] /\ reply'[q] = reply[q]
  BY <1>0, ProceedFacts DEF repair_replace, Ats
<1>4. /\ fmt' \in {"csv", fmt} /\ revised' = revised \cup Changed
      /\ UNCHANGED <<req, current, checkpoint, lock, pc, job, result, fails>>
  BY DEF repair_replace
<1>5. TypeOK'
  BY <1>0, <1>2, <1>3, <1>4 DEF TypeOK
<1>6. AType'
  <2>1. revised' \in SUBSET Times
    BY <1>0, <1>4 DEF AType, Changed, Stored
  <2> QED BY <1>0, <1>3, <1>4, <2>1 DEF AType
<1>7. pc[p] = "idle" /\ lock = p /\ DOMAIN req[p].seen = Times
  BY <1>0, <1>3 DEF ProcInv, Alone
<1>8. Quiet(p)
  BY <1>3, <1>4, <1>7 DEF Quiet, Changed, Stored
<1>9. Converged(p)'
  <2>1. req' = req
    BY <1>4
  <2>2. Stored' = {t \in Times : closed'[t] # Nil}
    BY DEF Stored
  <2>3. req[p].strict => {t \in Times : closed'[t] # Nil} = SourceTimes(src)
    BY <1>2
  <2>4. \A t \in SourceTimes(src) :
          closed'[t] # Nil /\ closed'[t].v = src[Max(Mine(src, t))].v
    BY <1>2
  <2> QED BY <1>1, <2>1, <2>2, <2>3, <2>4 DEF Converged
<1>10. Alone(p)' /\ Counted(p)' /\ Delivered(p)'
  BY <1>3, <1>4, <1>7 DEF Alone, Counted, Delivered
<1> QED BY <1>5, <1>6, <1>8, <1>9, <1>10 DEF Done, ProcInv

LEMMA RepairEndsDone ==
  ASSUME AInv, NEW p \in Proc, write_repair_log(p) \/ RepairDies(p)
  PROVE  Done(p)
<1>0. TypeOK /\ AType /\ ProcInv(p)
  BY DEF AInv
<1>1. /\ at[p] \in {"repair", "log"} /\ Release(p) /\ fails' \in Nat /\ (\E r : Reply(p, r))
      /\ UNCHANGED <<closed, fmt, current, checkpoint, pc, job, result, req, revised>>
  BY <1>0 DEF write_repair_log, RepairDies, TypeOK
<1>2. /\ at' \in [Proc -> Ats] /\ calls' \in Nat /\ at'[p] = "none" /\ DOMAIN reply' = Proc
      /\ \A q \in Proc \ {p} : at'[q] = at[q] /\ reply'[q] = reply[q]
  BY <1>0, <1>1, ReplyFacts
<1>3. lock = p /\ lock' = Nil
  BY <1>0, <1>1 DEF ProcInv, Alone, Release
<1>4. TypeOK' /\ AType'
  BY <1>0, <1>1, <1>2, <1>3 DEF TypeOK, AType
<1>5. Quiet(p)
  BY <1>1, <1>2, <1>3 DEF Quiet
<1> QED BY <1>2, <1>4, <1>5, NothingOwed DEF Done

----------------------------------------------------------------------------
(* The service stores what is missing.                                     *)

(* The tail opens behind every stored candle. *)
LEMMA TailFacts ==
  ASSUME NEW q \in Queries
  PROVE  /\ TailOf(q) \in SUBSET Expected(q)
         /\ TailOf(q) # {} => TailStart(q) \in q.start..q.end
         /\ \A t \in TailOf(q) : t \notin Stored
<1> DEFINE S == {q.start} \cup {u + Duration : u \in Stored}
<1>1. /\ q.start \in Nat /\ q.end \in Nat /\ q.start < q.end
      /\ Duration \in Nat \ {0}
      /\ Expected(q) \subseteq Times /\ Stored \subseteq Times /\ Times \subseteq Nat
  BY QueriesAssumption, TimesAreNumbers DEF Stored
<1>2. PICK latest \in Nat : \A t \in Times : t <= latest
  BY QueriesAssumption, TimesAreNumbers
<1>3. S \in SUBSET Nat /\ S # {}
  BY <1>1
<1>4. q.start + latest + Duration \in Nat /\ \A y \in S : y <= q.start + latest + Duration
  BY <1>1, <1>2
<1>5. Max(S) \in S /\ \A y \in S : y <= Max(S)
  BY <1>3, <1>4, MaxFacts
<1>6. q.start \in S /\ \A u \in Stored : u + Duration \in S
  OBVIOUS
<1>7. TailStart(q) = Max(S)
  BY DEF TailStart
<1> HIDE DEF S
<1>8. /\ TailStart(q) \in Nat /\ q.start <= TailStart(q)
      /\ \A u \in Stored : u + Duration <= TailStart(q)
  BY <1>3, <1>5, <1>6, <1>7
<1>9. \A t \in TailOf(q) : t \in Expected(q) /\ TailStart(q) <= t
  BY DEF TailOf
<1>10. \A t \in Expected(q) : t \in Nat /\ t < q.end
  BY <1>1 DEF Expected
<1>11. ASSUME NEW t \in TailOf(q), t \in Stored PROVE FALSE
  <2>1. t \in Nat /\ TailStart(q) <= t /\ t + Duration <= TailStart(q)
    BY <1>8, <1>9, <1>10, <1>11
  <2> QED BY <1>1, <1>8, <2>1
<1>12. ASSUME NEW t \in TailOf(q) PROVE TailStart(q) \in q.start..q.end
  BY <1>1, <1>8, <1>9, <1>10
<1> QED BY <1>9, <1>11, <1>12

LEMMA FetchedFacts ==
  ASSUME NEW q \in Queries
  PROVE  Fetched(q) \in SUBSET MarketBar
<1>1. \A ts \in SUBSET Expected(q), start \in q.start..q.end :
        SourceBars(ts, start, q.end) \subseteq MarketBar
  BY InputsAssumption
<1>2. q.start \in q.start..q.end
  BY QueriesAssumption
<1>3. SourceBars(Expected(q), q.start, q.end) \subseteq MarketBar
  BY <1>1, <1>2
<1>4. TailOf(q) # {} => SourceBars(TailOf(q), TailStart(q), q.end) \subseteq MarketBar
  BY <1>1, TailFacts
<1> QED BY <1>3, <1>4 DEF Fetched

LEMMA CurrentKept ==
  ASSUME TypeOK, NEW bars,
         current' = [r \in DOMAIN current |->
                       IF \E b \in bars : r = <<b.x, b.t>> THEN Nil ELSE current[r]]
  PROVE  current' \in [Transports \X Times -> MarketBar \cup {Nil}]
<1>1. current \in [Transports \X Times -> MarketBar \cup {Nil}]
  BY DEF TypeOK
<1> QED BY <1>1

LEMMA ServiceStoresDone ==
  ASSUME AInv, NEW p \in Proc, ServiceStores(p)
  PROVE  Done(p)
<1>0. TypeOK /\ AType /\ ProcInv(p)
  BY DEF AInv
<1>1. /\ at' \in [Proc -> Ats] /\ calls' \in Nat /\ at[p] = "service" /\ at'[p] = "stored"
      /\ reply' = reply
      /\ \A q \in Proc \ {p} : at'[q] = at[q] /\ reply'[q] = reply[q]
  BY <1>0, ProceedFacts DEF ServiceStores, Ats
<1>2. pc[p] = "idle" /\ req[p].q \in Queries /\ req[p].op # "write"
  BY <1>0, <1>1 DEF ProcInv, Alone
<1>3. PICK bars : bars = Fetched(req[p].q)
  OBVIOUS
<1>4. bars \in SUBSET MarketBar
  BY <1>2, <1>3, FetchedFacts
<1>5. /\ closed' = Overlay(bars) /\ fmt' \in {"csv", fmt} /\ lock = Nil
      /\ revised' = revised \cup Changed
      /\ UNCHANGED <<req, checkpoint, lock, pc, job, result, fails>>
  BY <1>3 DEF ServiceStores
<1>6. current' \in [Transports \X Times -> MarketBar \cup {Nil}]
  BY <1>0, <1>3, CurrentKept DEF ServiceStores
<1>7. closed' \in [Times -> MarketBar \cup {Nil}]
  BY <1>0, <1>4, <1>5, OverlayFacts
<1>8. TypeOK'
  BY <1>0, <1>1, <1>5, <1>6, <1>7 DEF TypeOK
<1>9. AType'
  <2>1. revised' \in SUBSET Times
    BY <1>0, <1>5 DEF AType, Changed, Stored
  <2> QED BY <1>0, <1>1, <1>5, <2>1 DEF AType
<1>10. Quiet(p)
  <2>1. \A q \in Proc : lock # q
    BY <1>5, NilIsNone
  <2> QED BY <1>1, <1>5, <2>1 DEF Quiet, Changed, Stored
<1> QED BY <1>1, <1>2, <1>5, <1>8, <1>9, <1>10, NothingOwed DEF Done

LEMMA ServiceRaisesDone ==
  ASSUME AInv, NEW p \in Proc, ServiceRaises(p)
  PROVE  Done(p)
<1>0. TypeOK /\ AType /\ ProcInv(p)
  BY DEF AInv
<1>1. at[p] = "service" /\ req[p].q \in Queries /\ Stored # {} /\ TailOf(req[p].q) # {}
  BY <1>0 DEF ProcInv, Alone, ServiceRaises
<1>2. PICK q \in Queries : q = req[p].q
  BY <1>1
<1>3. PICK bars : bars = IF fmt = "csv" \/ TailOf(q) = {} THEN Fetched(q) ELSE {}
  OBVIOUS
<1>4. /\ closed' = Overlay(bars) /\ lock = Nil /\ Reply(p, [op |-> "failed"])
      /\ current' = [r \in DOMAIN current |->
                       IF \E b \in bars : r = <<b.x, b.t>> THEN Nil ELSE current[r]]
      /\ UNCHANGED <<fmt, checkpoint, lock, pc, job, result, fails, req, revised>>
  BY <1>2, <1>3 DEF ServiceRaises
<1>5. bars \in SUBSET MarketBar
  BY <1>2, <1>3, FetchedFacts
(* Only the tail is written, and it opens after every stored candle. *)
<1>6. \A t \in OpenTimes(bars) : t \notin Stored
  <2>1. bars = {} \/ bars = SourceBars(TailOf(q), TailStart(q), q.end)
    BY <1>1, <1>2, <1>3 DEF Fetched
  <2>2. \A t \in OpenTimes(SourceBars(TailOf(q), TailStart(q), q.end)) : t \in TailOf(q)
    <3>1. ASSUME NEW ts, NEW from, NEW to, NEW b \in SourceBars(ts, from, to) PROVE b.t \in ts
      <4> DEFINE part(x) == {u \in ts : Transport(u) = x}
                 start(x) == IF x = "archive" THEN from
                             ELSE Max({from, Cutoff} \cup {u + Duration : u \in part("archive")})
                 rcv(t) == [provider |-> Exchange,
                            pr |-> <<Transport(t), start(Transport(t)), to, part(Transport(t))>>,
                            rev |-> 0, state |-> "ORIGINAL"]
      <4>1. SourceBars(ts, from, to) =
              {[t |-> t, v |-> 1, x |-> Transport(t), rcv |-> rcv(t)] : t \in ts}
        BY DEF SourceBars
      <4> HIDE DEF rcv
      <4> QED BY <4>1
    <3> QED BY <3>1 DEF OpenTimes
  <2>3. \A t \in TailOf(q) : t \notin Stored
    BY <1>2, TailFacts
  <2>4. OpenTimes({}) = {}
    BY DEF OpenTimes
  <2> QED BY <2>1, <2>2, <2>3, <2>4
<1>7. closed' \in [Times -> MarketBar \cup {Nil}]
      /\ \A t \in Times : closed[t] # Nil => closed'[t] = closed[t]
  BY <1>0, <1>4, <1>5, <1>6, OverlayFacts DEF Stored
<1>8. /\ at' \in [Proc -> Ats] /\ calls' \in Nat /\ at'[p] = "none" /\ DOMAIN reply' = Proc
      /\ \A o \in Proc \ {p} : at'[o] = at[o] /\ reply'[o] = reply[o]
  BY <1>0, <1>4, ReplyFacts
<1>9. current' \in [Transports \X Times -> MarketBar \cup {Nil}]
  BY <1>0, <1>4, CurrentKept
<1>10. TypeOK' /\ AType'
  BY <1>0, <1>4, <1>7, <1>8, <1>9 DEF TypeOK, AType
<1>11. Quiet(p)
  <2>1. \A o \in Proc : lock # o
    BY <1>4, NilIsNone
  <2> QED BY <1>4, <1>7, <1>8, <2>1 DEF Quiet
<1> QED BY <1>8, <1>10, <1>11, NothingOwed DEF Done

----------------------------------------------------------------------------
(* The theorems on writes and repairs.                                     *)

(* A step of process p, of whichever kind. *)
Acts(p) ==
  \/ AdapterCall(p) \/ AdapterStep(p) \/ StoreStep(p)
  \/ at[p] = "none" /\ Start(p) /\ UNCHANGED adapters
  \/ Fail(p) /\ UNCHANGED calls /\ UNCHANGED adapters

LEMMA ActsDone ==
  ASSUME AInv, NEW p \in Proc, Acts(p)
  PROVE  Done(p)
<1>1. CASE AdapterCall(p)
  BY <1>1, SeriesDone, SnapshotDone, AuditDone, RepairBeginsDone, FetchDone DEF AdapterCall
<1>2. CASE AdapterStep(p)
  BY <1>2, WriteBarDone, BarWrittenDone, WriteEndsDone, ReplaceDone, RepairEndsDone,
     ServiceStoresDone, ServiceRaisesDone, ReadDone DEF AdapterStep
<1> QED BY <1>1, <1>2, StoreStepDone, StartDone, FailDone DEF Acts

LEMMA CompactFacts ==
  ASSUME AInv, NEW f \in {"csv", "parquet"}, compact(f), UNCHANGED calls, UNCHANGED adapters
  PROVE  AInv' /\ closed' = closed /\ reply' = reply
<1>1. UNCHANGED <<closed, current, checkpoint, lock, pc, job, result, fails, calls,
                  at, req, reply, revised>> /\ fmt' = f
  BY DEF compact, adapters
<1>2. TypeOK' /\ AType'
  BY <1>1 DEF AInv, TypeOK, AType
<1>3. \A p \in Proc : ProcInv(p)'
  BY <1>1 DEF AInv, ProcInv, Alone, Counted, Added, Delivered, Raised, Pending, Written,
              Converged, Stored
<1> QED BY <1>1, <1>2, <1>3 DEF AInv

LEMMA NextAInv ==
  ASSUME AInv, [ANext]_avars
  PROVE  AInv'
<1>1. ASSUME NEW p \in Proc, Acts(p) PROVE AInv'
  <2>1. Done(p)
    BY <1>1, ActsDone
  <2>2. \A q \in Proc : ProcInv(q)'
    BY <2>1, QuietKeeps DEF Done
  <2> QED BY <2>1, <2>2 DEF Done, AInv
<1>2. CASE UNCHANGED avars
  <2>1. UNCHANGED <<closed, fmt, current, checkpoint, lock, pc, job, result, calls, fails,
                    at, req, reply, revised>>
    BY <1>2 DEF avars
  <2>2. TypeOK' /\ AType'
    BY <2>1 DEF AInv, TypeOK, AType
  <2>3. \A p \in Proc : ProcInv(p)'
    BY <2>1 DEF AInv, ProcInv, Alone, Counted, Added, Delivered, Raised, Pending, Written,
                Converged, Stored
  <2> QED BY <2>2, <2>3 DEF AInv
<1> QED BY <1>1, <1>2, CompactFacts DEF ANext, Acts

(* AInv holds in every reachable state. *)
THEOREM AdaptersInvariance == ASpec => []AInv
  BY InitAInv, NextAInv, PTL DEF ASpec

(* repair_from_source: whatever other processes do meanwhile, the series a *)
(* repair leaves is its source's, for any source, and its audit tells      *)
(* exactly whether something was applied.                                  *)
THEOREM RepairsConverge == ASpec => []RepairConverges
<1>1. AInv => RepairConverges
  <2> SUFFICES ASSUME AInv, NEW p \in Proc, at[p] = "log"
               PROVE  LET r == req[p]
                          last(t) == Max({i \in DOMAIN r.source : r.source[i].t = t})
                      IN /\ \A t \in SourceTimes(r.source) :
                              /\ closed[t] # Nil
                              /\ same_canonical_candle(closed[t], r.source[last(t)])
                         /\ r.strict => Stored = SourceTimes(r.source)
                         /\ Applied(r) <=> AuditIssues(r.seen, r.source, r.strict) # {}
                         /\ Cardinality(SourceTimes(r.source)) = Len(r.source)
                              => AuditIssues(closed, r.source, r.strict) = {}
    BY DEF RepairConverges
  <2>1. PICK r : r = req[p]
    OBVIOUS
  <2>2. PICK src \in Seq(MarketBar) : src = r.source
    BY <2>1 DEF AInv, AType, ReqType
  <2>3. /\ \A t \in SourceTimes(src) :
             closed[t] # Nil /\ closed[t].v = src[Max(Mine(src, t))].v
        /\ r.strict => Stored = SourceTimes(src)
    BY <2>1, <2>2 DEF AInv, ProcInv, Converged
  <2>4. Applied(r) <=> AuditIssues(r.seen, src, r.strict) # {}
    BY <2>2, AppliedFacts
  <2>5. ASSUME Cardinality(SourceTimes(src)) = Len(src)
        PROVE  AuditIssues(closed, src, r.strict) = {}
    <3>1. ASSUME NEW i \in DOMAIN src
          PROVE  closed[src[i].t] # Nil /\ closed[src[i].t].v = src[i].v
      <4>1. PICK t : t = src[i].t
        OBVIOUS
      <4>2. t \in SourceTimes(src) /\ i \in Mine(src, t)
        BY <4>1 DEF SourceTimes, Mine
      <4>3. \A j \in Mine(src, t) : j = i
        BY <2>5, <4>1, DistinctTimes DEF Mine
      <4>4. Max(Mine(src, t)) \in Mine(src, t)
        <5>1. /\ Mine(src, t) \in SUBSET Nat /\ Len(src) \in Nat
              /\ \A k \in Mine(src, t) : k <= Len(src)
          BY MineFacts
        <5> QED BY <4>2, <5>1, MaxFacts
      <4>5. Max(Mine(src, t)) = i
        BY <4>3, <4>4
      <4> QED BY <2>3, <4>1, <4>2, <4>5
    <3>2. r.strict => {u \in Times : closed[u] # Nil} \ SourceTimes(src) = {}
      BY <2>3 DEF Stored
    <3> QED BY <3>1, <3>2 DEF AuditIssues, same_canonical_candle
  <2>6. \A t \in SourceTimes(src) :
          /\ closed[t] # Nil
          /\ same_canonical_candle(closed[t], src[Max({i \in DOMAIN src : src[i].t = t})])
    BY <2>3 DEF same_canonical_candle, Mine
  <2> QED BY <2>1, <2>2, <2>3, <2>4, <2>5, <2>6
<1> QED BY <1>1, AdaptersInvariance, PTL

(* Every change of a final candle is a repair's, whose source disagrees    *)
(* with it or, if strict, does not have it, or a refetch of the service:   *)
(* for any processes, sources and series, whatever is written and dies     *)
(* between the steps of a repair.                                          *)
THEOREM RevisionsStayDeliberate == ASpec => RevisionsAreDeliberate
<1> DEFINE Deliberate(t) ==
       \/ closed'[t] = closed[t]
       \/ \E p \in Proc :
            /\ at'[p] # at[p]
            /\ \/ at[p] = "service"
               \/ /\ at[p] = "repair"
                  /\ IF t \in SourceTimes(req[p].source)
                       THEN \E i \in DOMAIN req[p].source :
                              /\ req[p].source[i].t = t
                              /\ ~same_canonical_candle(req[p].source[i], closed[t])
                       ELSE req[p].strict
<1>1. ASSUME AInv, ANext, NEW t \in Stored PROVE Deliberate(t)
  <2>0. t \in Times /\ closed[t] # Nil /\ TypeOK /\ AType
    BY <1>1 DEF Stored, AInv
  <2>1. ASSUME NEW p \in Proc, AdapterCall(p) PROVE closed'[t] = closed[t]
    <3>1. ASSUME NEW s \in Series, write_series(p, s) PROVE closed'[t] = closed[t]
      <4>1. CASE s # <<>> /\ \A i \in DOMAIN s : s[i].closed
        <5>1. bulk_write_closed(p, SeriesBars(s))
          BY <3>1, <4>1 DEF write_series, SeriesBars
        <5> QED BY <1>1, <2>0, <5>1, BulkFacts, SeriesBarsFacts
      <4>2. CASE ~(s # <<>> /\ \A i \in DOMAIN s : s[i].closed)
        BY <3>1, <4>2 DEF write_series, BarByBar, candles
      <4> QED BY <4>1, <4>2
    <3>2. ASSUME NEW s \in Snapshots, write_snapshot(p, s) PROVE closed' = closed
      BY <3>2 DEF write_snapshot, BarByBar, candles
    <3> QED BY <2>1, <3>1, <3>2 DEF AdapterCall, audit_against_source, repair_from_source,
                                   fetch_bars, read, candles
  <2>2. ASSUME NEW p \in Proc, repair_replace(p) PROVE Deliberate(t)
    <3>1. at[p] = "repair" /\ at'[p] # at[p]
      BY <2>0, <2>2, ProceedFacts DEF repair_replace, Ats
    <3>2. PICK src : src = req[p].source
      OBVIOUS
    <3>3. /\ t \in SourceTimes(src) =>
               (closed'[t] # closed[t] =>
                  \E i \in DOMAIN src : src[i].t = t /\ src[i].v # closed[t].v)
          /\ t \notin SourceTimes(src) =>
               closed'[t] = IF req[p].strict THEN Nil ELSE closed[t]
      BY <1>1, <2>0, <2>2, <3>2, ReplaceFacts
    <3> QED BY <3>1, <3>2, <3>3 DEF same_canonical_candle
  <2>3. ASSUME NEW p \in Proc, WriteBar(p) PROVE closed'[t] = closed[t]
    <3>1. PICK u \in MarketBar : commit_closed(p, u) \/ upsert_open(p, u)
      <4>1. req[p].todo \in Seq(Update) /\ req[p].todo # <<>>
        BY <2>0, <2>3 DEF AType, ReqType, WriteBar
      <4>2. PICK u \in Update : u = Head(req[p].todo)
        BY <4>1
      <4>3. u.bar \in MarketBar
        BY DEF Update
      <4> QED BY <2>3, <4>2, <4>3 DEF WriteBar
    <3> QED BY <2>0, <3>1, CommitQuiet DEF StoreQuiet
  <2>4. ASSUME NEW p \in Proc, AdapterStep(p) PROVE Deliberate(t)
    <3>1. CASE ServiceStores(p) \/ ServiceRaises(p)
      <4>1. at[p] = "service"
        BY <3>1 DEF ServiceStores, ServiceRaises, Proceed
      <4>2. at'[p] \in {"stored", "none"}
        BY <2>0, <3>1, ProceedFacts, ReplyFacts DEF ServiceStores, ServiceRaises, Ats
      <4> QED BY <4>1, <4>2
    <3>2. CASE \/ BarWritten(p) \/ WriteEnds(p) \/ write_repair_log(p) \/ RepairDies(p)
               \/ get_market_bars(p) \/ get_current(p) \/ snapshot_from_market_bars(p)
      BY <3>2 DEF BarWritten, WriteEnds, write_repair_log, RepairDies, get_market_bars,
                  get_current, snapshot_from_market_bars, candles
    <3> QED BY <2>2, <2>3, <2>4, <3>1, <3>2 DEF AdapterStep
  <2>5. ASSUME NEW p \in Proc, Start(p) PROVE closed'[t] = closed[t]
    <3>1. PICK b \in MarketBar : upsert_open(p, b) \/ commit_closed(p, b)
      BY <2>5, BarsAssumption DEF Start
    <3> QED BY <2>0, <3>1, CommitQuiet DEF StoreQuiet
  <2>6. ASSUME NEW p \in Proc, StoreStep(p) \/ Fail(p) PROVE closed' = closed
    BY <2>6, OthersKeepClosed DEF StoreStep
  <2>7. ASSUME NEW f \in {"csv", "parquet"}, compact(f) PROVE closed' = closed
    BY <2>7 DEF compact
  <2> QED BY <1>1, <2>1, <2>4, <2>5, <2>6, <2>7 DEF ANext
<1>2. AInv /\ [ANext]_avars =>
        [\A t \in Stored : closed'[t] = closed[t] \/ \E p \in Proc :
           /\ at'[p] # at[p]
           /\ \/ at[p] = "service"
              \/ at[p] = "repair" /\
                 IF t \in SourceTimes(req[p].source)
                   THEN \E i \in DOMAIN req[p].source :
                          /\ req[p].source[i].t = t
                          /\ ~same_canonical_candle(req[p].source[i], closed[t])
                   ELSE req[p].strict]_avars
  BY <1>1
<1> QED BY <1>2, AdaptersInvariance, PTL DEF ASpec, RevisionsAreDeliberate

(* What StoreResult says of a series or a snapshot is so, for any series,  *)
(* any number of other writers and repairs and a death anywhere in         *)
(* commit_closed or upsert_open.                                           *)
THEOREM WritesStayReported == ASpec => WritesAreReported
<1> DEFINE Reported(p) ==
       LET r == reply'[p] IN
       reply'[p] # reply[p] /\ r.op = "write" =>
         IF r.success
           THEN /\ r.rows = r.wrote
                /\ \A b \in r.bars : b.t \notin revised' =>
                     closed'[b.t] # Nil /\ same_canonical_candle(closed'[b.t], b)
           ELSE r.rows <= r.wrote /\ r.wrote <= r.rows + 1
<1>1. ASSUME AInv, NEW p \in Proc, Acts(p) PROVE Reported(p)
  <2>0. AType /\ ReqType(req[p]) /\ ProcInv(p) /\ TypeOK
    BY <1>1 DEF AInv, AType
  <2>1. ASSUME NEW s \in Series, write_series(p, s) PROVE Reported(p)
    <3>1. CASE s # <<>> /\ \A i \in DOMAIN s : s[i].closed
      <4>1. PICK bars \in Seq(MarketBar) : bulk_write_closed(p, bars)
        BY <2>1, <3>1, SeriesBarsFacts DEF write_series, SeriesBars
      <4>2. PICK ok, n : /\ ok = (BulkVerdict(bars) = "ok")
                         /\ n = Cardinality(Incoming(bars) \ Known(Incoming(bars)))
        OBVIOUS
      <4>3. reply'[p] = [op |-> "write", success |-> ok, rows |-> IF ok THEN n ELSE 0,
                         wrote |-> IF ok THEN n ELSE 0, bars |-> Incoming(bars)]
        BY <2>0, <4>1, <4>2 DEF bulk_write_closed, AType
      <4>4. ok => \A b \in Incoming(bars) : closed'[b.t] # Nil /\ closed'[b.t].v = b.v
        BY <1>1, <4>1, <4>2, BulkFacts
      <4>5. CASE ok
        BY <4>3, <4>4, <4>5 DEF same_canonical_candle
      <4>6. CASE ~ok
        BY <4>2, <4>3, <4>6
      <4> QED BY <4>5, <4>6
    <3>2. CASE ~(s # <<>> /\ \A i \in DOMAIN s : s[i].closed)
      BY <2>1, <3>2 DEF write_series, BarByBar, Begin
    <3> QED BY <3>1, <3>2
  <2>2. ASSUME NEW s \in Snapshots, write_snapshot(p, s) PROVE Reported(p)
    <3>1. \/ reply' = reply
          \/ reply' = [reply EXCEPT ![p] = [op |-> "write", success |-> FALSE, rows |-> 0,
                                            wrote |-> 0, bars |-> {}]]
      BY <2>2 DEF write_snapshot, BarByBar, Begin
    <3> QED BY <2>0, <3>1 DEF AType
  <2>3. ASSUME NEW source \in Sources, NEW strict \in BOOLEAN,
               audit_against_source(p, source, strict) \/ repair_from_source(p, source, strict)
        PROVE  Reported(p)
    BY <2>0, <2>3 DEF audit_against_source, repair_from_source, Begin, AType
  <2>4. ASSUME NEW q \in Queries, fetch_bars(p, q) \/ read(p, q) PROVE Reported(p)
    BY <2>4 DEF fetch_bars, read, Begin
  <2>5. ASSUME WriteEnds(p) PROVE Reported(p)
    <3>0. PICK ok, rows, wrote, bars :
            /\ ok = (at[p] = "bar") /\ rows = req[p].rows /\ wrote = req[p].wrote
            /\ bars = req[p].seen
      OBVIOUS
    <3>1. /\ reply'[p] = [op |-> "write", success |-> ok, rows |-> rows, wrote |-> wrote,
                          bars |-> bars]
          /\ UNCHANGED candles /\ revised' = revised
      BY <2>0, <2>5, <3>0, ReplyFacts DEF WriteEnds
    <3>2. CASE at[p] = "bar"
      <4>1. req[p].todo = <<>> /\ req[p].rows = req[p].wrote
            /\ \A b \in req[p].seen : Pending(req[p].todo, b) \/ Written(b)
        BY <2>0, <2>5, <3>2 DEF WriteEnds, ProcInv, Counted, Delivered
      <4>2. \A b \in req[p].seen : Written(b)
        BY <4>1 DEF Pending
      <4>3. closed' = closed
        BY <3>1 DEF candles
      <4>4. /\ ok /\ rows = wrote
            /\ \A b \in bars : b.t \in revised' \/ (closed'[b.t] # Nil /\ closed'[b.t].v = b.v)
        BY <3>0, <3>1, <3>2, <4>1, <4>2, <4>3 DEF Written
      <4> QED BY <3>1, <4>4 DEF same_canonical_candle
    <3>3. CASE at[p] # "bar"
      <4>1. /\ at[p] = "committing" /\ pc[p] = "idle"
            /\ result[p].status \in {"conflict", "failed"}
        BY <2>5, <3>3 DEF WriteEnds
      <4>2. req[p].wrote \in {req[p].rows, req[p].rows + 1} /\ req[p].rows \in Nat
        BY <2>0, <4>1 DEF ProcInv, Counted, Added, ReqType
      <4>3. ~ok /\ rows \in Nat /\ wrote \in {rows, rows + 1}
        BY <3>0, <3>3, <4>2
      <4> QED BY <3>1, <4>3
    <3> QED BY <3>2, <3>3
  <2>6. CASE AdapterStep(p)
    <3>1. CASE \/ WriteBar(p) \/ BarWritten(p) \/ repair_replace(p) \/ ServiceStores(p)
               \/ get_market_bars(p) \/ get_current(p)
      BY <3>1 DEF WriteBar, BarWritten, repair_replace, ServiceStores, get_market_bars,
                  get_current, Proceed
    <3>2. CASE write_repair_log(p) \/ RepairDies(p) \/ ServiceRaises(p)
      <4>1. reply'[p].op \in {"repair", "failed"}
        BY <2>0, <3>2, ReplyFacts DEF write_repair_log, RepairDies, ServiceRaises
      <4> QED BY <4>1
    <3>3. CASE snapshot_from_market_bars(p)
      <4>1. reply'[p].op = req[p].op
        BY <2>0, <3>3, ReplyFacts DEF snapshot_from_market_bars
      <4>2. req[p].op # "write"
        BY <2>0, <3>3 DEF snapshot_from_market_bars, ProcInv, Alone
      <4> QED BY <4>1, <4>2
    <3> QED BY <2>5, <2>6, <3>1, <3>2, <3>3 DEF AdapterStep
  <2>7. CASE AdapterCall(p)
    BY <2>1, <2>2, <2>3, <2>4, <2>7 DEF AdapterCall
  <2>8. CASE ~AdapterStep(p) /\ ~AdapterCall(p)
    BY <1>1, <2>8 DEF Acts, StoreStep, adapters
  <2> QED BY <2>6, <2>7, <2>8
<1>2. ASSUME AInv, ANext, NEW p \in Proc PROVE Reported(p)
  <2>1. ASSUME NEW q \in Proc, Acts(q) PROVE Reported(p)
    <3>1. CASE q = p
      BY <1>1, <1>2, <2>1, <3>1
    <3>2. CASE q # p
      <4>1. Quiet(q)
        BY <1>2, <2>1, ActsDone DEF Done
      <4> QED BY <3>2, <4>1 DEF Quiet
    <3> QED BY <3>1, <3>2
  <2>2. ASSUME NEW f \in {"csv", "parquet"}, compact(f), UNCHANGED calls, UNCHANGED adapters
        PROVE  Reported(p)
    BY <1>2, <2>2, CompactFacts
  <2> QED BY <1>2, <2>1, <2>2 DEF ANext, Acts
<1>3. AInv /\ [ANext]_avars =>
        [\A p \in Proc :
           LET r == reply'[p] IN
           reply'[p] # reply[p] /\ r.op = "write" =>
             IF r.success
               THEN /\ r.rows = r.wrote
                    /\ \A b \in r.bars : b.t \notin revised' =>
                         closed'[b.t] # Nil /\ same_canonical_candle(closed'[b.t], b)
               ELSE r.rows <= r.wrote /\ r.wrote <= r.rows + 1]_avars
  BY <1>2
<1> QED BY <1>3, AdaptersInvariance, PTL DEF ASpec, WritesAreReported

----------------------------------------------------------------------------
(* What snapshot_from_market_bars makes of the bars it has read.           *)

(* The rows: the stored bars B[1..n], then the open one if there is one. *)
Laid(seen, cur, n, m, B, rows) ==
  /\ n \in Nat /\ m \in {n, n + 1}
  /\ m = n <=> cur = Nil
  /\ m = n + 1 => B[m] = cur
  /\ \A i \in 1..n : B[i] \in seen
  /\ \A b \in seen : \E i \in 1..n : B[i] = b
  /\ \A i, j \in 1..n : B[i].t = B[j].t => i = j
  /\ \A i \in 1..m : B[i] \in MarketBar
  /\ \A i \in 1..m : rows[i] = raw_bar_from_market_bar(B[i], i <= n)

(* What _snapshot_source_identity and build_public_snapshot say of them. *)
Foreign(r) == r.provider # Exchange \/ r.v < 0
Built(rows, m, q) ==
  IF (\E i \in 1..m : Foreign(rows[i])) \/ Cardinality({rows[i].pr : i \in 1..m}) # 1
    THEN Refused
    ELSE build_public_snapshot(rows, 1..m, rows[1].pr, OnlyClosed(q))

(* One bar for each open time was read. *)
OnePerTime(seen) ==
  /\ seen \in SUBSET MarketBar /\ IsFiniteSet(seen)
  /\ \A b, c \in seen : b.t = c.t => b = c

LEMMA SnapshotRows ==
  ASSUME NEW seen, OnePerTime(seen), NEW cur \in MarketBar \cup {Nil}, NEW q
  PROVE  \E n, m, B, rows : /\ Laid(seen, cur, n, m, B, rows)
                            /\ SnapshotOf(seen, cur, q) = Built(rows, m, q)
<1>0. Nil \notin MarketBar
  BY NilIsNone
<1>1. PICK s : s = SetToSeq(seen)
  OBVIOUS
<1>2. PICK n \in Nat : /\ s \in [1..n -> seen]
                       /\ \A i, j \in 1..n : s[i] = s[j] => i = j
                       /\ \A b \in seen : \E i \in 1..n : s[i] = b
  BY <1>1, SetToSeqFacts DEF OnePerTime
<1>3. DOMAIN s = 1..n /\ \A i \in 1..n : s[i] \in seen /\ s[i] \in MarketBar
  BY <1>2 DEF OnePerTime
<1>4. \A i, j \in 1..n : s[i].t = s[j].t => i = j
  BY <1>2, <1>3 DEF OnePerTime
<1>6. PICK h : h = [i \in DOMAIN s |-> raw_bar_from_market_bar(s[i], TRUE)]
  OBVIOUS
<1>7. DOMAIN h = 1..n /\ \A i \in 1..n : h[i] = raw_bar_from_market_bar(s[i], TRUE)
  BY <1>3, <1>6
<1>5. PICK R : R = {h[i] : i \in 1..n} \cup {raw_bar_from_market_bar(cur, FALSE)}
  OBVIOUS
<1>8. h \in [1..n -> R]
  <2>1. \A i \in 1..n : h[i] \in R
    BY <1>5
  <2>2. h = [i \in 1..n |-> h[i]]
    BY <1>3, <1>6
  <2> QED BY <2>1, <2>2
<1>9. h \in Seq(R) /\ Len(h) = n
  BY <1>8
<1>10. PICK rows : rows = h \o (IF cur = Nil THEN <<>>
                                ELSE <<raw_bar_from_market_bar(cur, FALSE)>>)
  OBVIOUS
<1>11. SnapshotOf(seen, cur, q) =
         IF \/ \E i \in DOMAIN rows : Foreign(rows[i])
            \/ Cardinality({rows[i].pr : i \in DOMAIN rows}) # 1
           THEN Refused
           ELSE build_public_snapshot(rows, DOMAIN rows, rows[1].pr, OnlyClosed(q))
  BY <1>1, <1>6, <1>10 DEF SnapshotOf, Foreign
<1>12. \A m : DOMAIN rows = 1..m => SnapshotOf(seen, cur, q) = Built(rows, m, q)
  BY <1>11 DEF Built
<1>13. CASE cur = Nil
  <2>1. rows = h
    BY <1>9, <1>10, <1>13
  <2>2. DOMAIN rows = 1..n
    BY <1>7, <2>1
  <2>3. ASSUME NEW i \in 1..n PROVE rows[i] = raw_bar_from_market_bar(s[i], i <= n)
    <3>1. (i <= n) = TRUE
      OBVIOUS
    <3> QED BY <1>7, <2>1, <3>1
  <2>4. Laid(seen, cur, n, n, s, rows)
    BY <1>2, <1>3, <1>4, <1>13, <2>3 DEF Laid
  <2> QED BY <1>12, <2>2, <2>4
<1>14. CASE cur # Nil
  <2>1. cur \in MarketBar
    BY <1>14
  <2>2. PICK x \in R : x = raw_bar_from_market_bar(cur, FALSE)
    BY <1>5
  <2>3. rows = h \o <<x>>
    BY <1>10, <1>14, <2>2
  <2>4. /\ DOMAIN rows = 1..(n + 1) /\ rows[n + 1] = x
        /\ \A i \in 1..n : rows[i] = h[i]
    BY <1>9, <2>3
  <2>5. PICK B : B = [i \in 1..(n + 1) |-> IF i <= n THEN s[i] ELSE cur]
    OBVIOUS
  <2>6. B[n + 1] = cur /\ \A i \in 1..n : B[i] = s[i]
    BY <2>5
  <2>7. \A i \in 1..(n + 1) : i \in 1..n \/ i = n + 1
    OBVIOUS
  <2>8. \A i \in 1..(n + 1) : rows[i] = raw_bar_from_market_bar(B[i], i <= n)
    <3>1. ASSUME NEW i \in 1..n PROVE rows[i] = raw_bar_from_market_bar(B[i], i <= n)
      <4>1. (i <= n) = TRUE
        OBVIOUS
      <4> QED BY <1>7, <2>4, <2>6, <4>1
    <3>2. rows[n + 1] = raw_bar_from_market_bar(B[n + 1], n + 1 <= n)
      <4>1. (n + 1 <= n) = FALSE
        OBVIOUS
      <4> QED BY <2>2, <2>4, <2>6, <4>1
    <3> QED BY <2>7, <3>1, <3>2
  <2>9. \A i \in 1..(n + 1) : B[i] \in MarketBar
    BY <1>3, <2>1, <2>6, <2>7
  <2>10. /\ \A i \in 1..n : B[i] \in seen
         /\ \A b \in seen : \E i \in 1..n : B[i] = b
         /\ \A i, j \in 1..n : B[i].t = B[j].t => i = j
    BY <1>2, <1>3, <1>4, <2>6
  <2>11. PICK m : m = n + 1
    OBVIOUS
  <2>12. Laid(seen, cur, n, m, B, rows)
    <3>1. m # n
      BY <2>11
    <3> QED BY <1>14, <2>6, <2>8, <2>9, <2>10, <2>11, <3>1 DEF Laid
  <2> QED BY <1>12, <2>4, <2>11, <2>12
<1> QED BY <1>13, <1>14

(* What row i knows of its bar. *)
RowOfBar(rows, B, n, i) ==
  /\ rows[i].t = B[i].t /\ rows[i].t \in Nat
  /\ rows[i].v = B[i].v
  /\ rows[i].pr = B[i].rcv.pr
  /\ rows[i].rev = B[i].rcv.rev /\ rows[i].rev \in Nat
  /\ rows[i].state = B[i].rcv.state
  /\ rows[i].state = "ORIGINAL" <=> rows[i].rev = 0
  /\ rows[i].provider = B[i].rcv.provider
  /\ rows[i].final <=> i <= n

LEMMA LaidRows ==
  ASSUME NEW seen, NEW cur, NEW n, NEW m, NEW B, NEW rows, Laid(seen, cur, n, m, B, rows),
         NEW i \in 1..m
  PROVE  RowOfBar(rows, B, n, i)
<1>1. PICK b \in MarketBar : b = B[i]
  BY DEF Laid
<1>2. PICK f : f = (i <= n)
  OBVIOUS
<1>3. rows[i] = raw_bar_from_market_bar(b, f)
  BY <1>1, <1>2 DEF Laid
<1>4. b.t \in Nat /\ b.rcv \in Receipts
  BY TimesAreNumbers DEF MarketBar
<1>5. b.rcv.rev \in Nat /\ (b.rcv.state = "ORIGINAL" <=> b.rcv.rev = 0)
  BY <1>4, ProvenanceAssumption
<1>6. PICK r : r = raw_bar_from_market_bar(b, f)
  OBVIOUS
<1>7. /\ r.t = b.t /\ r.v = b.v /\ r.pr = b.rcv.pr /\ r.rev = b.rcv.rev
      /\ r.state = b.rcv.state /\ r.provider = b.rcv.provider /\ r.final = f
  BY <1>6 DEF raw_bar_from_market_bar
<1> QED BY <1>1, <1>2, <1>3, <1>4, <1>5, <1>6, <1>7 DEF RowOfBar

(* Everything that was read. *)
AllRead(seen, cur) == seen \cup ({cur} \ {Nil})

LEMMA LaidBars ==
  ASSUME NEW seen, NEW cur, NEW n, NEW m, NEW B, NEW rows, Laid(seen, cur, n, m, B, rows)
  PROVE  /\ n \in Nat /\ m \in Nat /\ n <= m
         /\ \A i \in 1..m : B[i] \in AllRead(seen, cur)
         /\ \A b \in AllRead(seen, cur) : \E i \in 1..m : B[i] = b
         /\ \A i, j \in 1..m : B[i].t = B[j].t =>
              \/ i = j
              \/ i <= n /\ j = m /\ m > n
              \/ j <= n /\ i = m /\ m > n
<1>1. /\ n \in Nat /\ m \in {n, n + 1}
      /\ m = n <=> cur = Nil
      /\ m = n + 1 => B[m] = cur
      /\ \A i \in 1..n : B[i] \in seen
      /\ \A b \in seen : \E i \in 1..n : B[i] = b
      /\ \A i, j \in 1..n : B[i].t = B[j].t => i = j
  BY DEF Laid
<1>2. n \in Nat /\ m \in Nat /\ n <= m
  BY <1>1
<1>3. \A i \in 1..m : i \in 1..n \/ (i = m /\ m = n + 1)
  BY <1>1
<1>4. ASSUME NEW i \in 1..m PROVE B[i] \in AllRead(seen, cur)
  <2>1. CASE i \in 1..n
    BY <1>1, <2>1 DEF AllRead
  <2>2. CASE i = m /\ m = n + 1
    <3>1. B[i] = cur /\ cur # Nil
      BY <1>1, <2>2
    <3> QED BY <3>1 DEF AllRead
  <2> QED BY <1>3, <2>1, <2>2
<1>5. ASSUME NEW b \in AllRead(seen, cur) PROVE \E i \in 1..m : B[i] = b
  <2>1. CASE b \in seen
    <3>1. PICK i \in 1..n : B[i] = b
      BY <1>1, <2>1
    <3> QED BY <1>2, <3>1
  <2>2. CASE b \notin seen
    <3>1. b = cur /\ cur # Nil
      BY <2>2 DEF AllRead
    <3>2. m = n + 1 /\ m \in 1..m
      BY <1>1, <3>1
    <3> QED BY <1>1, <3>1, <3>2
  <2> QED BY <2>1, <2>2
<1>6. ASSUME NEW i \in 1..m, NEW j \in 1..m, B[i].t = B[j].t
      PROVE  \/ i = j
             \/ i <= n /\ j = m /\ m > n
             \/ j <= n /\ i = m /\ m > n
  <2>1. CASE i \in 1..n /\ j \in 1..n
    BY <1>1, <1>6, <2>1
  <2>2. CASE i \notin 1..n \/ j \notin 1..n
    BY <1>1, <1>3, <2>2
  <2> QED BY <2>1, <2>2
<1> QED BY <1>2, <1>4, <1>5, <1>6

(* The obstacles that are left once identity and prices are in order. *)
NoOriginal(seen, cur) ==
  \E b \in AllRead(seen, cur) :
    \A c \in AllRead(seen, cur) : c.t = b.t => c.rcv.rev # 0
LeftBehind(seen, cur) ==
  cur # Nil /\ \E b \in seen : b.t = cur.t /\ b.rcv.rev = cur.rcv.rev

LEMMA GroupsOfLaid ==
  ASSUME NEW seen, NEW cur, NEW n, NEW m, NEW B, NEW rows, Laid(seen, cur, n, m, B, rows),
         \A i \in 1..m : ~Foreign(rows[i])
  PROVE  Agreeing(rows, 1..m) <=> ~NoOriginal(seen, cur) /\ ~LeftBehind(seen, cur)
<1>1. /\ n \in Nat /\ m \in Nat /\ n <= m
      /\ \A i \in 1..m : B[i] \in AllRead(seen, cur)
      /\ \A b \in AllRead(seen, cur) : \E i \in 1..m : B[i] = b
      /\ \A i, j \in 1..m : B[i].t = B[j].t =>
           \/ i = j
           \/ i <= n /\ j = m /\ m > n
           \/ j <= n /\ i = m /\ m > n
  BY LaidBars
<1>2. /\ m = n <=> cur = Nil
      /\ m > n => B[m] = cur
      /\ \A i \in 1..n : B[i] \in seen
      /\ \A b \in seen : \E i \in 1..n : B[i] = b
  BY <1>1 DEF Laid
<1>3. /\ \A i \in 1..m : rows[i].t = B[i].t
      /\ \A i \in 1..m : rows[i].rev = B[i].rcv.rev /\ rows[i].rev \in Nat
      /\ \A i \in 1..m : rows[i].state = "ORIGINAL" <=> rows[i].rev = 0
      /\ \A i \in 1..m : rows[i].provider = Exchange
      /\ \A i \in 1..m : rows[i].final <=> i <= n
  BY LaidRows DEF RowOfBar, Foreign
<1>4. \A i \in 1..m : Group(rows, 1..m, rows[i].t) = {j \in 1..m : B[j].t = B[i].t}
  BY <1>3 DEF Group
<1> DEFINE G(i) == {j \in 1..m : B[j].t = B[i].t}
<1>5. ASSUME Agreeing(rows, 1..m) PROVE ~NoOriginal(seen, cur)
  <2> SUFFICES ASSUME NEW b \in AllRead(seen, cur)
               PROVE  \E c \in AllRead(seen, cur) : c.t = b.t /\ c.rcv.rev = 0
    BY DEF NoOriginal
  <2>1. PICK i \in 1..m : B[i] = b
    BY <1>1
  <2>2. Consistent(rows, G(i))
    BY <1>4, <1>5 DEF Agreeing
  <2>3. PICK j \in G(i) : rows[j].rev = 0
    BY <2>2 DEF Consistent
  <2>4. B[j] \in AllRead(seen, cur) /\ B[j].t = b.t /\ B[j].rcv.rev = 0
    BY <1>1, <1>3, <2>1, <2>3
  <2> QED BY <2>4
<1>6. ASSUME Agreeing(rows, 1..m) PROVE ~LeftBehind(seen, cur)
  <2> SUFFICES ASSUME cur # Nil, NEW b \in seen, b.t = cur.t, b.rcv.rev = cur.rcv.rev
               PROVE  FALSE
    BY DEF LeftBehind
  <2>1. PICK i \in 1..n : B[i] = b
    BY <1>2
  <2>2. m > n /\ m \in 1..m /\ i \in 1..m /\ i # m /\ B[m] = cur
    BY <1>1, <1>2, <2>1
  <2>3. Consistent(rows, G(i)) /\ i \in G(i) /\ m \in G(i)
    BY <1>4, <1>6, <2>1, <2>2 DEF Agreeing
  <2>4. rows[i].rev = rows[m].rev
    BY <1>3, <2>1, <2>2
  <2>5. rows[i] = rows[m]
    BY <2>2, <2>3, <2>4 DEF Consistent
  <2>6. rows[i].final /\ ~rows[m].final
    BY <1>1, <1>3, <2>1, <2>2
  <2> QED BY <2>5, <2>6
<1>7. ASSUME ~NoOriginal(seen, cur), ~LeftBehind(seen, cur), NEW i \in 1..m
      PROVE  Consistent(rows, G(i))
  <2>1. PICK o \in 1..m : B[o].t = B[i].t /\ rows[o].rev = 0
    <3>1. PICK c \in AllRead(seen, cur) : c.t = B[i].t /\ c.rcv.rev = 0
      BY <1>1, <1>7 DEF NoOriginal
    <3>2. PICK o \in 1..m : B[o] = c
      BY <1>1
    <3> QED BY <1>3, <3>1, <3>2
  <2>2. ASSUME NEW j \in G(i), NEW k \in G(i), rows[j].rev = rows[k].rev PROVE j = k
    <3>1. \A x \in 1..n : m > n /\ B[x].t = B[m].t => rows[x].rev # rows[m].rev
      <4> SUFFICES ASSUME NEW x \in 1..n, m > n, B[x].t = B[m].t,
                          rows[x].rev = rows[m].rev
                   PROVE  FALSE
        OBVIOUS
      <4>1. x \in 1..m /\ m \in 1..m /\ B[x] \in seen /\ B[m] = cur /\ cur # Nil
        BY <1>1, <1>2
      <4>2. B[x].rcv.rev = cur.rcv.rev
        BY <1>3, <4>1
      <4> QED BY <1>7, <4>1, <4>2 DEF LeftBehind
    <3>2. j \in 1..m /\ k \in 1..m /\ B[j].t = B[k].t
      OBVIOUS
    <3>3. \/ j = k
          \/ j <= n /\ k = m /\ m > n
          \/ k <= n /\ j = m /\ m > n
      BY <1>1, <3>2
    <3> QED BY <2>2, <3>1, <3>2, <3>3
  <2>3. ASSUME NEW j \in G(i), NEW k \in G(i), rows[j].state = "REVOKED"
        PROVE  rows[k].rev <= rows[j].rev
    <3>1. rows[j].rev # 0 /\ j \in 1..m /\ k \in 1..m /\ o \in 1..m
      BY <1>3, <2>3
    <3>2. j # o
      BY <2>1, <3>1
    <3>3. k = j \/ k = o
      <4>1. B[j].t = B[o].t /\ B[k].t = B[o].t /\ B[k].t = B[j].t
        BY <2>1
      <4>2. (j <= n /\ o = m /\ m > n) \/ (o <= n /\ j = m /\ m > n)
        BY <1>1, <3>1, <3>2, <4>1
      <4>3. \/ k = j
            \/ k <= n /\ j = m /\ m > n
            \/ j <= n /\ k = m /\ m > n
        BY <1>1, <3>1, <4>1
      <4>4. \/ k = o
            \/ k <= n /\ o = m /\ m > n
            \/ o <= n /\ k = m /\ m > n
        BY <1>1, <3>1, <4>1
      <4> QED BY <1>1, <3>1, <4>2, <4>3, <4>4
    <3> QED BY <1>3, <2>1, <3>1, <3>3
  <2>4. \A j, k \in G(i) : rows[j].provider = rows[k].provider
    BY <1>3
  <2>5. \A j \in G(i) : (rows[j].state = "ORIGINAL") <=> (rows[j].rev = 0)
    BY <1>3
  <2>6. \E j \in G(i) : rows[j].rev = 0
    BY <2>1
  <2>7. \A j, k \in G(i) : rows[j].rev = rows[k].rev =>
          IF rows[j].rev = 0 THEN rows[j] = rows[k] ELSE j = k
    BY <2>2
  <2> HIDE DEF G
  <2> QED BY <2>3, <2>4, <2>5, <2>6, <2>7 DEF Consistent
<1> QED BY <1>4, <1>5, <1>6, <1>7 DEF Agreeing

(* The newest rows that are not revoked are those of the candles that      *)
(* stand.                                                                  *)
StandsAt(rows, m, i) == i \in NewestOf(rows, 1..m) /\ rows[i].state # "REVOKED"

LEMMA StandingOfLaid ==
  ASSUME NEW seen, NEW cur, NEW n, NEW m, NEW B, NEW rows, Laid(seen, cur, n, m, B, rows)
  PROVE  /\ \A i \in 1..m : StandsAt(rows, m, i) <=> B[i] \in Standing(seen, cur)
         /\ \A b \in Standing(seen, cur) : \E i \in 1..m : B[i] = b
<1>1. /\ \A i \in 1..m : B[i] \in AllRead(seen, cur)
      /\ \A b \in AllRead(seen, cur) : \E i \in 1..m : B[i] = b
  BY LaidBars
<1>2. \A i \in 1..m : /\ rows[i].t = B[i].t /\ rows[i].rev = B[i].rcv.rev
                       /\ rows[i].state = B[i].rcv.state
  BY LaidRows DEF RowOfBar
<1>3. Standing(seen, cur) =
        {b \in AllRead(seen, cur) :
           /\ b.rcv.state # "REVOKED"
           /\ \A c \in AllRead(seen, cur) : c.t = b.t => c.rcv.rev <= b.rcv.rev}
  BY DEF Standing, AllRead
<1>4. ASSUME NEW i \in 1..m
      PROVE  (\A j \in 1..m : rows[j].t = rows[i].t => rows[j].rev <= rows[i].rev) <=>
             (\A c \in AllRead(seen, cur) : c.t = B[i].t => c.rcv.rev <= B[i].rcv.rev)
  BY <1>1, <1>2
<1>5. ASSUME NEW i \in 1..m PROVE StandsAt(rows, m, i) <=> B[i] \in Standing(seen, cur)
  BY <1>1, <1>2, <1>3, <1>4 DEF StandsAt, NewestOf
<1> QED BY <1>1, <1>3, <1>5

(* The final rows among the newest are those of the candles to serve. *)
FinalNewest(rows, m) ==
  {r \in {rows[i] : i \in NewestOf(rows, 1..m)} : Servable(r, "CLOSED_BAR_ONLY")}
ServedRows(seen, cur) ==
  {raw_bar_from_market_bar(b, TRUE) : b \in Standing(seen, cur) \cap seen}

LEMMA ServedOfLaid ==
  ASSUME NEW seen, NEW cur, NEW n, NEW m, NEW B, NEW rows, Laid(seen, cur, n, m, B, rows)
  PROVE  FinalNewest(rows, m) = ServedRows(seen, cur)
<1>1. /\ n \in Nat /\ m \in Nat /\ n <= m
      /\ \A i \in 1..n : B[i] \in seen
      /\ \A b \in seen : \E i \in 1..n : B[i] = b
  BY LaidBars DEF Laid
<1>2. \A i \in 1..n : i \in 1..m /\ rows[i] = raw_bar_from_market_bar(B[i], TRUE)
  <2> SUFFICES ASSUME NEW i \in 1..n
               PROVE  i \in 1..m /\ rows[i] = raw_bar_from_market_bar(B[i], TRUE)
    OBVIOUS
  <2>1. i \in 1..m /\ (i <= n) = TRUE
    BY <1>1
  <2> QED BY <2>1 DEF Laid
<1>3. \A i \in 1..m : rows[i].final <=> i \in 1..n
  BY <1>1, LaidRows DEF RowOfBar
<1>4. \A i \in 1..m : StandsAt(rows, m, i) <=> B[i] \in Standing(seen, cur)
  BY StandingOfLaid
<1>5. \A i \in NewestOf(rows, 1..m) : i \in 1..m
  BY DEF NewestOf
<1>6. \A i \in 1..m : Servable(rows[i], "CLOSED_BAR_ONLY") <=>
                         rows[i].state # "REVOKED" /\ i \in 1..n
  BY <1>3 DEF Servable
<1>7. ASSUME NEW i \in NewestOf(rows, 1..m), Servable(rows[i], "CLOSED_BAR_ONLY")
      PROVE  rows[i] \in {raw_bar_from_market_bar(b, TRUE) : b \in Standing(seen, cur) \cap seen}
  <2>1. i \in 1..m /\ i \in 1..n /\ rows[i].state # "REVOKED"
    BY <1>5, <1>6, <1>7
  <2>2. B[i] \in Standing(seen, cur) \cap seen
    BY <1>1, <1>4, <2>1 DEF StandsAt
  <2> QED BY <1>2, <2>1, <2>2
<1>8. ASSUME NEW b \in Standing(seen, cur) \cap seen
      PROVE  \E i \in NewestOf(rows, 1..m) : /\ rows[i] = raw_bar_from_market_bar(b, TRUE)
                                             /\ Servable(rows[i], "CLOSED_BAR_ONLY")
  <2>1. PICK i \in 1..n : B[i] = b
    BY <1>1
  <2>2. i \in NewestOf(rows, 1..m) /\ rows[i].state # "REVOKED"
    BY <1>2, <1>4, <2>1 DEF StandsAt
  <2> QED BY <1>2, <1>6, <2>1, <2>2
<1>9. PICK W : W = FinalNewest(rows, m)
  OBVIOUS
<1>10. PICK V : V = ServedRows(seen, cur)
  OBVIOUS
<1>11. \A r \in W : r \in V
  BY <1>7, <1>9, <1>10 DEF FinalNewest, ServedRows
<1>12. \A r \in V : r \in W
  BY <1>8, <1>9, <1>10 DEF FinalNewest, ServedRows
<1>13. W = V
  BY <1>11, <1>12
<1> QED BY <1>9, <1>10, <1>13

(* The obstacles of the range: a candle that it ends in, candles that      *)
(* overlap.                                                                *)
Reaches(seen, cur, q) == \E b \in AllRead(seen, cur) : ~(close_time_ms(b.t) < q.end)
Overlapping(seen, cur) == \E b, c \in Standing(seen, cur) : Overlap(b.t, c.t)

LEMMA FittingOfLaid ==
  ASSUME NEW seen, NEW cur, NEW n, NEW m, NEW B, NEW rows, Laid(seen, cur, n, m, B, rows),
         NEW q, \A b \in AllRead(seen, cur) : q.start <= b.t
  PROVE  Fitting(rows, 1..m, q) <=> ~Reaches(seen, cur, q) /\ ~Overlapping(seen, cur)
<1>1. /\ \A i \in 1..m : B[i] \in AllRead(seen, cur)
      /\ \A b \in AllRead(seen, cur) : \E i \in 1..m : B[i] = b
  BY LaidBars
<1>2. \A i \in 1..m : rows[i].t = B[i].t
  BY LaidRows DEF RowOfBar
<1>3. (\A i \in 1..m : Inside(rows[i].t, q)) <=> ~Reaches(seen, cur, q)
  <2>1. \A i \in 1..m : Inside(rows[i].t, q) <=> close_time_ms(B[i].t) < q.end
    BY <1>1, <1>2 DEF Inside
  <2> QED BY <1>1, <2>1 DEF Reaches
<1>4. (\E i, j \in 1..m : /\ StandsAt(rows, m, i) /\ StandsAt(rows, m, j)
                          /\ Overlap(rows[i].t, rows[j].t)) <=> Overlapping(seen, cur)
  <2>1. /\ \A i \in 1..m : StandsAt(rows, m, i) <=> B[i] \in Standing(seen, cur)
        /\ \A b \in Standing(seen, cur) : \E i \in 1..m : B[i] = b
    BY StandingOfLaid
  <2> QED BY <1>2, <2>1 DEF Overlapping
<1>5. \A i \in NewestOf(rows, 1..m) : i \in 1..m
  BY DEF NewestOf
<1> QED BY <1>3, <1>4, <1>5 DEF Fitting, StandsAt

(* What SnapshotsServeTheStore says of one answer. *)
ServedAs(seen, cur, q, s) ==
  IF Obstacle(seen, cur, q)
    THEN s.status # "ok"
    ELSE /\ s.status = "ok"
         /\ {bar.row : bar \in s.bars} = ServedRows(seen, cur)

LEMMA SnapshotServes ==
  ASSUME NEW seen, OnePerTime(seen), NEW cur \in MarketBar \cup {Nil},
         NEW q, \A b \in AllRead(seen, cur) : q.start <= b.t
  PROVE  ServedAs(seen, cur, q, SnapshotOf(seen, cur, q))
<1>0. PICK n, m, B, rows : /\ Laid(seen, cur, n, m, B, rows)
                           /\ SnapshotOf(seen, cur, q) = Built(rows, m, q)
  BY SnapshotRows
<1>1. /\ n \in Nat /\ m \in Nat
      /\ \A i \in 1..m : B[i] \in AllRead(seen, cur)
      /\ \A b \in AllRead(seen, cur) : \E i \in 1..m : B[i] = b
  BY <1>0, LaidBars
<1>2. /\ \A i \in 1..m : rows[i].t \in Nat
      /\ \A i \in 1..m : rows[i].rev \in Nat
      /\ \A i \in 1..m : rows[i].v = B[i].v /\ rows[i].provider = B[i].rcv.provider
      /\ \A i \in 1..m : rows[i].pr = B[i].rcv.pr
  BY <1>0, LaidRows DEF RowOfBar
<1>3. PICK s : s = SnapshotOf(seen, cur, q)
  OBVIOUS
<1>4. PICK T : T = {rows[i].pr : i \in 1..m}
  OBVIOUS
<1>5. T = {b.rcv.pr : b \in AllRead(seen, cur)}
  <2>1. \A i \in 1..m : rows[i].pr \in {b.rcv.pr : b \in AllRead(seen, cur)}
    BY <1>1, <1>2
  <2>2. \A b \in AllRead(seen, cur) : b.rcv.pr \in T
    BY <1>1, <1>2, <1>4
  <2> QED BY <1>4, <2>1, <2>2
<1>6. (\E i \in 1..m : Foreign(rows[i])) <=>
        \E b \in AllRead(seen, cur) : b.rcv.provider # Exchange \/ b.v < 0
  BY <1>1, <1>2 DEF Foreign
<1>7. Obstacle(seen, cur, q) <=>
        \/ Cardinality(T) # 1 \/ \E i \in 1..m : Foreign(rows[i])
        \/ NoOriginal(seen, cur) \/ LeftBehind(seen, cur)
        \/ Reaches(seen, cur, q) \/ Overlapping(seen, cur)
  <2>1. Obstacle(seen, cur, q) <=>
          \/ Cardinality({b.rcv.pr : b \in AllRead(seen, cur)}) # 1
          \/ \E b \in AllRead(seen, cur) : b.rcv.provider # Exchange \/ b.v < 0
          \/ NoOriginal(seen, cur) \/ LeftBehind(seen, cur)
          \/ Reaches(seen, cur, q) \/ Overlapping(seen, cur)
    BY DEF Obstacle, AllRead, NoOriginal, LeftBehind, Reaches, Overlapping
  <2> QED BY <1>5, <1>6, <2>1
<1>8. s = IF (\E i \in 1..m : Foreign(rows[i])) \/ Cardinality(T) # 1
            THEN Refused
            ELSE build_public_snapshot(rows, 1..m, rows[1].pr, OnlyClosed(q))
  BY <1>0, <1>3, <1>4 DEF Built
<1>9. CASE Cardinality(T) # 1 \/ \E i \in 1..m : Foreign(rows[i])
  <2>1. s.status # "ok"
    BY <1>8, <1>9 DEF Refused
  <2> QED BY <1>3, <1>7, <1>9, <2>1 DEF ServedAs
<1>10. CASE Cardinality(T) = 1 /\ ~\E i \in 1..m : Foreign(rows[i])
  <2>1. IsFiniteSet(1..m)
    BY <1>1, FS_Interval
  <2>2. IsFiniteSet(T)
    <3> DEFINE F == [i \in 1..m |-> rows[i].pr]
    <3>1. F \in Surjection(1..m, T)
      BY <1>4 DEF Surjection
    <3> HIDE DEF F
    <3> QED BY <2>1, <3>1, FS_Surjection
  <2>3. PICK x : T = {x}
    BY <1>10, <2>2, FS_Singleton
  <2>4. m >= 1
    BY <1>1, <1>4, <2>3
  <2>5. PICK pr : pr = rows[1].pr
    OBVIOUS
  <2>6. \A i \in 1..m : rows[i].pr = pr
    BY <1>1, <1>4, <2>3, <2>4, <2>5
  <2>7. PICK P \in SUBSET Nat : P = 1..m
    BY <1>1
  <2>8. PICK w : w = OnlyClosed(q)
    OBVIOUS
  <2>81. w.start = q.start /\ w.end = q.end /\ w.policy = "CLOSED_BAR_ONLY"
    BY <2>8 DEF OnlyClosed
  <2>9. s = build_public_snapshot(rows, P, pr, w)
    BY <1>8, <1>10, <2>5, <2>7, <2>8
  <2>10. /\ \A i \in P : rows[i].t \in Nat
         /\ \A i \in P : rows[i].rev \in Nat
         /\ \A i \in P : rows[i].pr = pr
    BY <1>2, <2>6, <2>7
  <2>11. /\ s.status = "ok" <=> Agreeing(rows, P) /\ Fitting(rows, P, w)
         /\ s.status = "ok" => ServesNewest(rows, P, w.policy, s)
    BY <2>1, <2>7, <2>9, <2>10, SnapshotVerdict
  <2>12. Agreeing(rows, 1..m) <=> ~NoOriginal(seen, cur) /\ ~LeftBehind(seen, cur)
    BY <1>0, <1>10, GroupsOfLaid
  <2>121. Fitting(rows, 1..m, w) <=> ~Reaches(seen, cur, q) /\ ~Overlapping(seen, cur)
    <3>1. \A b \in AllRead(seen, cur) : w.start <= b.t
      BY <2>81
    <3>2. Fitting(rows, 1..m, w) <=> ~Reaches(seen, cur, w) /\ ~Overlapping(seen, cur)
      BY <1>0, <3>1, FittingOfLaid
    <3> QED BY <2>81, <3>2 DEF Reaches
  <2>13. s.status = "ok" <=> ~Obstacle(seen, cur, q)
    BY <1>7, <1>10, <2>7, <2>11, <2>12, <2>121
  <2>14. s.status = "ok" =>
           {bar.row : bar \in s.bars} = FinalNewest(rows, m)
    BY <2>7, <2>81, <2>11 DEF ServesNewest, FinalNewest
  <2>15. FinalNewest(rows, m) = ServedRows(seen, cur)
    BY <1>0, ServedOfLaid
  <2>16. s.status = "ok" => {bar.row : bar \in s.bars} = ServedRows(seen, cur)
    BY <2>14, <2>15
  <2> QED BY <1>3, <2>13, <2>16 DEF ServedAs
<1> QED BY <1>9, <1>10

----------------------------------------------------------------------------
(* What the reads keep.                                                    *)

(* Every stored candle is at its own open time. *)
Placed == \A t \in Times : closed[t] # Nil => closed[t].t = t

(* What was read of a range, and the current candle. *)
ReadOK(r) ==
  /\ OnePerTime(r.seen)
  /\ r.cur \in MarketBar \cup {Nil}
  /\ \A b \in AllRead(r.seen, r.cur) : r.q.start <= b.t
  /\ r.op = "fetch" => Expected(r.q) \ OpenTimes(r.seen) \subseteq revised

ReadPlaces == {"service", "stored", "current", "build"}

Reading(p) ==
  /\ at[p] \in {"service", "stored"} => req[p].cur = Nil /\ req[p].q \in Queries
  /\ at[p] \in ReadPlaces => req[p].op \in {"fetch", "read"}
  /\ at[p] = "stored" /\ req[p].op = "fetch" =>
       \A t \in Expected(req[p].q) : closed[t] # Nil \/ t \in revised
  /\ at[p] \in {"current", "build"} => ReadOK(req[p])

Answered(p) ==
  reply[p].op \in {"fetch", "read"} =>
    ReadOK(reply[p]) /\ reply[p].snap = SnapshotOf(reply[p].seen, reply[p].cur, reply[p].q)

SInv == Placed /\ \A p \in Proc : Reading(p) /\ Answered(p)

LEMMA InitSInv == AInit => SInv
<1> SUFFICES ASSUME AInit PROVE SInv
  OBVIOUS
<1>1. Placed
  BY DEF AInit, Init, Placed
<1>2. \A p \in Proc : at[p] = "none" /\ reply[p].op = "none"
  BY DEF AInit
<1> QED BY <1>1, <1>2 DEF SInv, Reading, Answered, ReadPlaces

LEMMA ReadStays ==
  ASSUME NEW r, ReadOK(r), revised \subseteq revised'
  PROVE  ReadOK(r)'
  BY DEF ReadOK

(* A step that leaves what p has read, or answered, leaves it in order. *)
LEMMA ReadingStays ==
  ASSUME NEW o \in Proc, Quiet(o), NEW p \in Proc, Reading(p),
         at'[p] = at[p], req'[p] = req[p]
  PROVE  Reading(p)'
<1>1. revised \subseteq revised'
  BY DEF Quiet
<1>2. PICK r, l : r = req[p] /\ l = at[p]
  OBVIOUS
<1>3. r = req'[p] /\ l = at'[p]
  BY <1>2
<1>4. ASSUME l = "stored", r.op = "fetch", NEW t \in Expected(r.q)
      PROVE  closed'[t] # Nil \/ t \in revised'
  <2>1. t \in Times
    BY <1>2, <1>4, QueriesAssumption DEF Reading
  <2>2. closed[t] # Nil \/ t \in revised
    BY <1>2, <1>4 DEF Reading
  <2> QED BY <1>1, <2>1, <2>2 DEF Quiet
<1>5. l \in {"current", "build"} => ReadOK(r)'
  <2>1. l \in {"current", "build"} => ReadOK(r)
    BY <1>2 DEF Reading
  <2> QED BY <1>1, <2>1, ReadStays
<1>6. /\ l \in {"service", "stored"} => r.cur = Nil /\ r.q \in Queries
      /\ l \in ReadPlaces => r.op \in {"fetch", "read"}
  BY <1>2 DEF Reading
<1>7. l \in {"current", "build"} => ReadOK(req[p])'
  BY <1>3, <1>5 DEF ReadOK
<1> QED BY <1>3, <1>4, <1>6, <1>7 DEF Reading

LEMMA AnsweredStays ==
  ASSUME NEW o \in Proc, Quiet(o), NEW p \in Proc, Answered(p), reply'[p] = reply[p]
  PROVE  Answered(p)'
<1>1. revised \subseteq revised'
  BY DEF Quiet
<1>2. PICK r : r = reply[p]
  OBVIOUS
<1>3. r = reply'[p]
  BY <1>2
<1>4. r.op \in {"fetch", "read"} => ReadOK(r) /\ r.snap = SnapshotOf(r.seen, r.cur, r.q)
  BY <1>2 DEF Answered
<1>5. r.op \in {"fetch", "read"} => ReadOK(r)'
  BY <1>1, <1>4, ReadStays
<1>6. r.op \in {"fetch", "read"} => ReadOK(reply[p])'
  BY <1>3, <1>5 DEF ReadOK
<1> QED BY <1>3, <1>4, <1>6 DEF Answered

LEMMA NotReading ==
  ASSUME NEW p \in Proc, at'[p] \notin ReadPlaces
  PROVE  Reading(p)'
  BY DEF Reading, ReadPlaces

LEMMA NoSnapshotAnswer ==
  ASSUME NEW p \in Proc, reply'[p].op \notin {"fetch", "read"}
  PROVE  Answered(p)'
  BY DEF Answered

----------------------------------------------------------------------------
(* Stored candles stay at their open times. *)

LEMMA OverlayPlaced ==
  ASSUME TypeOK, Placed, NEW bars \in SUBSET MarketBar, closed' = Overlay(bars)
  PROVE  Placed'
<1>1. /\ \A t \in Times : t \notin OpenTimes(bars) => closed'[t] = closed[t]
      /\ \A t \in OpenTimes(bars) : closed'[t].t = t
  BY OverlayFacts
<1> QED BY <1>1 DEF Placed

LEMMA CommitPlaced ==
  ASSUME TypeOK, Placed, NEW p \in Proc, NEW b \in MarketBar,
         commit_closed(p, b) \/ upsert_open(p, b)
  PROVE  Placed'
<1>1. closed' = closed \/ closed' = [closed EXCEPT ![b.t] = b]
  BY DEF commit_closed, CommitNewer, CommitDuplicate, CommitConflict, CommitMerge,
         upsert_open, LateOpenIgnored, AdmitOpen, store
<1>2. DOMAIN closed = Times
  BY DEF TypeOK
<1> QED BY <1>1, <1>2 DEF Placed

LEMMA RepairedPlaced ==
  ASSUME NEW stored, NEW source \in Seq(MarketBar), NEW t,
         stored[t] # Nil => stored[t].t = t, Repaired(stored, source, t) # Nil
  PROVE  Repaired(stored, source, t).t = t
<1>1. PICK taken : taken = Taken(stored, source, t)
  OBVIOUS
<1>2. taken \in SUBSET Mine(source, t)
  BY <1>1 DEF Taken, Mine
<1>3. CASE taken = {}
  BY <1>1, <1>3 DEF Repaired
<1>4. CASE taken # {}
  <2>1. taken \in SUBSET Nat /\ Len(source) \in Nat /\ \A i \in taken : i <= Len(source)
    BY <1>2, MineFacts
  <2>2. Max(taken) \in taken
    BY <1>4, <2>1, MaxFacts
  <2>3. Repaired(stored, source, t) = source[Max(taken)]
    BY <1>1, <1>4 DEF Repaired
  <2> QED BY <1>2, <2>2, <2>3 DEF Mine
<1> QED BY <1>3, <1>4

LEMMA ReplacePlaced ==
  ASSUME AInv, Placed, NEW p \in Proc, repair_replace(p)
  PROVE  Placed'
<1>1. at[p] = "repair" /\ req[p].seen = closed /\ req[p].source \in Seq(MarketBar)
  BY DEF AInv, AType, ReqType, ProcInv, Alone, repair_replace, Proceed
<1>2. PICK src \in Seq(MarketBar) : src = req[p].source
  BY <1>1
<1>3. PICK seen : seen = closed
  OBVIOUS
<1>4. closed' = [t \in Times |-> IF t \in SourceTimes(src) THEN Repaired(seen, src, t)
                                 ELSE IF req[p].strict THEN Nil ELSE seen[t]]
  BY <1>1, <1>2, <1>3 DEF repair_replace
<1>5. ASSUME NEW t \in Times, closed'[t] # Nil PROVE closed'[t].t = t
  <2>1. seen[t] # Nil => seen[t].t = t
    BY <1>3 DEF Placed
  <2>2. CASE closed'[t] = Repaired(seen, src, t)
    BY <1>5, <2>1, <2>2, RepairedPlaced
  <2>3. CASE closed'[t] = seen[t]
    BY <1>5, <2>1, <2>3
  <2> QED BY <1>4, <1>5, <2>2, <2>3
<1> QED BY <1>5 DEF Placed

LEMMA ActsPlaced ==
  ASSUME AInv, Placed, NEW p \in Proc, Acts(p)
  PROVE  Placed'
<1>0. TypeOK /\ AType /\ ProcInv(p)
  BY DEF AInv
<1>1. ASSUME closed' = closed PROVE Placed'
  BY <1>1 DEF Placed
<1>2. ASSUME NEW s \in Seq(MarketBar), bulk_write_closed(p, s) PROVE Placed'
  <2>1. PICK new : new = Incoming(s) \ Known(Incoming(s))
    OBVIOUS
  <2>2. new \in SUBSET MarketBar
    BY <2>1, IncomingFacts
  <2>3. closed' = closed \/ closed' = Overlay(new)
    BY <1>2, <2>1 DEF bulk_write_closed
  <2> QED BY <1>0, <1>1, <2>2, <2>3, OverlayPlaced
<1>3. ASSUME NEW s \in Series, write_series(p, s) PROVE Placed'
  <2>1. CASE s # <<>> /\ \A i \in DOMAIN s : s[i].closed
    <3>1. bulk_write_closed(p, SeriesBars(s)) /\ SeriesBars(s) \in Seq(MarketBar)
      BY <1>3, <2>1, SeriesBarsFacts DEF write_series, SeriesBars
    <3> QED BY <1>2, <3>1
  <2>2. CASE ~(s # <<>> /\ \A i \in DOMAIN s : s[i].closed)
    <3>1. closed' = closed
      BY <1>3, <2>2 DEF write_series, BarByBar, candles
    <3> QED BY <1>1, <3>1
  <2> QED BY <2>1, <2>2
<1>4. ASSUME NEW s \in Snapshots, write_snapshot(p, s) PROVE Placed'
  <2>1. closed' = closed
    BY <1>4 DEF write_snapshot, BarByBar, candles
  <2> QED BY <1>1, <2>1
<1>5. CASE AdapterCall(p)
  <2>1. ASSUME NEW s \in Sources, NEW strict \in BOOLEAN,
               audit_against_source(p, s, strict) \/ repair_from_source(p, s, strict)
        PROVE  closed' = closed
    BY <2>1 DEF audit_against_source, repair_from_source, candles
  <2>2. ASSUME NEW q \in Queries, fetch_bars(p, q) \/ read(p, q) PROVE closed' = closed
    BY <2>2 DEF fetch_bars, read, candles
  <2> QED BY <1>1, <1>3, <1>4, <1>5, <2>1, <2>2 DEF AdapterCall
<1>6. ASSUME WriteBar(p) PROVE Placed'
  <2>1. req[p].todo \in Seq(Update) /\ req[p].todo # <<>>
    BY <1>0, <1>6 DEF AType, ReqType, WriteBar
  <2>2. PICK u : u = Head(req[p].todo)
    OBVIOUS
  <2>3. u \in Update
    BY <2>1, <2>2
  <2>4. u.bar \in MarketBar
    BY <2>3 DEF Update
  <2>5. commit_closed(p, u.bar) \/ upsert_open(p, u.bar)
    BY <1>6, <2>2 DEF WriteBar
  <2> QED BY <1>0, <2>4, <2>5, CommitPlaced
<1>7. ASSUME ServiceStores(p) PROVE Placed'
  <2>1. at[p] = "service"
    BY <1>7 DEF ServiceStores, Proceed
  <2>2. req[p].q \in Queries
    BY <1>0, <2>1 DEF ProcInv, Alone
  <2>3. PICK bars : bars = Fetched(req[p].q)
    OBVIOUS
  <2>4. bars \in SUBSET MarketBar
    BY <2>2, <2>3, FetchedFacts
  <2>5. closed' = Overlay(bars)
    BY <1>7, <2>3 DEF ServiceStores
  <2> QED BY <1>0, <2>4, <2>5, OverlayPlaced
<1>8. ASSUME ServiceRaises(p) PROVE Placed'
  <2>1. at[p] = "service"
    BY <1>8 DEF ServiceRaises
  <2>2. PICK q \in Queries : q = req[p].q
    BY <1>0, <2>1 DEF ProcInv, Alone
  <2>3. PICK bars : bars = IF fmt = "csv" \/ TailOf(q) = {} THEN Fetched(q) ELSE {}
    OBVIOUS
  <2>4. bars \in SUBSET MarketBar
    BY <2>2, <2>3, FetchedFacts
  <2>5. closed' = Overlay(bars)
    BY <1>8, <2>2, <2>3 DEF ServiceRaises
  <2> QED BY <1>0, <2>4, <2>5, OverlayPlaced
<1>9. CASE AdapterStep(p)
  <2>1. ASSUME \/ BarWritten(p) \/ WriteEnds(p) \/ write_repair_log(p) \/ RepairDies(p)
               \/ get_market_bars(p) \/ get_current(p) \/ snapshot_from_market_bars(p)
        PROVE  closed' = closed
    BY <2>1 DEF BarWritten, WriteEnds, write_repair_log, RepairDies, get_market_bars,
                get_current, snapshot_from_market_bars, candles
  <2>2. ASSUME repair_replace(p) PROVE Placed'
    BY <2>2, ReplacePlaced
  <2> QED BY <1>1, <1>6, <1>7, <1>8, <1>9, <2>1, <2>2 DEF AdapterStep
<1>10. CASE StoreStep(p)
  <2>1. closed' = closed
    BY <1>10, OthersKeepClosed DEF StoreStep
  <2> QED BY <1>1, <2>1
<1>11. CASE Start(p)
  <2>1. PICK b \in MarketBar : commit_closed(p, b) \/ upsert_open(p, b)
    BY <1>11, BarsAssumption DEF Start
  <2> QED BY <1>0, <2>1, CommitPlaced
<1>12. CASE Fail(p)
  <2>1. closed' = closed
    BY <1>12, OthersKeepClosed
  <2> QED BY <1>1, <2>1
<1> QED BY <1>5, <1>9, <1>10, <1>11, <1>12 DEF Acts

----------------------------------------------------------------------------
(* What the steps of p leave it with. *)

InOrder(p) == Reading(p) /\ Answered(p)

(* No snapshot is read or answered. *)
Elsewhere(p) ==
  /\ at'[p] \notin ReadPlaces
  /\ reply'[p] = reply[p] \/ reply'[p].op \notin {"fetch", "read"}

LEMMA ElsewhereInOrder ==
  ASSUME NEW p \in Proc, Quiet(p), Answered(p), Elsewhere(p)
  PROVE  InOrder(p)'
<1>1. Reading(p)'
  BY NotReading DEF Elsewhere
<1>2. Answered(p)'
  BY AnsweredStays, NoSnapshotAnswer DEF Elsewhere
<1> QED BY <1>1, <1>2 DEF InOrder

LEMMA BeginElsewhere ==
  ASSUME AType, NEW p \in Proc, NEW r, NEW to, to \notin ReadPlaces, Begin(p, r, to)
  PROVE  Elsewhere(p)
  BY DEF AType, Begin, Elsewhere

LEMMA ReplyElsewhere ==
  ASSUME AType, NEW p \in Proc, NEW r, r.op \notin {"fetch", "read"}, Reply(p, r)
  PROVE  Elsewhere(p)
  BY DEF AType, Reply, Elsewhere, ReadPlaces

LEMMA ProceedElsewhere ==
  ASSUME AType, NEW p \in Proc, NEW from, NEW to, to \notin ReadPlaces, Proceed(p, from, to)
  PROVE  Elsewhere(p)
  BY DEF AType, Proceed, Elsewhere

LEMMA RepliesAtOnce ==
  ASSUME AType, NEW p \in Proc, at[p] = "none", at' = at,
         NEW r, r.op \notin {"fetch", "read"}, reply' = [reply EXCEPT ![p] = r]
  PROVE  Elsewhere(p)
  BY DEF AType, Elsewhere, ReadPlaces

LEMMA CallsElsewhere ==
  ASSUME AInv, NEW p \in Proc, AdapterCall(p),
         \A q \in Queries : ~fetch_bars(p, q) /\ ~read(p, q)
  PROVE  Elsewhere(p)
<1>0. AType
  BY DEF AInv
<1>1. ASSUME NEW todo, NEW bars, BarByBar(p, todo, bars) PROVE Elsewhere(p)
  <2>1. PICK r : Begin(p, r, "bar")
    BY <1>1 DEF BarByBar
  <2> QED BY <1>0, <2>1, BeginElsewhere DEF ReadPlaces
<1>2. ASSUME NEW s, bulk_write_closed(p, s) PROVE Elsewhere(p)
  <2>1. PICK r : /\ r.op = "write" /\ reply' = [reply EXCEPT ![p] = r]
                 /\ at[p] = "none" /\ at' = at
    <3> DEFINE ok == BulkVerdict(s) = "ok"
               n == IF ok THEN Cardinality(Incoming(s) \ Known(Incoming(s))) ELSE 0
               r == [op |-> "write", success |-> ok, rows |-> n, wrote |-> n,
                     bars |-> Incoming(s)]
    <3>1. reply' = [reply EXCEPT ![p] = r] /\ at[p] = "none" /\ at' = at
      BY <1>2 DEF bulk_write_closed
    <3>2. r.op = "write"
      OBVIOUS
    <3> HIDE DEF r
    <3> QED BY <3>1, <3>2
  <2> QED BY <1>0, <2>1, RepliesAtOnce
<1>3. ASSUME NEW s \in Series, write_series(p, s) PROVE Elsewhere(p)
  BY <1>1, <1>2, <1>3 DEF write_series
<1>4. ASSUME NEW s \in Snapshots, write_snapshot(p, s) PROVE Elsewhere(p)
  <2>1. CASE validate_canonical_snapshot(SnapshotBars(s), s).status = "ok"
    BY <1>1, <1>4, <2>1 DEF write_snapshot
  <2>2. CASE validate_canonical_snapshot(SnapshotBars(s), s).status # "ok"
    <3>1. PICK r : r = [op |-> "write", success |-> FALSE, rows |-> 0, wrote |-> 0, bars |-> {}]
      OBVIOUS
    <3>2. reply' = [reply EXCEPT ![p] = r] /\ at[p] = "none" /\ at' = at
      BY <1>4, <2>2, <3>1 DEF write_snapshot
    <3>3. r.op = "write"
      BY <3>1
    <3> QED BY <1>0, <3>2, <3>3, RepliesAtOnce
  <2> QED BY <2>1, <2>2
<1>5. ASSUME NEW s \in Sources, NEW strict \in BOOLEAN, audit_against_source(p, s, strict)
      PROVE  Elsewhere(p)
  <2>1. PICK r : r = [op |-> "audit", issues |-> AuditIssues(closed, s, strict)]
    OBVIOUS
  <2>2. reply' = [reply EXCEPT ![p] = r] /\ at[p] = "none" /\ at' = at /\ r.op = "audit"
    BY <1>5, <2>1 DEF audit_against_source
  <2> QED BY <1>0, <2>2, RepliesAtOnce
<1>6. ASSUME NEW s \in Sources, NEW strict \in BOOLEAN, repair_from_source(p, s, strict)
      PROVE  Elsewhere(p)
  <2>1. PICK r : Begin(p, r, "repair")
    BY <1>6 DEF repair_from_source
  <2> QED BY <1>0, <2>1, BeginElsewhere DEF ReadPlaces
<1> QED BY <1>3, <1>4, <1>5, <1>6 DEF AdapterCall

LEMMA StepsElsewhere ==
  ASSUME AInv, NEW p \in Proc,
         \/ WriteBar(p) \/ BarWritten(p) \/ WriteEnds(p) \/ repair_replace(p)
         \/ write_repair_log(p) \/ RepairDies(p) \/ ServiceRaises(p)
  PROVE  Elsewhere(p)
<1>0. AType
  BY DEF AInv
<1>1. ASSUME WriteBar(p) PROVE Elsewhere(p)
  BY <1>0, <1>1, ProceedElsewhere DEF WriteBar, ReadPlaces
<1>2. ASSUME BarWritten(p) PROVE Elsewhere(p)
  BY <1>0, <1>2, ProceedElsewhere DEF BarWritten, ReadPlaces
<1>3. ASSUME repair_replace(p) PROVE Elsewhere(p)
  BY <1>0, <1>3, ProceedElsewhere DEF repair_replace, ReadPlaces
<1>4. ASSUME WriteEnds(p) PROVE Elsewhere(p)
  <2>1. PICK r : r = [op |-> "write", success |-> at[p] = "bar", rows |-> req[p].rows,
                      wrote |-> req[p].wrote, bars |-> req[p].seen]
    OBVIOUS
  <2>2. Reply(p, r) /\ r.op = "write"
    BY <1>4, <2>1 DEF WriteEnds
  <2> QED BY <1>0, <2>2, ReplyElsewhere
<1>5. ASSUME write_repair_log(p) PROVE Elsewhere(p)
  <2>1. PICK r : r = [op |-> "repair", issues |->
                        AuditIssues(req[p].seen, req[p].source, req[p].strict)]
    OBVIOUS
  <2>2. Reply(p, r) /\ r.op = "repair"
    BY <1>5, <2>1 DEF write_repair_log
  <2> QED BY <1>0, <2>2, ReplyElsewhere
<1>6. ASSUME RepairDies(p) \/ ServiceRaises(p) PROVE Elsewhere(p)
  <2>1. PICK r : r = [op |-> "failed"]
    OBVIOUS
  <2>2. Reply(p, r) /\ r.op = "failed"
    BY <1>6, <2>1 DEF RepairDies, ServiceRaises
  <2> QED BY <1>0, <2>2, ReplyElsewhere
<1> QED BY <1>1, <1>2, <1>3, <1>4, <1>5, <1>6

(* fetch_bars and read begin. *)
LEMMA BeginReading ==
  ASSUME AInv, SInv, NEW p \in Proc, NEW q \in Queries, fetch_bars(p, q) \/ read(p, q)
  PROVE  InOrder(p)'
<1>0. AType /\ Answered(p) /\ Quiet(p)
  BY FetchDone DEF AInv, SInv, Done
<1>1. \A op : LET r == [Blank EXCEPT !.op = op, !.q = q] IN
               r.op = op /\ r.q = q /\ r.cur = Nil
  BY DEF Blank
<1>2. PICK r, to : /\ Begin(p, r, to) /\ r.q = q /\ r.cur = Nil
                   /\ \/ to = "service" /\ r.op = "fetch"
                      \/ to = "stored" /\ r.op = "read"
  BY <1>1 DEF fetch_bars, read
<1>3. at'[p] = to /\ req'[p] = r /\ reply'[p] = reply[p]
  BY <1>0, <1>2 DEF AType, Begin
<1>4. Reading(p)'
  BY <1>2, <1>3 DEF Reading, ReadPlaces
<1>5. Answered(p)'
  BY <1>0, <1>3, AnsweredStays
<1> QED BY <1>4, <1>5 DEF InOrder

(* After the service has stored what is missing, the range is whole. *)
LEMMA StoresInOrder ==
  ASSUME AInv, SInv, NEW p \in Proc, ServiceStores(p)
  PROVE  InOrder(p)'
<1>0. AType /\ Answered(p) /\ Reading(p) /\ Quiet(p)
  BY ServiceStoresDone DEF AInv, SInv, Done
<1>1. at[p] = "service" /\ at'[p] = "stored" /\ req'[p] = req[p] /\ reply'[p] = reply[p]
  BY <1>0 DEF AType, ServiceStores, Proceed
<1>2. \A t \in Expected(req[p].q) : closed'[t] # Nil
  BY DEF ServiceStores
<1>3. req[p].cur = Nil /\ req[p].q \in Queries /\ req[p].op \in {"fetch", "read"}
  BY <1>0, <1>1 DEF Reading, ReadPlaces
<1>4. Reading(p)'
  BY <1>1, <1>2, <1>3 DEF Reading, ReadPlaces
<1>5. Answered(p)'
  BY <1>0, <1>1, AnsweredStays
<1> QED BY <1>4, <1>5 DEF InOrder

(* One bar for each open time is read. *)
LEMMA StoredOnce ==
  ASSUME TypeOK, Placed, NEW q \in Queries
  PROVE  /\ OnePerTime(StoredIn(q))
         /\ \A b \in StoredIn(q) : q.start <= b.t
         /\ \A t \in Expected(q) : closed[t] # Nil => t \in OpenTimes(StoredIn(q))
<1>1. PICK D : D = Stored \cap Within(q)
  OBVIOUS
<1>2. \A t \in D : t \in Times /\ q.start <= t /\ closed[t] # Nil /\ closed[t].t = t
  BY <1>1 DEF Stored, Placed, Within
<1>3. PICK S : S = StoredIn(q) /\ S = {closed[t] : t \in D}
  BY <1>1 DEF StoredIn
<1>4. S \in SUBSET MarketBar
  BY <1>2, <1>3 DEF TypeOK
<1>5. \A b, c \in S : b.t = c.t => b = c
  BY <1>2, <1>3
<1>6. IsFiniteSet(S)
  <2>0. PICK latest \in Nat : \A t \in Times : t <= latest
    BY QueriesAssumption, TimesAreNumbers
  <2>1. IsFiniteSet(D)
    <3>1. IsFiniteSet(0..latest)
      BY <2>0, FS_Interval
    <3>2. \A t \in D : t \in Nat /\ t <= latest
      BY <1>2, <2>0, TimesAreNumbers
    <3>3. D \subseteq 0..latest
      BY <2>0, <3>2
    <3> QED BY <3>1, <3>3, FS_Subset
  <2> DEFINE F == [t \in D |-> closed[t]]
  <2>2. F \in Surjection(D, S)
    BY <1>3 DEF Surjection
  <2> HIDE DEF F
  <2> QED BY <2>1, <2>2, FS_Surjection
<1>7. ASSUME NEW t \in Expected(q), closed[t] # Nil PROVE t \in OpenTimes(S)
  <2>1. t \in Times /\ q.start <= t /\ t < q.end
    <3>1. t \in Times /\ t \in q.start..(q.end - 1) /\ q.start \in Nat /\ q.end \in Nat
      BY QueriesAssumption DEF Expected
    <3> QED BY <3>1
  <2>2. t \in D
    BY <1>1, <1>7, <2>1 DEF Stored, Within
  <2>3. closed[t] \in S /\ closed[t].t = t
    BY <1>2, <1>3, <2>2
  <2> QED BY <2>3 DEF OpenTimes
<1>8. \A b \in S : q.start <= b.t
  BY <1>2, <1>3
<1> QED BY <1>3, <1>4, <1>5, <1>6, <1>7, <1>8 DEF OnePerTime

LEMMA ReadsInOrder ==
  ASSUME AInv, SInv, NEW p \in Proc, get_market_bars(p)
  PROVE  InOrder(p)'
<1>0. TypeOK /\ AType /\ Answered(p) /\ Reading(p) /\ Quiet(p) /\ ReqType(req[p]) /\ Placed
  BY ReadDone DEF AInv, AType, SInv, Done
<1>1. /\ at[p] = "stored" /\ at'[p] \in {"current", "build"} /\ reply'[p] = reply[p]
      /\ req' = [req EXCEPT ![p].seen = StoredIn(req[p].q)] /\ revised' = revised
  BY <1>0 DEF AType, get_market_bars, Proceed
<1>2. /\ req[p].cur = Nil /\ req[p].q \in Queries /\ req[p].op \in {"fetch", "read"}
      /\ req[p].op = "fetch" =>
           \A t \in Expected(req[p].q) : closed[t] # Nil \/ t \in revised
  BY <1>0, <1>1 DEF Reading, ReadPlaces
<1>3. PICK q \in Queries : q = req[p].q
  BY <1>2
<1>4. PICK S : S = StoredIn(q)
  OBVIOUS
<1>5. PICK r : r = req'[p]
  OBVIOUS
<1>6. r.seen = S /\ r.q = q /\ r.cur = Nil /\ r.op = req[p].op
  <2>1. r = [req[p] EXCEPT !.seen = S]
    BY <1>0, <1>1, <1>3, <1>4, <1>5 DEF AType
  <2>2. DOMAIN req[p] = Fields
    BY <1>0 DEF ReqType
  <2> QED BY <1>2, <1>3, <2>1, <2>2 DEF Fields
<1>7. /\ OnePerTime(S) /\ \A b \in S : q.start <= b.t
      /\ \A t \in Expected(q) : closed[t] # Nil => t \in OpenTimes(S)
  BY <1>0, <1>4, StoredOnce
<1>8. r.op = "fetch" => Expected(r.q) \ OpenTimes(r.seen) \subseteq revised'
  BY <1>1, <1>2, <1>3, <1>6, <1>7
<1>81. \A b \in AllRead(r.seen, r.cur) : r.q.start <= b.t
  BY <1>6, <1>7 DEF AllRead
<1>9. ReadOK(req[p])'
  BY <1>5, <1>6, <1>7, <1>8, <1>81 DEF ReadOK
<1>10. Reading(p)'
  BY <1>1, <1>2, <1>5, <1>6, <1>9 DEF Reading, ReadPlaces
<1>11. Answered(p)'
  BY <1>0, <1>1, AnsweredStays
<1> QED BY <1>10, <1>11 DEF InOrder

LEMMA CurrentInOrder ==
  ASSUME AInv, SInv, NEW p \in Proc, get_current(p)
  PROVE  InOrder(p)'
<1>0. TypeOK /\ AType /\ Answered(p) /\ Reading(p) /\ Quiet(p) /\ ReqType(req[p])
  BY ReadDone DEF AInv, AType, SInv, Done
<1>1. /\ at[p] = "current" /\ at'[p] = "build" /\ reply'[p] = reply[p]
      /\ revised' = revised
  BY <1>0 DEF AType, get_current, Proceed
<1>2. ReadOK(req[p]) /\ req[p].op \in {"fetch", "read"}
  BY <1>0, <1>1 DEF Reading, ReadPlaces
<1>3. \A b \in NewestRows : b \in MarketBar
  BY <1>0 DEF NewestRows, TypeOK
<1>4. \/ req' = req
      \/ \E c \in MarketBar \cup {Nil} : /\ req' = [req EXCEPT ![p].cur = c]
                                         /\ c # Nil => req[p].q.start <= c.t
  BY <1>3 DEF get_current, Within
<1>5. PICK r : r = req'[p]
  OBVIOUS
<1>6. /\ r.seen = req[p].seen /\ r.q = req[p].q /\ r.op = req[p].op
      /\ r.cur \in MarketBar \cup {Nil}
      /\ r.cur # Nil => r.q.start <= r.cur.t
  <2>1. CASE req' = req
    BY <1>2, <1>5, <2>1 DEF ReadOK, AllRead
  <2>2. CASE req' # req
    <3>1. PICK c \in MarketBar \cup {Nil} : /\ req' = [req EXCEPT ![p].cur = c]
                                            /\ c # Nil => req[p].q.start <= c.t
      BY <1>4, <2>2
    <3>2. r = [req[p] EXCEPT !.cur = c]
      BY <1>0, <1>5, <3>1 DEF AType
    <3>3. DOMAIN req[p] = Fields
      BY <1>0 DEF ReqType
    <3>4. r.seen = req[p].seen /\ r.q = req[p].q /\ r.op = req[p].op /\ r.cur = c
      BY <3>2, <3>3 DEF Fields
    <3>5. r.cur # Nil => r.q.start <= r.cur.t
      BY <3>1, <3>4
    <3> QED BY <3>4, <3>5
  <2> QED BY <2>1, <2>2
<1>61. \A b \in AllRead(r.seen, r.cur) : r.q.start <= b.t
  BY <1>2, <1>6 DEF ReadOK, AllRead
<1>7. ReadOK(req[p])'
  BY <1>1, <1>2, <1>5, <1>6, <1>61 DEF ReadOK
<1>8. Reading(p)'
  BY <1>1, <1>2, <1>5, <1>6, <1>7 DEF Reading, ReadPlaces
<1>9. Answered(p)'
  BY <1>0, <1>1, AnsweredStays
<1> QED BY <1>8, <1>9 DEF InOrder

LEMMA AnswerInOrder ==
  ASSUME AInv, SInv, NEW p \in Proc, snapshot_from_market_bars(p)
  PROVE  InOrder(p)'
<1>0. AType /\ Reading(p)
  BY DEF AInv, SInv
<1>1. PICK r : r = [op |-> req[p].op, q |-> req[p].q, seen |-> req[p].seen,
                    cur |-> req[p].cur,
                    snap |-> SnapshotOf(req[p].seen, req[p].cur, req[p].q)]
  OBVIOUS
<1>2. at[p] = "build" /\ Reply(p, r) /\ revised' = revised
  BY <1>1 DEF snapshot_from_market_bars
<1>3. at'[p] = "none" /\ reply'[p] = r
  BY <1>0, <1>2 DEF AType, Reply
<1>4. ReadOK(req[p])
  BY <1>0, <1>2 DEF Reading
<1>5. /\ r.op = req[p].op /\ r.q = req[p].q /\ r.seen = req[p].seen /\ r.cur = req[p].cur
      /\ r.snap = SnapshotOf(r.seen, r.cur, r.q)
  BY <1>1
<1>6. ReadOK(reply[p])'
  BY <1>2, <1>3, <1>4, <1>5 DEF ReadOK
<1>7. Answered(p)'
  BY <1>3, <1>5, <1>6 DEF Answered
<1>8. Reading(p)'
  BY <1>3, NotReading DEF ReadPlaces
<1> QED BY <1>7, <1>8 DEF InOrder

LEMMA ActsInOrder ==
  ASSUME AInv, SInv, NEW p \in Proc, Acts(p)
  PROVE  InOrder(p)'
<1>0. TypeOK /\ AType /\ ProcInv(p) /\ Reading(p) /\ Answered(p)
  BY DEF AInv, SInv
<1>1. Quiet(p)
  BY ActsDone DEF Done
<1>2. ASSUME Elsewhere(p) PROVE InOrder(p)'
  BY <1>0, <1>1, <1>2, ElsewhereInOrder
<1>3. CASE AdapterCall(p)
  <2>1. CASE \E q \in Queries : fetch_bars(p, q) \/ read(p, q)
    BY <2>1, BeginReading
  <2>2. CASE \A q \in Queries : ~fetch_bars(p, q) /\ ~read(p, q)
    BY <1>2, <1>3, <2>2, CallsElsewhere
  <2> QED BY <2>1, <2>2
<1>4. CASE AdapterStep(p)
  BY <1>2, <1>4, StepsElsewhere, StoresInOrder, ReadsInOrder, CurrentInOrder,
     AnswerInOrder DEF AdapterStep
<1>5. CASE StoreStep(p)
  <2>1. pc[p] # "idle" /\ at' = at /\ reply' = reply
    BY <1>5 DEF StoreStep, Step, upsert_current, delete_current, get_checkpoint,
                update_checkpoint, Goto
  <2>2. at[p] \in {"none", "committing"}
    BY <1>0, <2>1 DEF ProcInv, Alone
  <2> QED BY <1>2, <2>1, <2>2 DEF Elsewhere, ReadPlaces
<1>6. CASE UNCHANGED adapters
  <2>1. at' = at /\ req' = req /\ reply' = reply
    BY <1>6 DEF adapters
  <2> QED BY <1>0, <1>1, <2>1, ReadingStays, AnsweredStays DEF InOrder
<1> QED BY <1>3, <1>4, <1>5, <1>6 DEF Acts

LEMMA NextSInv ==
  ASSUME AInv, SInv, [ANext]_avars
  PROVE  SInv'
<1>1. ASSUME NEW p \in Proc, Acts(p) PROVE SInv'
  <2>1. Quiet(p) /\ Placed'
    BY <1>1, ActsDone, ActsPlaced DEF Done, SInv
  <2>2. Reading(p)' /\ Answered(p)'
    BY <1>1, ActsInOrder DEF InOrder
  <2>3. ASSUME NEW q \in Proc \ {p} PROVE Reading(q)' /\ Answered(q)'
    <3>1. at'[q] = at[q] /\ req'[q] = req[q] /\ reply'[q] = reply[q]
      BY <2>1 DEF Quiet
    <3> QED BY <2>1, <3>1, ReadingStays, AnsweredStays DEF SInv
  <2> QED BY <2>1, <2>2, <2>3 DEF SInv
<1>2. CASE UNCHANGED <<closed, at, req, reply, revised>>
  BY <1>2 DEF SInv, Placed, Reading, Answered, ReadOK
<1>3. ASSUME NEW f \in {"csv", "parquet"}, compact(f), UNCHANGED adapters
      PROVE  UNCHANGED <<closed, at, req, reply, revised>>
  BY <1>3 DEF compact, adapters
<1>4. UNCHANGED avars => UNCHANGED <<closed, at, req, reply, revised>>
  BY DEF avars
<1> QED BY <1>1, <1>2, <1>3, <1>4 DEF ANext, Acts

(* snapshot_from_market_bars: whatever other processes write, repair or    *)
(* compact between its reads, a snapshot has exactly the final candles     *)
(* that were read and that are neither revoked nor hidden by an open       *)
(* correction; it is refused for a named obstacle only, the provider, the  *)
(* end of the range and overlapping candles among them; and after a fetch  *)
(* it covers what the service expects of the range but for what a repair   *)
(* removed.                                                                *)
THEOREM SnapshotsStayTrue == ASpec => []SnapshotsServeTheStore
<1>1. AInv /\ SInv => SnapshotsServeTheStore
  <2> SUFFICES ASSUME SInv, NEW p \in Proc, reply[p].op \in {"fetch", "read"}
               PROVE  /\ reply[p].op = "fetch" =>
                           Expected(reply[p].q) \ OpenTimes(reply[p].seen) \subseteq revised
                      /\ ServedAs(reply[p].seen, reply[p].cur, reply[p].q, reply[p].snap)
    BY DEF SnapshotsServeTheStore, ServedAs, ServedRows
  <2>1. ReadOK(reply[p])
        /\ reply[p].snap = SnapshotOf(reply[p].seen, reply[p].cur, reply[p].q)
    BY DEF SInv, Answered
  <2>2. PICK seen, cur, q : seen = reply[p].seen /\ cur = reply[p].cur /\ q = reply[p].q
    OBVIOUS
  <2>3. /\ OnePerTime(seen) /\ cur \in MarketBar \cup {Nil}
        /\ \A b \in AllRead(seen, cur) : q.start <= b.t
    BY <2>1, <2>2 DEF ReadOK
  <2>4. ServedAs(seen, cur, q, SnapshotOf(seen, cur, q))
    BY <2>3, SnapshotServes
  <2> QED BY <2>1, <2>2, <2>4 DEF ReadOK
<1>2. SInv /\ AInv /\ [ANext]_avars => SInv'
  BY NextSInv
<1> QED BY <1>1, <1>2, InitSInv, AdaptersInvariance, PTL DEF ASpec

=============================================================================
