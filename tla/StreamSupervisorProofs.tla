------------------------ MODULE StreamSupervisorProofs ------------------------
(***************************************************************************)
(* What a run of the supervisor keeps for every stream, queue size,        *)
(* backfill and number of other processes: the store's own invariants, the *)
(* bound and the uniqueness of the queue, the account of every update, the *)
(* reconnect counter, and that a run which ends normally without a drop    *)
(* has stored what was announced as closed.                                *)
(***************************************************************************)
EXTENDS StreamSupervisor, CandleStoreProofs

Phases == {"put", "next", "backfill", "committing", "reconnect", "apply",
           "applied", "done", "aborted"}

(* The variables of run have their types. *)
RunTypeOK ==
  /\ stream \in Seq(KlineUpdate) /\ maxsize \in (Nat \ {0}) \cup {Nil}
  /\ todo \in Seq(KlineUpdate) /\ items \in Seq(KlineUpdate)
  /\ updates \in Seq(KlineUpdate) /\ fill \in Seq(KlineUpdate)
  /\ phase \in Phases
  /\ seen \in StreamCheckpoint \cup {Nil}
  /\ count \in [Counters -> Nat]

(* What each phase of run has left to do. *)
PhaseInv ==
  /\ phase = "put" => maxsize # Nil /\ updates = <<>>
  /\ phase # "put" => todo = <<>> /\ items = <<>>
  /\ phase \in {"backfill", "committing", "reconnect", "apply", "applied"}
       => updates # <<>>
  /\ phase = "committing" => fill # <<>> /\ Head(fill).is_closed
  /\ phase \in {"put", "next", "reconnect", "apply", "applied", "done"} => fill = <<>>
  /\ phase = "done" => updates = <<>>

(* The checkpoint that RecordReconnect writes back names a stored candle. *)
SeenInv ==
  phase = "reconnect" /\ seen # Nil /\ seen.last # Nil => closed[seen.last] # Nil

SBase == IInv /\ SoloInv /\ RunTypeOK /\ PhaseInv /\ SeenInv

(* The tail of a queue that is not empty. *)
LEMMA HeadAndTail ==
  ASSUME NEW S, NEW s \in Seq(S), s # <<>>
  PROVE  /\ Head(s) \in S /\ Head(s) = s[1]
         /\ Tail(s) \in Seq(S) /\ Len(Tail(s)) = Len(s) - 1
         /\ Len(s) \in Nat \ {0}
         /\ \A i \in 1..Len(Tail(s)) : Tail(s)[i] = s[i + 1]
  OBVIOUS

LEMMA SInitBase == SInit => SBase
<1> SUFFICES ASSUME SInit PROVE SBase OBVIOUS
<1>1. IInv /\ SoloInv
  BY InitIInv, InitSolo DEF SInit
<1>2. <<>> \in Seq(KlineUpdate)
  OBVIOUS
<1>3. RunTypeOK
  BY <1>2, SupervisorAssumption DEF SInit, RunTypeOK, Phases
<1>4. PhaseInv /\ SeenInv
  BY DEF SInit, PhaseInv, SeenInv
<1> QED BY <1>1, <1>3, <1>4 DEF SBase

(* What each step of run does to the store: nothing, a call of the         *)
(* supervisor, or the reconnect that it records.                           *)
LEMMA RunStepStore ==
  ASSUME SBase, RunStep
  PROVE  \/ UNCHANGED idle_store
         \/ /\ UNCHANGED calls /\ UNCHANGED seen
            /\ \E b \in MarketBar : commit_closed(Sup, b) \/ upsert_open(Sup, b)
            /\ phase' # "reconnect"
         \/ RecordReconnect
<1>1. CASE BackfillBar
  <2>1. Head(fill) \in KlineUpdate
    BY <1>1, HeadAndTail DEF BackfillBar, SBase, RunTypeOK
  <2>2. Head(fill).bar \in MarketBar
    BY <2>1 DEF KlineUpdate
  <2> QED BY <1>1, <2>2 DEF BackfillBar
<1>2. CASE Apply
  <2>1. Head(updates) \in KlineUpdate
    BY <1>2, HeadAndTail DEF Apply, SBase, RunTypeOK, PhaseInv
  <2>2. Head(updates).bar \in MarketBar
    BY <2>1 DEF KlineUpdate
  <2> QED BY <1>2, <2>2 DEF Apply
<1> QED
  BY <1>1, <1>2
  DEF RunStep, put, drain, Finished, NextUpdate, Backfilled, Abort,
      ReadCheckpoint, Applied, idle_store

(* Every step keeps the invariants of the store and its final candles. *)
LEMMA StoreKept ==
  ASSUME SBase, [SNext]_svars
  PROVE  /\ IInv' /\ SoloInv'
         /\ \A t \in Times : closed[t] # Nil => closed'[t] = closed[t]
<1> USE DEF SBase
<1>0. calls \in Nat /\ Sup \in Proc
  BY SupervisorAssumption DEF IInv, TypeOK
<1>1. CASE UNCHANGED idle_store
  BY <1>1 DEF idle_store, IInv, TypeOK, CheckpointIsCommitted, JobInv, LockInv,
              SoloInv, Only
<1>2. ASSUME NEW p \in Proc, NEW b \in MarketBar,
             commit_closed(p, b) \/ upsert_open(p, b), calls' \in Nat
      PROVE  /\ IInv' /\ SoloInv'
             /\ \A t \in Times : closed[t] # Nil => closed'[t] = closed[t]
  <2>1. TypeOK
    BY DEF IInv
  <2> QED BY <1>2, <2>1, CommitClosedIInv, UpsertOpenIInv, CallSolo, CommitKeepsFinal,
             OthersKeepClosed
<1>3. ASSUME NEW p \in Proc, Step(p) \/ Fail(p), UNCHANGED calls
      PROVE  /\ IInv' /\ SoloInv' /\ closed' = closed
  BY <1>0, <1>3, StepIInv, FailIInv, StepSolo, OthersKeepClosed
<1>4. CASE RecordReconnect
  <2>1. checkpoint' \in StreamCheckpoint
    BY <1>4 DEF RecordReconnect, Carried, StreamCheckpoint, RunTypeOK
  <2>2. CheckpointIsCommitted'
    BY <1>4 DEF RecordReconnect, CheckpointIsCommitted, SeenInv
  <2>3. TypeOK'
    BY <1>4, <2>1 DEF RecordReconnect, IInv, TypeOK
  <2> QED
    BY <1>4, <2>2, <2>3 DEF RecordReconnect, IInv, JobInv, LockInv, SoloInv, Only
<1>5. CASE RunStep
  BY <1>0, <1>1, <1>2, <1>4, <1>5, RunStepStore
<1>6. ASSUME NEW p \in Proc, Start(p)
      PROVE  /\ IInv' /\ SoloInv'
             /\ \A t \in Times : closed[t] # Nil => closed'[t] = closed[t]
  <2>1. calls' \in Nat
    BY <1>0, <1>6 DEF Start
  <2> QED BY <1>2, <1>6, <2>1, BarsAssumption DEF Start
<1>7. CASE UNCHANGED svars
  BY <1>1, <1>7 DEF svars, idle_store
<1> QED BY <1>3, <1>5, <1>6, <1>7 DEF SNext, StoreStep

(* Counted adds one to the named counters. *)
LEMMA CountedAdds ==
  ASSUME RunTypeOK, NEW names, Counted(names)
  PROVE  /\ count' \in [Counters -> Nat]
         /\ \A c \in Counters : count'[c] = count[c] + IF c \in names THEN 1 ELSE 0
<1>1. \A c \in Counters : count'[c] = count[c] + IF c \in names THEN 1 ELSE 0
  BY DEF Counted
<1>2. \A c \in Counters : count[c] \in Nat
  BY DEF RunTypeOK
<1> QED BY <1>1, <1>2 DEF Counted

(* What put does to the queue. *)
LEMMA PutQueue ==
  ASSUME RunTypeOK, PhaseInv, put
  PROVE  LET u == Head(todo) IN
         /\ u \in KlineUpdate /\ u.bar.t \in Times /\ maxsize \in Nat \ {0}
         /\ todo' \in Seq(KlineUpdate) /\ Len(todo') = Len(todo) - 1 /\ Len(todo) > 0
         /\ items' \in Seq(KlineUpdate)
         /\ \/ /\ Slot(u) # {} /\ Len(items') = Len(items) /\ Counted({"coalesced"})
               /\ \A i \in 1..Len(items) : items'[i] = IF i \in Slot(u) THEN u ELSE items[i]
            \/ /\ Slot(u) = {} /\ Len(items) < maxsize /\ Len(items') = Len(items) + 1
               /\ items'[Len(items')] = u /\ UNCHANGED count
               /\ \A i \in 1..Len(items) : items'[i] = items[i]
            \/ /\ Slot(u) = {} /\ Len(items) >= maxsize /\ Len(items') = Len(items)
               /\ items'[Len(items')] = u /\ Counted({"dropped"})
               /\ \A i \in 1..(Len(items) - 1) : items'[i] = items[i + 1]
<1> DEFINE u == Head(todo)
<1>1. /\ u \in KlineUpdate /\ u.bar.t \in Times /\ maxsize \in Nat \ {0}
      /\ todo' \in Seq(KlineUpdate) /\ Len(todo') = Len(todo) - 1 /\ Len(todo) > 0
  <2>1. u \in KlineUpdate
    BY HeadAndTail DEF put, RunTypeOK
  <2>2. u.bar.t \in Times
    BY <2>1 DEF KlineUpdate, MarketBar
  <2>3. todo' = Tail(todo) /\ todo # <<>> /\ phase = "put" /\ todo \in Seq(KlineUpdate)
    BY DEF put, RunTypeOK
  <2>4. todo' \in Seq(KlineUpdate) /\ Len(todo') = Len(todo) - 1 /\ Len(todo) > 0
    BY <2>3, HeadAndTail
  <2>5. maxsize \in Nat \ {0}
    BY <2>3 DEF RunTypeOK, PhaseInv
  <2> QED BY <2>1, <2>2, <2>4, <2>5
<1>2. items \in Seq(KlineUpdate) /\ Len(items) \in Nat
  BY DEF RunTypeOK
<1>3. CASE Coalesce(u)
  <2>1. items' \in [1..Len(items) -> KlineUpdate]
    BY <1>1, <1>2, <1>3 DEF Coalesce
  <2>2. items' \in Seq(KlineUpdate) /\ Len(items') = Len(items)
    BY <1>2, <2>1
  <2> QED BY <1>1, <1>3, <2>2 DEF Coalesce
<1>4. CASE Enqueue(u)
  BY <1>1, <1>2, <1>4 DEF Enqueue
<1>5. CASE DropOldest(u)
  <2>1. items # <<>>
    BY <1>1, <1>2, <1>5 DEF DropOldest
  <2>2. /\ Tail(items) \in Seq(KlineUpdate) /\ Len(Tail(items)) = Len(items) - 1
        /\ \A i \in 1..(Len(items) - 1) : Tail(items)[i] = items[i + 1]
    BY <1>2, <2>1, HeadAndTail
  <2>3. items' = Append(Tail(items), u) /\ Slot(u) = {} /\ Len(items) >= maxsize
        /\ Counted({"dropped"})
    BY <1>5 DEF DropOldest
  <2>4. /\ items' \in Seq(KlineUpdate) /\ Len(items') = Len(items)
        /\ items'[Len(items')] = u
        /\ \A i \in 1..(Len(items) - 1) : items'[i] = items[i + 1]
    BY <1>1, <1>2, <2>2, <2>3
  <2> QED BY <1>1, <2>3, <2>4
<1> QED BY <1>3, <1>4, <1>5 DEF put

(* SBase is inductive. *)
LEMMA SNextBase == SBase /\ [SNext]_svars => SBase'
<1> SUFFICES ASSUME SBase, [SNext]_svars PROVE SBase' OBVIOUS
<1>0. /\ IInv' /\ SoloInv'
      /\ \A t \in Times : closed[t] # Nil => closed'[t] = closed[t]
  BY StoreKept
<1> USE DEF SBase
<1>a. seen # Nil => seen.last \in Times \cup {Nil}
  BY DEF RunTypeOK, StreamCheckpoint
<1>b. UNCHANGED <<phase, seen>> \/ phase' # "reconnect" => SeenInv'
  BY <1>0, <1>a DEF SeenInv
<1>c. /\ updates # <<>> => Tail(updates) \in Seq(KlineUpdate)
      /\ fill # <<>> => Tail(fill) \in Seq(KlineUpdate)
  BY HeadAndTail DEF RunTypeOK
<1>d. <<>> \in Seq(KlineUpdate) /\ checkpoint \in StreamCheckpoint \cup {Nil}
  BY DEF IInv, TypeOK
<1>1. CASE UNCHANGED run
  BY <1>0, <1>1, <1>b DEF run, RunTypeOK, PhaseInv
<1>2. CASE put
  <2>1. count' \in [Counters -> Nat]
    BY <1>2, PutQueue, CountedAdds DEF RunTypeOK
  <2>2. items' \in Seq(KlineUpdate) /\ todo' \in Seq(KlineUpdate)
    BY <1>2, PutQueue
  <2> QED BY <1>0, <1>2, <1>b, <2>1, <2>2 DEF put, RunTypeOK, PhaseInv
<1>3. CASE drain
  BY <1>0, <1>3, <1>b, <1>d DEF drain, RunTypeOK, PhaseInv, Phases
<1>4. CASE Finished
  BY <1>0, <1>4, <1>b DEF Finished, RunTypeOK, PhaseInv, Phases
<1>5. CASE NextUpdate
  <2>1. count' \in [Counters -> Nat]
    BY <1>5, CountedAdds DEF NextUpdate, RunTypeOK
  <2> QED BY <1>0, <1>5, <1>b, <2>1, SupervisorAssumption
          DEF NextUpdate, RunTypeOK, PhaseInv, Phases
<1>6. CASE BackfillBar
  BY <1>0, <1>6, <1>b, <1>c DEF BackfillBar, RunTypeOK, PhaseInv, Phases
<1>7. CASE Backfilled
  <2>1. count' \in [Counters -> Nat]
    BY <1>7, CountedAdds DEF Backfilled
  <2> QED BY <1>0, <1>7, <1>b, <1>c, <2>1 DEF Backfilled, RunTypeOK, PhaseInv, Phases
<1>8. CASE Abort("committing") \/ Abort("applied")
  BY <1>0, <1>8, <1>b DEF Abort, RunTypeOK, PhaseInv, Phases
<1>9. CASE ReadCheckpoint
  <2>1. closed' = closed /\ SeenInv'
    BY <1>9 DEF ReadCheckpoint, idle_store, SeenInv, IInv, CheckpointIsCommitted
  <2> QED BY <1>0, <1>9, <1>d, <2>1 DEF ReadCheckpoint, RunTypeOK, PhaseInv, Phases
<1>10. CASE RecordReconnect
  BY <1>0, <1>10, <1>b DEF RecordReconnect, RunTypeOK, PhaseInv, Phases
<1>11. CASE Apply
  BY <1>0, <1>11, <1>b DEF Apply, RunTypeOK, PhaseInv, Phases
<1>12. CASE Applied
  <2>1. count' \in [Counters -> Nat]
    BY <1>12, CountedAdds DEF Applied
  <2> QED BY <1>0, <1>12, <1>b, <1>c, <2>1 DEF Applied, RunTypeOK, PhaseInv, Phases
<1> QED
  BY <1>1, <1>2, <1>3, <1>4, <1>5, <1>6, <1>7, <1>8, <1>9, <1>10, <1>11, <1>12
  DEF SNext, RunStep, StoreStep, svars, run

(* SBase holds in every state of a run. *)
THEOREM SupervisorInvariance == SSpec => []SBase
  BY SInitBase, SNextBase, PTL DEF SSpec

(* The store's promises hold with the supervisor among its callers. *)

(* The checkpoint never names a candle that is not stored, also when the   *)
(* supervisor writes back for a reconnect what it read before.             *)
THEOREM SupervisorCheckpointNeverAhead == SSpec => []CheckpointIsCommitted
  BY SupervisorInvariance, PTL DEF SBase, IInv

(* While the supervisor, or any one process, alone has used the store, no  *)
(* open row outlives the commit_closed of its candle.                      *)
THEOREM SupervisorCleansUp == SSpec => []RedeliveryClearsOpenRow
<1>1. SBase => RedeliveryClearsOpenRow
  BY SoloSuffices DEF SBase
<1> QED BY <1>1, SupervisorInvariance, PTL

(* No step of a run or of another process changes a final candle. *)
THEOREM SupervisorKeepsFinal == SSpec => FinalIsForever
<1>1. SBase /\ [SNext]_svars
        => [\A t \in Times : closed[t] # Nil => closed'[t] = closed[t]]_vars
  BY StoreKept
<1> QED BY <1>1, SupervisorInvariance, PTL DEF SSpec, FinalIsForever

----------------------------------------------------------------------------
(* The queue. *)

LEMMA QueueStep == SBase /\ QueueBounded /\ [SNext]_svars => QueueBounded'
<1> SUFFICES ASSUME SBase, QueueBounded, [SNext]_svars PROVE QueueBounded' OBVIOUS
<1> USE DEF SBase
<1>0. items \in Seq(KlineUpdate) /\ Len(items) \in Nat
  BY DEF RunTypeOK
<1>1. CASE put
  <2> DEFINE u == Head(todo)
  <2>0. maxsize' = maxsize /\ maxsize \in Nat \ {0} /\ Len(items) <= maxsize
    BY <1>1, PutQueue DEF put, QueueBounded, PhaseInv
  <2>1. \A i \in 1..Len(items) : i \in Slot(u) <=> items[i].bar.t = u.bar.t
    BY DEF Slot
  <2>2. CASE /\ Slot(u) # {} /\ Len(items') = Len(items)
             /\ \A i \in 1..Len(items) : items'[i] = IF i \in Slot(u) THEN u ELSE items[i]
    <3>1. \A i \in 1..Len(items) : items'[i].bar.t = items[i].bar.t
      BY <2>1, <2>2
    <3> QED BY <2>0, <2>2, <3>1 DEF QueueBounded
  <2>3. CASE /\ Slot(u) = {} /\ Len(items) < maxsize /\ Len(items') = Len(items) + 1
             /\ items'[Len(items')] = u
             /\ \A i \in 1..Len(items) : items'[i] = items[i]
    <3>1. \A i \in 1..Len(items) : items[i].bar.t # u.bar.t
      BY <2>1, <2>3
    <3>2. Len(items') <= maxsize
      BY <1>0, <2>0, <2>3
    <3>3. ASSUME NEW i \in 1..Len(items'), NEW j \in 1..Len(items'),
                 items'[i].bar.t = items'[j].bar.t
          PROVE  i = j
      <4>1. i \in 1..Len(items) \/ i = Len(items')
        BY <1>0, <2>3
      <4>2. j \in 1..Len(items) \/ j = Len(items')
        BY <1>0, <2>3
      <4> QED BY <2>3, <3>1, <3>3, <4>1, <4>2 DEF QueueBounded
    <3> QED BY <2>0, <3>2, <3>3 DEF QueueBounded
  <2>4. CASE /\ Slot(u) = {} /\ Len(items') = Len(items) /\ Len(items) >= maxsize
             /\ items'[Len(items')] = u
             /\ \A i \in 1..(Len(items) - 1) : items'[i] = items[i + 1]
    <3>1. \A i \in 1..Len(items) : items[i].bar.t # u.bar.t
      BY <2>1, <2>4
    <3>3. ASSUME NEW i \in 1..Len(items'), NEW j \in 1..Len(items'),
                 items'[i].bar.t = items'[j].bar.t
          PROVE  i = j
      <4>0. \A k \in 1..Len(items') :
              \/ k = Len(items')
              \/ k \in 1..(Len(items) - 1) /\ k + 1 \in 1..Len(items) /\ items'[k] = items[k + 1]
        BY <1>0, <2>4
      <4>1. CASE i = Len(items') \/ j = Len(items')
        BY <2>4, <3>1, <3>3, <4>0, <4>1
      <4>2. CASE i # Len(items') /\ j # Len(items')
        <5>1. /\ i + 1 \in 1..Len(items) /\ j + 1 \in 1..Len(items)
              /\ items[i + 1].bar.t = items[j + 1].bar.t
          BY <3>3, <4>0, <4>2
        <5>2. i + 1 = j + 1
          BY <5>1 DEF QueueBounded
        <5> QED BY <5>2
      <4> QED BY <4>1, <4>2
    <3> QED BY <2>0, <2>4, <3>3 DEF QueueBounded
  <2> QED BY <1>1, <2>2, <2>3, <2>4, PutQueue
<1>2. CASE items' = <<>> /\ UNCHANGED maxsize
  <2>1. maxsize # Nil => maxsize \in Nat
    BY DEF RunTypeOK
  <2> QED BY <1>2, <2>1 DEF QueueBounded
<1>3. CASE UNCHANGED <<items, maxsize>>
  BY <1>3 DEF QueueBounded
<1> QED
  BY <1>1, <1>2, <1>3
  DEF SNext, RunStep, StoreStep, svars, run, drain, Finished, NextUpdate, BackfillBar,
      Backfilled, Abort, ReadCheckpoint, RecordReconnect, Apply, Applied

(* The queue stays within maxsize and holds each candle once, whatever the *)
(* stream delivers (CoalescingKlineQueue.put).                             *)
THEOREM QueueStaysBounded == SSpec => []QueueBounded
<1>1. SInit => QueueBounded
  <2> SUFFICES ASSUME SInit PROVE QueueBounded OBVIOUS
  <2>1. items = <<>> /\ Len(items) = 0 /\ (maxsize # Nil => maxsize \in Nat)
    BY SupervisorAssumption DEF SInit
  <2> QED BY <2>1 DEF QueueBounded
<1> QED BY <1>1, QueueStep, SupervisorInvariance, PTL DEF SSpec

----------------------------------------------------------------------------
(* The account. *)

LEMMA AccountStep ==
  SBase /\ EveryUpdateAccounted /\ [SNext]_svars => EveryUpdateAccounted'
<1> SUFFICES ASSUME SBase, EveryUpdateAccounted, [SNext]_svars
             PROVE  EveryUpdateAccounted'
  OBVIOUS
<1> USE DEF SBase
<1>0. /\ Len(stream) \in Nat /\ Len(todo) \in Nat /\ Len(items) \in Nat
      /\ Len(updates) \in Nat /\ Len(<<>>) = 0
      /\ count["processed"] \in Nat /\ count["coalesced"] \in Nat
      /\ count["dropped"] \in Nat
      /\ {"processed", "coalesced", "dropped"} \subseteq Counters
  BY DEF RunTypeOK, Counters
<1>a. ASSUME NEW names, Counted(names)
      PROVE  \A c \in {"processed", "coalesced", "dropped"} :
               count'[c] = count[c] + IF c \in names THEN 1 ELSE 0
  BY <1>0, <1>a, CountedAdds
<1> DEFINE n == Len(stream)
           a == Len(todo)
           i == Len(items)
           u == Len(updates)
           x == count["processed"]
           c == count["coalesced"]
           d == count["dropped"]
<1>c. /\ n = (a - 1) + i + u + x + (c + 1) + d
      /\ n = (a - 1) + i + u + x + c + (d + 1)
      /\ n = a + i + (u - 1) + (x + 1) + c + d
  <2>1. n \in Nat /\ a \in Nat /\ i \in Nat /\ u \in Nat /\ x \in Nat /\ c \in Nat /\ d \in Nat
    BY <1>0
  <2>2. n = a + i + u + x + c + d
    BY DEF EveryUpdateAccounted
  <2> HIDE DEF n, a, i, u, x, c, d
  <2> QED BY <2>1, <2>2
<1>1. CASE put
  <2>1. /\ Len(stream') = Len(stream) /\ Len(updates') = Len(updates)
        /\ Len(todo') = Len(todo) - 1
    BY <1>1, PutQueue DEF put
  <2>2. \/ Len(items') = Len(items) /\ Counted({"coalesced"})
        \/ Len(items') = Len(items) + 1 /\ UNCHANGED count
        \/ Len(items') = Len(items) /\ Counted({"dropped"})
    BY <1>1, PutQueue
  <2>3. CASE Len(items') = Len(items) /\ Counted({"coalesced"})
    <3>1. /\ count'["processed"] = count["processed"]
          /\ count'["coalesced"] = count["coalesced"] + 1 /\ count'["dropped"] = count["dropped"]
      BY <1>0, <1>a, <2>3
    <3> QED BY <1>c, <2>1, <2>3, <3>1 DEF EveryUpdateAccounted
  <2>4. CASE Len(items') = Len(items) + 1 /\ UNCHANGED count
    BY <1>0, <2>1, <2>4 DEF EveryUpdateAccounted
  <2>5. CASE Len(items') = Len(items) /\ Counted({"dropped"})
    <3>1. /\ count'["processed"] = count["processed"]
          /\ count'["dropped"] = count["dropped"] + 1 /\ count'["coalesced"] = count["coalesced"]
      BY <1>0, <1>a, <2>5
    <3> QED BY <1>c, <2>1, <2>5, <3>1 DEF EveryUpdateAccounted
  <2> QED BY <2>2, <2>3, <2>4, <2>5
<1>2. CASE drain
  <2>1. /\ UNCHANGED <<stream, todo, count>> /\ updates = <<>>
        /\ updates' = items /\ items' = <<>>
    BY <1>2 DEF drain, PhaseInv
  <2> QED BY <1>0, <2>1 DEF EveryUpdateAccounted
<1>3. CASE Applied
  <2>1. /\ UNCHANGED <<stream, todo, items>> /\ updates' = Tail(updates)
        /\ updates # <<>> /\ updates \in Seq(KlineUpdate)
    BY <1>3 DEF Applied, PhaseInv, RunTypeOK
  <2>2. Len(updates') = Len(updates) - 1
    BY <2>1, HeadAndTail
  <2>3. \/ Counted({"processed", "open_updates"}) \/ Counted({"processed", "closed_commits"})
    BY <1>3 DEF Applied
  <2>4. /\ count'["processed"] = count["processed"] + 1
        /\ count'["coalesced"] = count["coalesced"] /\ count'["dropped"] = count["dropped"]
    BY <1>0, <1>a, <2>3
  <2>5. UNCHANGED <<stream, todo, items>>
    BY <2>1
  <2> QED BY <1>c, <2>2, <2>4, <2>5 DEF EveryUpdateAccounted
<1>4. CASE NextUpdate \/ Backfilled
  <2>1. /\ Len(stream') = Len(stream) /\ Len(updates') = Len(updates)
        /\ Len(todo') = Len(todo) /\ Len(items') = Len(items)
    BY <1>4 DEF NextUpdate, Backfilled
  <2>2. UNCHANGED count \/ Counted({"reconnects"}) \/ Counted({"backfilled"})
    BY <1>4 DEF NextUpdate, Backfilled
  <2>3. /\ count'["processed"] = count["processed"]
        /\ count'["coalesced"] = count["coalesced"] /\ count'["dropped"] = count["dropped"]
    BY <1>0, <1>a, <2>2
  <2> QED BY <1>0, <2>1, <2>3 DEF EveryUpdateAccounted
<1>5. CASE UNCHANGED <<stream, todo, items, updates, count>>
  BY <1>5 DEF EveryUpdateAccounted
<1> QED
  BY <1>1, <1>2, <1>3, <1>4, <1>5
  DEF SNext, RunStep, StoreStep, svars, run, Finished, BackfillBar, Abort,
      ReadCheckpoint, RecordReconnect, Apply

(* No update of the stream vanishes without being counted, for every       *)
(* stream and queue (put, drain and the loop of run).                      *)
THEOREM UpdatesAreAccounted == SSpec => []EveryUpdateAccounted
<1>1. SInit => EveryUpdateAccounted
  <2> SUFFICES ASSUME SInit PROVE EveryUpdateAccounted OBVIOUS
  <2>1. stream \in Seq(KlineUpdate) /\ Len(stream) \in Nat /\ Len(<<>>) = 0
    BY SupervisorAssumption DEF SInit
  <2> QED BY <2>1 DEF SInit, EveryUpdateAccounted, Counters
<1> QED BY <1>1, AccountStep, SupervisorInvariance, PTL DEF SSpec

----------------------------------------------------------------------------
(* Closed candles reach the store. *)

ClosedIn(s, t) == \E i \in 1..Len(s) : s[i].is_closed /\ s[i].bar.t = t

(* Once a candle is announced as closed, its later updates are closed too. *)
Lasting(s) ==
  \A i, j \in 1..Len(s) :
    i < j /\ s[i].is_closed /\ s[i].bar.t = s[j].bar.t => s[j].is_closed

(* No stream delivers an open update of a candle after its final one: the  *)
(* queue would replace the final one by it (run StreamSupervisorLate).     *)
OrderedStreams == \A s \in Streams : Lasting(s)

OrderInv ==
  /\ Lasting(todo)
  /\ \A i \in 1..Len(items), j \in 1..Len(todo) :
       items[i].is_closed /\ items[i].bar.t = todo[j].bar.t => todo[j].is_closed

(* The supervisor's call for bar b: in progress, or how it ended. *)
Called(b, final) ==
  /\ pc[Sup] # "idle" => job[Sup].bar = b /\ (final => job[Sup].status # "upserted")
  /\ pc[Sup] = "idle" /\ final =>
       /\ result[Sup].status \in {"committed", "duplicate", "conflict", "failed"}
       /\ result[Sup].status \in {"committed", "duplicate"} => closed[b.t] # Nil

CallInv ==
  /\ phase = "applied" => Called(Head(updates).bar, Head(updates).is_closed)
  /\ phase = "committing" => Called(Head(fill).bar, TRUE)

(* A closed candle of the stream is stored or on its way. *)
StreamReach ==
  count["dropped"] = 0 =>
    \A i \in 1..Len(stream) : stream[i].is_closed =>
      \/ closed[stream[i].bar.t] # Nil
      \/ ClosedIn(todo, stream[i].bar.t) \/ ClosedIn(items, stream[i].bar.t)
      \/ ClosedIn(updates, stream[i].bar.t)

FillReach ==
  count["reconnects"] > 0 =>
    \A i \in 1..Len(Backfill) : Backfill[i].is_closed =>
      closed[Backfill[i].bar.t] # Nil \/ ClosedIn(fill, Backfill[i].bar.t)

LEMMA CalledStep ==
  ASSUME SBase, NEW b \in MarketBar, NEW final \in BOOLEAN, Called(b, final),
         NEW p \in Proc, [SNext]_svars,
         \/ Step(p) \/ Fail(p)
         \/ p # Sup /\ \E c \in MarketBar : upsert_open(p, c) \/ commit_closed(p, c)
  PROVE  Called(b, final)'
<1> USE DEF SBase
<1>0. /\ Sup \in Proc /\ b.t \in Times /\ pc \in [Proc -> PCs]
      /\ DOMAIN job = Proc /\ DOMAIN result = Proc
      /\ closed[b.t] # Nil => closed'[b.t] # Nil
  BY SupervisorAssumption, StoreKept DEF MarketBar, IInv, TypeOK
<1>1. CASE p # Sup
  <2>1. pc'[Sup] = pc[Sup] /\ job'[Sup] = job[Sup] /\ result'[Sup] = result[Sup]
    BY <1>0, <1>1
    DEF Step, Fail, upsert_current, delete_current, get_checkpoint, update_checkpoint,
        upsert_open, LateOpenIgnored, AdmitOpen, commit_closed, CommitNewer,
        CommitDuplicate, CommitConflict, CommitMerge, Call, Return, Goto
  <2> QED BY <1>0, <2>1 DEF Called
<1>2. CASE p = Sup
  <2>1. /\ pc[Sup] # "idle" /\ job[Sup] \in Job
        /\ job[Sup].status \in {"upserted", "committed", "duplicate"}
        /\ job[Sup].bar = b /\ (final => job[Sup].status # "upserted")
        /\ job[Sup].status # "upserted" => closed[b.t] # Nil
    BY <1>0, <1>2
    DEF Step, Fail, upsert_current, delete_current, get_checkpoint, update_checkpoint,
        Goto, IInv, TypeOK, JobInv, Called
  <2>2. CASE upsert_current(p) \/ delete_current(p)
    BY <1>0, <1>2, <2>1, <2>2 DEF upsert_current, delete_current, Goto, Called
  <2>3. CASE get_checkpoint(p)
    BY <1>0, <1>2, <2>1, <2>3 DEF get_checkpoint, Goto, Called, Job
  <2>4. CASE update_checkpoint(p)
    BY <1>0, <1>2, <2>1, <2>4 DEF update_checkpoint, Return, Called
  <2>5. CASE Fail(p)
    BY <1>0, <1>2, <2>1, <2>5 DEF Fail, Called
  <2> QED BY <1>2, <2>2, <2>3, <2>4, <2>5 DEF Step
<1> QED BY <1>1, <1>2

LEMMA CalledBegins ==
  ASSUME SBase, NEW b \in MarketBar, NEW final \in BOOLEAN,
         IF final THEN commit_closed(Sup, b) ELSE upsert_open(Sup, b)
  PROVE  Called(b, final)'
<1>0. /\ Sup \in Proc /\ b.t \in Times /\ pc \in [Proc -> PCs]
      /\ DOMAIN job = Proc /\ DOMAIN result = Proc
  BY SupervisorAssumption DEF SBase, IInv, TypeOK, MarketBar
<1>1. CASE final
  BY <1>0, <1>1 DEF commit_closed, CommitNewer, CommitDuplicate, CommitConflict,
                    CommitMerge, Call, Return, Called
<1>2. CASE ~final
  BY <1>0, <1>2 DEF upsert_open, LateOpenIgnored, AdmitOpen, Call, Return, Called
<1> QED BY <1>1, <1>2

LEMMA CallStep == SBase /\ CallInv /\ [SNext]_svars => CallInv'
<1> SUFFICES ASSUME SBase, CallInv, [SNext]_svars PROVE CallInv' OBVIOUS
<1>0. /\ updates # <<>> => Head(updates) \in KlineUpdate
      /\ fill # <<>> => Head(fill) \in KlineUpdate
  BY HeadAndTail DEF SBase, RunTypeOK
<1>1. ASSUME NEW p \in Proc, UNCHANGED run,
             \/ Step(p) \/ Fail(p)
             \/ p # Sup /\ \E c \in MarketBar : upsert_open(p, c) \/ commit_closed(p, c)
      PROVE  CallInv'
  <2>1. phase' = phase /\ updates' = updates /\ fill' = fill
    BY <1>1 DEF run
  <2>2. CASE phase = "applied"
    <3>1. Head(updates).bar \in MarketBar /\ Head(updates).is_closed \in BOOLEAN
      BY <1>0, <2>2 DEF SBase, PhaseInv, KlineUpdate
    <3>2. PICK b \in MarketBar, final \in BOOLEAN :
                 b = Head(updates).bar /\ final = Head(updates).is_closed
      BY <3>1
    <3>3. Called(b, final)
      BY <2>2, <3>2 DEF CallInv
    <3>4. Called(b, final)'
      BY <1>1, <3>3, CalledStep
    <3> QED BY <2>1, <2>2, <3>2, <3>4 DEF CallInv
  <2>3. CASE phase = "committing"
    <3>1. Head(fill).bar \in MarketBar
      BY <1>0, <2>3 DEF SBase, PhaseInv, KlineUpdate
    <3>2. PICK b \in MarketBar : b = Head(fill).bar
      BY <3>1
    <3>3. Called(b, TRUE)
      BY <2>3, <3>2 DEF CallInv
    <3>4. Called(b, TRUE)'
      BY <1>1, <3>3, CalledStep
    <3> QED BY <2>1, <2>3, <3>2, <3>4 DEF CallInv
  <2> QED BY <2>1, <2>2, <2>3 DEF CallInv
<1>2. CASE Apply
  <2>1. Head(updates).bar \in MarketBar /\ Head(updates).is_closed \in BOOLEAN
    BY <1>0, <1>2 DEF Apply, SBase, PhaseInv, KlineUpdate
  <2>2. PICK b \in MarketBar, final \in BOOLEAN :
               b = Head(updates).bar /\ final = Head(updates).is_closed
    BY <2>1
  <2>3. Called(b, final)'
    BY <1>2, <2>2, CalledBegins DEF Apply
  <2>4. phase' = "applied" /\ updates' = updates
    BY <1>2 DEF Apply
  <2> QED BY <2>2, <2>3, <2>4 DEF CallInv
<1>3. CASE BackfillBar
  <2>1. CASE ~Head(fill).is_closed
    BY <1>3, <2>1 DEF BackfillBar, CallInv
  <2>2. CASE Head(fill).is_closed
    <3>1. Head(fill).bar \in MarketBar
      BY <1>0, <1>3 DEF BackfillBar, KlineUpdate
    <3>2. PICK b \in MarketBar : b = Head(fill).bar
      BY <3>1
    <3>3. Called(b, TRUE)'
      BY <1>3, <2>2, <3>2, CalledBegins DEF BackfillBar
    <3>4. phase' = "committing" /\ fill' = fill
      BY <1>3, <2>2 DEF BackfillBar
    <3> QED BY <3>2, <3>3, <3>4 DEF CallInv
  <2> QED BY <2>1, <2>2
<1>4. CASE UNCHANGED svars
  BY <1>4 DEF svars, CallInv, Called
<1>5. CASE phase' \notin {"applied", "committing"}
  BY <1>5 DEF CallInv
<1>6. ASSUME NEW p \in Proc \ {Sup}, Start(p), UNCHANGED run PROVE CallInv'
  <2>1. \E c \in MarketBar : upsert_open(p, c) \/ commit_closed(p, c)
    BY <1>6, BarsAssumption DEF Start
  <2> QED BY <1>1, <1>6, <2>1
<1>7. CASE RunStep
  <2>1. \/ BackfillBar \/ Apply \/ phase' \notin {"applied", "committing"}
    BY <1>7 DEF RunStep, put, drain, Finished, NextUpdate, Backfilled, Abort,
                ReadCheckpoint, RecordReconnect, Applied
  <2> QED BY <1>2, <1>3, <1>5, <2>1
<1> QED BY <1>1, <1>4, <1>6, <1>7 DEF SNext, StoreStep

(* What put leaves of the stream's closed updates. *)
LEMMA PutOrder ==
  ASSUME SBase, OrderInv, put
  PROVE  /\ OrderInv'
         /\ count'["dropped"] = 0 => \A t \in Times :
              ClosedIn(todo, t) \/ ClosedIn(items, t) => ClosedIn(todo', t) \/ ClosedIn(items', t)
<1> DEFINE u == Head(todo)
<1>0. /\ todo \in Seq(KlineUpdate) /\ items \in Seq(KlineUpdate) /\ todo # <<>>
      /\ todo' = Tail(todo) /\ Len(todo) \in Nat \ {0} /\ Len(items) \in Nat
      /\ Len(todo') = Len(todo) - 1 /\ u = todo[1]
      /\ \A j \in 1..Len(todo') : todo'[j] = todo[j + 1] /\ j + 1 \in 1..Len(todo)
  <2>1. /\ todo \in Seq(KlineUpdate) /\ items \in Seq(KlineUpdate) /\ todo # <<>>
        /\ todo' = Tail(todo)
    BY DEF SBase, RunTypeOK, put
  <2>2. /\ Len(todo) \in Nat \ {0} /\ Len(todo') = Len(todo) - 1 /\ u = todo[1]
        /\ \A j \in 1..Len(todo') : todo'[j] = todo[j + 1]
    BY <2>1, HeadAndTail
  <2> QED BY <2>1, <2>2
<1>1. \A j \in 1..Len(todo') :
        u.is_closed /\ u.bar.t = todo'[j].bar.t => todo'[j].is_closed
  BY <1>0 DEF OrderInv, Lasting
<1>2. Lasting(todo')
  BY <1>0 DEF OrderInv, Lasting
<1>3. \A k \in 1..Len(items') :
        items'[k] = u \/ \E i \in 1..Len(items) : items'[k] = items[i]
  <2>0. Len(items) \in Nat
    BY <1>0
  <2>1. CASE /\ Len(items') = Len(items)
             /\ \A i \in 1..Len(items) : items'[i] = IF i \in Slot(u) THEN u ELSE items[i]
    BY <2>1
  <2>2. CASE /\ Len(items') = Len(items) + 1 /\ items'[Len(items')] = u
             /\ \A i \in 1..Len(items) : items'[i] = items[i]
    BY <2>0, <2>2
  <2>3. CASE /\ Len(items') = Len(items) /\ items'[Len(items')] = u
             /\ \A i \in 1..(Len(items) - 1) : items'[i] = items[i + 1]
    <3> SUFFICES ASSUME NEW k \in 1..Len(items'), k # Len(items')
                 PROVE  \E i \in 1..Len(items) : items'[k] = items[i]
      BY <2>3
    <3>1. k \in 1..(Len(items) - 1) /\ k + 1 \in 1..Len(items)
      BY <2>0, <2>3
    <3> QED BY <2>3, <3>1
  <2> QED BY <2>1, <2>2, <2>3, PutQueue DEF SBase
<1>4. OrderInv'
  <2> SUFFICES ASSUME NEW k \in 1..Len(items'), NEW j \in 1..Len(todo'),
                      items'[k].is_closed, items'[k].bar.t = todo'[j].bar.t
               PROVE  todo'[j].is_closed
    BY <1>2 DEF OrderInv
  <2>1. CASE items'[k] = u
    BY <1>1, <2>1
  <2>2. CASE \E i \in 1..Len(items) : items'[k] = items[i]
    BY <1>0, <2>2 DEF OrderInv
  <2> QED BY <1>3, <2>1, <2>2
<1>5. ASSUME count'["dropped"] = 0, NEW t \in Times, ClosedIn(todo, t) \/ ClosedIn(items, t)
      PROVE  ClosedIn(todo', t) \/ ClosedIn(items', t)
  <2>0. \/ /\ Slot(u) # {} /\ Len(items') = Len(items)
           /\ \A i \in 1..Len(items) : items'[i] = IF i \in Slot(u) THEN u ELSE items[i]
        \/ /\ Slot(u) = {} /\ Len(items') = Len(items) + 1 /\ items'[Len(items')] = u
           /\ \A i \in 1..Len(items) : items'[i] = items[i]
    <3>1. ~Counted({"dropped"})
      <4>1. count["dropped"] \in Nat
        BY DEF SBase, RunTypeOK, Counters
      <4>2. "dropped" \in Counters
        BY DEF Counters
      <4> QED BY <1>5, <4>1, <4>2, CountedAdds DEF SBase
    <3> QED BY <3>1, PutQueue DEF SBase
  <2>1. u.is_closed /\ u.bar.t = t => ClosedIn(items', t)
    <3> SUFFICES ASSUME u.is_closed, u.bar.t = t PROVE ClosedIn(items', t)
      OBVIOUS
    <3>1. \E i \in 1..Len(items') : items'[i] = u
      <4>1. Slot(u) \subseteq 1..Len(items)
        BY DEF Slot
      <4> QED BY <1>0, <2>0, <4>1
    <3> QED BY <3>1 DEF ClosedIn
  <2>2. CASE ClosedIn(todo, t)
    <3>1. PICK j \in 1..Len(todo) : todo[j].is_closed /\ todo[j].bar.t = t
      BY <2>2 DEF ClosedIn
    <3>2. CASE j = 1
      BY <1>0, <2>1, <3>1, <3>2
    <3>3. CASE j # 1
      <4>1. j - 1 \in 1..Len(todo') /\ todo'[j - 1] = todo[j]
        BY <1>0, <3>3
      <4> QED BY <3>1, <4>1 DEF ClosedIn
    <3> QED BY <3>2, <3>3
  <2>3. CASE ClosedIn(items, t)
    <3>1. PICK i \in 1..Len(items) : items[i].is_closed /\ items[i].bar.t = t
      BY <2>3 DEF ClosedIn
    <3>2. CASE i \in Slot(u)
      <4>1. u.bar.t = t /\ u.is_closed
        BY <1>0, <3>1, <3>2 DEF Slot, OrderInv
      <4> QED BY <2>1, <4>1
    <3>3. CASE i \notin Slot(u)
      BY <1>0, <2>0, <3>1, <3>3 DEF ClosedIn
    <3> QED BY <3>2, <3>3
  <2> QED BY <1>5, <2>2, <2>3
<1> QED BY <1>4, <1>5

(* Every update of a sequence of updates has an open time. *)
LEMMA UpdateTimes ==
  ASSUME NEW s \in Seq(KlineUpdate)
  PROVE  \A i \in 1..Len(s) : s[i].bar.t \in Times
<1>1. \A i \in 1..Len(s) : s[i] \in KlineUpdate
  OBVIOUS
<1> QED BY <1>1 DEF KlineUpdate, MarketBar

(* The first closed update of a sequence is its head or stays in its tail. *)
LEMMA ClosedInTail ==
  ASSUME NEW s \in Seq(KlineUpdate), s # <<>>, NEW t, ClosedIn(s, t)
  PROVE  (Head(s).is_closed /\ Head(s).bar.t = t) \/ ClosedIn(Tail(s), t)
<1>1. PICK i \in 1..Len(s) : s[i].is_closed /\ s[i].bar.t = t
  BY DEF ClosedIn
<1>2. CASE i = 1
  BY <1>1, <1>2, HeadAndTail
<1>3. CASE i # 1
  <2>1. Len(s) \in Nat /\ Len(Tail(s)) = Len(s) - 1
    BY HeadAndTail
  <2>2. i - 1 \in 1..Len(Tail(s))
    BY <1>3, <2>1
  <2>3. Tail(s)[i - 1] = s[(i - 1) + 1]
    BY <2>2, HeadAndTail
  <2>4. (i - 1) + 1 = i
    BY <2>1
  <2> QED BY <1>1, <2>2, <2>3, <2>4 DEF ClosedIn
<1> QED BY <1>2, <1>3

LEMMA StreamReachStep ==
  SBase /\ OrderInv /\ CallInv /\ StreamReach /\ [SNext]_svars => OrderInv' /\ StreamReach'
<1> SUFFICES ASSUME SBase, OrderInv, CallInv, StreamReach, [SNext]_svars
             PROVE  OrderInv' /\ StreamReach'
  OBVIOUS
<1>0. /\ \A t \in Times : closed[t] # Nil => closed'[t] # Nil
      /\ \A i \in 1..Len(stream) : stream[i].bar.t \in Times
      /\ stream' = stream
  <2>1. stream \in Seq(KlineUpdate)
    BY DEF SBase, RunTypeOK
  <2>2. \A i \in 1..Len(stream) : stream[i].bar.t \in Times
    BY <2>1, UpdateTimes
  <2>3. stream' = stream
    BY DEF SNext, RunStep, StoreStep, svars, run, put, drain, Finished, NextUpdate,
           BackfillBar, Backfilled, Abort, ReadCheckpoint, RecordReconnect, Apply, Applied
  <2> QED BY <2>2, <2>3, StoreKept
<1>1. CASE put
  <2>1. /\ OrderInv' /\ updates' = updates
        /\ count'["dropped"] = 0 => \A t \in Times :
             ClosedIn(todo, t) \/ ClosedIn(items, t)
               => ClosedIn(todo', t) \/ ClosedIn(items', t)
    BY <1>1, PutOrder DEF put
  <2>2. count'["dropped"] = 0 => count["dropped"] = 0
    <3>1. "dropped" \in Counters /\ count["dropped"] \in Nat
      BY DEF SBase, RunTypeOK, Counters
    <3>2. Counted({"coalesced"}) \/ count' = count \/ Counted({"dropped"})
      BY <1>1, PutQueue DEF SBase
    <3> QED BY <3>1, <3>2, CountedAdds DEF SBase
  <2> QED BY <1>0, <2>1, <2>2 DEF StreamReach
<1>2. CASE drain
  <2>1. /\ todo = <<>> /\ updates' = items /\ items' = <<>> /\ updates = <<>>
        /\ todo' = todo /\ count' = count
    BY <1>2 DEF drain, SBase, PhaseInv
  <2>2. OrderInv'
    BY <2>1 DEF OrderInv, Lasting
  <2>3. \A t \in Times : ~ClosedIn(todo, t) /\ ~ClosedIn(updates, t)
    BY <2>1 DEF ClosedIn
  <2>4. StreamReach'
    BY <1>0, <2>1, <2>3 DEF StreamReach
  <2> QED BY <2>2, <2>4
<1>3. CASE Applied
  <2>1. /\ UNCHANGED <<todo, items, closed>> /\ updates' = Tail(updates) /\ updates # <<>>
        /\ phase = "applied" /\ pc[Sup] = "idle"
        /\ result[Sup].status \in {"upserted", "ignored", "committed", "duplicate"}
    BY <1>3 DEF Applied, idle_store, SBase, PhaseInv
  <2>2. count'["dropped"] = count["dropped"]
    <3>1. "dropped" \in Counters /\ count["dropped"] \in Nat
      BY DEF SBase, RunTypeOK, Counters
    <3>2. Counted({"processed", "open_updates"}) \/ Counted({"processed", "closed_commits"})
      BY <1>3 DEF Applied
    <3> QED BY <3>1, <3>2, CountedAdds DEF SBase
  <2>3. Head(updates).is_closed => closed[Head(updates).bar.t] # Nil
    BY <2>1 DEF CallInv, Called
  <2>4. updates \in Seq(KlineUpdate)
    BY DEF SBase, RunTypeOK
  <2>5. \A t \in Times : ClosedIn(updates, t) => closed[t] # Nil \/ ClosedIn(updates', t)
    BY <2>1, <2>3, <2>4, ClosedInTail
  <2>6. OrderInv'
    BY <2>1 DEF OrderInv, Lasting
  <2>7. StreamReach'
    BY <1>0, <2>1, <2>2, <2>5 DEF StreamReach
  <2> QED BY <2>6, <2>7
<1>4. CASE UNCHANGED <<todo, items, updates>> /\ count'["dropped"] = count["dropped"]
  <2>1. OrderInv'
    BY <1>4 DEF OrderInv, Lasting
  <2>2. StreamReach'
    BY <1>0, <1>4 DEF StreamReach
  <2> QED BY <2>1, <2>2
<1>5. CASE NextUpdate \/ Backfilled
  <2>1. UNCHANGED <<todo, items, updates>>
    BY <1>5 DEF NextUpdate, Backfilled
  <2>2. UNCHANGED count \/ Counted({"reconnects"}) \/ Counted({"backfilled"})
    BY <1>5 DEF NextUpdate, Backfilled
  <2>3. "dropped" \in Counters /\ count["dropped"] \in Nat
    BY DEF SBase, RunTypeOK, Counters
  <2>4. count'["dropped"] = count["dropped"]
    BY <2>2, <2>3, CountedAdds DEF SBase
  <2> QED BY <1>4, <2>1, <2>4
<1>6. CASE \/ Finished \/ BackfillBar \/ Abort("committing") \/ Abort("applied")
           \/ ReadCheckpoint \/ RecordReconnect \/ Apply \/ UNCHANGED run
  BY <1>4, <1>6 DEF Finished, BackfillBar, Abort, ReadCheckpoint, RecordReconnect, Apply, run
<1> QED
  BY <1>1, <1>2, <1>3, <1>5, <1>6 DEF SNext, RunStep, StoreStep, svars, run

LEMMA FillReachStep ==
  SBase /\ CallInv /\ FillReach /\ [SNext]_svars => FillReach'
<1> SUFFICES ASSUME SBase, CallInv, FillReach, [SNext]_svars PROVE FillReach' OBVIOUS
<1>0. /\ \A t \in Times : closed[t] # Nil => closed'[t] # Nil
      /\ \A i \in 1..Len(Backfill) : Backfill[i].bar.t \in Times
  <2>1. \A i \in 1..Len(Backfill) : Backfill[i].bar.t \in Times
    BY SupervisorAssumption, UpdateTimes
  <2> QED BY <2>1, StoreKept
<1>a. "reconnects" \in Counters /\ count["reconnects"] \in Nat /\ fill \in Seq(KlineUpdate)
  BY DEF SBase, RunTypeOK, Counters
<1>1. CASE NextUpdate
  <2>1. CASE fill' = Backfill
    BY <2>1 DEF FillReach, ClosedIn
  <2>2. CASE UNCHANGED <<fill, count>>
    BY <1>0, <2>2 DEF FillReach
  <2> QED BY <1>1, <2>1, <2>2 DEF NextUpdate
<1>2. CASE BackfillBar
  <2>1. fill # <<>> /\ count' = count
    BY <1>2 DEF BackfillBar
  <2>2. fill' = fill \/ (fill' = Tail(fill) /\ ~Head(fill).is_closed)
    BY <1>2 DEF BackfillBar
  <2>3. \A t \in Times : ClosedIn(fill, t) => ClosedIn(fill', t)
    BY <1>a, <2>1, <2>2, ClosedInTail
  <2> QED BY <1>0, <2>1, <2>3 DEF FillReach
<1>3. CASE Backfilled
  <2>1. /\ fill' = Tail(fill) /\ fill # <<>> /\ closed[Head(fill).bar.t] # Nil
    BY <1>3 DEF Backfilled, SBase, PhaseInv, CallInv, Called
  <2>2. count'["reconnects"] = count["reconnects"]
    BY <1>3, <1>a, CountedAdds DEF Backfilled, SBase
  <2>3. \A t \in Times : ClosedIn(fill, t) => closed[t] # Nil \/ ClosedIn(fill', t)
    BY <1>a, <2>1, ClosedInTail
  <2> QED BY <1>0, <2>2, <2>3 DEF FillReach
<1>4. CASE put
  <2>1. fill' = fill
    BY <1>4 DEF put
  <2>2. Counted({"coalesced"}) \/ count' = count \/ Counted({"dropped"})
    BY <1>4, PutQueue DEF SBase
  <2>3. count'["reconnects"] = count["reconnects"]
    BY <1>a, <2>2, CountedAdds DEF SBase
  <2> QED BY <1>0, <2>1, <2>3 DEF FillReach
<1>5. CASE Applied
  <2>1. fill' = fill
    BY <1>5 DEF Applied
  <2>2. Counted({"processed", "open_updates"}) \/ Counted({"processed", "closed_commits"})
    BY <1>5 DEF Applied
  <2>3. count'["reconnects"] = count["reconnects"]
    BY <1>a, <2>2, CountedAdds DEF SBase
  <2> QED BY <1>0, <2>1, <2>3 DEF FillReach
<1>6. CASE UNCHANGED <<fill, count>>
  BY <1>0, <1>6 DEF FillReach
<1> QED
  BY <1>1, <1>2, <1>3, <1>4, <1>5, <1>6
  DEF SNext, RunStep, StoreStep, svars, run, drain, Finished, Abort, ReadCheckpoint,
      RecordReconnect, Apply

(* When no stream delivers an open update of a candle after its final one, *)
(* a run that ends normally without a drop has stored every candle that    *)
(* was announced as closed, and every closed bar of the backfill, whatever *)
(* other processes do and whichever calls die.                             *)
THEOREM ClosedCandlesAreStored ==
  OrderedStreams /\ SSpec => []ClosedUpdatesReachStore
<1> DEFINE Reach == OrderInv /\ CallInv /\ StreamReach /\ FillReach
<1>1. OrderedStreams /\ SInit => Reach
  <2> SUFFICES ASSUME OrderedStreams, SInit PROVE Reach OBVIOUS
  <2>1. /\ stream \in Seq(KlineUpdate) /\ Lasting(stream) /\ items = <<>>
        /\ phase \notin {"applied", "committing"}
        /\ (todo = stream \/ todo = <<>>) /\ (todo = stream \/ updates = stream)
    BY SupervisorAssumption DEF SInit, OrderedStreams
  <2>a. Len(items) = 0 /\ Lasting(<<>>)
    BY <2>1 DEF Lasting
  <2>b. Lasting(todo)
    BY <2>1, <2>a
  <2>c. OrderInv
    BY <2>a, <2>b DEF OrderInv
  <2>2. OrderInv /\ CallInv
    BY <2>1, <2>c DEF CallInv
  <2>3. \A i \in 1..Len(stream) : stream[i].is_closed => ClosedIn(stream, stream[i].bar.t)
    BY DEF ClosedIn
  <2>4. StreamReach
    BY <2>1, <2>3 DEF StreamReach
  <2>5. count["reconnects"] = 0
    BY DEF SInit, Counters
  <2>6. FillReach
    BY <2>5 DEF FillReach
  <2> QED BY <2>2, <2>4, <2>6
<1>2. SBase /\ Reach /\ [SNext]_svars => Reach'
  BY CallStep, StreamReachStep, FillReachStep
<1>3. SBase /\ Reach => ClosedUpdatesReachStore
  <2> SUFFICES ASSUME SBase, Reach, phase = "done", count["dropped"] = 0
               PROVE  /\ \A i \in 1..Len(stream) :
                           stream[i].is_closed => closed[stream[i].bar.t] # Nil
                      /\ count["reconnects"] > 0 =>
                           \A i \in 1..Len(Backfill) :
                             Backfill[i].is_closed => closed[Backfill[i].bar.t] # Nil
    BY DEF ClosedUpdatesReachStore
  <2>1. todo = <<>> /\ items = <<>> /\ updates = <<>> /\ fill = <<>>
    BY DEF SBase, PhaseInv
  <2>2. \A t : ~ClosedIn(<<>>, t)
    BY DEF ClosedIn
  <2> QED BY <2>1, <2>2 DEF StreamReach, FillReach
<1> QED BY <1>1, <1>2, <1>3, SupervisorInvariance, PTL DEF SSpec

----------------------------------------------------------------------------
(* The reconnect counter, while no other process has made a call. *)

Reconnecting == phase \in {"backfill", "committing", "reconnect"}

(* What has been read and will be written back carries the stored counter, *)
(* and that counter is the run's, but for the reconnect in progress.       *)
CounterInv ==
  calls = 0 =>
    /\ \A p \in Proc \ {Sup} : pc[p] = "idle"
    /\ phase \notin {"applied", "committing"} => pc[Sup] = "idle"
    /\ pc[Sup] = "update_checkpoint" => Carried(job[Sup].seen) = Carried(checkpoint)
    /\ phase = "reconnect" => Carried(seen) = Carried(checkpoint)
    /\ phase # "aborted" =>
         count["reconnects"] = Carried(checkpoint) + IF Reconnecting THEN 1 ELSE 0

(* A step of the supervisor's own call leaves the counter as it is. *)
LEMMA OwnStep ==
  ASSUME SBase, CounterInv, calls = 0, Step(Sup) \/ Fail(Sup), UNCHANGED calls,
         UNCHANGED run
  PROVE  CounterInv'
<1>0. /\ Sup \in Proc /\ pc \in [Proc -> PCs] /\ DOMAIN job = Proc
      /\ pc[Sup] # "idle" /\ job[Sup] \in Job
  BY SupervisorAssumption
  DEF SBase, IInv, TypeOK, Step, Fail, upsert_current, delete_current,
      get_checkpoint, update_checkpoint, Goto
<1>1. \A p \in Proc \ {Sup} : pc'[p] = pc[p]
  BY <1>0 DEF Step, Fail, upsert_current, delete_current, get_checkpoint,
              update_checkpoint, Goto, Return
<1>2. /\ Carried(checkpoint') = Carried(checkpoint)
      /\ pc'[Sup] = "update_checkpoint" => Carried(job'[Sup].seen) = Carried(checkpoint)
  <2>1. CASE upsert_current(Sup) \/ delete_current(Sup)
    BY <1>0, <2>1 DEF upsert_current, delete_current, Goto
  <2>2. CASE get_checkpoint(Sup)
    <3>1. job'[Sup].seen = checkpoint
      BY <1>0, <2>2 DEF get_checkpoint, Job
    <3> QED BY <2>2, <3>1 DEF get_checkpoint, store
  <2>3. CASE update_checkpoint(Sup)
    <3>1. checkpoint' = NextCheckpoint(job[Sup].bar, job[Sup].status, job[Sup].seen)
          /\ pc'[Sup] = "idle" /\ pc[Sup] = "update_checkpoint"
      BY <1>0, <2>3 DEF update_checkpoint, Return
    <3>2. checkpoint' # Nil
      <4>1. IInv'
        <5>1. calls' \in Nat
          BY DEF SBase, IInv, TypeOK
        <5>2. Step(Sup)
          BY <2>3 DEF Step
        <5> QED BY <1>0, <5>1, <5>2, StepIInv DEF SBase
      <4>2. checkpoint'.reconnects = Carried(job[Sup].seen)
        BY <3>1 DEF NextCheckpoint
      <4>3. /\ job[Sup].bar.t \in Times
            /\ job[Sup].seen \in StreamCheckpoint \cup {Nil}
            /\ job[Sup].seen # Nil => job[Sup].seen.last \in Times \cup {Nil}
        BY <1>0, JobFacts DEF SBase, IInv
      <4>4. checkpoint' \in StreamCheckpoint
        BY <3>1, <4>3 DEF NextCheckpoint, Carried, StreamCheckpoint
      <4> QED BY <4>4, NilIsNone
    <3>3. checkpoint'.reconnects = Carried(job[Sup].seen)
      BY <3>1 DEF NextCheckpoint
    <3>4. Carried(checkpoint') = Carried(job[Sup].seen)
      BY <3>2, <3>3 DEF Carried
    <3> QED BY <3>1, <3>4 DEF CounterInv
  <2>4. CASE Fail(Sup)
    BY <1>0, <2>4 DEF Fail
  <2> QED BY <2>1, <2>2, <2>3, <2>4 DEF Step
<1>3. phase' = phase /\ seen' = seen /\ count' = count
  BY DEF run
<1> QED BY <1>0, <1>1, <1>2, <1>3 DEF CounterInv, Reconnecting

LEMMA CounterStep == SBase /\ CounterInv /\ [SNext]_svars => CounterInv'
<1> SUFFICES ASSUME SBase, CounterInv, [SNext]_svars, calls' = 0 PROVE CounterInv'
  BY DEF CounterInv
<1>0. /\ calls \in Nat /\ Sup \in Proc /\ pc \in [Proc -> PCs] /\ DOMAIN job = Proc
      /\ "reconnects" \in Counters /\ count["reconnects"] \in Nat
      /\ Carried(checkpoint) \in Nat /\ Carried(seen) \in Nat
  BY SupervisorAssumption
  DEF SBase, IInv, TypeOK, RunTypeOK, Counters, Carried, StreamCheckpoint
<1>1. calls = 0 /\ ~\E p \in Proc : Start(p)
  <2>1. ASSUME NEW p \in Proc, Start(p) PROVE FALSE
    BY <1>0, <2>1 DEF Start
  <2> QED BY <2>1 DEF SNext, RunStep, StoreStep, svars, put, drain, Finished, NextUpdate,
             BackfillBar, Backfilled, Abort, ReadCheckpoint, RecordReconnect, Apply,
             Applied, idle_store
<1>2. CASE \E p \in Proc : (Step(p) \/ Fail(p)) /\ UNCHANGED calls /\ UNCHANGED run
  <2>1. PICK p \in Proc : (Step(p) \/ Fail(p)) /\ UNCHANGED calls /\ UNCHANGED run
    BY <1>2
  <2>2. pc[p] # "idle"
    BY <2>1 DEF Step, Fail, upsert_current, delete_current, get_checkpoint,
                update_checkpoint, Goto
  <2>3. p = Sup
    BY <1>1, <2>2 DEF CounterInv
  <2> QED BY <1>1, <2>1, <2>3, OwnStep
<1>3. CASE RecordReconnect
  <2>1. /\ phase = "reconnect" /\ phase' = "apply" /\ count' = count /\ pc' = pc /\ job' = job
        /\ checkpoint'.reconnects = Carried(seen) + 1
    BY <1>3 DEF RecordReconnect
  <2>2. checkpoint' # Nil
    <3>1. checkpoint' \in StreamCheckpoint
      BY <1>3 DEF RecordReconnect, Carried, StreamCheckpoint, SBase, RunTypeOK
    <3> QED BY <3>1, NilIsNone
  <2>3. Carried(checkpoint') = Carried(seen) + 1
    BY <2>1, <2>2 DEF Carried
  <2>4. pc[Sup] # "update_checkpoint"
    BY <1>1, <2>1 DEF CounterInv
  <2> QED BY <1>0, <1>1, <2>1, <2>3, <2>4 DEF CounterInv, Reconnecting
<1>4. CASE BackfillBar \/ Apply
  <2>1. /\ count' = count /\ Reconnecting' = Reconnecting /\ checkpoint' = checkpoint
        /\ phase \in {"backfill", "apply"} /\ phase' # "reconnect"
        /\ UNCHANGED <<phase, pc>> \/ phase' \in {"applied", "committing"}
        /\ UNCHANGED pc \/ pc'[Sup] # "update_checkpoint"
        /\ UNCHANGED job \/ pc'[Sup] # "update_checkpoint"
        /\ \A p \in Proc \ {Sup} : pc'[p] = pc[p]
    BY <1>0, <1>4
    DEF BackfillBar, Apply, idle_store, commit_closed, upsert_open, CommitNewer,
        CommitDuplicate, CommitConflict, CommitMerge, LateOpenIgnored, AdmitOpen, Call,
        Return, store, Reconnecting
  <2> QED BY <1>1, <2>1 DEF CounterInv
<1>5. CASE NextUpdate
  <2>1. UNCHANGED <<pc, job, checkpoint>> /\ phase = "next"
    BY <1>5 DEF NextUpdate, idle_store
  <2>2. CASE phase' = "backfill" /\ Counted({"reconnects"})
    <3>1. count'["reconnects"] = count["reconnects"] + 1
      BY <1>0, <2>2, CountedAdds DEF SBase
    <3> QED BY <1>0, <1>1, <2>1, <2>2, <3>1 DEF CounterInv, Reconnecting
  <2>3. CASE phase' = "apply" /\ UNCHANGED count
    BY <1>1, <2>1, <2>3 DEF CounterInv, Reconnecting
  <2> QED BY <1>5, <2>2, <2>3 DEF NextUpdate
<1>6. CASE /\ UNCHANGED <<pc, job, checkpoint>> /\ count'["reconnects"] = count["reconnects"]
           /\ phase' = "aborted" \/ (Reconnecting' = Reconnecting /\ phase # "aborted")
           /\ phase' = "reconnect" => Carried(seen') = Carried(checkpoint)
           /\ phase \notin {"applied", "committing"} \/ pc[Sup] = "idle"
  BY <1>1, <1>6 DEF CounterInv
<1>7. CASE put \/ Applied \/ Backfilled
  <2>1. /\ UNCHANGED <<pc, job, checkpoint>> /\ phase' # "reconnect"
        /\ Reconnecting' = Reconnecting /\ phase # "aborted"
        /\ phase \notin {"applied", "committing"} \/ pc[Sup] = "idle"
    BY <1>7 DEF put, Applied, Backfilled, idle_store, Reconnecting
  <2>2. count'["reconnects"] = count["reconnects"]
    <3>1. CASE put
      <4>1. Counted({"coalesced"}) \/ count' = count \/ Counted({"dropped"})
        BY <3>1, PutQueue DEF SBase
      <4> QED BY <1>0, <4>1, CountedAdds DEF SBase
    <3>2. CASE Applied \/ Backfilled
      <4>1. \/ Counted({"processed", "open_updates"}) \/ Counted({"processed", "closed_commits"})
            \/ Counted({"backfilled"})
        BY <3>2 DEF Applied, Backfilled
      <4> QED BY <1>0, <4>1, CountedAdds DEF SBase
    <3> QED BY <1>7, <3>1, <3>2
  <2> QED BY <1>6, <2>1, <2>2
<1>8. CASE drain \/ Finished \/ Abort("committing") \/ Abort("applied") \/ ReadCheckpoint
  BY <1>6, <1>8 DEF drain, Finished, Abort, ReadCheckpoint, idle_store, Reconnecting
<1>9. CASE UNCHANGED svars
  BY <1>9 DEF svars, CounterInv, Reconnecting
<1> QED
  BY <1>1, <1>2, <1>3, <1>4, <1>5, <1>7, <1>8, <1>9 DEF SNext, RunStep, StoreStep

(* The consecutive_reconnects that is stored is the number of reconnects   *)
(* of the run, as long as only the supervisor writes the checkpoint.       *)
THEOREM ReconnectsStayCounted == SSpec => []ReconnectsAreCounted
<1>1. SInit => CounterInv
  <2> SUFFICES ASSUME SInit PROVE CounterInv OBVIOUS
  <2>1. /\ checkpoint = Nil /\ count["reconnects"] = 0 /\ ~Reconnecting
        /\ \A p \in Proc : pc[p] = "idle"
        /\ phase \notin {"reconnect", "applied", "committing"}
    BY DEF SInit, Init, Reconnecting, Counters
  <2>2. Carried(checkpoint) = 0
    BY <2>1 DEF Carried
  <2> QED BY <2>1, <2>2, SupervisorAssumption DEF CounterInv
<1>2. SBase /\ CounterInv => ReconnectsAreCounted
  <2> SUFFICES ASSUME SBase, CounterInv, calls = 0, checkpoint # Nil,
                      phase \in {"apply", "applied", "next", "done"}
               PROVE  checkpoint.reconnects = count["reconnects"]
    BY DEF ReconnectsAreCounted
  <2>1. count["reconnects"] = Carried(checkpoint) + 0
    BY DEF CounterInv, Reconnecting
  <2>2. checkpoint.reconnects \in Nat
    BY DEF SBase, IInv, TypeOK, StreamCheckpoint
  <2> QED BY <2>1, <2>2 DEF Carried
<1> QED BY <1>1, <1>2, CounterStep, SupervisorInvariance, PTL DEF SSpec

===============================================================================
