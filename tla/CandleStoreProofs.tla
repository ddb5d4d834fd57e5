-------------------------- MODULE CandleStoreProofs --------------------------
(***************************************************************************)
(* What CandleStore keeps for any number of processes, candles, calls and  *)
(* failures: final candles never change, the checkpoint never runs ahead   *)
(* of the stored candles and the series lock is never left behind.         *)
(***************************************************************************)
EXTENDS CandleStore, TLAPS

(* A call that will report a final candle has already stored it, and a     *)
(* checkpoint a call has read, and will write back, names a stored candle. *)
JobInv ==
  \A p \in Proc : pc[p] # "idle" =>
    /\ job[p].status \in {"upserted", "committed", "duplicate"}
    /\ pc[p] = "delete_current" => job[p].status # "upserted"
    /\ pc[p] = "upsert_current" => job[p].status = "upserted"
    /\ job[p].status # "upserted" => closed[job[p].bar.t] # Nil
    /\ job[p].seen # Nil /\ job[p].seen.last # Nil
         => closed[job[p].seen.last] # Nil

LockInv ==
  \A p \in Proc : lock = p =>
    /\ pc[p] \in {"delete_current", "get_checkpoint", "update_checkpoint"}
    /\ job[p].status # "upserted"

IInv == TypeOK /\ CheckpointIsCommitted /\ JobInv /\ LockInv

(* The store starts empty, so nothing is promised yet. *)
LEMMA InitIInv == Init => IInv
  BY BoundsAssumption, NilIsNone
  DEF Init, IInv, TypeOK, CheckpointIsCommitted, JobInv, LockInv, PCs

(* commit_closed overwrites no stored candle: an appended candle opens     *)
(* after every stored one, a merged one has no candle in its place.        *)
LEMMA CommitKeepsFinal ==
  ASSUME TypeOK, NEW p \in Proc, NEW b \in MarketBar, commit_closed(p, b)
  PROVE  \A t \in Times : closed[t] # Nil => closed'[t] = closed[t]
<1>1. b.t \in Times
  BY DEF MarketBar
<1>2. CASE CommitNewer(p, b)
  <2>0. b.t \in Nat
    BY <1>1, TimesAreNumbers
  <2>a. ~(b.t > b.t)
    BY <2>0
  <2>1. b.t \notin Stored
    BY <1>2, <2>a DEF CommitNewer, IsNewer
  <2> QED BY <1>1, <1>2, <2>1 DEF CommitNewer, Stored, TypeOK
<1>3. CASE CommitDuplicate(p, b)
  BY <1>3 DEF CommitDuplicate
<1>4. CASE CommitConflict(p, b)
  BY <1>4 DEF CommitConflict, store
<1>5. CASE CommitMerge(p, b)
  BY <1>1, <1>5 DEF CommitMerge, TypeOK
<1> QED BY <1>2, <1>3, <1>4, <1>5 DEF commit_closed

(* No other step touches the final candles. *)
LEMMA OthersKeepClosed ==
  ASSUME NEW p \in Proc, NEW b,
         upsert_open(p, b) \/ Step(p) \/ Fail(p)
  PROVE  closed' = closed
  BY DEF upsert_open, LateOpenIgnored, AdmitOpen, Step, Fail, upsert_current,
         delete_current, get_checkpoint, update_checkpoint, store

(* No step overwrites or removes a stored candle. *)
LEMMA StepKeepsFinal ==
  ASSUME TypeOK, [Next]_vars
  PROVE  \A t \in Times : closed[t] # Nil => closed'[t] = closed[t]
<1>1. ASSUME NEW p \in Proc, Start(p)
      PROVE  \A t \in Times : closed[t] # Nil => closed'[t] = closed[t]
  <2>1. ASSUME NEW b \in OpenBars, upsert_open(p, b) PROVE closed' = closed
    BY <2>1, OthersKeepClosed
  <2>2. ASSUME NEW b \in ClosedBars, commit_closed(p, b)
        PROVE  \A t \in Times : closed[t] # Nil => closed'[t] = closed[t]
    BY <2>2, CommitKeepsFinal, BarsAssumption
  <2> QED BY <1>1, <2>1, <2>2 DEF Start
<1>2. ASSUME NEW p \in Proc, Step(p) \/ Fail(p)
      PROVE  closed' = closed
  BY <1>2, OthersKeepClosed
<1> QED
  BY <1>1, <1>2 DEF Next, compact, vars

----------------------------------------------------------------------------
(* IInv is inductive.  Each operation of the store has a lemma of its own, *)
(* for every bar it may be given: the modules that compose the store with  *)
(* its callers use them too.                                               *)

(* What a call in progress carries. *)
LEMMA JobFacts ==
  ASSUME TypeOK, NEW p \in Proc, pc[p] # "idle"
  PROVE  /\ job[p] \in Job /\ job[p].bar \in MarketBar
         /\ job[p].bar.t \in Times /\ job[p].bar.x \in Transports
         /\ job[p].seen \in StreamCheckpoint \cup {Nil}
         /\ job[p].seen # Nil => job[p].seen.last \in Times \cup {Nil}
  BY DEF TypeOK, Job, MarketBar, StreamCheckpoint

LEMMA UpsertOpenType ==
  ASSUME TypeOK, NEW p \in Proc, NEW b \in MarketBar, upsert_open(p, b), calls' \in Nat
  PROVE  TypeOK'
<1>1. b.t \in Times
  BY DEF MarketBar
<1>2. CASE LateOpenIgnored(p, b)
  BY <1>1, <1>2 DEF LateOpenIgnored, Return, store, TypeOK, CommitResult, Statuses, PCs
<1>3. CASE AdmitOpen(p, b)
  <2>1. [bar |-> b, status |-> "upserted", seen |-> Nil] \in Job
    BY <1>1 DEF Job, Statuses
  <2> QED BY <1>3, <2>1, NilIsNone DEF AdmitOpen, Call, store, TypeOK, PCs
<1> QED BY <1>2, <1>3 DEF upsert_open

LEMMA UpsertOpenIInv ==
  ASSUME IInv, NEW p \in Proc, NEW b \in MarketBar, upsert_open(p, b), calls' \in Nat
  PROVE  IInv'
<1> USE DEF IInv
<1>1. b.t \in Times /\ TypeOK'
  BY UpsertOpenType DEF MarketBar
<1>2. CASE LateOpenIgnored(p, b)
  BY <1>1, <1>2
  DEF LateOpenIgnored, Return, store, TypeOK, CheckpointIsCommitted, JobInv, LockInv
<1>3. CASE AdmitOpen(p, b)
  BY <1>1, <1>3
  DEF AdmitOpen, Call, store, TypeOK, CheckpointIsCommitted, JobInv, LockInv
<1> QED BY <1>2, <1>3 DEF upsert_open

LEMMA CommitClosedType ==
  ASSUME TypeOK, NEW p \in Proc, NEW b \in MarketBar, commit_closed(p, b), calls' \in Nat
  PROVE  TypeOK'
<1>1. b.t \in Times /\ b # Nil /\ p # Nil
  BY NilIsNone DEF MarketBar
<1>2. \A s \in {"committed", "duplicate"} :
        [bar |-> b, status |-> s, seen |-> Nil] \in Job
  BY <1>1 DEF Job, Statuses
<1>3. CASE CommitNewer(p, b)
  BY NilIsNone, <1>1, <1>2, <1>3 DEF CommitNewer, Call, TypeOK, PCs
<1>4. CASE CommitDuplicate(p, b)
  BY NilIsNone, <1>1, <1>2, <1>4 DEF CommitDuplicate, Call, TypeOK, PCs
<1>5. CASE CommitConflict(p, b)
  BY <1>1, <1>5 DEF CommitConflict, Return, store, TypeOK, CommitResult, Statuses, PCs
<1>6. CASE CommitMerge(p, b)
  BY NilIsNone, <1>1, <1>2, <1>6 DEF CommitMerge, Call, TypeOK, PCs
<1> QED BY <1>3, <1>4, <1>5, <1>6 DEF commit_closed

LEMMA CommitClosedIInv ==
  ASSUME IInv, NEW p \in Proc, NEW b \in MarketBar, commit_closed(p, b), calls' \in Nat
  PROVE  IInv'
<1> USE DEF IInv
<1>0. TypeOK' /\ \A t \in Times : closed[t] # Nil => closed'[t] = closed[t]
  BY CommitClosedType, CommitKeepsFinal
<1>a. ASSUME NEW q \in Proc, pc[q] # "idle"
      PROVE  /\ job[q].bar.t \in Times
             /\ job[q].seen # Nil => job[q].seen.last \in Times \cup {Nil}
  BY <1>a, JobFacts
<1>b. checkpoint # Nil => checkpoint.last \in Times \cup {Nil}
  BY DEF TypeOK, StreamCheckpoint
<1>1. b.t \in Times /\ b # Nil /\ p # Nil
  BY NilIsNone DEF MarketBar
<1>3. CASE CommitNewer(p, b)
  BY <1>0, <1>a, <1>b, <1>1, <1>3
  DEF CommitNewer, Call, TypeOK, CheckpointIsCommitted, JobInv, LockInv
<1>4. CASE CommitDuplicate(p, b)
  BY <1>0, <1>1, <1>4
  DEF CommitDuplicate, Call, TypeOK, CheckpointIsCommitted, JobInv, LockInv
<1>5. CASE CommitConflict(p, b)
  BY <1>0, <1>1, <1>5
  DEF CommitConflict, Return, store, TypeOK, CheckpointIsCommitted, JobInv, LockInv
<1>6. CASE CommitMerge(p, b)
  BY <1>0, <1>a, <1>b, <1>1, <1>6
  DEF CommitMerge, Call, TypeOK, CheckpointIsCommitted, JobInv, LockInv
<1> QED BY <1>3, <1>4, <1>5, <1>6 DEF commit_closed

LEMMA StepType ==
  ASSUME TypeOK, NEW p \in Proc, Step(p), calls' \in Nat
  PROVE  TypeOK'
<1>1. pc[p] # "idle"
  BY DEF Step, upsert_current, delete_current, get_checkpoint, update_checkpoint, Goto
<1>2. /\ job[p] \in Job /\ job[p].bar \in MarketBar /\ job[p].bar.t \in Times
      /\ job[p].seen \in StreamCheckpoint \cup {Nil}
      /\ job[p].seen # Nil => job[p].seen.last \in Times \cup {Nil}
  BY <1>1, JobFacts
<1>3. CASE upsert_current(p)
  BY <1>3, <1>2 DEF upsert_current, Goto, TypeOK, PCs, Job, MarketBar
<1>4. CASE delete_current(p)
  BY <1>4, <1>2 DEF delete_current, Goto, TypeOK, PCs, Job, MarketBar
<1>5. CASE get_checkpoint(p)
  <2>1. [job[p] EXCEPT !.seen = checkpoint] \in Job
    BY <1>2 DEF Job, TypeOK
  <2> QED BY <1>5, <2>1, NilIsNone DEF get_checkpoint, Goto, store, TypeOK, PCs
<1>6. CASE update_checkpoint(p)
  <2> DEFINE c == NextCheckpoint(job[p].bar, job[p].status, job[p].seen)
  <2>1. checkpoint' = c
    BY <1>6 DEF update_checkpoint
  <2>2. c \in StreamCheckpoint
    BY <1>1, <1>2 DEF NextCheckpoint, Carried, StreamCheckpoint
  <2> HIDE DEF c
  <2>3. lock' \in Proc \cup {Nil}
    BY <1>6 DEF update_checkpoint, Release, TypeOK
  <2>4. [status |-> job[p].status, bar |-> job[p].bar] \in CommitResult
    BY <1>2 DEF Job, CommitResult
  <2> QED BY <1>6, <2>1, <2>2, <2>3, <2>4 DEF update_checkpoint, Return, TypeOK, PCs
<1> QED BY <1>3, <1>4, <1>5, <1>6 DEF Step

LEMMA StepIInv ==
  ASSUME IInv, NEW p \in Proc, Step(p), calls' \in Nat
  PROVE  IInv'
<1> USE DEF IInv
<1>0. TypeOK'
  BY StepType
<1>a. pc[p] # "idle"
  BY DEF Step, upsert_current, delete_current, get_checkpoint, update_checkpoint, Goto
<1>b. /\ job[p] \in Job /\ job[p].bar \in MarketBar /\ job[p].bar.t \in Times
      /\ job[p].seen \in StreamCheckpoint \cup {Nil}
      /\ job[p].seen # Nil => job[p].seen.last \in Times \cup {Nil}
  BY <1>a, JobFacts
<1>1. CASE upsert_current(p)
  BY <1>0, <1>1
  DEF upsert_current, Goto, TypeOK, CheckpointIsCommitted, JobInv, LockInv
<1>2. CASE delete_current(p)
  BY <1>0, <1>2
  DEF delete_current, Goto, TypeOK, CheckpointIsCommitted, JobInv, LockInv
<1>3. CASE get_checkpoint(p)
  BY <1>0, <1>3, <1>b
  DEF get_checkpoint, Goto, store, TypeOK, CheckpointIsCommitted, JobInv, LockInv, Job
<1>4. CASE update_checkpoint(p)
  <2> DEFINE c == NextCheckpoint(job[p].bar, job[p].status, job[p].seen)
  <2>1. checkpoint' = c
    BY <1>4 DEF update_checkpoint
  <2>2. c.last # Nil => c.last \in Times /\ closed[c.last] # Nil
    BY <1>b, <1>a DEF NextCheckpoint, JobInv
  <2> HIDE DEF c
  <2>3. CheckpointIsCommitted'
    BY <1>4, <2>1, <2>2 DEF update_checkpoint, CheckpointIsCommitted
  <2>4. lock' # p /\ (lock' # Nil => lock' = lock)
    BY <1>4, NilIsNone DEF update_checkpoint, Release, TypeOK
  <2>5. JobInv' /\ LockInv'
    BY <1>4, <2>4, NilIsNone DEF update_checkpoint, Return, JobInv, LockInv, TypeOK
  <2> QED BY <1>0, <2>3, <2>5
<1> QED BY <1>1, <1>2, <1>3, <1>4 DEF Step

LEMMA FailType ==
  ASSUME TypeOK, NEW p \in Proc, Fail(p), calls' \in Nat
  PROVE  TypeOK'
<1>1. lock' \in Proc \cup {Nil}
  BY DEF Fail, Release, TypeOK
<1>2. [status |-> "failed", bar |-> job[p].bar] \in CommitResult
  BY JobFacts DEF Fail, CommitResult, Statuses
<1> QED BY <1>1, <1>2 DEF Fail, TypeOK, PCs

LEMMA FailIInv ==
  ASSUME IInv, NEW p \in Proc, Fail(p), calls' \in Nat
  PROVE  IInv'
<1> USE DEF IInv
<1>1. lock' # p /\ (lock' # Nil => lock' = lock)
  BY NilIsNone DEF Fail, Release, TypeOK
<1>2. TypeOK'
  BY FailType
<1> QED
  BY <1>1, <1>2, NilIsNone
  DEF Fail, CheckpointIsCommitted, JobInv, LockInv, TypeOK

LEMMA NextIInv ==
  ASSUME IInv, [Next]_vars
  PROVE  IInv'
<1>0. calls \in Nat
  BY DEF IInv, TypeOK
<1>1. ASSUME NEW p \in Proc, Start(p) PROVE IInv'
  <2>1. calls' \in Nat
    BY <1>0, <1>1 DEF Start
  <2> QED BY <1>1, <2>1, UpsertOpenIInv, CommitClosedIInv, BarsAssumption DEF Start
<1>2. ASSUME NEW p \in Proc, Step(p) \/ Fail(p), UNCHANGED calls PROVE IInv'
  BY <1>0, <1>2, StepIInv, FailIInv
<1>3. ASSUME NEW f \in {"csv", "parquet"}, compact(f), UNCHANGED calls
      PROVE  IInv'
  BY <1>3 DEF IInv, compact, TypeOK, CheckpointIsCommitted, JobInv, LockInv
<1>4. CASE UNCHANGED vars
  BY <1>4 DEF IInv, vars, TypeOK, CheckpointIsCommitted, JobInv, LockInv
<1> QED
  BY <1>1, <1>2, <1>3, <1>4 DEF Next

----------------------------------------------------------------------------
(* While one process only has used the store, a call that reports a final  *)
(* candle leaves no open row of it behind.                                 *)

Only(p) == \A q \in Proc \ {p} : job[q] = Nil

Row(b) == <<b.x, b.t>>

SoloInv ==
  /\ \A p \in Proc : job[p] = Nil =>
       /\ pc[p] = "idle"
       /\ result[p] # Nil => result[p].status \in {"ignored", "conflict"}
  /\ \A p \in Proc : Only(p) =>
       /\ pc[p] = "idle" /\ result[p] # Nil /\ result[p].status \in {"committed", "duplicate"}
            => current[Row(result[p].bar)] = Nil
       /\ pc[p] \in {"get_checkpoint", "update_checkpoint"} /\ job[p].status # "upserted"
            => current[Row(job[p].bar)] = Nil

LEMMA InitSolo == Init => SoloInv
  BY DEF Init, SoloInv

LEMMA SoloSuffices == SoloInv => RedeliveryClearsOpenRow
<1> SUFFICES ASSUME SoloInv, NEW p \in Proc, Only(p), NEW q \in Proc,
                    pc[q] = "idle", result[q] # Nil,
                    result[q].status \in {"committed", "duplicate"}
             PROVE  current[<<result[q].bar.x, result[q].bar.t>>] = Nil
  BY DEF RedeliveryClearsOpenRow, CommitClearsOpenRow, Only
<1>1. q = p
  BY DEF SoloInv, Only
<1> QED BY <1>1 DEF SoloInv, Row

(* A call that returns at once, or begins, writes no open row. *)
LEMMA CallSolo ==
  ASSUME IInv, SoloInv, NEW p \in Proc, NEW b \in MarketBar,
         upsert_open(p, b) \/ commit_closed(p, b)
  PROVE  SoloInv'
<1>0. /\ pc[p] = "idle" /\ current' = current
      /\ pc \in [Proc -> PCs] /\ DOMAIN job = Proc /\ DOMAIN result = Proc
  BY DEF upsert_open, LateOpenIgnored, AdmitOpen, commit_closed, CommitNewer,
         CommitDuplicate, CommitConflict, CommitMerge, Call, store, IInv, TypeOK
<1>1. CASE \E s \in {"ignored", "conflict"} : Return(p, b, s)
  BY <1>0, <1>1 DEF Return, SoloInv, Only
<1>2. CASE \E s \in Statuses, to \in {"upsert_current", "delete_current"} : Call(p, b, s, to)
  <2>1. PICK s \in Statuses, to \in {"upsert_current", "delete_current"} : Call(p, b, s, to)
    BY <1>2
  <2>2. job'[p] # Nil /\ pc'[p] = to /\ result' = result
        /\ \A q \in Proc \ {p} : job'[q] = job[q] /\ pc'[q] = pc[q]
    <3>1. [bar |-> b, status |-> s, seen |-> Nil] \in Job
      BY DEF Job
    <3> QED BY <1>0, <2>1, <3>1, NilIsNone DEF Call
  <2> QED BY <1>0, <2>2 DEF SoloInv, Only
<1>3. \/ \E s \in {"ignored", "conflict"} : Return(p, b, s)
      \/ \E s \in Statuses, to \in {"upsert_current", "delete_current"} : Call(p, b, s, to)
  BY DEF upsert_open, LateOpenIgnored, AdmitOpen, commit_closed, CommitNewer,
         CommitDuplicate, CommitConflict, CommitMerge, Statuses
<1> QED BY <1>1, <1>2, <1>3

LEMMA StepSolo ==
  ASSUME IInv, SoloInv, NEW p \in Proc, Step(p) \/ Fail(p)
  PROVE  SoloInv'
<1>0. /\ pc[p] # "idle" /\ job[p] # Nil /\ job'[p] # Nil /\ pc \in [Proc -> PCs]
      /\ DOMAIN job = Proc /\ DOMAIN result = Proc
      /\ \A q \in Proc \ {p} : job'[q] = job[q] /\ pc'[q] = pc[q] /\ result'[q] = result[q]
  <2>1. pc[p] # "idle" /\ job[p] # Nil
    BY DEF Step, Fail, upsert_current, delete_current, get_checkpoint,
           update_checkpoint, Goto, SoloInv
  <2>2. job[p] \in Job /\ [job[p] EXCEPT !.seen = checkpoint] \in Job
    BY <2>1 DEF IInv, TypeOK, Job
  <2> QED
    BY <2>1, <2>2, NilIsNone
    DEF Step, Fail, upsert_current, delete_current, get_checkpoint,
        update_checkpoint, Goto, Return, IInv, TypeOK
<1>1. ASSUME NEW q \in Proc, Only(q)' PROVE q = p /\ Only(q)
  BY <1>0, <1>1 DEF Only
<1>2. /\ pc'[p] = "idle" /\ result'[p].status \in {"committed", "duplicate"}
           /\ Only(p) => current'[Row(result'[p].bar)] = Nil
      /\ pc'[p] \in {"get_checkpoint", "update_checkpoint"} /\ job'[p].status # "upserted"
           /\ Only(p) => current'[Row(job'[p].bar)] = Nil
  <2>0. /\ job[p].status \in {"upserted", "committed", "duplicate"}
        /\ pc[p] = "delete_current" => job[p].status # "upserted"
        /\ Row(job[p].bar) \in DOMAIN current
    BY <1>0, JobFacts DEF IInv, JobInv, TypeOK, Row
  <2>1. CASE upsert_current(p)
    BY <1>0, <2>0, <2>1 DEF upsert_current, Goto, IInv, JobInv
  <2>2. CASE delete_current(p)
    BY <1>0, <2>0, <2>2 DEF delete_current, Goto, Row
  <2>3. CASE get_checkpoint(p)
    BY <1>0, <2>0, <2>3 DEF get_checkpoint, Goto, store, SoloInv
  <2>4. CASE update_checkpoint(p)
    BY <1>0, <2>0, <2>4 DEF update_checkpoint, Return, SoloInv
  <2>5. CASE Fail(p)
    BY <1>0, <2>0, <2>5 DEF Fail, SoloInv
  <2> QED BY <2>1, <2>2, <2>3, <2>4, <2>5 DEF Step
<1> QED BY <1>0, <1>1, <1>2 DEF SoloInv

(* IInv holds in every reachable state. *)
THEOREM CandleInvariance == Spec => []IInv
  BY InitIInv, NextIInv, PTL DEF Spec

(* Type correctness of the candle store. *)
THEOREM CandleTypeCorrect == Spec => []TypeOK
  BY CandleInvariance, PTL DEF IInv

(* last_closed_bar_time always names a stored final candle, for any number *)
(* of processes whose calls interleave and die anywhere (commit_closed,    *)
(* upsert_open and their checkpoint updates).                              *)
THEOREM CheckpointNeverAhead == Spec => []CheckpointIsCommitted
  BY CandleInvariance, PTL DEF IInv

(* commit_closed never changes a candle that is already final. *)
THEOREM FinalCandlesNeverChange == Spec => FinalIsForever
  BY StepKeepsFinal, CandleTypeCorrect, PTL DEF Spec, FinalIsForever

(* While one process only has used the store, no open row outlives the    *)
(* commit_closed that returned its candle as final, even after a call that *)
(* died between the segment write and delete_current.                      *)
THEOREM RedeliveryCleansUp == Spec => []RedeliveryClearsOpenRow
<1>1. IInv /\ SoloInv /\ [Next]_vars => SoloInv'
  <2> SUFFICES ASSUME IInv, SoloInv, [Next]_vars PROVE SoloInv' OBVIOUS
  <2>1. ASSUME NEW f \in {"csv", "parquet"}, compact(f) PROVE SoloInv'
    BY <2>1 DEF compact, SoloInv, Only
  <2>2. CASE UNCHANGED vars
    BY <2>2 DEF vars, SoloInv, Only
  <2> QED BY <2>1, <2>2, CallSolo, StepSolo, BarsAssumption DEF Next, Start
<1> QED BY <1>1, InitSolo, SoloSuffices, CandleInvariance, PTL DEF Spec

(* Whoever holds the series lock has stored its candle and is about to     *)
(* return: the lock is never left behind.                                  *)
THEOREM LockAlwaysReturned == Spec => []LockIsNeverLeaked
<1>1. IInv => LockIsNeverLeaked
  <2> SUFFICES ASSUME IInv, lock # Nil
               PROVE  /\ pc[lock] \in {"delete_current", "get_checkpoint",
                                       "update_checkpoint"}
                      /\ job[lock].status \in {"committed", "duplicate"}
                      /\ closed[job[lock].bar.t] # Nil
    BY DEF LockIsNeverLeaked
  <2>1. lock \in Proc
    BY DEF IInv, TypeOK
  <2> QED BY <2>1 DEF IInv, JobInv, LockInv
<1> QED BY <1>1, CandleInvariance, PTL

=============================================================================
