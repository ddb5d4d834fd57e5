----------------------------- MODULE CandleStore -----------------------------
(***************************************************************************)
(* CandleStore (store/candle_store.py, store/current_store.py) for one     *)
(* series: final candles live in the segment store, the candle still being *)
(* formed in the current_candles table, the stream's position in the       *)
(* stream_checkpoints table.                                               *)
(*                                                                         *)
(* A segment operation is one step, which is what CommittedSeries promises *)
(* and SegmentStore is shown to implement; every SQLite transaction is a   *)
(* step of its own.  The segment store and the SQLite file share no        *)
(* transaction and only part of a call runs under the series lock, so      *)
(* calls of several processes interleave and a call may die (crash, or     *)
(* sqlite3.OperationalError) between any two steps.                        *)
(***************************************************************************)
EXTENDS Integers

CONSTANTS
  Proc,         \* processes and threads that use the store
  Times,        \* open times
  Values,       \* what canonical_candle_payload tells apart
  Transports,   \* source_transport: ws, rest, archive
  Receipts,     \* downloaded_at, provider_revision: the other provenance
  OpenBars,     \* bars with is_closed = False handed to the store
  ClosedBars,   \* bars with is_closed = True handed to the store
  MaxCalls,     \* bound: how many calls are made
  MaxFails,     \* bound: how many of them die midway
  Nil           \* None

MarketBar == [t : Times, v : Values, x : Transports, rcv : Receipts]

ASSUME TimesAreNumbers == Times \subseteq Nat
ASSUME BarsAssumption == OpenBars \subseteq MarketBar /\ ClosedBars \subseteq MarketBar
ASSUME BoundsAssumption == MaxCalls \in Nat /\ MaxFails \in Nat

(* The columns of stream_checkpoints that a call carries over.             *)
StreamCheckpoint ==
  [last : Times \cup {Nil}, reconnects : Nat,
   status : {"open", "connected", "reconnected"}]

PCs == {"idle", "upsert_current", "delete_current", "get_checkpoint",
        "update_checkpoint"}
Statuses == {"upserted", "ignored", "committed", "duplicate", "conflict", "failed"}

(* CommitResult, or the exception that replaced it. *)
CommitResult == [status : Statuses, bar : MarketBar]
Job == [bar : MarketBar, status : Statuses, seen : StreamCheckpoint \cup {Nil}]

ASSUME NilIsNone ==
  Nil \notin Times \cup Proc \cup MarketBar \cup StreamCheckpoint
             \cup CommitResult \cup Job

VARIABLES
  closed,       \* segments: the final candle of each open time, or Nil
  fmt,          \* manifest.data_format
  current,      \* current_candles: the row of each transport and open time
  checkpoint,   \* stream_checkpoints: the row of this series
  lock,         \* holder of series_writer_lock
  pc,           \* the step each process takes next
  job,          \* the bar of its call, the status it will return, the
                \* checkpoint it has read
  result,       \* how its last call ended
  calls, fails  \* how many calls were made and how many died

store == <<closed, fmt, current, checkpoint, lock>>
vars == <<closed, fmt, current, checkpoint, lock, pc, job, result, calls, fails>>

Stored == {t \in Times : closed[t] # Nil}

(* market_bar_checksum hashes every field, provenance included. *)
market_bar_checksum(b) == b

----------------------------------------------------------------------------
(* Ends of calls. *)

Call(p, b, status, to) ==
  /\ pc[p] = "idle"
  /\ pc' = [pc EXCEPT ![p] = to]
  /\ job' = [job EXCEPT ![p] = [bar |-> b, status |-> status, seen |-> Nil]]
  /\ UNCHANGED <<result, fails>>

Return(p, b, status) ==
  /\ pc' = [pc EXCEPT ![p] = "idle"]
  /\ result' = [result EXCEPT ![p] = [status |-> status, bar |-> b]]
  /\ UNCHANGED <<job, fails>>

Goto(p, from, to) ==
  /\ pc[p] = from
  /\ pc' = [pc EXCEPT ![p] = to]
  /\ UNCHANGED <<result, fails>>

(* Leaving the with block of series_writer_lock, if p is inside it. *)
Release(p) == lock' = IF lock = p THEN Nil ELSE lock

----------------------------------------------------------------------------
(* upsert_open: look for the final candle under the reader lock, then      *)
(* write the open row without it.                                          *)

LateOpenIgnored(p, b) ==
  /\ pc[p] = "idle" /\ lock = Nil
  /\ closed[b.t] # Nil
  /\ Return(p, b, "ignored")
  /\ UNCHANGED store

AdmitOpen(p, b) ==
  /\ lock = Nil
  /\ closed[b.t] = Nil
  /\ Call(p, b, "upserted", "upsert_current")
  /\ UNCHANGED store

upsert_open(p, b) == LateOpenIgnored(p, b) \/ AdmitOpen(p, b)

upsert_current(p) ==
  /\ Goto(p, "upsert_current", "get_checkpoint")
  /\ current' = [current EXCEPT ![<<job[p].bar.x, job[p].bar.t>>] = job[p].bar]
  /\ UNCHANGED <<closed, fmt, checkpoint, lock, job>>

----------------------------------------------------------------------------
(* commit_closed: everything up to the segment write happens under the     *)
(* writer lock.  Appending and recognising a duplicate keep the lock for   *)
(* the SQLite steps, a merge into the past (or into an empty or a parquet  *)
(* segment) releases it before them.                                       *)

(* A CSV manifest with an end_time, and the bar opens after it. *)
IsNewer(b) == fmt = "csv" /\ Stored # {} /\ \A t \in Stored : b.t > t

CommitNewer(p, b) ==
  /\ lock = Nil
  /\ IsNewer(b)
  /\ Call(p, b, "committed", "delete_current")
  /\ closed' = [closed EXCEPT ![b.t] = b]
  /\ lock' = p
  /\ UNCHANGED <<fmt, current, checkpoint>>

CommitDuplicate(p, b) ==
  /\ lock = Nil
  /\ ~IsNewer(b) /\ closed[b.t] # Nil
  /\ market_bar_checksum(closed[b.t]) = market_bar_checksum(b)
  /\ Call(p, b, "duplicate", "delete_current")
  /\ lock' = p
  /\ UNCHANGED <<closed, fmt, current, checkpoint>>

CommitConflict(p, b) ==
  /\ pc[p] = "idle" /\ lock = Nil
  /\ ~IsNewer(b) /\ closed[b.t] # Nil
  /\ market_bar_checksum(closed[b.t]) # market_bar_checksum(b)
  /\ Return(p, b, "conflict")
  /\ UNCHANGED store

(* Mutant: a bar that is not newer overwrites the stored one. *)
CommitOverwrite(p, b) ==
  /\ lock = Nil
  /\ ~IsNewer(b)
  /\ Call(p, b, "committed", "delete_current")
  /\ closed' = [closed EXCEPT ![b.t] = b]
  /\ fmt' = "csv"
  /\ UNCHANGED <<current, checkpoint, lock>>

(* _upsert_closed_locked rewrites the segment in the store's own format. *)
CommitMerge(p, b) ==
  /\ lock = Nil
  /\ ~IsNewer(b) /\ closed[b.t] = Nil
  /\ Call(p, b, "committed", "delete_current")
  /\ closed' = [closed EXCEPT ![b.t] = b]
  /\ fmt' = "csv"
  /\ UNCHANGED <<current, checkpoint, lock>>

commit_closed(p, b) ==
  \/ CommitNewer(p, b)
  \/ CommitDuplicate(p, b)
  \/ CommitConflict(p, b)
  \/ CommitMerge(p, b)

(* Mutant: the row is found by its newest open time, not by the candle's. *)
delete_newest(p) ==
  /\ Goto(p, "delete_current", "get_checkpoint")
  /\ LET rows == {t \in Times : current[<<job[p].bar.x, t>>] # Nil} IN
       current' = IF rows = {} THEN current
                  ELSE [current EXCEPT ![<<job[p].bar.x,
                          CHOOSE t \in rows : \A u \in rows : u <= t>>] = Nil]
  /\ UNCHANGED <<closed, fmt, checkpoint, lock, job>>

(* Only the row of the transport that delivered the final candle goes. *)
delete_current(p) ==
  /\ Goto(p, "delete_current", "get_checkpoint")
  /\ current' = [current EXCEPT ![<<job[p].bar.x, job[p].bar.t>>] = Nil]
  /\ UNCHANGED <<closed, fmt, checkpoint, lock, job>>

----------------------------------------------------------------------------
(* _touch_event_checkpoint and _closed_checkpoint: read the row in one     *)
(* transaction, write it back in another.                                  *)

get_checkpoint(p) ==
  /\ Goto(p, "get_checkpoint", "update_checkpoint")
  /\ job' = [job EXCEPT ![p].seen = checkpoint]
  /\ UNCHANGED store

(* Mutant: the reconnect counter starts again with every bar. *)
CarriedNothing(seen) == 0

Carried(seen) == IF seen = Nil THEN 0 ELSE seen.reconnects

NextCheckpoint(b, status, seen) ==
  IF status = "upserted"
    THEN [last |-> IF seen = Nil THEN Nil ELSE seen.last,
          reconnects |-> Carried(seen), status |-> "open"]
    ELSE [last |-> b.t, reconnects |-> Carried(seen), status |-> "connected"]

update_checkpoint(p) ==
  /\ pc[p] = "update_checkpoint"
  /\ checkpoint' = NextCheckpoint(job[p].bar, job[p].status, job[p].seen)
  /\ Release(p)
  /\ Return(p, job[p].bar, job[p].status)
  /\ UNCHANGED <<closed, fmt, current>>

----------------------------------------------------------------------------
(* Another process compacts the segment into the other format. *)
compact(f) ==
  /\ lock = Nil /\ Stored # {} /\ fmt # f
  /\ fmt' = f
  /\ UNCHANGED <<closed, current, checkpoint, lock, pc, job, result, fails>>

(* The call dies: what it has written stays, the lock is released. *)
Fail(p) ==
  /\ pc[p] # "idle" /\ fails < MaxFails
  /\ fails' = fails + 1
  /\ pc' = [pc EXCEPT ![p] = "idle"]
  /\ result' = [result EXCEPT ![p] = [status |-> "failed", bar |-> job[p].bar]]
  /\ Release(p)
  /\ UNCHANGED <<closed, fmt, current, checkpoint, job>>

Init ==
  /\ closed = [t \in Times |-> Nil]
  /\ fmt = "csv"
  /\ current = [r \in Transports \X Times |-> Nil]
  /\ checkpoint = Nil
  /\ lock = Nil
  /\ pc = [p \in Proc |-> "idle"]
  /\ job = [p \in Proc |-> Nil]
  /\ result = [p \in Proc |-> Nil]
  /\ calls = 0
  /\ fails = 0

Start(p) ==
  /\ calls < MaxCalls
  /\ calls' = calls + 1
  /\ \/ \E b \in OpenBars : upsert_open(p, b)
     \/ \E b \in ClosedBars : commit_closed(p, b)

Step(p) ==
  \/ upsert_current(p)
  \/ delete_current(p)
  \/ get_checkpoint(p)
  \/ update_checkpoint(p)

Next ==
  \/ \E p \in Proc : Start(p)
  \/ \E p \in Proc : (Step(p) \/ Fail(p)) /\ UNCHANGED calls
  \/ \E f \in {"csv", "parquet"} : compact(f) /\ UNCHANGED calls

Spec == Init /\ [][Next]_vars

----------------------------------------------------------------------------
(* Properties. *)

(* Every variable has its type. *)
TypeOK ==
  /\ closed \in [Times -> MarketBar \cup {Nil}]
  /\ fmt \in {"csv", "parquet"}
  /\ current \in [Transports \X Times -> MarketBar \cup {Nil}]
  /\ checkpoint \in StreamCheckpoint \cup {Nil}
  /\ lock \in Proc \cup {Nil}
  /\ pc \in [Proc -> PCs]
  /\ job \in [Proc -> Job \cup {Nil}]
  /\ \A p \in Proc : pc[p] # "idle" => job[p] # Nil
  /\ result \in [Proc -> CommitResult \cup {Nil}]
  /\ calls \in Nat
  /\ fails \in Nat

(* A candle once final never changes and never disappears, whatever else   *)
(* is delivered, in whatever order, by whichever process: commit_closed    *)
(* answers a different candle with MDCacheConflict.                        *)
FinalIsForever ==
  [][\A t \in Times : closed[t] # Nil => closed'[t] = closed[t]]_vars

(* The checkpoint never runs ahead of the data: last_closed_bar_time is    *)
(* the open time of a stored final candle, also when the two-transaction   *)
(* read-modify-writes of several processes interleave and when a call dies *)
(* between the segment write and the checkpoint.                           *)
CheckpointIsCommitted ==
  checkpoint # Nil /\ checkpoint.last # Nil => closed[checkpoint.last] # Nil

(* The series lock is held exactly by a call that is past its segment      *)
(* write and has not returned: no path of commit_closed leaves it locked,  *)
(* which would block every later call on the series.                       *)
LockIsNeverLeaked ==
  lock # Nil =>
    /\ pc[lock] \in {"delete_current", "get_checkpoint", "update_checkpoint"}
    /\ job[lock].status \in {"committed", "duplicate"}
    /\ closed[job[lock].bar.t] # Nil

(* After commit_closed has returned a status, its transport has no open    *)
(* row for that candle.                                                    *)
CommitClearsOpenRow ==
  \A p \in Proc :
    LET r == result[p] IN
    pc[p] = "idle" /\ r # Nil /\ r.status \in {"committed", "duplicate"}
      => current[<<r.bar.x, r.bar.t>>] = Nil

(* That is so as long as one process only has used the store, even if an   *)
(* earlier call of it died between the segment write and delete_current:   *)
(* redelivery cleans up.                                                   *)
RedeliveryClearsOpenRow ==
  (\E p \in Proc : \A q \in Proc \ {p} : job[q] = Nil) => CommitClearsOpenRow

=============================================================================
