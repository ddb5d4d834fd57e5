-------------------------- MODULE StreamSupervisor ---------------------------
(***************************************************************************)
(* MockWebSocketSupervisor.run (streaming/supervisor.py) over a            *)
(* CandleStore, with the CoalescingKlineQueue of streaming/live.py in      *)
(* front of it.  The supervisor is one process of the store; the others    *)
(* make calls of their own meanwhile.                                      *)
(***************************************************************************)
EXTENDS CandleStore, Sequences

CONSTANTS
  Sup,              \* the supervisor's process
  Streams,          \* sequences of updates the stream may deliver
  Backfill,         \* the bars fetched for a reconnect
  reconnect_after,  \* updates processed before the reconnect, or Nil
  QueueSizes        \* queue_maxsize of a run, Nil to run without a queue

KlineUpdate == [bar : MarketBar, is_closed : BOOLEAN]

ASSUME SupervisorAssumption ==
  /\ Sup \in Proc
  /\ Streams \subseteq Seq(KlineUpdate)
  /\ Backfill \in Seq(KlineUpdate)
  /\ QueueSizes \subseteq (Nat \ {0}) \cup {Nil}
  /\ reconnect_after \in Nat \cup {Nil}

VARIABLES
  stream,       \* what the stream delivers in this run
  maxsize,      \* the bound of its queue, Nil if it has none
  todo,         \* updates not yet put into the queue
  items,        \* the queue: the latest update of each candle, oldest first
  updates,      \* drained updates not yet applied
  fill,         \* backfill bars not yet committed
  phase,        \* where run is
  seen,         \* the checkpoint read for the reconnect
  count         \* MockStreamResult

Counters == {"processed", "open_updates", "closed_commits", "reconnects",
             "backfilled", "dropped", "coalesced"}
run == <<stream, maxsize, todo, items, updates, fill, phase, seen, count>>
svars == <<closed, fmt, current, checkpoint, lock, pc, job, result, calls, fails,
           stream, maxsize, todo, items, updates, fill, phase, seen, count>>
idle_store == <<closed, fmt, current, checkpoint, lock, pc, job, result, calls, fails>>

Counted(names) ==
  count' = [c \in Counters |-> count[c] + IF c \in names THEN 1 ELSE 0]

----------------------------------------------------------------------------
(* CoalescingKlineQueue.put: an update of a queued candle replaces the     *)
(* queued one in its place; a full queue drops its oldest candle.          *)

Slot(u) == {i \in 1..Len(items) : items[i].bar.t = u.bar.t}

(* Mutant: the queued update is kept, the new one is discarded. *)
CoalesceKeepFirst(u) ==
  /\ Slot(u) # {}
  /\ UNCHANGED items
  /\ Counted({"coalesced"})

Coalesce(u) ==
  /\ Slot(u) # {}
  /\ items' = [i \in 1..Len(items) |-> IF i \in Slot(u) THEN u ELSE items[i]]
  /\ Counted({"coalesced"})

Enqueue(u) ==
  /\ Slot(u) = {} /\ Len(items) < maxsize
  /\ items' = Append(items, u)
  /\ UNCHANGED count

(* Mutant: a drop is not reported. *)
DropSilently(u) ==
  /\ Slot(u) = {} /\ Len(items) >= maxsize
  /\ items' = Append(Tail(items), u)
  /\ UNCHANGED count

(* Mutant: the candle to drop is looked for only beyond the bound. *)
DropLate(u) ==
  /\ Slot(u) = {} /\ Len(items) >= maxsize
  /\ items' = Append(IF Len(items) > maxsize THEN Tail(items) ELSE items, u)
  /\ Counted({"dropped"})

DropOldest(u) ==
  /\ Slot(u) = {} /\ Len(items) >= maxsize
  /\ items' = Append(Tail(items), u)
  /\ Counted({"dropped"})

put ==
  /\ phase = "put" /\ todo # <<>>
  /\ todo' = Tail(todo)
  /\ LET u == Head(todo) IN Coalesce(u) \/ Enqueue(u) \/ DropOldest(u)
  /\ UNCHANGED <<stream, maxsize, updates, fill, phase, seen, idle_store>>

drain ==
  /\ phase = "put" /\ todo = <<>>
  /\ updates' = items
  /\ items' = <<>>
  /\ phase' = "next"
  /\ UNCHANGED <<stream, maxsize, todo, fill, seen, count, idle_store>>

----------------------------------------------------------------------------
(* The loop over the updates. *)

Finished ==
  /\ phase = "next" /\ updates = <<>>
  /\ phase' = "done"
  /\ UNCHANGED <<stream, maxsize, todo, items, updates, fill, seen, count, idle_store>>

NextUpdate ==
  /\ phase = "next" /\ updates # <<>>
  /\ IF reconnect_after # Nil /\ count["processed"] = reconnect_after
       THEN phase' = "backfill" /\ fill' = Backfill /\ Counted({"reconnects"})
       ELSE phase' = "apply" /\ UNCHANGED <<fill, count>>
  /\ UNCHANGED <<stream, maxsize, todo, items, updates, seen, idle_store>>

(* One backfill bar; the ones that are not closed are skipped. *)
BackfillBar ==
  /\ phase = "backfill" /\ fill # <<>>
  /\ UNCHANGED <<stream, maxsize, todo, items, updates, seen, count, calls>>
  /\ \/ /\ ~Head(fill).is_closed
        /\ fill' = Tail(fill)
        /\ UNCHANGED <<phase, idle_store>>
     \/ /\ Head(fill).is_closed
        /\ commit_closed(Sup, Head(fill).bar)
        /\ phase' = "committing"
        /\ UNCHANGED fill

(* Mutant: a conflict is waited out. *)
AbortOnFailure(from) ==
  /\ phase = from /\ pc[Sup] = "idle"
  /\ result[Sup].status = "failed"
  /\ phase' = "aborted"
  /\ UNCHANGED <<stream, maxsize, todo, items, updates, fill, seen, count, idle_store>>

(* An exception of the store ends run: updates already drained are lost. *)
Abort(from) ==
  /\ phase = from /\ pc[Sup] = "idle"
  /\ result[Sup].status \in {"conflict", "failed"}
  /\ phase' = "aborted"
  /\ UNCHANGED <<stream, maxsize, todo, items, updates, fill, seen, count, idle_store>>

Backfilled ==
  /\ phase = "committing" /\ pc[Sup] = "idle"
  /\ result[Sup].status \in {"committed", "duplicate"}
  /\ phase' = "backfill"
  /\ fill' = Tail(fill)
  /\ Counted({"backfilled"})
  /\ UNCHANGED <<stream, maxsize, todo, items, updates, seen, idle_store>>

(* The reconnect is recorded by reading and writing back the checkpoint. *)
ReadCheckpoint ==
  /\ phase = "backfill" /\ fill = <<>>
  /\ phase' = "reconnect"
  /\ seen' = checkpoint
  /\ UNCHANGED <<stream, maxsize, todo, items, updates, fill, count, idle_store>>

(* Mutant: the reconnect claims the candle it is about to apply. *)
RecordReconnectAhead ==
  /\ phase = "reconnect"
  /\ checkpoint' = [last |-> Head(updates).bar.t,
                    reconnects |-> Carried(seen) + 1, status |-> "reconnected"]
  /\ phase' = "apply"
  /\ UNCHANGED <<stream, maxsize, todo, items, updates, fill, seen, count>>
  /\ UNCHANGED <<closed, fmt, current, lock, pc, job, result, calls, fails>>

RecordReconnect ==
  /\ phase = "reconnect"
  /\ checkpoint' = [last |-> IF seen = Nil THEN Nil ELSE seen.last,
                    reconnects |-> Carried(seen) + 1, status |-> "reconnected"]
  /\ phase' = "apply"
  /\ UNCHANGED <<stream, maxsize, todo, items, updates, fill, seen, count>>
  /\ UNCHANGED <<closed, fmt, current, lock, pc, job, result, calls, fails>>

Apply ==
  /\ phase = "apply"
  /\ LET u == Head(updates) IN
       IF u.is_closed THEN commit_closed(Sup, u.bar) ELSE upsert_open(Sup, u.bar)
  /\ phase' = "applied"
  /\ UNCHANGED <<stream, maxsize, todo, items, updates, fill, seen, count, calls>>

Applied ==
  /\ phase = "applied" /\ pc[Sup] = "idle"
  /\ \/ /\ result[Sup].status \in {"upserted", "ignored"}
        /\ Counted({"processed", "open_updates"})
     \/ /\ result[Sup].status \in {"committed", "duplicate"}
        /\ Counted({"processed", "closed_commits"})
  /\ updates' = Tail(updates)
  /\ phase' = "next"
  /\ UNCHANGED <<stream, maxsize, todo, items, fill, seen, idle_store>>

SInit ==
  /\ Init
  /\ stream \in Streams /\ maxsize \in QueueSizes
  /\ IF maxsize # Nil
       THEN todo = stream /\ updates = <<>> /\ phase = "put"
       ELSE todo = <<>> /\ updates = stream /\ phase = "next"
  /\ items = <<>> /\ fill = <<>>
  /\ seen = Nil
  /\ count = [c \in Counters |-> 0]

RunStep ==
  \/ put \/ drain \/ Finished \/ NextUpdate \/ BackfillBar \/ Backfilled
  \/ Abort("committing") \/ Abort("applied")
  \/ ReadCheckpoint \/ RecordReconnect \/ Apply \/ Applied

StoreStep(p) == Step(p) /\ UNCHANGED calls /\ UNCHANGED run

SNext ==
  \/ RunStep
  \/ \E p \in Proc : StoreStep(p)
  \/ \E p \in Proc : Fail(p) /\ UNCHANGED calls /\ UNCHANGED run
  \/ \E p \in Proc \ {Sup} : Start(p) /\ UNCHANGED run

SSpec == SInit /\ [][SNext]_svars

(* Every process keeps running; a waiter gets the series lock because the  *)
(* other processes of a run make finitely many calls.                      *)
SFairSpec ==
  SSpec /\ WF_svars(RunStep) /\ \A p \in Proc : WF_svars(StoreStep(p))

----------------------------------------------------------------------------
(* Properties. *)

(* No update vanishes unaccounted: whatever the stream delivered is still  *)
(* waiting, was processed, or shows up in coalesced or dropped.            *)
EveryUpdateAccounted ==
  Len(stream) = Len(todo) + Len(items) + Len(updates)
                  + count["processed"] + count["coalesced"] + count["dropped"]

(* The queue never exceeds maxsize and holds each candle at most once, so  *)
(* that drain hands every candle over once.                                *)
QueueBounded ==
  /\ maxsize # Nil => Len(items) <= maxsize
  /\ \A i, j \in 1..Len(items) : items[i].bar.t = items[j].bar.t => i = j

(* A run that ends normally and reports no drop has stored every candle    *)
(* the stream announced as closed, and every closed bar of the backfill.   *)
ClosedUpdatesReachStore ==
  phase = "done" /\ count["dropped"] = 0 =>
    /\ \A i \in 1..Len(stream) :
         stream[i].is_closed => closed[stream[i].bar.t] # Nil
    /\ count["reconnects"] > 0 =>
         \A i \in 1..Len(Backfill) :
           Backfill[i].is_closed => closed[Backfill[i].bar.t] # Nil

(* The stored consecutive_reconnects is the number of reconnects of the    *)
(* run: upsert_open and commit_closed carry the column over.  It holds     *)
(* while the supervisor is the only process that writes the checkpoint.    *)
ReconnectsAreCounted ==
  calls = 0 /\ phase \in {"apply", "applied", "next", "done"} /\ checkpoint # Nil =>
    checkpoint.reconnects = count["reconnects"]

(* run ends, normally or by an exception of the store. *)
RunEnds == <>(phase \in {"done", "aborted"})

=============================================================================
