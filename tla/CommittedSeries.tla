-------------------------- MODULE CommittedSeries ---------------------------
(***************************************************************************)
(* What the segment store promises: a series that changes atomically.      *)
(* A call takes effect at most once, on the series as it is at that very   *)
(* moment, and never after the call has returned or its process has died;  *)
(* a write that reports success has taken effect; a read that reports      *)
(* success returns the whole series of one moment.                         *)
(***************************************************************************)
EXTENDS SeriesRows

CONSTANTS
  Proc,   \* callers
  Nil     \* no series, no call

Call == [op : {"append", "replace", "upsert", "compact", "read", "other"},
         rows : Rows]

VARIABLES
  series,   \* the committed rows, Nil before the first commit
  call,     \* the call each process is making
  done,     \* it has taken effect
  ok, out   \* how the last call ended and the rows it returned

vars == <<series, call, done, ok, out>>

Current == IF series = Nil THEN <<>> ELSE series

(* The series a call leaves behind when it takes effect on rows cur. *)
Effect(c, cur) ==
  CASE c.op = "append" -> cur \o Fresh(c.rows, cur)
    [] c.op = "replace" -> c.rows
    [] c.op = "upsert" -> Merged(cur, c.rows[1])
    [] c.op \in {"compact", "read", "other"} -> cur

(* Calls that would overwrite a stored candle have no effect at all. *)
Allowed(c, cur) ==
  CASE c.op = "append" ->
         cur # <<>> /\ c.rows # <<>> =>
           c.rows[1].t > Last(cur).t \/ c.rows[1] = Last(cur)
    [] c.op = "upsert" -> ~Conflicts(cur, c.rows[1])
    [] OTHER -> TRUE

Init ==
  /\ series \in Rows \cup {Nil}
  /\ call = [p \in Proc |-> Nil]
  /\ done = [p \in Proc |-> FALSE]
  /\ ok = [p \in Proc |-> FALSE]
  /\ out = [p \in Proc |-> <<>>]

Invoke(p) ==
  /\ call[p] = Nil
  /\ call'[p] \in Call
  /\ call' = [call EXCEPT ![p] = call'[p]]
  /\ ok' = [ok EXCEPT ![p] = FALSE]
  /\ out' = [out EXCEPT ![p] = <<>>]
  /\ UNCHANGED <<series, done>>

Commit(p) ==
  /\ call[p] # Nil /\ call[p].op \in {"append", "replace", "upsert", "compact"}
  /\ ~done[p]
  /\ Allowed(call[p], Current)
  /\ series' = Effect(call[p], Current)
  /\ done' = [done EXCEPT ![p] = TRUE]
  /\ UNCHANGED <<call, ok, out>>

Return(p) ==
  /\ call[p] # Nil
  /\ call' = [call EXCEPT ![p] = Nil]
  /\ done' = [done EXCEPT ![p] = FALSE]
  /\ \/ ok' = ok /\ out' = out                       \* error or crash
     \/ /\ done[p] \/ Effect(call[p], Current) = Current
        /\ ok' = [ok EXCEPT ![p] = TRUE]
        /\ out' = [out EXCEPT ![p] = IF call[p].op = "read" THEN Current ELSE <<>>]
  /\ UNCHANGED series

Next == \E p \in Proc : Invoke(p) \/ Commit(p) \/ Return(p)

Spec == Init /\ [][Next]_vars

=============================================================================
