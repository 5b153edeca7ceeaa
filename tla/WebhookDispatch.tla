--------------------------- MODULE WebhookDispatch ---------------------------
(***************************************************************************)
(* Dispatcher replicas (internal/webhook/dispatcher.go) turn outbox rows   *)
(* into webhook deliveries.  They read the outbox behind two cursors: the  *)
(* forward one, which is prompt and steps over rows that commit out of     *)
(* stamp order, and the swept one, which walks the settled region.         *)
(***************************************************************************)
EXTENDS Outbox, Sequences

CONSTANTS
  Subscriptions,
  Wants,          \* the enabled subscriptions that match an event's store and
                  \* type; none for a row without a usable store_id
  Dispatchers,    \* replicas
  DispatchBatch,  \* rows per read
  Lookback,       \* DispatchLookback
  MaxTickFailures \* bound on ticks that fail or whose process dies

ASSUME DispatchAssumption ==
  /\ Wants \in [Events -> SUBSET Subscriptions]
  /\ DispatchBatch \in Nat \ {0} /\ MaxTickFailures \in Nat
  /\ Lookback \in Nat /\ MaxTransaction < Lookback

PassNames == {"forward", "sweep"}

VARIABLES
  cursor,      \* webhook_dispatch_cursor: where each pass is, as <<created_at, id>>
  tick,        \* a replica's Tick: its pass, the cursors it read, the rows it holds
  deliveries,  \* rows of webhook_deliveries
  tickFailures
dispatchVars == <<cursor, tick, deliveries, tickFailures>>

\* Between two ticks.
Resting == [pass |-> "none", seen |-> [n \in PassNames |-> <<0, 0>>],
            todo |-> <<>>, last |-> <<0, 0>>]

DispatchInit ==
  /\ cursor = [n \in PassNames |-> <<0, 0>>]
  /\ tick = [r \in Dispatchers |-> Resting]
  /\ deliveries = {}
  /\ tickFailures = 0

\* The row order (created_at, id).
After(row, other) ==
  \/ row[1] > other[1]
  \/ row[1] = other[1] /\ row[2] > other[2]

RowOf(e) == <<created[e], e>>

\* Mutant: the sweep reads right up to now.
UpToNow(rows) == rows

\* created_at <= now() - lookback.
Settled(rows) == {row \in rows : row[1] <= clock - Lookback}

Readable(pass, from) ==
  LET rows == {RowOf(e) : e \in Committed} IN
  {row \in (IF pass = "sweep" THEN Settled(rows) ELSE rows) : After(row, from)}

\* The oldest rows of a set, at most DispatchBatch, in order.
Oldest(rows) ==
  LET rank(row) == Cardinality({q \in rows : After(row, q)}) + 1
      n == IF Cardinality(rows) < DispatchBatch THEN Cardinality(rows) ELSE DispatchBatch
  IN [i \in 1..n |-> CHOOSE row \in rows : rank(row) = i]

NextPass(pass) == IF pass = "forward" THEN "sweep" ELSE "none"

ReadCursor(r) ==
  /\ tick[r].pass = "none"
  /\ tick' = [tick EXCEPT ![r] = [Resting EXCEPT !.pass = "forward", !.seen = cursor]]
  /\ UNCHANGED <<cursor, deliveries, tickFailures>>

\* No rows: this pass is over.  last = <<0, 0>> says the pass has not read yet.
ReadRows(r) ==
  LET t == tick[r]
      rows == Oldest(Readable(t.pass, t.seen[t.pass])) IN
  /\ t.pass # "none" /\ t.last = <<0, 0>>
  /\ tick' = [tick EXCEPT ![r] =
                IF rows = <<>> THEN [t EXCEPT !.pass = NextPass(t.pass)]
                ELSE [t EXCEPT !.todo = rows, !.last = rows[Len(rows)]]]
  /\ UNCHANGED <<cursor, deliveries, tickFailures>>

\* fanOutRows: the deliveries of one row.
Due(e) == {<<e, s>> : s \in Wants[e]}

\* FanOut: one chunk of inserts, ON CONFLICT DO NOTHING.
FanOutChunk(r) ==
  LET e == Head(tick[r].todo)[2] IN
  /\ tick[r].todo # <<>>
  /\ deliveries' = deliveries \union Due(e)
  /\ tick' = [tick EXCEPT ![r].todo = Tail(@)]
  /\ UNCHANGED <<cursor, tickFailures>>

\* Mutant: the cursor may advance before every chunk is in.
RowsRead(t) == t.last # <<0, 0>>

FannedOut(t) == t.last # <<0, 0>> /\ t.todo = <<>>

\* Mutant: a slower replica sets the cursor back.
Replaced(old, new) == new

\* GREATEST over both columns.
Greatest(old, new) == IF After(new, old) THEN new ELSE old

AdvanceCursor(r) ==
  LET t == tick[r] IN
  /\ t.pass # "none" /\ FannedOut(t)
  /\ cursor' = [cursor EXCEPT ![t.pass] = Greatest(@, t.last)]
  /\ tick' = [tick EXCEPT ![r] = [t EXCEPT !.pass = NextPass(t.pass), !.todo = <<>>, !.last = <<0, 0>>]]
  /\ UNCHANGED <<deliveries, tickFailures>>

\* A statement fails, or the process dies: the tick ends where it is.
TickFails(r) ==
  /\ tick[r].pass # "none" /\ tickFailures < MaxTickFailures
  /\ tickFailures' = tickFailures + 1
  /\ tick' = [tick EXCEPT ![r] = Resting]
  /\ UNCHANGED <<cursor, deliveries>>

Dispatching(r) == ReadCursor(r) \/ ReadRows(r) \/ FanOutChunk(r) \/ AdvanceCursor(r)

DispatchNext ==
  \/ OutboxWrites /\ UNCHANGED dispatchVars
  \/ (\E r \in Dispatchers : Dispatching(r) \/ TickFails(r)) /\ UNCHANGED outboxVars

\* The dispatchers at work beside the publishers, on the same rows.
DispatchSpec ==
  /\ OutboxInit /\ DispatchInit
  /\ [][DispatchNext \/ (OutboxNext /\ UNCHANGED dispatchVars)]_<<outboxVars, dispatchVars>>

-----------------------------------------------------------------------------
(* Properties *)

DispatchTypeOK ==
  /\ \A n \in PassNames : cursor[n] \in (0..MaxTime) \X ({0} \union Events)
  /\ \A r \in Dispatchers :
       /\ tick[r].pass \in PassNames \union {"none"}
       /\ Len(tick[r].todo) <= DispatchBatch
  /\ deliveries \subseteq Events \X Subscriptions
  /\ tickFailures \in 0..MaxTickFailures

\* Whatever order transactions commit in and however the replicas interleave,
\* a row the sweep has passed has all its deliveries: the sweep reads only
\* stamps so old that no transaction still holds one.
SweptMeansDispatched ==
  \A e \in Committed : ~After(RowOf(e), cursor["sweep"]) => Due(e) \subseteq deliveries

\* A row below the swept cursor cannot appear later: at the time of the sweep
\* every transaction with such a stamp had ended.
NothingAppearsBehindSweep ==
  \A e \in Events : visible[e] = "inserted" => After(RowOf(e), cursor["sweep"])

\* The sweep is complete: nothing is missing below it, and nothing comes later.
DispatchSafe == SweptMeansDispatched /\ NothingAppearsBehindSweep

\* Neither cursor ever walks back, though replicas advance them from stale reads.
CursorsAdvance == [][\A n \in PassNames : ~After(cursor[n], cursor'[n])]_cursor

\* Every event a business transaction committed is handed to each subscription
\* that wants it, even when the forward cursor stepped over it.
EventuallyDispatched ==
  \A e \in Events : (visible[e] = "committed") ~> (Due(e) \subseteq deliveries)
=============================================================================
