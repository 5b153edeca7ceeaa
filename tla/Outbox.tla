-------------------------------- MODULE Outbox --------------------------------
(***************************************************************************)
(* The transactional outbox (internal/outbox): business transactions write *)
(* outbox_events rows, publisher replicas turn committed rows into store   *)
(* watermarks, and an operator requeues or dead-letters rows.              *)
(*                                                                         *)
(* A row is stamped when it is inserted and becomes visible when its       *)
(* transaction commits, so rows may appear in another order than their     *)
(* stamps.                                                                 *)
(***************************************************************************)
EXTENDS Integers, FiniteSets

CONSTANTS
  Events,        \* rows that may be written, by id
  Buckets,       \* (store, axis) pairs
  BucketOf,      \* the watermark an event moves
  TenantOf,      \* a number: the order in which the poll sorts tenants
  Unreadable,    \* events whose payload or store_id cannot be parsed
  Orphans,       \* events of a store that no longer exists
  Publishers,    \* replicas running the publisher loop
  BatchSize,     \* rows per poll
  MaxTransaction,\* ticks a transaction may stay open after its stamp
  LastInsert,    \* bound: no row is stamped later
  MaxTime,       \* bound on the clock
  MaxRequeues,   \* bound on operator requeues
  MaxAborts,     \* bound on publisher transactions that fail
  NoEvent

ASSUME OutboxAssumption ==
  /\ Events \subseteq Int /\ IsFiniteSet(Events) /\ NoEvent \notin Events
  /\ BucketOf \in [Events -> Buckets] /\ TenantOf \in [Events -> Nat]
  /\ Unreadable \subseteq Events /\ Orphans \subseteq Events
  /\ BatchSize \in Nat \ {0} /\ MaxTransaction \in Nat
  /\ LastInsert \in Nat /\ MaxTime \in Nat /\ MaxRequeues \in Nat /\ MaxAborts \in Nat

VARIABLES
  clock,
  visible,    \* is the row inserted, committed or rolled back?
  created,    \* created_at
  published,  \* rows with published_at
  failed,     \* rows with error
  dead,       \* rows with dead_lettered_at
  watermark,  \* store_watermarks
  batch,      \* rows a publisher's open transaction has locked, as it read them
  operator,   \* the operator's open transaction: row, stamp and purpose
  requeued,   \* history: when a row was last requeued
  requeues,
  aborts

rowState == <<published, failed, dead>>
outboxVars == <<clock, visible, created, rowState, watermark, batch, operator,
                requeued, requeues, aborts>>

EventsOf(rows) == {r.event : r \in rows}
Locked == UNION {EventsOf(batch[p]) : p \in Publishers}
Committed == {e \in Events : visible[e] = "committed"}

\* Mutant: a failed row is polled again.
PendingAndFailed == Committed \ (published \union dead)

\* published_at IS NULL AND error IS NULL AND dead_lettered_at IS NULL.
Pending == Committed \ (published \union failed \union dead)

NoWrite == [event |-> NoEvent, at |-> 0, purpose |-> "none"]

OutboxInit ==
  /\ clock = 1
  /\ visible = [e \in Events |-> "absent"]
  /\ created = [e \in Events |-> 0]
  /\ published = {} /\ failed = {} /\ dead = {}
  /\ watermark = [b \in Buckets |-> 0]
  /\ batch = [p \in Publishers |-> {}]
  /\ operator = NoWrite
  /\ requeued = [e \in Events |-> 0]
  /\ requeues = 0 /\ aborts = 0

-----------------------------------------------------------------------------
(* Business transactions *)

\* EnqueueInTx: the row is stamped inside a transaction that goes on.
EnqueueInTx(e) ==
  /\ visible[e] = "absent" /\ clock <= LastInsert
  /\ visible' = [visible EXCEPT ![e] = "inserted"]
  /\ created' = [created EXCEPT ![e] = clock]
  /\ UNCHANGED <<clock, rowState, watermark, batch, operator, requeued, requeues, aborts>>

BusinessEnds(e) ==
  /\ visible[e] = "inserted"
  /\ \E end \in {"committed", "rolledBack"} : visible' = [visible EXCEPT ![e] = end]
  /\ UNCHANGED <<clock, created, rowState, watermark, batch, operator, requeued, requeues, aborts>>

\* No transaction outlives MaxTransaction.
Passes ==
  /\ clock < MaxTime
  /\ \A e \in Events : visible[e] = "inserted" => clock < created[e] + MaxTransaction
  /\ operator # NoWrite => clock < operator.at + MaxTransaction
  /\ clock' = clock + 1
  /\ UNCHANGED <<visible, created, rowState, watermark, batch, operator, requeued, requeues, aborts>>

-----------------------------------------------------------------------------
(* Publisher.Tick: poll under FOR UPDATE SKIP LOCKED, then marks and       *)
(* watermarks in the same transaction.                                     *)

\* ORDER BY tenant_id, created_at.
Before(e, f) ==
  \/ TenantOf[e] < TenantOf[f]
  \/ TenantOf[e] = TenantOf[f] /\ created[e] <= created[f]

\* The first rows nobody has locked, at most BatchSize of them.
Batches ==
  LET free == Pending \ Locked IN
  {rows \in SUBSET free :
     /\ rows # {}
     /\ Cardinality(rows) <= BatchSize
     /\ Cardinality(rows) < BatchSize => rows = free
     /\ \A e \in rows, f \in free \ rows : Before(e, f)}

Poll(p) ==
  /\ batch[p] = {}
  /\ \E rows \in Batches :
       batch' = [batch EXCEPT ![p] = {[event |-> e, at |-> created[e]] : e \in rows}]
  /\ UNCHANGED <<clock, visible, created, rowState, watermark, operator, requeued, requeues, aborts>>

\* Rows that move a watermark; the others are marked failed.
Publishable(rows) == {r \in rows : r.event \notin Unreadable \union Orphans}

Latest(times) == CHOOSE t \in times : \A u \in times : u <= t

StampsIn(rows, b) == {r.at : r \in {q \in Publishable(rows) : BucketOf[q.event] = b}}

\* Mutant: the watermark is set to the batch's newest row.
Overwritten(rows) ==
  [b \in Buckets |-> IF StampsIn(rows, b) = {} THEN watermark[b] ELSE Latest(StampsIn(rows, b))]

\* GREATEST(watermark, newest created_at of the bucket).
Raised(rows) == [b \in Buckets |-> Latest({watermark[b]} \union StampsIn(rows, b))]

PublishBatch(p) ==
  /\ batch[p] # {}
  /\ watermark' = Raised(batch[p])
  /\ published' = published \union EventsOf(Publishable(batch[p]))
  /\ failed' = failed \union EventsOf(batch[p] \ Publishable(batch[p]))
  /\ batch' = [batch EXCEPT ![p] = {}]
  /\ UNCHANGED <<clock, visible, created, dead, operator, requeued, requeues, aborts>>

\* The transaction fails, or the process dies with it open.
PublishAborts(p) ==
  /\ batch[p] # {} /\ aborts < MaxAborts
  /\ aborts' = aborts + 1
  /\ batch' = [batch EXCEPT ![p] = {}]
  /\ UNCHANGED <<clock, visible, created, rowState, watermark, operator, requeued, requeues>>

-----------------------------------------------------------------------------
(* The operator: RequeueOne and DeadLetterOne, each in a transaction whose *)
(* now() is the time it began.                                             *)

OperatorBegins ==
  /\ operator = NoWrite /\ requeues < MaxRequeues
  /\ \E e \in Committed, purpose \in {"requeue", "deadLetter"} :
       operator' = [event |-> e, at |-> clock, purpose |-> purpose]
  /\ requeues' = requeues + 1
  /\ UNCHANGED <<clock, visible, created, rowState, watermark, batch, requeued, aborts>>

\* Mutant: the row is looked at without FOR UPDATE.
SeenUnpublished(e) == e \notin published

\* lockForWrite: waits while a publisher has the row, then refuses it if it
\* has been published.
LockedForWrite(e) == e \notin Locked \union published

\* Mutant: a requeued row keeps its stamp.
KeptStamp == created[operator.event]

RequeueStamp == operator.at

RequeueOne ==
  /\ operator.purpose = "requeue" /\ LockedForWrite(operator.event)
  /\ failed' = failed \ {operator.event}
  /\ dead' = dead \ {operator.event}
  /\ created' = [created EXCEPT ![operator.event] = RequeueStamp]
  /\ requeued' = [requeued EXCEPT ![operator.event] = operator.at]
  /\ operator' = NoWrite
  /\ UNCHANGED <<clock, visible, published, watermark, batch, requeues, aborts>>

DeadLetterOne ==
  /\ operator.purpose = "deadLetter" /\ LockedForWrite(operator.event)
  /\ dead' = dead \union {operator.event}
  /\ operator' = NoWrite
  /\ UNCHANGED <<clock, visible, created, published, failed, watermark, batch,
                 requeued, requeues, aborts>>

\* ErrAlreadyPublished, or the transaction is given up.
OperatorRefused ==
  /\ operator # NoWrite
  /\ operator' = NoWrite
  /\ UNCHANGED <<clock, visible, created, rowState, watermark, batch, requeued, requeues, aborts>>

-----------------------------------------------------------------------------
OutboxWrites == \/ \E e \in Events : EnqueueInTx(e) \/ BusinessEnds(e)
                \/ OperatorBegins \/ RequeueOne \/ DeadLetterOne \/ OperatorRefused
                \/ Passes

Publishing(p) == Poll(p) \/ PublishBatch(p)

OutboxNext == OutboxWrites \/ \E p \in Publishers : Publishing(p) \/ PublishAborts(p)

OutboxSpec == OutboxInit /\ [][OutboxNext]_outboxVars

-----------------------------------------------------------------------------
(* Properties *)

OutboxTypeOK ==
  /\ clock \in 1..MaxTime
  /\ visible \in [Events -> {"absent", "inserted", "committed", "rolledBack"}]
  /\ created \in [Events -> 0..MaxTime] /\ requeued \in [Events -> 0..MaxTime]
  /\ published \subseteq Events /\ failed \subseteq Events /\ dead \subseteq Events
  /\ watermark \in [Buckets -> 0..MaxTime]
  /\ batch \in [Publishers -> SUBSET [event : Events, at : 0..MaxTime]]
  /\ operator \in [event : Events \union {NoEvent}, at : 0..MaxTime,
                   purpose : {"none", "requeue", "deadLetter"}]
  /\ requeues \in 0..MaxRequeues /\ aborts \in 0..MaxAborts

\* A published row is out of reach of everyone: it is in no other state, it is
\* in no open batch, so it is published once (lockForWrite, SKIP LOCKED).
PublishedOnce ==
  /\ published \cap (failed \union dead) = {}
  /\ \A p \in Publishers : EventsOf(batch[p]) \cap published = {}
  /\ \A p, q \in Publishers : p # q => EventsOf(batch[p]) \cap EventsOf(batch[q]) = {}

\* Once an event is published, the watermark of its bucket is not behind the
\* event's stamp nor behind the moment it was last requeued, whatever order
\* the batches committed in (the GREATEST upsert and the bumped created_at).
WatermarkCovers ==
  \A e \in published :
    watermark[BucketOf[e]] >= created[e] /\ watermark[BucketOf[e]] >= requeued[e]

\* What the two guard together: an event is published once, and where the
\* storefronts look for changes.
OutboxSafe == PublishedOnce /\ WatermarkCovers

\* A committed event of a live store is published or set aside by an operator:
\* rows nobody can publish do not hold the others up.
EventsPublished ==
  \A e \in Events \ (Unreadable \union Orphans) :
    (visible[e] = "committed") ~> (e \in published \union dead)
=============================================================================
