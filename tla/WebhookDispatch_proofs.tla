------------------------ MODULE WebhookDispatch_proofs ------------------------
(***************************************************************************)
(* Proofs about the transactional outbox and the webhook dispatcher that   *)
(* reads it, for every set of events, every number of replicas and every   *)
(* transaction bound below the look-back.                                  *)
(*                                                                         *)
(* OutboxInv says what an open publisher batch knows: its rows are         *)
(* committed, unsettled, nobody else's, and stamped as it read them.       *)
(* DispatchInv says what an open sweep knows: the rows between the cursor  *)
(* it read and the last row it holds are dispatched or still in its hands, *)
(* and no transaction is open whose stamp is old enough to be swept.       *)
(***************************************************************************)
EXTENDS WebhookDispatch, FiniteSetTheorems, TLAPS

-----------------------------------------------------------------------------
(* Times *)

\* A nonempty bounded set of times has a latest one.
LEMMA LatestIsMax ==
  ASSUME NEW S \in SUBSET Nat, S # {}, NEW n \in Nat, \A s \in S : s <= n
  PROVE  Latest(S) \in S /\ \A u \in S : u <= Latest(S)
<1> DEFINE T == {k \in Nat : n - k \in S}
           R == {ss \in Nat \X Nat : ss[1] < ss[2]}
<1>1. IsWellFoundedOn(R, Nat)
  BY NatLessThanWellFounded, Zenon DEF OpToRel
<1>2. T \subseteq Nat
  OBVIOUS
<1>3. T # {}
  <2>1. PICK s \in S : TRUE
    OBVIOUS
  <2>2. n - s \in Nat /\ n - (n - s) = s
    BY <2>1
  <2> QED
    BY <2>1, <2>2
<1>4. PICK x \in T : \A y \in T : ~(<<y, x>> \in R)
  <2> HIDE DEF T, R
  <2> QED
    BY <1>1, <1>2, <1>3, WFMin
<1>5. ASSUME NEW u \in S PROVE u <= n - x
  <2>1. n - u \in Nat /\ n - (n - u) = u
    OBVIOUS
  <2>2. n - u \in T
    BY <2>1
  <2>3. ~(n - u < x)
    BY <1>4, <2>2
  <2> QED
    BY <2>1, <2>3
<1> QED
  BY <1>5 DEF Latest

-----------------------------------------------------------------------------
(* The outbox *)

\* Rows, watermarks and batches have their types.
RowTypes ==
  /\ clock \in Nat \ {0}
  /\ visible \in [Events -> {"absent", "inserted", "committed", "rolledBack"}]
  /\ created \in [Events -> Nat] /\ requeued \in [Events -> Nat]
  /\ published \subseteq Events /\ failed \subseteq Events /\ dead \subseteq Events
  /\ watermark \in [Buckets -> Nat]
  /\ batch \in [Publishers -> SUBSET [event : Events, at : Nat]]

\* The operator's transaction, if one is open, is about a committed row and
\* was stamped when it began.
OperatorTypes ==
  \/ operator = NoWrite
  \/ /\ operator \in [event : Committed, at : Nat \ {0}, purpose : {"requeue", "deadLetter"}]
     /\ operator.at <= clock

\* No row is stamped in the future, and a row's last requeue is never later
\* than its stamp.
StampsPast ==
  \A e \in Events : requeued[e] <= created[e] /\ created[e] <= clock
                    /\ (visible[e] = "absent" => requeued[e] = 0)

\* Only committed rows are published.
OnlyCommitted == published \subseteq Committed

\* What a publisher holds is committed, unsettled and stamped as it read it.
BatchFresh ==
  \A p \in Publishers : \A r \in batch[p] :
    r.event \in Pending /\ r.at = created[r.event]

OutboxInv ==
  /\ RowTypes /\ OperatorTypes /\ StampsPast /\ OnlyCommitted /\ BatchFresh
  /\ PublishedOnce /\ WatermarkCovers

LEMMA OutboxInitInv == OutboxInit => OutboxInv
  BY OutboxAssumption
  DEF OutboxInit, OutboxInv, RowTypes, OperatorTypes, StampsPast, OnlyCommitted,
      BatchFresh, PublishedOnce, WatermarkCovers, EventsOf, Committed, Pending, NoWrite

USE DEF rowState

LEMMA EnqueueKeeps ==
  ASSUME OutboxInv, NEW e \in Events, EnqueueInTx(e)
  PROVE  OutboxInv'
<1>1. RowTypes'
  BY DEF EnqueueInTx, OutboxInv, RowTypes
<1>2. Committed' = Committed /\ e \notin Committed
  BY DEF EnqueueInTx, OutboxInv, RowTypes, Committed
<1>3. OperatorTypes'
  BY <1>2 DEF EnqueueInTx, OutboxInv, OperatorTypes, NoWrite
<1>4. StampsPast'
  BY DEF EnqueueInTx, OutboxInv, RowTypes, StampsPast
<1>5. OnlyCommitted' /\ BatchFresh' /\ PublishedOnce'
  BY <1>2 DEF EnqueueInTx, OutboxInv, RowTypes, OnlyCommitted, BatchFresh, PublishedOnce,
      EventsOf, Pending
<1>6. WatermarkCovers'
  BY <1>2 DEF EnqueueInTx, OutboxInv, RowTypes, OnlyCommitted, WatermarkCovers
<1> QED
  BY <1>1, <1>3, <1>4, <1>5, <1>6 DEF OutboxInv

LEMMA BusinessKeeps ==
  ASSUME OutboxInv, NEW e \in Events, BusinessEnds(e)
  PROVE  OutboxInv'
<1>1. RowTypes'
  BY DEF BusinessEnds, OutboxInv, RowTypes
<1>2. Committed \subseteq Committed'
  BY DEF BusinessEnds, OutboxInv, RowTypes, Committed
<1>3. OperatorTypes'
  BY <1>2 DEF BusinessEnds, OutboxInv, OperatorTypes, NoWrite
<1>4. StampsPast'
  BY DEF BusinessEnds, OutboxInv, RowTypes, StampsPast
<1>5. OnlyCommitted' /\ BatchFresh' /\ PublishedOnce'
  BY <1>2 DEF BusinessEnds, OutboxInv, RowTypes, OnlyCommitted, BatchFresh, PublishedOnce,
      EventsOf, Pending
<1>6. WatermarkCovers'
  BY DEF BusinessEnds, OutboxInv, WatermarkCovers
<1> QED
  BY <1>1, <1>3, <1>4, <1>5, <1>6 DEF OutboxInv

LEMMA PassesKeeps ==
  ASSUME OutboxInv, Passes
  PROVE  OutboxInv'
<1>1. /\ UNCHANGED <<visible, created, published, failed, dead, watermark, batch, operator, requeued>>
      /\ Committed' = Committed /\ clock' = clock + 1
  BY DEF Passes, Committed
<1>2. RowTypes'
  BY <1>1 DEF OutboxInv, RowTypes
<1>3. OperatorTypes'
  BY <1>1 DEF OutboxInv, RowTypes, OperatorTypes
<1>4. StampsPast'
  BY <1>1 DEF OutboxInv, RowTypes, StampsPast
<1>5. OnlyCommitted' /\ BatchFresh'
  BY <1>1 DEF OutboxInv, OnlyCommitted, BatchFresh, Pending
<1>6. PublishedOnce' /\ WatermarkCovers'
  BY <1>1 DEF OutboxInv, PublishedOnce, WatermarkCovers, EventsOf
<1> QED
  BY <1>2, <1>3, <1>4, <1>5, <1>6 DEF OutboxInv

LEMMA OperatorKeeps ==
  ASSUME OutboxInv, OperatorBegins \/ OperatorRefused
  PROVE  OutboxInv'
<1>1. /\ UNCHANGED <<clock, visible, created, published, failed, dead, watermark, batch, requeued>>
      /\ Committed' = Committed
  BY DEF OperatorBegins, OperatorRefused, Committed
<1>2. OperatorTypes'
  BY <1>1 DEF OperatorBegins, OperatorRefused, OutboxInv, RowTypes, OperatorTypes, NoWrite
<1> QED
  BY <1>1, <1>2 DEF OutboxInv, RowTypes, StampsPast, OnlyCommitted, BatchFresh, PublishedOnce,
      WatermarkCovers, EventsOf, Pending

LEMMA DeadLetterKeeps ==
  ASSUME OutboxInv, DeadLetterOne
  PROVE  OutboxInv'
  BY DEF DeadLetterOne, LockedForWrite, Locked, OutboxInv, RowTypes, OperatorTypes, StampsPast,
      OnlyCommitted, BatchFresh, PublishedOnce, WatermarkCovers, EventsOf, Committed, Pending, NoWrite

LEMMA RequeueKeeps ==
  ASSUME OutboxInv, RequeueOne
  PROVE  OutboxInv'
<1> DEFINE e == operator.event
<1>1. /\ e \in Committed /\ operator.at \in Nat \ {0} /\ operator.at <= clock
      /\ e \notin Locked /\ e \notin published
  BY DEF RequeueOne, LockedForWrite, OutboxInv, OperatorTypes, NoWrite
<1>2. /\ failed' = failed \ {e} /\ dead' = dead \ {e} /\ operator' = NoWrite
      /\ created' = [created EXCEPT ![e] = operator.at]
      /\ requeued' = [requeued EXCEPT ![e] = operator.at]
      /\ UNCHANGED <<clock, visible, published, watermark, batch>> /\ Committed' = Committed
  BY DEF RequeueOne, RequeueStamp, Committed
<1>3. e \in Events /\ visible[e] = "committed"
  BY <1>1 DEF Committed
<1>4. RowTypes' /\ OperatorTypes'
  BY <1>1, <1>2, <1>3 DEF OutboxInv, RowTypes, OperatorTypes
<1>5. StampsPast'
  BY <1>1, <1>2, <1>3 DEF OutboxInv, RowTypes, StampsPast
<1>6. \A p \in Publishers : \A r \in batch[p] : r.event # e
  BY <1>1 DEF Locked, EventsOf
<1>7. OnlyCommitted' /\ BatchFresh'
  BY <1>2, <1>3, <1>6 DEF OutboxInv, RowTypes, OnlyCommitted, BatchFresh, Pending
<1>8. PublishedOnce'
  BY <1>2 DEF OutboxInv, PublishedOnce, EventsOf
<1>9. WatermarkCovers'
  BY <1>1, <1>2 DEF OutboxInv, RowTypes, WatermarkCovers
<1> QED
  BY <1>4, <1>5, <1>7, <1>8, <1>9 DEF OutboxInv

LEMMA PollKeeps ==
  ASSUME OutboxInv, NEW p \in Publishers, Poll(p)
  PROVE  OutboxInv'
<1> PICK rows \in Batches :
      batch' = [batch EXCEPT ![p] = {[event |-> e, at |-> created[e]] : e \in rows}]
  BY DEF Poll
<1>1. rows \subseteq Pending \ Locked
  BY DEF Batches
<1>2. Pending \subseteq Events /\ Pending' = Pending /\ Committed' = Committed
  BY DEF Poll, Pending, Committed
<1>3. /\ \A q \in Publishers \ {p} : batch'[q] = batch[q]
      /\ batch'[p] = {[event |-> e, at |-> created[e]] : e \in rows}
  BY DEF OutboxInv, RowTypes
<1>4. RowTypes'
  BY <1>1, <1>2 DEF Poll, OutboxInv, RowTypes
<1>5. \A r \in batch'[p] : r.event \in rows /\ r.at = created[r.event]
  BY <1>3
<1>6. BatchFresh'
  BY <1>1, <1>2, <1>3, <1>5 DEF Poll, OutboxInv, BatchFresh
<1>7. \A q \in Publishers \ {p} : EventsOf(batch'[q]) \cap EventsOf(batch'[p]) = {}
  BY <1>1, <1>3, <1>5 DEF Locked, EventsOf
<1>8. \A q \in Publishers : EventsOf(batch'[q]) \cap published = {}
  BY <1>2, <1>6 DEF BatchFresh, EventsOf, Pending, Poll
<1>9. PublishedOnce'
  BY <1>3, <1>7, <1>8 DEF Poll, OutboxInv, PublishedOnce
<1> QED
  BY <1>2, <1>4, <1>6, <1>9 DEF Poll, OutboxInv, OperatorTypes, StampsPast, OnlyCommitted,
      WatermarkCovers, NoWrite

LEMMA AbortKeeps ==
  ASSUME OutboxInv, NEW p \in Publishers, PublishAborts(p)
  PROVE  OutboxInv'
<1>1. /\ UNCHANGED <<clock, visible, created, published, failed, dead, watermark, operator, requeued>>
      /\ Committed' = Committed /\ batch' = [batch EXCEPT ![p] = {}]
  BY DEF PublishAborts, Committed
<1>2. RowTypes' /\ OperatorTypes' /\ StampsPast' /\ OnlyCommitted' /\ WatermarkCovers'
  BY <1>1 DEF OutboxInv, RowTypes, OperatorTypes, StampsPast, OnlyCommitted, WatermarkCovers
<1>3. \A q \in Publishers : batch'[q] = batch[q] \/ batch'[q] = {}
  BY <1>1 DEF OutboxInv, RowTypes
<1>4. BatchFresh'
  BY <1>1, <1>3 DEF OutboxInv, BatchFresh, Pending
<1>5. PublishedOnce'
  BY <1>1, <1>3 DEF OutboxInv, PublishedOnce, EventsOf
<1> QED
  BY <1>2, <1>4, <1>5 DEF OutboxInv

\* GREATEST never lowers a watermark and covers every stamp of the batch.
LEMMA RaisedCovers ==
  ASSUME OutboxInv, NEW p \in Publishers, NEW b \in Buckets
  PROVE  /\ Raised(batch[p])[b] \in Nat
         /\ Raised(batch[p])[b] >= watermark[b]
         /\ \A t \in StampsIn(batch[p], b) : Raised(batch[p])[b] >= t
<1> DEFINE S == {watermark[b]} \union StampsIn(batch[p], b)
<1>1. watermark[b] \in Nat /\ StampsIn(batch[p], b) \subseteq 0..clock /\ clock \in Nat
  BY DEF StampsIn, Publishable, OutboxInv, RowTypes, BatchFresh, StampsPast, Pending, Committed
<1>2. PICK n \in Nat : \A s \in S : s <= n
  <2>1. CASE watermark[b] <= clock
    BY <1>1, <2>1
  <2>2. CASE ~(watermark[b] <= clock)
    BY <1>1, <2>2
  <2> QED
    BY <2>1, <2>2
<1>3. S \in SUBSET Nat /\ S # {}
  BY <1>1
<1>4. Latest(S) \in S /\ \A u \in S : u <= Latest(S)
  BY <1>2, <1>3, LatestIsMax
<1> QED
  BY <1>1, <1>3, <1>4 DEF Raised

LEMMA PublishKeeps ==
  ASSUME OutboxInv, NEW p \in Publishers, PublishBatch(p)
  PROVE  OutboxInv'
<1> DEFINE sent == EventsOf(Publishable(batch[p]))
           refused == EventsOf(batch[p] \ Publishable(batch[p]))
<1>1. /\ sent \subseteq Pending /\ refused \subseteq Pending /\ sent \cap refused = {}
      /\ Pending \subseteq Committed /\ Committed \subseteq Events /\ Committed' = Committed
  BY DEF EventsOf, Publishable, OutboxInv, BatchFresh, Pending, Committed, PublishBatch
<1>2. /\ \A q \in Publishers \ {p} : batch'[q] = batch[q]
      /\ batch'[p] = {}
  BY DEF PublishBatch, OutboxInv, RowTypes
<1>3. RowTypes'
  BY <1>1, RaisedCovers, OutboxAssumption DEF PublishBatch, OutboxInv, RowTypes, Raised
<1>4. OnlyCommitted'
  BY <1>1 DEF PublishBatch, OutboxInv, OnlyCommitted
<1>5. \A q \in Publishers \ {p} : EventsOf(batch[q]) \cap (sent \union refused) = {}
  BY DEF OutboxInv, PublishedOnce, EventsOf, Publishable
<1>6. BatchFresh'
  <2> SUFFICES ASSUME NEW q \in Publishers, NEW r \in batch'[q]
               PROVE  r.event \in Pending' /\ r.at = created'[r.event]
    BY DEF BatchFresh
  <2>1. q # p /\ r \in batch[q]
    BY <1>2
  <2>2. r.event \notin sent \union refused
    BY <1>5, <2>1 DEF EventsOf
  <2>3. r.event \in Pending /\ r.at = created[r.event]
    BY <2>1 DEF OutboxInv, BatchFresh
  <2> QED
    BY <1>1, <2>2, <2>3 DEF Pending, PublishBatch
<1>7. PublishedOnce'
  <2>1. published' \cap (failed' \union dead') = {}
    BY <1>1 DEF PublishBatch, OutboxInv, PublishedOnce, Pending
  <2>2. \A q \in Publishers : EventsOf(batch'[q]) \cap published' = {}
    BY <1>6 DEF BatchFresh, EventsOf, Pending
  <2>3. \A q, s \in Publishers : q # s => EventsOf(batch'[q]) \cap EventsOf(batch'[s]) = {}
    BY <1>2 DEF OutboxInv, PublishedOnce, EventsOf
  <2> QED
    BY <2>1, <2>2, <2>3 DEF PublishedOnce
<1>8. WatermarkCovers'
  <2> SUFFICES ASSUME NEW e \in published'
               PROVE  watermark'[BucketOf[e]] >= created[e] /\ watermark'[BucketOf[e]] >= requeued[e]
    BY DEF WatermarkCovers, PublishBatch
  <2>1. e \in Events /\ BucketOf[e] \in Buckets
    BY <1>3, OutboxAssumption DEF RowTypes
  <2>2. watermark'[BucketOf[e]] = Raised(batch[p])[BucketOf[e]]
    BY DEF PublishBatch
  <2>3. created[e] \in Nat /\ requeued[e] \in Nat /\ requeued[e] <= created[e]
    BY <2>1 DEF OutboxInv, RowTypes, StampsPast
  <2>4. CASE e \in published
    BY <2>1, <2>2, <2>3, <2>4, RaisedCovers DEF OutboxInv, RowTypes, WatermarkCovers
  <2>5. CASE e \in sent
    <3>1. PICK r \in Publishable(batch[p]) : r.event = e
      BY <2>5 DEF EventsOf
    <3>2. r.at = created[e] /\ r.at \in StampsIn(batch[p], BucketOf[e])
      BY <3>1 DEF StampsIn, Publishable, OutboxInv, BatchFresh
    <3> QED
      BY <2>1, <2>2, <2>3, <3>2, RaisedCovers
  <2> QED
    BY <2>4, <2>5 DEF PublishBatch
<1> QED
  BY <1>1, <1>3, <1>4, <1>6, <1>7, <1>8
  DEF PublishBatch, OutboxInv, OperatorTypes, StampsPast, NoWrite

LEMMA OutboxStepKeeps ==
  ASSUME OutboxInv, OutboxNext \/ UNCHANGED outboxVars
  PROVE  OutboxInv'
<1>1. CASE UNCHANGED outboxVars
  BY <1>1 DEF outboxVars, OutboxInv, RowTypes, OperatorTypes, StampsPast, OnlyCommitted,
      BatchFresh, PublishedOnce, WatermarkCovers, EventsOf, Committed, Pending, NoWrite
<1>2. CASE OutboxNext
  BY <1>2, EnqueueKeeps, BusinessKeeps, PassesKeeps, OperatorKeeps, RequeueKeeps, DeadLetterKeeps,
     PollKeeps, PublishKeeps, AbortKeeps DEF OutboxNext, OutboxWrites, Publishing
<1> QED
  BY <1>1, <1>2

\* However many publisher replicas poll, commit and abort in whatever order, and
\* whatever an operator requeues or sets aside meanwhile, an event is published
\* once and the watermark of its bucket is never behind it.
THEOREM OutboxIsSafe == OutboxSpec => []OutboxSafe
<1>1. OutboxInv /\ [OutboxNext]_outboxVars => OutboxInv'
  BY OutboxStepKeeps
<1>2. OutboxInv => OutboxSafe
  BY DEF OutboxInv, OutboxSafe
<1> QED
  BY OutboxInitInv, <1>1, <1>2, PTL DEF OutboxSpec

-----------------------------------------------------------------------------
(* The row order *)

Rows == Int \X Int

LEMMA AfterIsTotal ==
  ASSUME NEW a \in Rows, NEW b \in Rows
  PROVE  /\ ~After(a, a)
         /\ ~(After(a, b) /\ After(b, a))
         /\ a # b => After(a, b) \/ After(b, a)
  BY DEF Rows, After

LEMMA AfterIsTransitive ==
  ASSUME NEW a \in Rows, NEW b \in Rows, NEW c \in Rows, After(a, b), After(b, c)
  PROVE  After(a, c)
  BY DEF Rows, After

Rank(S, row) == Cardinality({q \in S : After(row, q)}) + 1

\* In a finite set of rows each place from first to last is somebody's, and
\* nobody's but his; a later row has a later place.
LEMMA RankIsPlace ==
  ASSUME NEW S \in SUBSET Rows, IsFiniteSet(S)
  PROVE  /\ Cardinality(S) \in Nat
         /\ \A a \in S : Rank(S, a) \in 1..Cardinality(S)
         /\ \A a, b \in S : After(a, b) => Rank(S, b) < Rank(S, a)
         /\ \A a, b \in S : Rank(S, a) = Rank(S, b) => a = b
         /\ \A i \in 1..Cardinality(S) : \E a \in S : Rank(S, a) = i
<1> DEFINE Below(a) == {q \in S : After(a, q)}
<1>1. Cardinality(S) \in Nat
  BY FS_CardinalityType
<1>2. ASSUME NEW a \in S
      PROVE  /\ Rank(S, a) \in 1..Cardinality(S) /\ Rank(S, a) = Cardinality(Below(a)) + 1
             /\ IsFiniteSet(Below(a)) /\ Cardinality(Below(a)) \in Nat
  <2>1. Below(a) \subseteq S /\ a \notin Below(a)
    BY AfterIsTotal
  <2>2. IsFiniteSet(Below(a)) /\ Cardinality(Below(a)) <= Cardinality(S) /\ Cardinality(Below(a)) # Cardinality(S)
    BY <2>1, FS_Subset
  <2>3. Cardinality(Below(a)) \in Nat
    BY <2>2, FS_CardinalityType
  <2> QED
    BY <1>1, <2>2, <2>3 DEF Rank
<1>3. ASSUME NEW a \in S, NEW b \in S, After(a, b)
      PROVE  Rank(S, b) < Rank(S, a)
  <2>1. Below(b) \subseteq Below(a) /\ b \in Below(a) /\ b \notin Below(b)
    BY <1>3, AfterIsTotal, AfterIsTransitive
  <2>2. Cardinality(Below(b)) <= Cardinality(Below(a)) /\ Cardinality(Below(b)) # Cardinality(Below(a))
    BY <1>2, <2>1, FS_Subset
  <2> QED
    BY <1>2, <2>2
<1>4. ASSUME NEW a \in S, NEW b \in S, Rank(S, a) = Rank(S, b)
      PROVE  a = b
  <2> HIDE DEF Below
  <2>1. Rank(S, a) \in Nat /\ Rank(S, a) = Rank(S, b)
    <3>1. Rank(S, a) \in 1..Cardinality(S)
      BY <1>2
    <3> QED
      BY <1>1, <1>4, <3>1
  <2>2. ASSUME After(a, b) PROVE FALSE
    BY <1>3, <2>1, <2>2
  <2>3. ASSUME After(b, a) PROVE FALSE
    BY <1>3, <2>1, <2>3
  <2> QED
    BY <2>2, <2>3, AfterIsTotal
<1>5. ASSUME NEW i \in 1..Cardinality(S)
      PROVE  \E a \in S : Rank(S, a) = i
  <2> DEFINE f == [a \in S |-> Rank(S, a)]
             T == 1..Cardinality(S)
  <2>1. f \in Injection(S, T)
    BY <1>2, <1>4 DEF Injection, IsInjective
  <2>2. IsFiniteSet(T) /\ Cardinality(T) = Cardinality(S)
    BY <1>1, FS_Interval
  <2>3. f \in Surjection(S, T)
    <3> HIDE DEF f, T
    <3> QED
      BY <2>1, <2>2, FS_Injection
  <2> QED
    BY <2>3 DEF Surjection
<1> QED
  BY <1>1, <1>2, <1>3, <1>4, <1>5

\* A batch is made of rows of the set, and what is not after its last row is in it.
LEMMA OldestIsPrefix ==
  ASSUME NEW S \in SUBSET Rows, IsFiniteSet(S)
  PROVE  /\ Oldest(S) \in Seq(S)
         /\ Oldest(S) # <<>> =>
              /\ Oldest(S)[Len(Oldest(S))] \in S
              /\ \A row \in S : ~After(row, Oldest(S)[Len(Oldest(S))]) =>
                   \E i \in 1..Len(Oldest(S)) : Oldest(S)[i] = row
<1> DEFINE n == IF Cardinality(S) < DispatchBatch THEN Cardinality(S) ELSE DispatchBatch
<1>1. Oldest(S) = [i \in 1..n |-> CHOOSE row \in S : Rank(S, row) = i]
  BY DEF Oldest, Rank
<1>2. Cardinality(S) \in Nat /\ n \in Nat /\ n <= Cardinality(S)
  BY RankIsPlace, DispatchAssumption
<1>3. ASSUME NEW i \in 1..n
      PROVE  Oldest(S)[i] \in S /\ Rank(S, Oldest(S)[i]) = i
  <2>1. \E a \in S : Rank(S, a) = i
    BY <1>2, RankIsPlace
  <2> QED
    BY <1>1, <2>1
<1> HIDE DEF n
<1>4. Oldest(S) \in Seq(S) /\ Len(Oldest(S)) = n
  BY <1>1, <1>2, <1>3
<1>5. ASSUME Oldest(S) # <<>> PROVE n \in 1..n
  BY <1>1, <1>2, <1>4, <1>5
<1>6. ASSUME Oldest(S) # <<>>, NEW row \in S, ~After(row, Oldest(S)[n])
      PROVE  \E i \in 1..n : Oldest(S)[i] = row
  <2>1. Oldest(S)[n] \in S /\ Rank(S, Oldest(S)[n]) = n
    BY <1>3, <1>5, <1>6
  <2>2. Rank(S, row) \in 1..n
    BY <1>2, <1>6, <2>1, AfterIsTotal, RankIsPlace
  <2>3. Oldest(S)[Rank(S, row)] = row
    BY <1>3, <2>2, RankIsPlace
  <2> QED
    BY <2>2, <2>3
<1> QED
  BY <1>3, <1>4, <1>5, <1>6

-----------------------------------------------------------------------------
(* The dispatcher *)

Start == <<0, 0>>

TickRecords == [pass : PassNames \union {"none"}, seen : [PassNames -> Rows],
                todo : Seq(Rows), last : Rows]

TickTypes ==
  /\ cursor \in [PassNames -> Rows]
  /\ tick \in [Dispatchers -> TickRecords]

\* No transaction is open whose stamp the sweep could have reached: rows and
\* requeues still to come are stamped within MaxTransaction of now.
StampsRecent ==
  /\ \A e \in Events : visible[e] = "inserted" => created[e] + MaxTransaction >= clock
  /\ operator # NoWrite => operator.at + MaxTransaction >= clock
  /\ \A e \in Events : visible[e] # "absent" => created[e] > 0

\* The sweep is behind the look-back, and so is every batch it holds.
IsSettled(row) == row = Start \/ row[1] + Lookback <= clock

SweepSettled ==
  /\ IsSettled(cursor["sweep"])
  /\ \A r \in Dispatchers : tick[r].pass = "sweep" => IsSettled(tick[r].last)

\* A replica's reading of a cursor is never ahead of the cursor.
SeenBehind ==
  \A r \in Dispatchers : tick[r].pass # "none" => ~After(tick[r].seen["sweep"], cursor["sweep"])

\* Is the row in the replica's hands?
InHand(r, e) == \E i \in 1..Len(tick[r].todo) : tick[r].todo[i][2] = e

\* The rows from where a sweep started to the last one it read are dispatched
\* or in its hands.
SweepCovers ==
  \A r \in Dispatchers : tick[r].pass = "sweep" /\ tick[r].last # Start =>
    \A e \in Committed :
      After(RowOf(e), tick[r].seen["sweep"]) /\ ~After(RowOf(e), tick[r].last) =>
        Due(e) \subseteq deliveries \/ InHand(r, e)

DispatchInv ==
  /\ OutboxInv /\ TickTypes /\ StampsRecent /\ SweepSettled /\ SeenBehind /\ SweepCovers
  /\ SweptMeansDispatched

LEMMA DispatchInitInv == OutboxInit /\ DispatchInit => DispatchInv
<1> SUFFICES ASSUME OutboxInit, DispatchInit PROVE DispatchInv
  OBVIOUS
<1>1. OutboxInv
  BY OutboxInitInv
<1>2. TickTypes
  BY DEF DispatchInit, Resting, TickTypes, TickRecords, Rows, PassNames
<1>3. Committed = {} /\ \A e \in Events : visible[e] = "absent"
  BY DEF OutboxInit, Committed
<1>4. \A r \in Dispatchers : tick[r].pass = "none"
  BY DEF DispatchInit, Resting
<1>5. SweepSettled
  BY <1>4 DEF DispatchInit, SweepSettled, IsSettled, Start, PassNames
<1> QED
  BY <1>1, <1>2, <1>3, <1>4, <1>5 DEF OutboxInit, DispatchInv, StampsRecent, SeenBehind,
     SweepCovers, SweptMeansDispatched

\* A row still to come is after everything the sweep has read.
LEMMA RecentIsAfterSettled ==
  ASSUME DispatchInv, NEW at \in Nat \ {0}, at + MaxTransaction >= clock, NEW e \in Int,
         NEW row \in Rows, IsSettled(row)
  PROVE  After(<<at, e>>, row)
  BY OutboxAssumption, DispatchAssumption
  DEF DispatchInv, OutboxInv, RowTypes, IsSettled, Start, After, Rows

LEMMA RowOfType ==
  ASSUME DispatchInv, NEW e \in Events
  PROVE  RowOf(e) \in Rows /\ RowOf(e) = <<created[e], e>>
  BY OutboxAssumption DEF DispatchInv, OutboxInv, RowTypes, RowOf, Rows

\* A step of the outbox that changes no row the sweep has read.
LEMMA OutboxMovesOn ==
  ASSUME DispatchInv, OutboxInv', UNCHANGED dispatchVars, StampsRecent',
         clock' >= clock,
         \A e \in Committed' :
           \/ e \in Committed /\ created'[e] = created[e]
           \/ created'[e] > 0 /\ created'[e] + MaxTransaction >= clock
  PROVE  DispatchInv'
<1> USE DEF dispatchVars
<1>1. TickTypes' /\ SeenBehind'
  BY DEF DispatchInv, TickTypes, SeenBehind
<1>2. clock \in Nat /\ clock' \in Nat
  BY DEF DispatchInv, OutboxInv, RowTypes
<1>3. \A row \in Rows : IsSettled(row) => IsSettled(row)'
  BY <1>2, DispatchAssumption DEF IsSettled, Rows
<1>4. cursor["sweep"] \in Rows /\ \A r \in Dispatchers : tick[r].last \in Rows
  BY DEF DispatchInv, TickTypes, TickRecords, PassNames
<1>5. SweepSettled'
  BY <1>3, <1>4 DEF DispatchInv, SweepSettled, IsSettled
<1>6. ASSUME NEW e \in Committed', NEW row \in Rows, IsSettled(row), ~After(RowOf(e)', row)
      PROVE  e \in Committed /\ RowOf(e)' = RowOf(e)
  <2>1. e \in Events /\ created'[e] \in Nat
    BY DEF Committed, OutboxInv, RowTypes
  <2>2. CASE e \in Committed /\ created'[e] = created[e]
    BY <2>2 DEF RowOf
  <2>3. CASE created'[e] > 0 /\ created'[e] + MaxTransaction >= clock
    BY <1>6, <2>1, <2>3, RecentIsAfterSettled, OutboxAssumption DEF RowOf
  <2> QED
    BY <2>2, <2>3
<1>7. SweptMeansDispatched'
  BY <1>4, <1>6 DEF DispatchInv, SweepSettled, SweptMeansDispatched, Due
<1>8. SweepCovers'
  <2> SUFFICES ASSUME NEW r \in Dispatchers, tick[r].pass = "sweep", tick[r].last # Start,
                      NEW e \in Committed', After(RowOf(e)', tick[r].seen["sweep"]),
                      ~After(RowOf(e)', tick[r].last)
               PROVE  Due(e) \subseteq deliveries \/ InHand(r, e)
    BY DEF SweepCovers, Due, InHand
  <2>1. e \in Committed /\ RowOf(e)' = RowOf(e)
    BY <1>4, <1>6 DEF DispatchInv, SweepSettled
  <2> QED
    BY <2>1 DEF DispatchInv, SweepCovers
<1> QED
  BY <1>1, <1>5, <1>7, <1>8 DEF DispatchInv

LEMMA OutboxWritesKeep ==
  ASSUME DispatchInv, OutboxNext, UNCHANGED dispatchVars
  PROVE  DispatchInv'
<1>1. OutboxInv /\ OutboxInv'
  BY OutboxStepKeeps DEF DispatchInv
<1>2. StampsRecent
  BY DEF DispatchInv
<1>3. ASSUME NEW e \in Events, EnqueueInTx(e) PROVE DispatchInv'
  <2>1. Committed' = Committed /\ \A f \in Committed : created'[f] = created[f]
    BY <1>1, <1>3 DEF EnqueueInTx, OutboxInv, RowTypes, Committed
  <2>2. StampsRecent'
    BY <1>1, <1>2, <1>3, OutboxAssumption DEF EnqueueInTx, OutboxInv, RowTypes, StampsRecent
  <2> QED
    BY <1>1, <1>3, <2>1, <2>2, OutboxMovesOn DEF EnqueueInTx, OutboxInv, RowTypes
<1>4. ASSUME NEW e \in Events, BusinessEnds(e) PROVE DispatchInv'
  <2>1. \A f \in Committed' : f \in Committed \/ f = e
    BY <1>1, <1>4 DEF BusinessEnds, OutboxInv, RowTypes, Committed
  <2>2. StampsRecent'
    BY <1>1, <1>2, <1>4 DEF BusinessEnds, OutboxInv, RowTypes, StampsRecent
  <2>3. created'[e] > 0 /\ created'[e] + MaxTransaction >= clock
    BY <1>2, <1>4 DEF BusinessEnds, StampsRecent
  <2> QED
    BY <1>1, <1>4, <2>1, <2>2, <2>3, OutboxMovesOn DEF BusinessEnds, OutboxInv, RowTypes
<1>5. ASSUME Passes PROVE DispatchInv'
  <2>1. Committed' = Committed
    BY <1>5 DEF Passes, Committed
  <2>2. StampsRecent'
    <3>1. ASSUME NEW e \in Events, visible'[e] = "inserted"
          PROVE  created'[e] + MaxTransaction >= clock'
      BY <1>1, <1>5, <3>1, OutboxAssumption DEF Passes, OutboxInv, RowTypes
    <3>2. ASSUME operator' # NoWrite PROVE operator'.at + MaxTransaction >= clock'
      <4>1. operator.at \in Nat /\ operator # NoWrite
        BY <1>1, <1>5, <3>2 DEF Passes, OutboxInv, OperatorTypes
      <4> QED
        BY <1>1, <1>5, <4>1, OutboxAssumption DEF Passes, OutboxInv, RowTypes
    <3> QED
      BY <1>2, <1>5, <3>1, <3>2 DEF Passes, StampsRecent
  <2> QED
    BY <1>1, <1>5, <2>1, <2>2, OutboxMovesOn DEF Passes, OutboxInv, RowTypes
<1>6. ASSUME OperatorBegins \/ OperatorRefused \/ DeadLetterOne PROVE DispatchInv'
  <2>1. UNCHANGED <<clock, visible, created>> /\ Committed' = Committed
    BY <1>6 DEF OperatorBegins, OperatorRefused, DeadLetterOne, Committed
  <2>2. operator' # NoWrite => operator'.at + MaxTransaction >= clock
    BY <1>1, <1>2, <1>6, OutboxAssumption
    DEF OperatorBegins, OperatorRefused, DeadLetterOne, StampsRecent, OutboxInv, RowTypes
  <2>3. StampsRecent'
    BY <1>2, <2>1, <2>2 DEF StampsRecent
  <2> QED
    BY <1>1, <2>1, <2>3, OutboxMovesOn DEF OutboxInv, RowTypes
<1>7. ASSUME RequeueOne PROVE DispatchInv'
  <2> DEFINE e == operator.event
  <2>1. operator # NoWrite
    BY <1>7 DEF RequeueOne, NoWrite
  <2>2. /\ e \in Committed /\ e \in Events /\ operator.at \in Nat \ {0}
        /\ operator.at + MaxTransaction >= clock
    BY <1>1, <1>2, <2>1 DEF OutboxInv, OperatorTypes, StampsRecent, Committed
  <2>3. /\ created' = [created EXCEPT ![e] = operator.at] /\ operator' = NoWrite
        /\ UNCHANGED <<clock, visible>> /\ Committed' = Committed
    BY <1>7 DEF RequeueOne, RequeueStamp, Committed
  <2> HIDE DEF e
  <2>4. created'[e] = operator.at /\ \A f \in Events \ {e} : created'[f] = created[f]
    BY <1>1, <2>2, <2>3 DEF OutboxInv, RowTypes
  <2>5. StampsRecent'
    BY <1>2, <2>2, <2>3, <2>4 DEF StampsRecent, Committed
  <2>6. \A f \in Committed' : f # e => created'[f] = created[f]
    BY <2>3, <2>4 DEF Committed
  <2> QED
    BY <1>1, <2>2, <2>3, <2>4, <2>5, <2>6, OutboxMovesOn DEF OutboxInv, RowTypes
<1>8. ASSUME NEW p \in Publishers, Publishing(p) \/ PublishAborts(p) PROVE DispatchInv'
  <2>1. UNCHANGED <<clock, visible, created, operator>> /\ Committed' = Committed
    BY <1>8 DEF Publishing, Poll, PublishBatch, PublishAborts, Committed
  <2>2. StampsRecent'
    BY <1>2, <2>1 DEF StampsRecent
  <2> QED
    BY <1>1, <2>1, <2>2, OutboxMovesOn DEF OutboxInv, RowTypes
<1> QED
  BY <1>3, <1>4, <1>5, <1>6, <1>7, <1>8 DEF OutboxNext, OutboxWrites

\* What a dispatcher's step leaves of the invariant.
LEMMA OutboxStays ==
  ASSUME DispatchInv, UNCHANGED outboxVars
  PROVE  /\ OutboxInv' /\ StampsRecent' /\ Committed' = Committed /\ clock' = clock
         /\ \A e \in Events : RowOf(e)' = RowOf(e)
         /\ \A row : IsSettled(row)' <=> IsSettled(row)
  BY OutboxStepKeeps
  DEF DispatchInv, StampsRecent, Committed, RowOf, IsSettled, outboxVars

\* A step of one replica leaves what the others hold of the sweep.
LEMMA OthersCover ==
  ASSUME DispatchInv, UNCHANGED outboxVars, deliveries \subseteq deliveries', NEW r \in Dispatchers,
         \A q \in Dispatchers \ {r} : tick'[q] = tick[q],
         \A e \in Committed : tick'[r].pass = "sweep" /\ tick'[r].last # Start /\
            After(RowOf(e), tick'[r].seen["sweep"]) /\ ~After(RowOf(e), tick'[r].last) =>
              Due(e) \subseteq deliveries' \/ InHand(r, e)'
  PROVE  SweepCovers'
<1> SUFFICES ASSUME NEW q \in Dispatchers, tick'[q].pass = "sweep", tick'[q].last # Start,
                    NEW e \in Committed, After(RowOf(e), tick'[q].seen["sweep"]),
                    ~After(RowOf(e), tick'[q].last)
             PROVE  Due(e) \subseteq deliveries' \/ InHand(q, e)'
  BY OutboxStays DEF SweepCovers, Due, Committed, Start
<1>1. CASE q = r
  BY <1>1
<1>2. CASE q # r
  <2>1. Due(e) \subseteq deliveries \/ InHand(q, e)
    BY <1>2 DEF DispatchInv, SweepCovers
  <2> QED
    BY <1>2, <2>1 DEF InHand
<1> QED
  BY <1>1, <1>2

LEMMA ReadCursorKeeps ==
  ASSUME DispatchInv, UNCHANGED outboxVars, NEW r \in Dispatchers, ReadCursor(r)
  PROVE  DispatchInv'
<1>1. /\ tick'[r] = [Resting EXCEPT !.pass = "forward", !.seen = cursor]
      /\ \A q \in Dispatchers \ {r} : tick'[q] = tick[q]
      /\ UNCHANGED <<cursor, deliveries>>
  BY DEF ReadCursor, DispatchInv, TickTypes
<1>2. tick'[r].pass = "forward" /\ tick'[r].seen = cursor
  BY <1>1 DEF Resting
<1>3. TickTypes'
  <2>1. Resting \in TickRecords /\ cursor \in [PassNames -> Rows]
    BY DEF Resting, TickRecords, PassNames, Rows, DispatchInv, TickTypes
  <2>2. tick'[r] \in TickRecords
    BY <1>1, <2>1 DEF TickRecords, PassNames
  <2> QED
    BY <1>1, <2>2 DEF ReadCursor, DispatchInv, TickTypes
<1>4. cursor["sweep"] \in Rows
  BY DEF DispatchInv, TickTypes, TickRecords, PassNames
<1>5. SeenBehind'
  BY <1>1, <1>2, <1>4, AfterIsTotal DEF DispatchInv, SeenBehind
<1>6. SweepSettled'
  BY <1>1, <1>2, OutboxStays DEF DispatchInv, SweepSettled
<1>7. SweepCovers'
  BY <1>1, <1>2, OthersCover
<1> QED
  BY <1>1, <1>3, <1>5, <1>6, <1>7, OutboxStays DEF DispatchInv, SweptMeansDispatched, Due, Committed

LEMMA TickFailsKeeps ==
  ASSUME DispatchInv, UNCHANGED outboxVars, NEW r \in Dispatchers, TickFails(r)
  PROVE  DispatchInv'
<1>1. /\ tick'[r] = Resting
      /\ \A q \in Dispatchers \ {r} : tick'[q] = tick[q]
      /\ UNCHANGED <<cursor, deliveries>>
  BY DEF TickFails, DispatchInv, TickTypes
<1>2. tick'[r].pass = "none"
  BY <1>1 DEF Resting
<1>3. TickTypes'
  BY DEF TickFails, DispatchInv, TickTypes, TickRecords, Resting, PassNames, Rows
<1>4. SeenBehind' /\ SweepSettled' /\ SweepCovers'
  BY <1>1, <1>2, OutboxStays, OthersCover DEF DispatchInv, SeenBehind, SweepSettled
<1> QED
  BY <1>1, <1>3, <1>4, OutboxStays DEF DispatchInv, SweptMeansDispatched, Due, Committed

LEMMA ReadRowsKeeps ==
  ASSUME DispatchInv, UNCHANGED outboxVars, NEW r \in Dispatchers, ReadRows(r)
  PROVE  DispatchInv'
<1> DEFINE t == tick[r]
           S == Readable(t.pass, t.seen[t.pass])
           rows == Oldest(S)
           last == rows[Len(rows)]
<1>1. /\ t \in TickRecords
      /\ t.pass \in PassNames /\ t.last = Start
  BY DEF ReadRows, DispatchInv, TickTypes, TickRecords, Start
<1>2. S \in SUBSET Rows /\ IsFiniteSet(S)
  <2>1. S \subseteq {RowOf(e) : e \in Committed} /\ Committed \subseteq Events
    BY DEF Readable, Settled, Committed
  <2>2. IsFiniteSet(Committed)
    BY <2>1, OutboxAssumption, FS_Subset
  <2>3. IsFiniteSet({RowOf(e) : e \in Committed})
    <3> DEFINE f == [e \in Committed |-> RowOf(e)]
               Image == {RowOf(e) : e \in Committed}
    <3>1. f \in Surjection(Committed, Image)
      BY DEF Surjection
    <3> HIDE DEF f, Image
    <3>2. IsFiniteSet(Image)
      BY <2>2, <3>1, FS_Surjection
    <3> QED
      BY <3>2 DEF Image
  <2>4. {RowOf(e) : e \in Committed} \subseteq Rows
    BY <2>1, RowOfType
  <2> HIDE DEF S
  <2> QED
    BY <2>1, <2>3, <2>4, FS_Subset
<1>3. /\ rows \in Seq(S)
      /\ rows # <<>> => last \in S
      /\ rows # <<>> => \A row \in S : ~After(row, last) => \E i \in 1..Len(rows) : rows[i] = row
  <2> HIDE DEF S
  <2> QED
    BY <1>2, OldestIsPrefix
<1>4. /\ tick'[r] = IF rows = <<>> THEN [t EXCEPT !.pass = NextPass(t.pass)]
                    ELSE [t EXCEPT !.todo = rows, !.last = last]
      /\ \A q \in Dispatchers \ {r} : tick'[q] = tick[q]
      /\ UNCHANGED <<cursor, deliveries>>
  BY DEF ReadRows, DispatchInv, TickTypes
<1> HIDE DEF t, S, rows
<1>5. CASE rows = <<>>
  <2>1. /\ tick'[r] = [t EXCEPT !.pass = NextPass(t.pass)]
        /\ tick'[r].pass \in PassNames \union {"none"} /\ tick'[r].last = Start
        /\ tick'[r].seen = t.seen /\ tick'[r].todo = t.todo
    BY <1>1, <1>4, <1>5 DEF NextPass, PassNames, TickRecords
  <2>2. TickTypes'
    <3>1. tick'[r] \in TickRecords
      BY <1>1, <2>1 DEF TickRecords
    <3> QED
      BY <1>4, <3>1 DEF ReadRows, DispatchInv, TickTypes
  <2>3. SeenBehind'
    BY <1>1, <1>4, <2>1 DEF t, DispatchInv, SeenBehind, PassNames
  <2>4. SweepSettled'
    BY <1>4, <2>1, OutboxStays DEF DispatchInv, SweepSettled, IsSettled
  <2>5. SweepCovers'
    BY <1>4, <2>1, OthersCover
  <2> QED
    BY <1>4, <2>2, <2>3, <2>4, <2>5, OutboxStays DEF DispatchInv, SweptMeansDispatched, Due, Committed
<1>6. CASE rows # <<>>
  <2>1. last \in Rows /\ rows \in Seq(Rows)
    BY <1>2, <1>3, <1>6
  <2>2. /\ tick'[r] = [t EXCEPT !.todo = rows, !.last = last]
        /\ tick'[r].pass = t.pass /\ tick'[r].last = last
        /\ tick'[r].seen = t.seen /\ tick'[r].todo = rows
    BY <1>1, <1>4, <1>6 DEF TickRecords
  <2>3. TickTypes'
    <3>1. tick'[r] \in TickRecords
      BY <1>1, <2>1, <2>2 DEF TickRecords
    <3> QED
      BY <1>4, <3>1 DEF ReadRows, DispatchInv, TickTypes
  <2>4. ASSUME t.pass = "sweep" PROVE IsSettled(last)
    <3>1. last \in Settled({RowOf(e) : e \in Committed})
      BY <1>3, <1>6, <2>4 DEF S, Readable
    <3>2. last[1] <= clock - Lookback /\ last[1] \in Int
      BY <2>1, <3>1 DEF Settled, Rows
    <3> QED
      BY <3>2, DispatchAssumption DEF IsSettled, DispatchInv, OutboxInv, RowTypes
  <2>5. SeenBehind' /\ SweepSettled'
    BY <1>1, <1>4, <2>2, <2>4, OutboxStays
    DEF t, DispatchInv, SeenBehind, SweepSettled, PassNames
  <2>6. ASSUME t.pass = "sweep", NEW e \in Committed,
               After(RowOf(e), t.seen["sweep"]), ~After(RowOf(e), last)
        PROVE  \E i \in 1..Len(rows) : rows[i][2] = e
    <3>1. RowOf(e) \in Rows /\ RowOf(e)[1] \in Int /\ RowOf(e)[2] = e
      BY RowOfType DEF Committed, Rows
    <3>2. IsSettled(last) /\ last \in S /\ last \in Rows
      BY <1>3, <1>6, <2>1, <2>4, <2>6
    <3>3. last[1] <= clock - Lookback
      BY <3>2, <2>6 DEF S, Readable, Settled
    <3>4. RowOf(e)[1] <= clock - Lookback
      BY <2>6, <3>1, <3>2, <3>3, DispatchAssumption DEF After, Rows, DispatchInv, OutboxInv, RowTypes
    <3>5. RowOf(e) \in S
      BY <2>6, <3>4 DEF S, Readable, Settled
    <3> QED
      BY <1>3, <1>6, <2>6, <3>1, <3>5
  <2>7. SweepCovers'
    <3>1. ASSUME NEW e \in Committed, tick'[r].pass = "sweep",
                 After(RowOf(e), tick'[r].seen["sweep"]), ~After(RowOf(e), tick'[r].last)
          PROVE  InHand(r, e)'
      BY <2>2, <2>6, <3>1 DEF InHand
    <3> QED
      BY <1>4, <3>1, OthersCover
  <2> QED
    BY <1>4, <2>3, <2>5, <2>7, OutboxStays DEF DispatchInv, SweptMeansDispatched, Due, Committed
<1> QED
  BY <1>5, <1>6

LEMMA FanOutKeeps ==
  ASSUME DispatchInv, UNCHANGED outboxVars, NEW r \in Dispatchers, FanOutChunk(r)
  PROVE  DispatchInv'
<1> DEFINE e == Head(tick[r].todo)[2]
           todo == tick[r].todo
<1>1. tick[r] \in TickRecords /\ todo \in Seq(Rows) /\ todo # <<>>
  BY DEF FanOutChunk, DispatchInv, TickTypes, TickRecords
<1>2. /\ tick'[r] = [tick[r] EXCEPT !.todo = Tail(todo)]
      /\ \A q \in Dispatchers \ {r} : tick'[q] = tick[q]
      /\ cursor' = cursor /\ deliveries' = deliveries \union Due(e)
  BY DEF FanOutChunk, DispatchInv, TickTypes
<1>3. /\ tick'[r].pass = tick[r].pass /\ tick'[r].seen = tick[r].seen
      /\ tick'[r].last = tick[r].last /\ tick'[r].todo = Tail(todo)
      /\ tick'[r] \in TickRecords
  <2>1. Tail(todo) \in Seq(Rows)
    BY <1>1
  <2> HIDE DEF todo
  <2> QED
    BY <1>1, <1>2, <2>1 DEF TickRecords
<1>4. TickTypes'
  BY <1>2, <1>3 DEF FanOutChunk, DispatchInv, TickTypes
<1>5. SeenBehind' /\ SweepSettled'
  BY <1>2, <1>3, OutboxStays DEF DispatchInv, SeenBehind, SweepSettled
<1>6. ASSUME NEW f \in Committed, InHand(r, f)
      PROVE  Due(f) \subseteq deliveries' \/ InHand(r, f)'
  <2>1. PICK i \in 1..Len(todo) : todo[i][2] = f
    BY <1>6 DEF InHand
  <2>2. CASE i = 1
    BY <1>1, <1>2, <2>1, <2>2
  <2>3. CASE i # 1
    <3>1. i - 1 \in 1..Len(Tail(todo)) /\ Tail(todo)[i - 1] = todo[i]
      BY <1>1, <2>1, <2>3
    <3> QED
      BY <1>3, <2>1, <3>1 DEF InHand
  <2> QED
    BY <2>2, <2>3
<1>7. SweepCovers'
  <2>1. ASSUME NEW f \in Committed, tick'[r].pass = "sweep", tick'[r].last # Start,
               After(RowOf(f), tick'[r].seen["sweep"]), ~After(RowOf(f), tick'[r].last)
        PROVE  Due(f) \subseteq deliveries' \/ InHand(r, f)'
    BY <1>2, <1>3, <1>6, <2>1 DEF DispatchInv, SweepCovers
  <2> QED
    BY <1>2, <2>1, OthersCover
<1>8. SweptMeansDispatched'
  BY <1>2, OutboxStays DEF DispatchInv, SweptMeansDispatched, Due, Committed
<1> QED
  BY <1>4, <1>5, <1>7, <1>8, OutboxStays DEF DispatchInv

LEMMA GreatestIsLater ==
  ASSUME NEW old \in Rows, NEW new \in Rows
  PROVE  /\ Greatest(old, new) \in {old, new}
         /\ ~After(old, Greatest(old, new))
         /\ ~After(new, Greatest(old, new))
  BY AfterIsTotal DEF Greatest

LEMMA AdvanceKeeps ==
  ASSUME DispatchInv, UNCHANGED outboxVars, NEW r \in Dispatchers, AdvanceCursor(r)
  PROVE  DispatchInv'
<1> DEFINE t == tick[r]
<1>1. t \in TickRecords /\ t.pass \in PassNames /\ t.last # Start /\ t.todo = <<>>
  BY DEF AdvanceCursor, FannedOut, DispatchInv, TickTypes, TickRecords, Start
<1>2. /\ cursor' = [cursor EXCEPT ![t.pass] = Greatest(@, t.last)]
      /\ tick'[r] = [t EXCEPT !.pass = NextPass(t.pass), !.todo = <<>>, !.last = <<0, 0>>]
      /\ \A q \in Dispatchers \ {r} : tick'[q] = tick[q]
      /\ deliveries' = deliveries
  BY DEF AdvanceCursor, DispatchInv, TickTypes
<1>3. cursor \in [PassNames -> Rows] /\ t.last \in Rows /\ t.seen \in [PassNames -> Rows]
  BY <1>1 DEF DispatchInv, TickTypes, TickRecords
<1>4. Start \in Rows /\ <<>> \in Seq(Rows) /\ NextPass(t.pass) \in PassNames \union {"none"}
  BY DEF Start, Rows, NextPass, PassNames
<1>5. /\ tick'[r] \in TickRecords
      /\ tick'[r].last = Start /\ tick'[r].seen = t.seen
  BY <1>1, <1>2, <1>4 DEF TickRecords, Start
<1>6. cursor'[t.pass] = Greatest(cursor[t.pass], t.last)
      /\ \A n \in PassNames \ {t.pass} : cursor'[n] = cursor[n]
  BY <1>1, <1>2, <1>3
<1>7. \A n \in PassNames : cursor'[n] \in Rows /\ ~After(cursor[n], cursor'[n])
  BY <1>1, <1>3, <1>6, GreatestIsLater, AfterIsTotal
<1>8. TickTypes'
  BY <1>2, <1>5, <1>7 DEF AdvanceCursor, DispatchInv, TickTypes
<1>9. SeenBehind'
  <2>1. ASSUME NEW q \in Dispatchers, ~After(tick[q].seen["sweep"], cursor["sweep"])
        PROVE  ~After(tick[q].seen["sweep"], cursor'["sweep"])
    <3>1. tick[q].seen["sweep"] \in Rows /\ cursor["sweep"] \in Rows /\ cursor'["sweep"] \in Rows
          /\ ~After(cursor["sweep"], cursor'["sweep"])
      BY <1>3, <1>7 DEF DispatchInv, TickTypes, TickRecords, PassNames
    <3> QED
      BY <2>1, <3>1 DEF After, Rows
  <2>2. ~After(t.seen["sweep"], cursor["sweep"])
    BY <1>1 DEF DispatchInv, SeenBehind, PassNames
  <2> QED
    BY <1>2, <1>5, <2>1, <2>2 DEF DispatchInv, SeenBehind
<1>10. IsSettled(cursor'["sweep"])
  BY <1>1, <1>3, <1>6, GreatestIsLater DEF DispatchInv, SweepSettled, PassNames
<1>11. IsSettled(Start)
  BY DEF IsSettled
<1>12. SweepSettled'
  BY <1>2, <1>5, <1>10, <1>11, OutboxStays DEF DispatchInv, SweepSettled
<1>13. SweepCovers'
  BY <1>2, <1>5, OthersCover
<1>14. SweptMeansDispatched'
  <2> SUFFICES ASSUME NEW e \in Committed, ~After(RowOf(e), cursor'["sweep"])
               PROVE  Due(e) \subseteq deliveries
    BY <1>2, OutboxStays DEF SweptMeansDispatched, Due, Committed
  <2>1. RowOf(e) \in Rows
    BY RowOfType DEF Committed
  <2>2. CASE ~After(RowOf(e), cursor["sweep"])
    BY <2>2 DEF DispatchInv, SweptMeansDispatched
  <2>3. CASE After(RowOf(e), cursor["sweep"])
    <3>1. t.pass = "sweep" /\ cursor'["sweep"] = t.last
      BY <1>1, <1>3, <1>6, <2>3, GreatestIsLater DEF PassNames
    <3>2. ~After(t.seen["sweep"], cursor["sweep"])
      BY <3>1 DEF DispatchInv, SeenBehind
    <3>3. t.seen["sweep"] \in Rows /\ cursor["sweep"] \in Rows
      BY <1>3 DEF PassNames
    <3>4. After(RowOf(e), t.seen["sweep"])
      BY <2>1, <2>3, <3>2, <3>3 DEF After, Rows
    <3>5. ~InHand(r, e)
      BY <1>1 DEF InHand
    <3> QED
      BY <1>1, <3>1, <3>4, <3>5 DEF DispatchInv, SweepCovers
  <2> QED
    BY <2>2, <2>3
<1> QED
  BY <1>8, <1>9, <1>12, <1>13, <1>14, OutboxStays DEF DispatchInv

DispatchVars == <<outboxVars, dispatchVars>>
DispatchSteps == DispatchNext \/ (OutboxNext /\ UNCHANGED dispatchVars)

LEMMA DispatchStepKeeps == DispatchInv /\ [DispatchSteps]_DispatchVars => DispatchInv'
<1> SUFFICES ASSUME DispatchInv, [DispatchSteps]_DispatchVars PROVE DispatchInv'
  OBVIOUS
<1>1. CASE OutboxNext /\ UNCHANGED dispatchVars
  BY <1>1, OutboxWritesKeep
<1>2. ASSUME UNCHANGED outboxVars, NEW r \in Dispatchers, Dispatching(r) \/ TickFails(r)
      PROVE  DispatchInv'
  BY <1>2, ReadCursorKeeps, ReadRowsKeeps, FanOutKeeps, AdvanceKeeps, TickFailsKeeps DEF Dispatching
<1>3. CASE UNCHANGED DispatchVars
  <2>1. UNCHANGED outboxVars /\ UNCHANGED dispatchVars
    BY <1>3 DEF DispatchVars
  <2> QED
    BY <2>1, OutboxStays
    DEF DispatchInv, TickTypes, SweepSettled, IsSettled, SeenBehind, SweepCovers, InHand, Due,
        SweptMeansDispatched, Committed, dispatchVars
<1> QED
  BY <1>1, <1>2, <1>3 DEF DispatchSteps, DispatchNext, OutboxNext

LEMMA DispatchInvImplies == DispatchInv => OutboxSafe /\ DispatchSafe
<1> SUFFICES ASSUME DispatchInv PROVE OutboxSafe /\ DispatchSafe
  OBVIOUS
<1>1. ASSUME NEW e \in Events, visible[e] = "inserted"
      PROVE  After(RowOf(e), cursor["sweep"])
  BY <1>1, RecentIsAfterSettled, OutboxAssumption
  DEF RowOf, DispatchInv, StampsRecent, SweepSettled, OutboxInv, RowTypes, TickTypes, PassNames
<1> QED
  BY <1>1 DEF DispatchInv, OutboxInv, OutboxSafe, DispatchSafe, NothingAppearsBehindSweep

\* Whatever the publishers, the operator and any number of dispatcher replicas do
\* on the same rows, in whatever order transactions commit: a row the sweep has
\* passed has all its deliveries, and none appears behind it later.
THEOREM SweepIsComplete == DispatchSpec => []DispatchSafe
<1>1. OutboxInit /\ DispatchInit => DispatchInv
  BY DispatchInitInv
<1>2. DispatchInv /\ [DispatchSteps]_DispatchVars => DispatchInv'
  BY DispatchStepKeeps
<1>3. DispatchInv => DispatchSafe
  BY DispatchInvImplies
<1> QED
  BY <1>1, <1>2, <1>3, PTL DEF DispatchSpec, DispatchSteps, DispatchVars

LEMMA StepAdvances ==
  ASSUME DispatchInv, [DispatchSteps]_DispatchVars
  PROVE  [\A n \in PassNames : ~After(cursor[n], cursor'[n])]_cursor
<1> SUFFICES ASSUME NEW n \in PassNames, cursor' # cursor
             PROVE  ~After(cursor[n], cursor'[n])
  OBVIOUS
<1>1. PICK r \in Dispatchers : AdvanceCursor(r)
  BY DEF DispatchSteps, DispatchVars, DispatchNext, dispatchVars, Dispatching, ReadCursor, ReadRows,
         FanOutChunk, TickFails
<1>2. /\ cursor' = [cursor EXCEPT ![tick[r].pass] = Greatest(@, tick[r].last)]
      /\ cursor \in [PassNames -> Rows] /\ tick[r].last \in Rows
  BY <1>1 DEF AdvanceCursor, DispatchInv, TickTypes, TickRecords
<1>3. cursor[n] \in Rows
  BY <1>2
<1>4. CASE n = tick[r].pass
  BY <1>2, <1>3, <1>4, GreatestIsLater
<1>5. CASE n # tick[r].pass
  BY <1>2, <1>3, <1>5, AfterIsTotal
<1> QED
  BY <1>4, <1>5

\* Neither cursor walks back, though replicas advance them from stale reads.
THEOREM CursorsOnlyAdvance == DispatchSpec => CursorsAdvance
<1>1. OutboxInit /\ DispatchInit => DispatchInv
  BY DispatchInitInv
<1>2. DispatchInv /\ [DispatchSteps]_DispatchVars => DispatchInv'
  BY DispatchStepKeeps
<1>3. DispatchInv /\ [DispatchSteps]_DispatchVars
        => [\A n \in PassNames : ~After(cursor[n], cursor'[n])]_cursor
  BY StepAdvances
<1> QED
  BY <1>1, <1>2, <1>3, PTL DEF DispatchSpec, DispatchSteps, DispatchVars, CursorsAdvance
=============================================================================
