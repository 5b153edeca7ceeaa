---------------------------- MODULE WebhookWorker ----------------------------
(***************************************************************************)
(* Delivery workers (internal/webhook/worker.go, delivery_repo.go): they   *)
(* claim due deliveries under a lease, send them outside any transaction,  *)
(* and record what happened; a subscription whose deliveries keep failing  *)
(* is disabled.                                                            *)
(*                                                                         *)
(* Time is relative: wait[d] is how far next_attempt_at lies ahead, and    *)
(* budget[w] what is left of the request a worker has open.                *)
(***************************************************************************)
EXTENDS Integers, Sequences, FiniteSets

CONSTANTS
  Deliveries, Hooks,  \* webhook_deliveries and webhook_subscriptions
  HookOf, NoHook,
  SendWorkers,
  SendBatch,          \* deliveries per claim
  MaxSends,           \* MaxAttempts
  FailureThreshold,
  RequestTimeout, LeaseWindow, Backoff, \* in ticks
  MaxReplays, MaxEdits, MaxWorkerMishaps  \* bounds

ASSUME WorkerAssumption ==
  /\ HookOf \in [Deliveries -> Hooks] /\ NoHook \notin Hooks
  /\ SendBatch \in Nat \ {0} /\ MaxSends \in Nat \ {0} /\ FailureThreshold \in Nat \ {0}
  /\ RequestTimeout \in Nat /\ LeaseWindow \in Nat /\ Backoff \in Nat
  /\ SendBatch * RequestTimeout < LeaseWindow

VARIABLES
  status, attempts, wait,   \* per delivery
  enabled, failures,        \* per subscription: enabled, consecutive_failures
  held,                     \* per worker: deliveries left in its batch, as it read them
  sending,                  \* per worker: where it is with the first of them
  budget,                   \* per worker
  sends,                    \* history: requests made since created or replayed
  retired,                  \* history: settled without an attempt
  patch,                    \* an edit between its read and its write
  replays, edits, workerMishaps

deliveryState == <<status, attempts, wait, sends, retired>>
hookState == <<enabled, failures>>
workerState == <<held, sending, budget>>
workerBounds == <<patch, replays, edits, workerMishaps>>
workerVars == <<deliveryState, hookState, workerState, workerBounds>>

NoPatch == [hook |-> NoHook, asks |-> "none", enabled |-> FALSE, failures |-> 0]

WorkerInit ==
  /\ status = [d \in Deliveries |-> "absent"]
  /\ attempts = [d \in Deliveries |-> 0]
  /\ wait = [d \in Deliveries |-> 0]
  /\ sends = [d \in Deliveries |-> 0] /\ retired = {}
  /\ enabled = [h \in Hooks |-> TRUE] /\ failures = [h \in Hooks |-> 0]
  /\ held = [w \in SendWorkers |-> <<>>]
  /\ sending = [w \in SendWorkers |-> "idle"]
  /\ budget = [w \in SendWorkers |-> 0]
  /\ patch = NoPatch /\ replays = 0 /\ edits = 0 /\ workerMishaps = 0

HeldBy(w) == {held[w][i].delivery : i \in DOMAIN held[w]}
Current(w) == Head(held[w])

-----------------------------------------------------------------------------
(* Time *)

\* No request outlives RequestTimeout, and what comes between two requests
\* takes no time worth counting.
WorkerTick ==
  /\ \A w \in SendWorkers : held[w] # <<>> => budget[w] > 0
  /\ \/ \E d \in Deliveries : wait[d] > 0
     \/ \E w \in SendWorkers : held[w] # <<>>
  /\ wait' = [d \in Deliveries |-> IF wait[d] > 0 THEN wait[d] - 1 ELSE 0]
  /\ budget' = [w \in SendWorkers |-> IF budget[w] > 0 THEN budget[w] - 1 ELSE 0]
  /\ UNCHANGED <<status, attempts, sends, retired, hookState, held, sending, workerBounds>>

-----------------------------------------------------------------------------
(* DeliveryRepo *)

\* The row FanOut inserts: pending, due now.
Arrives(d) ==
  /\ status[d] = "absent"
  /\ status' = [status EXCEPT ![d] = "pending"]
  /\ UNCHANGED <<attempts, wait, sends, retired, hookState, workerState, workerBounds>>

\* Mutant: every pending row is due, the lease notwithstanding.
Unsettled == {d \in Deliveries : status[d] = "pending"}

DueNow == {d \in Deliveries : status[d] = "pending" /\ wait[d] = 0}

\* ClaimDue: the claim pushes next_attempt_at ahead by the lease.
ClaimDue(w) ==
  /\ held[w] = <<>>
  /\ \E n \in 1..SendBatch : \E rows \in [1..n -> DueNow] :
       /\ \A i, j \in 1..n : i # j => rows[i] # rows[j]
       /\ n < SendBatch => n = Cardinality(DueNow)
       /\ held' = [held EXCEPT ![w] = [i \in 1..n |->
                     [delivery |-> rows[i], attempts |-> attempts[rows[i]]]]]
       /\ wait' = [d \in Deliveries |->
                     IF \E i \in 1..n : rows[i] = d THEN LeaseWindow ELSE wait[d]]
  /\ sending' = [sending EXCEPT ![w] = "claimed"]
  /\ budget' = [budget EXCEPT ![w] = RequestTimeout]
  /\ UNCHANGED <<status, attempts, sends, retired, hookState, workerBounds>>

\* RecordOutcome: unconditional on the row's status.
RecordOutcome(d, outcome, retryIn) ==
  /\ status' = [status EXCEPT ![d] = outcome]
  /\ attempts' = [attempts EXCEPT ![d] = @ + 1]
  /\ wait' = [wait EXCEPT ![d] = retryIn]

\* On to the next delivery of the batch.
GoOn(w) ==
  /\ held' = [held EXCEPT ![w] = Tail(@)]
  /\ sending' = [sending EXCEPT ![w] = IF Len(held[w]) = 1 THEN "idle" ELSE "claimed"]
  /\ budget' = [budget EXCEPT ![w] = IF Len(held[w]) = 1 THEN 0 ELSE RequestTimeout]

-----------------------------------------------------------------------------
(* Worker.attempt *)

HookOfCurrent(w) == HookOf[Current(w).delivery]

\* Mutant: a delivery of a disabled subscription is skipped.
SkipDisabled(w) ==
  /\ sending[w] = "claimed" /\ ~enabled[HookOfCurrent(w)]
  /\ GoOn(w)
  /\ UNCHANGED <<deliveryState, hookState, workerBounds>>

\* The subscription is disabled: the delivery is retired, not sent.
Retire(w) ==
  /\ sending[w] = "claimed" /\ ~enabled[HookOfCurrent(w)]
  /\ RecordOutcome(Current(w).delivery, "failed", 0)
  /\ retired' = retired \union {Current(w).delivery}
  /\ GoOn(w)
  /\ UNCHANGED <<sends, hookState, workerBounds>>

StartSend(w) ==
  /\ sending[w] = "claimed" /\ enabled[HookOfCurrent(w)]
  /\ sends' = [sends EXCEPT ![Current(w).delivery] = @ + 1]
  /\ \E answer \in {"accepted", "refused"} : sending' = [sending EXCEPT ![w] = answer]
  /\ UNCHANGED <<status, attempts, wait, retired, hookState, held, budget, workerBounds>>

RecordDelivered(w) ==
  /\ sending[w] = "accepted"
  /\ RecordOutcome(Current(w).delivery, "delivered", 0)
  /\ sending' = [sending EXCEPT ![w] = "countSuccess"]
  /\ UNCHANGED <<sends, retired, hookState, held, budget, workerBounds>>

RecordSuccess(w) ==
  /\ sending[w] = "countSuccess"
  /\ failures' = [failures EXCEPT ![HookOfCurrent(w)] = 0]
  /\ GoOn(w)
  /\ UNCHANGED <<deliveryState, enabled, workerBounds>>

\* Mutant: one attempt too few.
LastButOne(n) == n >= MaxSends - 1

\* The decision is taken on the attempts read with the claim.
Exhausted(n) == n >= MaxSends

RecordRefused(w) ==
  LET n == Current(w).attempts + 1 IN
  /\ sending[w] = "refused"
  /\ IF Exhausted(n)
     THEN /\ RecordOutcome(Current(w).delivery, "failed", 0)
          /\ sending' = [sending EXCEPT ![w] = "countFailure"]
          /\ UNCHANGED <<held, budget>>
     ELSE /\ RecordOutcome(Current(w).delivery, "pending", Backoff)
          /\ GoOn(w)
  /\ UNCHANGED <<sends, retired, hookState, workerBounds>>

\* RecordFailure: count and disable in one statement.
RecordFailure(w) ==
  LET h == HookOfCurrent(w) IN
  /\ sending[w] = "countFailure"
  /\ failures' = [failures EXCEPT ![h] = @ + 1]
  /\ enabled' = [enabled EXCEPT ![h] = @ /\ failures[h] + 1 < FailureThreshold]
  /\ GoOn(w)
  /\ UNCHANGED <<deliveryState, workerBounds>>

\* A statement fails.  The worker gives up a delivery whose subscription it
\* cannot read; any other failure is logged, and the worker goes on as if the
\* row had been written: the delivery is due again when its lease ends.
StatementFails(w) ==
  /\ held[w] # <<>> /\ workerMishaps < MaxWorkerMishaps
  /\ workerMishaps' = workerMishaps + 1
  /\ \/ /\ sending[w] \in {"claimed", "countSuccess", "countFailure"}
        /\ GoOn(w)
     \/ /\ sending[w] = "refused" /\ ~Exhausted(Current(w).attempts + 1)
        /\ GoOn(w)
     \/ /\ sending[w] = "refused" /\ Exhausted(Current(w).attempts + 1)
        /\ sending' = [sending EXCEPT ![w] = "countFailure"]
        /\ UNCHANGED <<held, budget>>
     \/ /\ sending[w] = "accepted"
        /\ sending' = [sending EXCEPT ![w] = "countSuccess"]
        /\ UNCHANGED <<held, budget>>
  /\ UNCHANGED <<deliveryState, hookState, patch, replays, edits>>

\* The process dies with a batch in hand; the leases run out by themselves.
WorkerCrash(w) ==
  /\ held[w] # <<>> /\ workerMishaps < MaxWorkerMishaps
  /\ workerMishaps' = workerMishaps + 1
  /\ held' = [held EXCEPT ![w] = <<>>]
  /\ sending' = [sending EXCEPT ![w] = "idle"]
  /\ budget' = [budget EXCEPT ![w] = 0]
  /\ UNCHANGED <<deliveryState, hookState, patch, replays, edits>>

-----------------------------------------------------------------------------
(* The merchant *)

\* Mutant: a delivery in flight can be replayed too.
Anything(d) == status[d] # "absent"

\* status <> pending.
Replayable(d) == status[d] \in {"delivered", "failed"}

\* Mutant: the attempts of before the replay count.
KeptAttempts(d) == attempts[d]

ReplayAttempts(d) == 0

Replay(d) ==
  /\ Replayable(d) /\ replays < MaxReplays
  /\ status' = [status EXCEPT ![d] = "pending"]
  /\ attempts' = [attempts EXCEPT ![d] = ReplayAttempts(d)]
  /\ wait' = [wait EXCEPT ![d] = 0]
  /\ sends' = [sends EXCEPT ![d] = 0]
  /\ retired' = retired \ {d}
  /\ replays' = replays + 1
  /\ UNCHANGED <<hookState, workerState, patch, edits, workerMishaps>>

\* Patch: the subscription is read, edited in memory and written back whole.
\* Enabling it clears the failure count.
PatchReads(h) ==
  /\ patch = NoPatch /\ edits < MaxEdits
  /\ edits' = edits + 1
  /\ \E asks \in {"enable", "disable", "otherField"} :
       patch' = [hook |-> h, asks |-> asks, enabled |-> enabled[h], failures |-> failures[h]]
  /\ UNCHANGED <<deliveryState, hookState, workerState, replays, workerMishaps>>

PatchWrites ==
  /\ patch # NoPatch
  /\ enabled' = [enabled EXCEPT ![patch.hook] =
                   CASE patch.asks = "enable" -> TRUE
                     [] patch.asks = "disable" -> FALSE
                     [] OTHER -> patch.enabled]
  /\ failures' = [failures EXCEPT ![patch.hook] =
                    IF patch.asks = "enable" THEN 0 ELSE patch.failures]
  /\ patch' = NoPatch
  /\ UNCHANGED <<deliveryState, workerState, replays, edits, workerMishaps>>

-----------------------------------------------------------------------------
WorkerStep(w) ==
  \/ Retire(w) \/ StartSend(w) \/ RecordDelivered(w) \/ RecordSuccess(w)
  \/ RecordRefused(w) \/ RecordFailure(w)

WorkerNext ==
  \/ WorkerTick
  \/ \E w \in SendWorkers : ClaimDue(w) \/ WorkerStep(w) \/ StatementFails(w) \/ WorkerCrash(w)
  \/ \E d \in Deliveries : Arrives(d) \/ Replay(d)
  \/ \E h \in Hooks : PatchReads(h)
  \/ PatchWrites

WorkerSpec == WorkerInit /\ [][WorkerNext]_workerVars

-----------------------------------------------------------------------------
(* Properties *)

WorkerTypeOK ==
  /\ status \in [Deliveries -> {"absent", "pending", "delivered", "failed"}]
  /\ attempts \in [Deliveries -> Nat] /\ sends \in [Deliveries -> Nat]
  /\ wait \in [Deliveries -> Nat] /\ retired \subseteq Deliveries
  /\ enabled \in [Hooks -> BOOLEAN] /\ failures \in [Hooks -> Nat]
  /\ \A w \in SendWorkers :
       /\ held[w] \in Seq([delivery : Deliveries, attempts : Nat])
       /\ Len(held[w]) <= SendBatch
       /\ sending[w] \in {"idle", "claimed", "accepted", "refused", "countSuccess", "countFailure"}
       /\ (sending[w] = "idle") <=> (held[w] = <<>>)
       /\ budget[w] \in 0..RequestTimeout

\* Deliveries a worker holds and has not recorded an outcome for.
Open(w) ==
  {held[w][i] : i \in {n \in DOMAIN held[w] :
     n = 1 => sending[w] \notin {"countSuccess", "countFailure"}}}

\* Nobody but the worker that claimed a delivery sends it or changes its row
\* until the worker has recorded the outcome or died: the lease outlasts the
\* batch and a pending row cannot be replayed.
ClaimIsExclusive ==
  \A w \in SendWorkers : \A c \in Open(w) :
    /\ status[c.delivery] = "pending" /\ attempts[c.delivery] = c.attempts
    /\ wait[c.delivery] > 0
    /\ \A v \in SendWorkers \ {w} : c \notin Open(v)

\* A delivery is given up only after every attempt it is owed since it was
\* created or last replayed, unless its subscription was disabled; and it is
\* sent once more than that for each worker that died and each statement that
\* failed, at most.
FailedMeansExhausted ==
  \A d \in Deliveries :
    /\ status[d] = "failed" /\ d \notin retired => sends[d] >= MaxSends
    /\ sends[d] <= MaxSends + workerMishaps

\* A delivery is in one pair of hands, and is tried as often as it is owed.
WorkerSafe == ClaimIsExclusive /\ FailedMeansExhausted

\* Every delivery ends up delivered or failed, whatever the endpoint answers,
\* whoever dies and whether or not the subscription stays enabled.
DeliveryEnds ==
  \A d \in Deliveries : (status[d] = "pending") ~> (status[d] \in {"delivered", "failed"})
=============================================================================
