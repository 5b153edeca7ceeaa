------------------------------ MODULE MCMessages ------------------------------
(***************************************************************************)
(* One instance of everything that carries a committed fact to somebody    *)
(* else: the outbox publishers, the webhook dispatcher over the same rows, *)
(* the delivery workers, and platform-api's drainer.  A behaviour is one   *)
(* of them at work; the others stay in their initial states.               *)
(***************************************************************************)
EXTENDS WebhookDispatch, WebhookWorker, PlatformOutbox

VARIABLE component

messageVars == <<component, outboxVars, dispatchVars, workerVars, drainVars>>

\* Events 1 and 2 move one watermark; event 3 is of a tenant the poll takes first.
InBucket == [e \in Events |-> IF e = 3 THEN "orders" ELSE "products"]
InTenant == [e \in Events |-> IF e = 3 THEN 0 ELSE 1]
Matching == [e \in Events |-> IF e = 1 THEN {"s", "t"} ELSE {"s"}]
OneHook == [d \in Deliveries |-> "s"]

MessageInit ==
  /\ component \in {"outbox", "dispatcher", "worker", "drainer"}
  /\ OutboxInit /\ DispatchInit /\ WorkerInit /\ DrainInit

\* Bounds: one mishap, retry or edit per behaviour; two rows for the dispatcher,
\* whose replicas take turns once an operator writes, and for a drainer that dies.
OutboxBound == clock' <= 3 /\ requeues' + aborts' <= 1
DispatchBound ==
  /\ visible'[3] = "absent" /\ requeues' + tickFailures' <= 1
  /\ requeues' = 0 \/ Cardinality({r \in Dispatchers : tick'[r] # Resting}) <= 1
DrainBound == drainMishaps' = 0 \/ state'[2] = "absent"
WorkerBound == replays' + edits' + workerMishaps' <= 1

MessageNext ==
  \/ /\ component = "outbox" /\ OutboxNext /\ OutboxBound
     /\ UNCHANGED <<component, dispatchVars, workerVars, drainVars>>
  \/ /\ component = "dispatcher" /\ DispatchNext /\ DispatchBound
     /\ UNCHANGED <<component, workerVars, drainVars>>
  \/ /\ component = "worker" /\ WorkerNext /\ WorkerBound
     /\ UNCHANGED <<component, outboxVars, dispatchVars, drainVars>>
  \/ /\ component = "drainer" /\ DrainNext /\ DrainBound
     /\ UNCHANGED <<component, outboxVars, dispatchVars, workerVars>>

\* Each loop of a live replica goes on, transactions end, and time passes.
MessageFairness ==
  /\ \A p \in Publishers : WF_outboxVars(component = "outbox" /\ Publishing(p))
  /\ WF_outboxVars(component = "dispatcher" /\ Passes)
  /\ WF_outboxVars(component = "dispatcher" /\ \E e \in Events : BusinessEnds(e))
  /\ WF_outboxVars(component = "dispatcher" /\ (RequeueOne \/ DeadLetterOne \/ OperatorRefused))
  /\ \A r \in Dispatchers : WF_dispatchVars(component = "dispatcher" /\ Dispatching(r))
  /\ WF_workerVars(component = "worker" /\ WorkerTick)
  /\ \A w \in SendWorkers :
       /\ WF_workerVars(component = "worker" /\ ClaimDue(w))
       /\ WF_workerVars(component = "worker" /\ WorkerStep(w))
  /\ WF_drainVars(component = "drainer" /\ DrainClock)
  /\ \A d \in Drainers :
       /\ WF_drainVars(component = "drainer" /\ Claim(d))
       /\ WF_drainVars(component = "drainer" /\ DrainStep(d))

\* Rows, cursors, batches, leases and counters have their types; no batch is
\* longer than its limit.
MessageTypeOK == OutboxTypeOK /\ DispatchTypeOK /\ WorkerTypeOK /\ DrainTypeOK

\* No step takes back what was done: cursors do not walk back and settled
\* events of the platform outbox stay settled.
NothingUndone == CursorsAdvance /\ SettledIsFinal

\* Everything committed arrives: outbox rows are published and dispatched,
\* deliveries and platform events end, each where its loop is at work.
EverythingArrives ==
  /\ component = "outbox" => EventsPublished
  /\ component = "dispatcher" => EventuallyDispatched
  /\ DeliveryEnds
  /\ EffectSettles

MessageSpec == MessageInit /\ [][MessageNext]_messageVars /\ MessageFairness
=============================================================================
