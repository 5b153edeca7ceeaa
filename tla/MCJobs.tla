-------------------------------- MODULE MCJobs --------------------------------
(***************************************************************************)
(* One instance of the work that goes on behind the merchant's back: the   *)
(* CSV importer, the campaign sender, the trial and the subscription with  *)
(* their crons, and, for what must eventually end there, checkouts that    *)
(* lock several stock rows and the sweep that finishes refunds.  A         *)
(* behaviour is one of them at work; the others stay as they began.        *)
(***************************************************************************)
EXTENDS CsvImport, Campaign, Trial, Subscription, RefundSaga

VARIABLES
  component,
  quantity, holds, ordered, stocked, recounts, now, step, cart, todo, totals, begun, locked,
  taken, written

-----------------------------------------------------------------------------
(* Two checkouts of two variants, in either order, and the carts' holds *)

Line(v, n) == [variant |-> v, qty |-> n]
BothRows == {<<"v1", "main">>, <<"v2", "main">>}
RowRank == [r \in BothRows |-> IF r[1] = "v1" THEN 1 ELSE 2]
OnlyMain == [w \in {"main"} |-> 1]
TwoOfEach == [r \in BothRows |-> 2]
HoldEither == {<<Line("v1", 1)>>, <<Line("v2", 1)>>}
OrderEitherWay == {<<Line("v1", 1), Line("v2", 1)>>, <<Line("v2", 1), Line("v1", 1)>>}

Stock == INSTANCE StockHold WITH
  Carts <- {"c1", "c2"}, Sessions <- {1, 2}, None <- "nobody",
  Variants <- {"v1", "v2"}, Warehouses <- {"main"}, FillRank <- OnlyMain,
  DefaultWarehouse <- "main", StockRows <- BothRows, LockRank <- RowRank, PastZero <- {},
  CartRequests <- HoldEither, OrderRequests <- OrderEitherWay, InitialQuantity <- TwoOfEach,
  HoldTTL <- 1, SweepGrace <- 1, MaxTime <- 0, MaxRecount <- 1, MaxRecounts <- 0,
  SharedCart <- FALSE

-----------------------------------------------------------------------------
(* Two refunds of one order, a part of it and the rest, and two sweeps *)

OneThenAll == [k \in Scopes |-> IF k = 1 THEN 1 ELSE All]
NoCards == <<>>
NothingApplied == [c \in {} |-> 0]

-----------------------------------------------------------------------------
(* The instances of the other modules, and their bounds *)

\* Job 1 imports f, job 2 imports g; both files have the product b.
JobFile == <<"f", "g">>
FileRows ==
  [f |-> <<[handle |-> "a", last |-> 1], [handle |-> "b", last |-> 3], [handle |-> "c", last |-> 4]>>,
   g |-> <<[handle |-> "b", last |-> 1]>>]

\* Two extensions under one key, and two subscribe requests for different plans.
OneKey == [x \in Extensions |-> "k1"]
Ends == [x \in Extensions |-> x + 1]
TwoPlans == [m \in Joins |-> IF m = 1 THEN "starter" ELSE "pro"]

\* A second job leaves one ask or one mishap; two senders at work, one event less.
ImportBound == job'[2].status = "absent" \/ asks' + importMishaps' <= 1
CampaignBound ==
  LET events == creations' + campaignAsks' + sendMishaps' IN
  \/ events <= 3
  \/ events <= 4 /\ Cardinality({s \in Senders : sender'[s].at \notin {"poll", "down"}}) <= 1

\* Either Stripe's events and no merchant, or the merchant with one event that
\* the handlers can read and nothing failing in the inbox.
Closing == {"store_closed", "pending_hard_delete", "hard_deleted"}
InboxOnly ==
  /\ \A m \in Merchants : asked'[m] = NotAsked
  /\ ended' = 0 /\ found' = "none" /\ sub'.status \notin Closing
  /\ Len(sent) = MaxBillEvents => UNCHANGED provider
MerchantAsks ==
  /\ Len(sent') <= 1 /\ \A n \in DOMAIN sent' : ~sent'[n].bad
  /\ \A h \in Handlers : handling'[h].at \in {"rest", "dispatch"}
  /\ sub'.status \in Closing => sent' = <<>> /\ billingMishaps' = 0
  /\ sub.status \in Closing \union {"expired"} => UNCHANGED <<asked, ended>>
BillingBound == InboxOnly \/ MerchantAsks

-----------------------------------------------------------------------------

stockVars == <<quantity, holds, ordered, stocked, recounts, now, step, cart, todo, totals, begun,
               locked, taken, written>>
jobVars == <<component, stockVars, refundVars, importVars, campaignVars, trialVars, billingVars>>

JobsInit ==
  /\ component \in {"stock", "refunds", "import", "campaign", "trial", "billing"}
  /\ Stock!Init /\ RefundInit /\ ImportInit /\ CampaignInit /\ TrialInit
  /\ IF component = "billing" THEN BillingInit
     ELSE BillingInit /\ sent = <<>> /\ sub.status = "active"

JobsNext ==
  \/ /\ component = "stock" /\ Stock!Next
     /\ UNCHANGED <<component, refundVars, importVars, campaignVars, trialVars, billingVars>>
  \/ /\ component = "refunds" /\ RefundNext
     /\ UNCHANGED <<component, stockVars, importVars, campaignVars, trialVars, billingVars>>
  \/ /\ component = "import" /\ ImportNext /\ ImportBound
     /\ UNCHANGED <<component, stockVars, refundVars, campaignVars, trialVars, billingVars>>
  \/ /\ component = "campaign" /\ CampaignNext /\ CampaignBound
     /\ UNCHANGED <<component, stockVars, refundVars, importVars, trialVars, billingVars>>
  \/ /\ component = "trial" /\ TrialNext
     /\ UNCHANGED <<component, stockVars, refundVars, importVars, campaignVars, billingVars>>
  \/ /\ component = "billing" /\ BillingNext /\ BillingBound
     /\ UNCHANGED <<component, stockVars, refundVars, importVars, campaignVars, trialVars>>

\* A statement of a stock transaction that can run again and again, and a phase of
\* a sweep however often its run is cut off (the fairness of StockHold and of
\* RefundSaga; one of the two is at work, so one condition serves both).
Granted(i) ==
  /\ component = "stock" /\ i \in {1, 2} /\ Stock!Statement(i)
  /\ UNCHANGED <<component, refundVars>>
Sweeping(phase) ==
  /\ component = "refunds"
  /\ \E k \in Scopes :
       CASE phase = 1 -> SweepLoadOrder(1, k)
         [] phase = 2 -> SweepReadCards(1, k)
         [] phase = 3 -> SweepSplit(1, k)
         [] phase = 4 -> SweepGatewayAccepts(1, k) \/ SweepGatewayRefuses(1, k)
         [] phase = 5 -> SweepMarkFailed(1, k) \/ SweepSettle(1, k)
  /\ UNCHANGED <<component, stockVars>>
Persists(i) == SF_<<component, stockVars, refundVars>>(Granted(i) \/ Sweeping(i))

\* Live replicas go on, crons come round and rows grow old.  Nobody owes a request,
\* a click or a delivery.
JobsFairness ==
  /\ Persists(1) /\ Persists(2) /\ Persists(3) /\ Persists(4) /\ Persists(5)
  /\ \A g \in {1, 2} : WF_refundVars(component = "refunds" /\ SagaStep(g))
  /\ \A k \in Scopes : WF_refundVars(component = "refunds" /\ Age(k))
  /\ WF_refundVars(component = "refunds" /\ SweepClaim(1))
  /\ \A p \in Pods : WF_importVars(component = "import" /\ PodStep(p))
  /\ \A s \in Senders : WF_campaignVars(component = "campaign" /\ SenderStep(s))
  /\ WF_trialVars(component = "trial" /\ ListEnded)
  /\ WF_trialVars(component = "trial" /\ ExpireTrial)
  /\ \A x \in Extensions : WF_trialVars(component = "trial" /\ ExtensionStep(x))
  /\ \A m \in Joins : WF_trialVars(component = "trial" /\ JoinStep(m))
  /\ WF_billingVars(component = "billing" /\ RunOnce)
  /\ \A h \in Handlers : WF_billingVars(component = "billing" /\ Handling(h))

\* Rows, requests, workers and counters have their types, in every component.
JobsTypeOK == ImportTypeOK /\ CampaignTypeOK /\ TrialTypeOK /\ BillingTypeOK

Begun(i) ==
  CASE component = "stock"    -> ~Stock!Idle(i)
    [] component = "refunds"  -> ledger[i].status = "pending"
    [] component = "import"   -> job[i].status = "queued"
    [] component = "campaign" -> campaign.status = "sending"
    [] component = "trial"    -> trial.status = "trialing" /\ EndedCardless
    [] component = "billing"  -> Unsettled(i)

Over(i) == IF component = "import" THEN ImportOver(i) ELSE ~Begun(i)

\* What was begun ends: every stock transaction, every refund reserved, every job
\* queued, every campaign sending, every trial past its end without a card, every
\* event of Stripe that arrived.
JobsEnd == \A i \in {1, 2} : Begun(i) ~> Over(i)

JobsSpec == JobsInit /\ [][JobsNext]_jobVars /\ JobsFairness
=============================================================================
