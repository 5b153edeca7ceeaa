------------------------------ MODULE Subscription ------------------------------
(***************************************************************************)
(* The subscription of one store: Stripe's events and their inbox          *)
(* (internal/webhookevents, handlers/webhooks/stripe.go), the dispatcher   *)
(* and its recovery cron (internal/billing/dispatch), the merchant's       *)
(* cancellations (subscription/cancel), and the crons that end a           *)
(* subscription (subscription/dunning, lifecycle, harddelete).  Stripe is  *)
(* external.  Periods are numbered; mail is left out.                      *)
(***************************************************************************)
EXTENDS Integers, Sequences, FiniteSets

CONSTANTS
  Merchants,           \* the merchant's cancel and save-offer requests
  RetryCap,            \* MaxRetries, of the endpoint and of the cron
  MaxBillEvents,       \* bound on the events Stripe gets to send
  MaxPeriods,          \* bound on the billing periods that end
  MaxBillingMishaps    \* bound on malformed events, failed calls and deaths

ASSUME BillingAssumption ==
  /\ RetryCap \in Nat \ {0} /\ MaxBillEvents \in Nat \ {0} /\ MaxPeriods \in Nat
  /\ MaxBillingMishaps \in Nat /\ IsFiniteSet(Merchants)

VARIABLES
  sub,        \* store_subscriptions: status, the period current_period_end closes
              \* (0 is NULL), and first_charge_at
  ripe,       \* the days the ladder and the crons wait for have passed
  ended,      \* billing periods that have ended
  provider,   \* external: Stripe's status, cancel_at_period_end and period
  sent,       \* external: the events of this customer, oldest first
  inbox,      \* stripe_webhook_events: a row for each event
  handling,   \* the endpoint's request and the cron's pass
  asked,      \* each merchant request: its step and what it read
  found,      \* the status under which a lifecycle cron has the row in its list
  promised,   \* history: the period end Stripe gave with the last cancellation
  misdated,   \* history: that date was not persisted, an older event replaced it, or
              \* the finalize cron had the row in its list by an earlier date
  crossed,    \* history: two requests overlapped, or an accepted offer was cut short
  cutShort,   \* history: a cron ended the access before the promised date
  billingMishaps
billingVars == <<sub, ripe, ended, provider, sent, inbox, handling, asked, found, promised,
                 misdated, crossed, cutShort, billingMishaps>>

Handlers == {"endpoint", "cron"}
NoEventYet == 0
NotArrived == [received |-> 0, attributed |-> FALSE, processed |-> FALSE, retries |-> 0,
               review |-> FALSE]
AtRest == [at |-> "rest", event |-> NoEventYet, row |-> NotArrived, rest |-> {}]
NotAsked == [at |-> "new", kind |-> "cancel", from |-> "active", to |-> "active", ends |-> 0]
Message(kind, period, bad) == [kind |-> kind, period |-> period, bad |-> bad]

BillingInit ==
  /\ \/ /\ sub = [status |-> "signup", ends |-> 0, charged |-> "never"]
        /\ sent \in {<<Message("checkout", 1, bad)>> : bad \in BOOLEAN}
     \/ /\ sub \in [status : {"trialing", "active"}, ends : {0}, charged : {"never"}]
        /\ sent = <<>>
  /\ provider = [status |-> IF sub.status = "active" THEN "active" ELSE "trialing",
                 atEnd |-> FALSE, period |-> 1]
  /\ ripe = FALSE /\ ended = 0
  /\ inbox = [n \in 1..MaxBillEvents |-> NotArrived]
  /\ handling = [h \in Handlers |-> AtRest]
  /\ asked = [m \in Merchants |-> NotAsked]
  /\ found = "none" /\ promised = 0
  /\ misdated = FALSE /\ crossed = FALSE /\ cutShort = FALSE
  /\ billingMishaps = 0

BillingMishap == billingMishaps < MaxBillingMishaps /\ billingMishaps' = billingMishaps + 1

\* statemachine.Transition: one UPDATE that compares the status it moves from.
Moved(row, from, to) == IF row.status = from THEN [row EXCEPT !.status = to] ELSE row
StillRipe == ripe' = (ripe /\ sub'.status = sub.status)

-----------------------------------------------------------------------------
(* Stripe, and the passing of time *)

\* An event past the bound is one that never arrives.
Send(kind, period) ==
  IF Len(sent) = MaxBillEvents THEN UNCHANGED <<sent, billingMishaps>>
  ELSE \/ sent' = Append(sent, Message(kind, period, FALSE)) /\ UNCHANGED billingMishaps
       \/ sent' = Append(sent, Message(kind, period, TRUE)) /\ BillingMishap

PeriodPasses ==
  /\ ended < MaxPeriods /\ ended < provider.period /\ provider.status # "canceled"
  /\ ended' = ended + 1
  /\ UNCHANGED <<sub, ripe, provider, sent, inbox, handling, asked, found, promised, misdated,
                 crossed, cutShort, billingMishaps>>

StripeActs ==
  /\ provider.status # "canceled"
  /\ \/ /\ provider.period <= ended /\ provider.atEnd
        /\ provider' = [provider EXCEPT !.status = "canceled"] /\ Send("deleted", provider.period)
     \/ /\ provider.period <= ended /\ ~provider.atEnd
        /\ provider' = [provider EXCEPT !.period = @ + 1,
                                        !.status = IF @ = "trialing" THEN "active" ELSE @]
        /\ Send("updated", provider.period + 1)
     \/ /\ provider.status # "trialing"
        /\ \/ provider' = [provider EXCEPT !.status = "active"] /\ Send("paid", provider.period)
           \/ /\ provider' = [provider EXCEPT !.status = "past_due"]
              /\ \E kind \in {"failed", "actionRequired"} : Send(kind, provider.period)
     \/ /\ provider.status = "past_due"
        /\ provider' = [provider EXCEPT !.status = "canceled"] /\ Send("deleted", provider.period)
     \/ UNCHANGED provider /\ Send("updated", provider.period)
  /\ UNCHANGED <<sub, ripe, ended, inbox, handling, asked, found, promised, misdated, crossed,
                 cutShort>>

\* Eight days past due, fourteen expired, ninety closed; the refund window ends.
DaysPass ==
  /\ sub.status \in {"past_due", "expired", "store_closed", "pending_hard_delete"}
  /\ ripe' = TRUE
  /\ sub' \in {sub, [sub EXCEPT !.charged = IF @ = "lately" THEN "long ago" ELSE @]}
  /\ UNCHANGED <<ended, provider, sent, inbox, handling, asked, found, promised, misdated,
                 crossed, cutShort, billingMishaps>>

-----------------------------------------------------------------------------
(* The webhook endpoint and the recovery cron *)

Unsettled(n) == inbox[n].received > 0 /\ ~inbox[n].processed /\ ~inbox[n].review

\* Mutant: the recovery cron looks for events without a store.
OrphansOnly(n) == Unsettled(n) /\ ~inbox[n].attributed

GetUnprocessed(n) == Unsettled(n)

\* Rows are numbered in the order of received_at; a repeated event keeps its row.
Received == {n \in 1..MaxBillEvents : inbox[n].received > 0}
ReceivedAt(n) == IF n \in Received THEN inbox[n].received ELSE Cardinality(Received) + 1

\* Stripe may send any event again, and may stop.
Receive(n) ==
  LET row == inbox[n]
      Arrived == inbox' = [inbox EXCEPT ![n].received = ReceivedAt(n)]
  IN
  /\ handling["endpoint"].at = "rest" /\ n \in DOMAIN sent
  /\ ~(row.processed \/ row.review \/ row.retries >= RetryCap)
  /\ \/ /\ inbox' = [inbox EXCEPT ![n].received = ReceivedAt(n), ![n].attributed = TRUE]
        /\ handling' = [handling EXCEPT !["endpoint"] = [AtRest EXCEPT !.at = "dispatch", !.event = n]]
        /\ UNCHANGED billingMishaps
     \/ Arrived /\ BillingMishap /\ UNCHANGED handling
  /\ UNCHANGED <<sub, ripe, ended, provider, sent, asked, found, promised, misdated, crossed, cutShort>>

\* The cron goes on with the rest of the rows it read, the oldest first.
FirstReceived(rows) == CHOOSE n \in rows : \A o \in rows : inbox[n].received <= inbox[o].received
Takes(rows) ==
  IF rows = {} THEN AtRest
  ELSE [AtRest EXCEPT !.at = "dispatch", !.event = FirstReceived(rows),
                      !.rest = rows \ {FirstReceived(rows)}]
After(h) == Takes(handling[h].rest)

RunOnce ==
  LET pending == {n \in 1..MaxBillEvents : GetUnprocessed(n)} IN
  /\ handling["cron"].at = "rest" /\ pending # {}
  /\ handling' = [handling EXCEPT !["cron"] = Takes(pending)]
  /\ UNCHANGED <<sub, ripe, ended, provider, sent, inbox, asked, found, promised, misdated,
                 crossed, cutShort, billingMishaps>>

ValidFrom(kind) ==
  CASE kind = "failed"         -> {"active", "payment_action_required"}
    [] kind = "actionRequired" -> {"active"}
    [] kind = "deleted"        -> {"past_due", "cancel_scheduled", "trialing"}
    [] kind = "checkout"       -> {"signup"}
    [] OTHER                   -> {}
MovesTo(kind) ==
  CASE kind = "failed"         -> "past_due"
    [] kind = "actionRequired" -> "payment_action_required"
    [] kind = "deleted"        -> "expired"
    [] OTHER                   -> "trialing"

\* What an event does to the row: the handlers of the dispatcher.
Effect(e) ==
  CASE e.kind = "updated" -> [sub EXCEPT !.ends = e.period]
    [] e.kind = "paid"    -> [sub EXCEPT !.charged = IF @ = "never" THEN "lately" ELSE @]
    [] sub.status \in ValidFrom(e.kind) -> [sub EXCEPT !.status = MovesTo(e.kind)]
    [] OTHER -> sub

\* The handler and processed_at in one transaction, under the store's lock.  A
\* row the other path has processed since it was read is dispatched again.
DispatchLocked(h) ==
  LET n == handling[h].event  e == sent[n] IN
  /\ handling[h].at = "dispatch"
  /\ \/ /\ ~e.bad
        /\ sub' = Effect(e) /\ StillRipe
        /\ misdated' = (misdated \/ (e.kind = "updated" /\ e.period < sub.ends))
        /\ inbox' = [inbox EXCEPT ![n].processed = TRUE]
        /\ handling' = [handling EXCEPT ![h] = After(h)]
        /\ UNCHANGED billingMishaps
     \/ /\ IF e.bad THEN UNCHANGED billingMishaps ELSE BillingMishap
        /\ handling' = [handling EXCEPT ![h].at = "count"]
        /\ UNCHANGED <<sub, ripe, misdated, inbox>>
  /\ UNCHANGED <<ended, provider, sent, asked, found, promised, crossed, cutShort>>

\* IncrementRetry reads the row, and saves all of it.
ReadRetries(h) ==
  /\ handling[h].at = "count"
  /\ handling' = [handling EXCEPT ![h].at = "save", ![h].row = inbox[handling[h].event]]
  /\ UNCHANGED <<sub, ripe, ended, provider, sent, inbox, asked, found, promised, misdated,
                 crossed, cutShort, billingMishaps>>

SaveRetries(h) ==
  LET retries == handling[h].row.retries + 1 IN
  /\ handling[h].at = "save"
  /\ inbox' = [inbox EXCEPT ![handling[h].event] = [handling[h].row EXCEPT !.retries = retries]]
  /\ handling' = [handling EXCEPT ![h] =
       IF retries >= RetryCap THEN [@ EXCEPT !.at = "flag", !.row = NotArrived] ELSE After(h)]
  /\ UNCHANGED <<sub, ripe, ended, provider, sent, asked, found, promised, misdated, crossed,
                 cutShort, billingMishaps>>

FlagManualReview(h) ==
  /\ handling[h].at = "flag"
  /\ inbox' = [inbox EXCEPT ![handling[h].event].review = TRUE]
  /\ handling' = [handling EXCEPT ![h] = After(h)]
  /\ UNCHANGED <<sub, ripe, ended, provider, sent, asked, found, promised, misdated, crossed,
                 cutShort, billingMishaps>>

HandlerDies(h) ==
  /\ handling[h].at # "rest" /\ BillingMishap
  /\ handling' = [handling EXCEPT ![h] = AtRest]
  /\ UNCHANGED <<sub, ripe, ended, provider, sent, inbox, asked, found, promised, misdated,
                 crossed, cutShort>>

-----------------------------------------------------------------------------
(* The merchant cancels, and accepts the offer to stay *)

InFlight(m) == asked[m].at \in {"stripe", "persist", "move"}
Cancellable == sub.status \in {"active", "trialing"}

AskCancel(m, kind) ==
  /\ asked[m].at = "new"
  /\ IF kind = "cancel" THEN Cancellable ELSE sub.status = "cancel_scheduled"
  /\ asked' = [asked EXCEPT ![m] = [NotAsked EXCEPT !.at = "stripe", !.kind = kind,
                                      !.from = sub.status]]
  /\ crossed' = (crossed \/ \E o \in Merchants : InFlight(o))
  /\ UNCHANGED <<sub, ripe, ended, provider, sent, inbox, handling, found, promised, misdated,
                 cutShort, billingMishaps>>

\* Mutant: the request goes on when Stripe could not be reached.
CarriedOn(m) == "move"

AfterFailure(m) == "over"

\* CancelAtPeriodEnd or Resume.  A call that fails may have been applied.
CallStripe(m) ==
  LET cancel == asked[m].kind = "cancel"
      Obeyed == /\ provider.status # "canceled"
                /\ provider' = [provider EXCEPT !.atEnd = cancel]
      Goes(step) == asked' = [asked EXCEPT ![m].at = step, ![m].ends = provider.period,
           ![m].to = IF cancel THEN "cancel_scheduled"
                     ELSE IF provider.status = "trialing" THEN "trialing" ELSE "active"]
  IN
  /\ asked[m].at = "stripe"
  /\ \/ /\ Obeyed /\ Goes(IF cancel THEN "persist" ELSE "move")
        /\ promised' = (IF cancel THEN provider.period ELSE promised)
        /\ misdated' = IF cancel THEN found = "cancel_scheduled" ELSE misdated
        /\ UNCHANGED <<crossed, billingMishaps>>
     \/ /\ IF provider.status = "canceled" THEN UNCHANGED billingMishaps ELSE BillingMishap
        /\ Obeyed \/ UNCHANGED provider
        /\ crossed' = (crossed \/ provider'.atEnd # provider.atEnd)
        /\ Goes(AfterFailure(m))
        /\ UNCHANGED <<promised, misdated>>
  /\ UNCHANGED <<sub, ripe, ended, sent, inbox, handling, found, cutShort>>

\* Mutant: the date the row has is left as it is.
KeepsDate(m) == sub.ends

StripeDate(m) == asked[m].ends

\* persistCancellationSchedule; a failure is logged and the request goes on.
PersistSchedule(m) ==
  /\ asked[m].at = "persist"
  /\ \/ sub' = [sub EXCEPT !.ends = StripeDate(m)] /\ UNCHANGED <<misdated, billingMishaps>>
     \/ BillingMishap /\ misdated' = TRUE /\ UNCHANGED sub
  /\ asked' = [asked EXCEPT ![m].at = "move"]
  /\ UNCHANGED <<ripe, ended, provider, sent, inbox, handling, found, promised, crossed, cutShort>>

MoveStatus(m) ==
  /\ asked[m].at = "move"
  /\ sub' = Moved(sub, asked[m].from, asked[m].to) /\ StillRipe
  /\ asked' = [asked EXCEPT ![m].at = "over"]
  /\ UNCHANGED <<ended, provider, sent, inbox, handling, found, promised, misdated, crossed,
                 cutShort, billingMishaps>>

RequestDies(m) ==
  /\ InFlight(m) /\ BillingMishap
  /\ asked' = [asked EXCEPT ![m].at = "over"]
  /\ crossed' = (crossed \/ asked[m].at # "stripe")
  /\ UNCHANGED <<sub, ripe, ended, provider, sent, inbox, handling, found, promised, misdated, cutShort>>

-----------------------------------------------------------------------------
(* The ladder and the lifecycle crons *)

Follows(status) ==
  CASE status \in {"past_due", "cancel_scheduled"} -> "expired"
    [] status = "expired"      -> "store_closed"
    [] status = "store_closed" -> "pending_hard_delete"

\* stepOne reads the row again under the store's lock.
Ladder ==
  /\ ripe /\ sub.status \in {"past_due", "expired", "store_closed"}
  /\ sub.status = "past_due" => sub.charged # "lately"
  /\ sub' = [sub EXCEPT !.status = Follows(@)] /\ StillRipe
  /\ UNCHANGED <<ended, provider, sent, inbox, handling, asked, found, promised, misdated,
                 crossed, cutShort, billingMishaps>>

\* FinalizeCron, CloseCron and QueueHardDeleteCron read their rows, and then move
\* each by its status alone.
FindRow ==
  /\ found = "none"
  /\ \/ sub.status = "cancel_scheduled" /\ sub.ends <= ended
     \/ sub.status \in {"expired", "store_closed"} /\ ripe
  /\ found' = sub.status
  /\ UNCHANGED <<sub, ripe, ended, provider, sent, inbox, handling, asked, promised, misdated,
                 crossed, cutShort, billingMishaps>>

MoveRow ==
  /\ found # "none"
  /\ sub' = Moved(sub, found, Follows(found)) /\ StillRipe
  /\ cutShort' = \/ cutShort
                  \/ /\ sub.status = "cancel_scheduled" /\ found = sub.status
                     /\ promised > ended /\ ~misdated /\ ~crossed
  /\ found' = "none"
  /\ UNCHANGED <<ended, provider, sent, inbox, handling, asked, promised, misdated, crossed,
                 billingMishaps>>

\* The customer is deleted at Stripe, and with it the subscription.
HardDelete ==
  /\ sub.status = "pending_hard_delete" /\ ripe
  /\ sub' = [sub EXCEPT !.status = "hard_deleted"] /\ StillRipe
  /\ provider' = [provider EXCEPT !.status = "canceled"]
  /\ UNCHANGED <<ended, sent, inbox, handling, asked, found, promised, misdated, crossed,
                 cutShort, billingMishaps>>

Handling(h) == DispatchLocked(h) \/ ReadRetries(h) \/ SaveRetries(h) \/ FlagManualReview(h)
Asking(m) == CallStripe(m) \/ PersistSchedule(m) \/ MoveStatus(m)

BillingNext ==
  \/ PeriodPasses \/ StripeActs \/ DaysPass \/ RunOnce
  \/ \E n \in 1..MaxBillEvents : Receive(n)
  \/ \E h \in Handlers : Handling(h) \/ HandlerDies(h)
  \/ \E m \in Merchants, kind \in {"cancel", "accept"} : AskCancel(m, kind)
  \/ \E m \in Merchants : Asking(m) \/ RequestDies(m)
  \/ Ladder \/ FindRow \/ MoveRow \/ HardDelete

BillingSpec == BillingInit /\ [][BillingNext]_billingVars

-----------------------------------------------------------------------------
(* Properties *)

Statuses == {"signup", "trialing", "active", "past_due", "payment_action_required",
             "cancel_scheduled", "expired", "store_closed", "pending_hard_delete", "hard_deleted"}

BillingTypeOK ==
  /\ sub.status \in Statuses /\ sub.ends \in 0..(MaxPeriods + 1)
  /\ sub.charged \in {"never", "lately", "long ago"}
  /\ provider.status \in {"trialing", "active", "past_due", "canceled"}
  /\ provider.period \in ended..(ended + 1) /\ Len(sent) <= MaxBillEvents
  /\ \A n \in 1..MaxBillEvents : inbox[n].retries \in Nat /\ (inbox[n].received > 0 => n <= Len(sent))
  /\ \A h \in Handlers : handling[h].at \in {"rest", "dispatch", "count", "save", "flag"}
  /\ \A m \in Merchants : asked[m].at \in {"new", "stripe", "persist", "move", "over"}
  /\ found \in Statuses \union {"none"} /\ promised \in 0..(MaxPeriods + 1)

\* A store that is to be cancelled is to be cancelled at Stripe too, except while
\* an accepted offer is being recorded, and after requests that crossed.
CancelReachesStripe ==
  sub.status = "cancel_scheduled" /\ ~crossed
      /\ ~(\E m \in Merchants : InFlight(m) /\ asked[m].kind = "accept") =>
    provider.atEnd \/ provider.status = "canceled"

\* A merchant who cancels keeps the access until the date Stripe gave, unless
\* that date was lost, an older event put another in its place, or the finalize
\* cron had the row in its list from a cancellation since taken back.
KeptToPeriodEnd == ~cutShort

\* A cancellation stops the charges, and stops nothing else before its time.
BillingSafe == CancelReachesStripe /\ KeptToPeriodEnd

\* What the transition table and the invoice handler say of a payment that
\* succeeds on a retry: the store is active again, so a store Stripe holds to be
\* paid, all of whose events are processed, is not expired for being past due.
PaidNotExpired ==
  [][ sub.status = "past_due" /\ sub'.status = "expired" /\ provider.status = "active" =>
        \E n \in DOMAIN sent : ~inbox[n].processed ]_billingVars
=============================================================================
