--------------------------------- MODULE Trial ---------------------------------
(***************************************************************************)
(* The trial of one store (internal/billing/trial): operators extend it    *)
(* under an idempotency key (internal/idempotency), the merchant adds a    *)
(* card and subscribes, and a nightly cron expires what has ended.  Stripe *)
(* is external.  Dates are days, and no request lasts over midnight.       *)
(***************************************************************************)
EXTENDS Integers, FiniteSets

CONSTANTS
  Extensions,      \* the operators' requests
  ExtensionKey,    \* the Idempotency-Key of each, scoped to the store
  Target,          \* the trial end each asks for
  Joins,           \* the merchant's subscribe requests
  PlanOf,          \* the plan each chooses
  FirstEnd,        \* created_at + TrialDays
  LastDay,         \* bound on the days that pass
  MaxTrialMishaps  \* bound on deaths of requests and failed calls

ExtensionKeys == {ExtensionKey[x] : x \in Extensions}
Plans == {PlanOf[m] : m \in Joins}

ASSUME TrialAssumption ==
  /\ Target \in [Extensions -> Nat] /\ FirstEnd \in Nat /\ LastDay \in Nat
  /\ MaxTrialMishaps \in Nat /\ IsFiniteSet(Extensions) /\ IsFiniteSet(Joins)

VARIABLES
  today,
  trial,       \* store_subscriptions: status, trial_ends_at, stripe_subscription_id
  stripe,      \* external: the subscription of each plan, its status and trial_end
  idemKey,     \* idempotency_keys: state, response, and whether it has expired
  extension,   \* an operator's request: its step and its answer
  joining,     \* a subscribe request: its step and the end it read
  listed,      \* the expiry cron has the row in its list
  worked,      \* history: extensions committed under a key since it was last free
  granted,     \* history: <<key, end>> committed
  overlapped,  \* history: an extension committed between a subscribe's read and write
  trialMishaps
trialVars == <<today, trial, stripe, idemKey, extension, joining, listed, worked, granted,
               overlapped, trialMishaps>>

NoPlan == "none"
NoAnswer == 0
Free == [state |-> "free", answer |-> NoAnswer, expired |-> FALSE]

TrialInit ==
  /\ today = 0
  /\ trial = [status |-> "trialing", end |-> FirstEnd, billed |-> NoPlan]
  /\ stripe = [p \in Plans |-> [status |-> "none", end |-> 0]]
  /\ idemKey = [k \in ExtensionKeys |-> Free]
  /\ extension = [x \in Extensions |-> [at |-> "new", answer |-> NoAnswer]]
  /\ joining = [m \in Joins |-> [at |-> "new", end |-> 0]]
  /\ listed = FALSE /\ worked = [k \in ExtensionKeys |-> 0] /\ granted = {}
  /\ overlapped = FALSE /\ trialMishaps = 0

\* Extend holds the row from its SELECT FOR UPDATE to its commit; Subscribe and
\* Transition hold the store's advisory lock.
RowLocked == \E x \in Extensions : extension[x].at \in {"stripe", "update", "write"}
AdvisoryHeld == \E m \in Joins : joining[m].at \in {"create", "persist"}
Quiet ==
  /\ \A x \in Extensions : extension[x].at \in {"new", "over"}
  /\ \A m \in Joins : joining[m].at \in {"new", "over"}
  /\ ~listed

MovesOn(x, step) == extension' = [extension EXCEPT ![x].at = step]
Answers(x, answer) == extension' = [extension EXCEPT ![x] = [at |-> "over", answer |-> answer]]
TrialMishap == trialMishaps < MaxTrialMishaps /\ trialMishaps' = trialMishaps + 1

-----------------------------------------------------------------------------
(* Extending under an idempotency key *)

\* Mutant: a key whose work has not completed may be claimed again.
NotCompleted(k) == idemKey[k].state # "done"

Claimable(k) == idemKey[k].state = "free"

\* The insert that claims the key.
ReserveKey(x) ==
  LET k == ExtensionKey[x] IN
  /\ extension[x].at = "new"
  /\ IF Claimable(k)
       THEN /\ idemKey' = [idemKey EXCEPT ![k] = [Free EXCEPT !.state = "reserved"]]
            /\ MovesOn(x, "load")
       ELSE MovesOn(x, "lookup") /\ UNCHANGED idemKey
  /\ UNCHANGED <<today, trial, stripe, joining, listed, worked, granted, overlapped, trialMishaps>>

\* A replay, or 409 in_progress.
LookupKey(x) ==
  LET row == idemKey[ExtensionKey[x]] IN
  /\ extension[x].at = "lookup"
  /\ Answers(x, IF row.state = "done" /\ ~row.expired THEN row.answer ELSE NoAnswer)
  /\ UNCHANGED <<today, trial, stripe, idemKey, joining, listed, worked, granted,
                 overlapped, trialMishaps>>

Extendable == trial.status = "trialing" /\ trial.end > today

LoadTrial(x) ==
  /\ extension[x].at = "load" /\ ~RowLocked
  /\ MovesOn(x, IF ~(Extendable /\ Target[x] > today) THEN "release"
                ELSE IF trial.billed = NoPlan THEN "write" ELSE "stripe")
  /\ UNCHANGED <<today, trial, stripe, idemKey, joining, listed, worked, granted,
                 overlapped, trialMishaps>>

\* Mutant: the date is held against the store's own record of the end.
AfterLocalEnd(x) == Target[x] > trial.end

AfterStripeEnd(x) == Target[x] > stripe[trial.billed].end

CheckStripe(x) ==
  /\ extension[x].at = "stripe"
  /\ MovesOn(x, IF stripe[trial.billed].status = "trialing" /\ AfterStripeEnd(x)
                  THEN "update" ELSE "release")
  /\ UNCHANGED <<today, trial, stripe, idemKey, joining, listed, worked, granted,
                 overlapped, trialMishaps>>

\* A call that fails may have been applied all the same.
UpdateTrialEnd(x) ==
  LET Moved == stripe' = [stripe EXCEPT ![trial.billed].end = Target[x]] IN
  /\ extension[x].at = "update"
  /\ \/ Moved /\ MovesOn(x, "write") /\ UNCHANGED trialMishaps
     \/ (Moved \/ UNCHANGED stripe) /\ MovesOn(x, "release") /\ TrialMishap
  /\ UNCHANGED <<today, trial, idemKey, joining, listed, worked, granted, overlapped>>

WriteTrialEnd(x) ==
  LET k == ExtensionKey[x] IN
  /\ extension[x].at = "write"
  /\ \/ /\ trial' = [trial EXCEPT !.end = Target[x]]
        /\ worked' = [worked EXCEPT ![k] = @ + 1]
        /\ granted' = granted \union {<<k, Target[x]>>}
        /\ overlapped' = (overlapped \/ AdvisoryHeld)
        /\ MovesOn(x, "complete") /\ UNCHANGED trialMishaps
     \/ /\ MovesOn(x, "release") /\ TrialMishap
        /\ UNCHANGED <<trial, worked, granted, overlapped>>
  /\ UNCHANGED <<today, stripe, idemKey, joining, listed>>

\* Release deletes the row unless it holds a response.
ReleaseKey(x) ==
  LET k == ExtensionKey[x] IN
  /\ extension[x].at = "release"
  /\ idemKey' = [idemKey EXCEPT ![k] = IF @.state = "reserved" THEN Free ELSE @]
  /\ Answers(x, NoAnswer)
  /\ UNCHANGED <<today, trial, stripe, joining, listed, worked, granted, overlapped, trialMishaps>>

\* Complete may fail: that is logged and the operator answered.
CompleteKey(x) ==
  LET k == ExtensionKey[x] IN
  /\ extension[x].at = "complete"
  /\ Answers(x, Target[x])
  /\ \/ /\ idemKey' = [idemKey EXCEPT ![k] =
             IF @.state = "free" THEN @ ELSE [@ EXCEPT !.state = "done", !.answer = Target[x]]]
        /\ UNCHANGED trialMishaps
     \/ TrialMishap /\ UNCHANGED idemKey
  /\ UNCHANGED <<today, trial, stripe, joining, listed, worked, granted, overlapped>>

ExtensionDies(x) ==
  /\ extension[x].at \notin {"new", "lookup", "over"} /\ TrialMishap
  /\ Answers(x, NoAnswer)
  /\ UNCHANGED <<today, trial, stripe, idemKey, joining, listed, worked, granted, overlapped>>

SweepExpired(k) ==
  /\ idemKey[k].expired
  /\ idemKey' = [idemKey EXCEPT ![k] = Free] /\ worked' = [worked EXCEPT ![k] = 0]
  /\ UNCHANGED <<today, trial, stripe, extension, joining, listed, granted, overlapped, trialMishaps>>

-----------------------------------------------------------------------------
(* Subscribing during the trial *)

\* The read takes no row lock.
LoadJoin(m) ==
  /\ joining[m].at = "new" /\ ~AdvisoryHeld
  /\ joining' = [joining EXCEPT ![m] = [at |-> "create", end |-> trial.end]]
  /\ UNCHANGED <<today, trial, stripe, idemKey, extension, listed, worked, granted,
                 overlapped, trialMishaps>>

\* Stripe's idempotency key is store, plan and period: the same call again gets
\* the subscription it made, and one with another trial_end is refused.
CreateSubscription(m) ==
  LET p == PlanOf[m]
      wanted == [status |-> "trialing", end |-> joining[m].end]
      done == wanted.end > today /\ (stripe[p].status = "none" \/ stripe[p] = wanted)
  IN
  /\ joining[m].at = "create"
  /\ stripe' = IF done THEN [stripe EXCEPT ![p] = wanted] ELSE stripe
  /\ joining' = [joining EXCEPT ![m].at = IF done THEN "persist" ELSE "over"]
  /\ UNCHANGED <<today, trial, idemKey, extension, listed, worked, granted, overlapped, trialMishaps>>

PersistJoin(m) ==
  /\ joining[m].at = "persist" /\ ~RowLocked
  /\ trial' = [trial EXCEPT !.billed = PlanOf[m]]
  /\ joining' = [joining EXCEPT ![m].at = "over"]
  /\ UNCHANGED <<today, stripe, idemKey, extension, listed, worked, granted, overlapped, trialMishaps>>

JoinDies(m) ==
  /\ joining[m].at \in {"create", "persist"} /\ TrialMishap
  /\ joining' = [joining EXCEPT ![m].at = "over"]
  /\ UNCHANGED <<today, trial, stripe, idemKey, extension, listed, worked, granted, overlapped>>

-----------------------------------------------------------------------------
(* The expiry cron and the passing of days *)

\* Mutant: the cron expires every trial that has ended.
EndedTrials == trial.end < today

EndedCardless == trial.end < today /\ trial.billed = NoPlan

ListEnded ==
  /\ ~listed /\ trial.status = "trialing" /\ EndedCardless
  /\ listed' = TRUE
  /\ UNCHANGED <<today, trial, stripe, idemKey, extension, joining, worked, granted,
                 overlapped, trialMishaps>>

\* The transition compares the status and nothing else.
ExpireTrial ==
  /\ listed /\ ~AdvisoryHeld /\ ~RowLocked
  /\ listed' = FALSE
  /\ trial' = IF trial.status = "trialing" THEN [trial EXCEPT !.status = "expired"] ELSE trial
  /\ UNCHANGED <<today, stripe, idemKey, extension, joining, worked, granted, overlapped, trialMishaps>>

\* Keys outlive their day and no more; Stripe charges the trials that end.
Midnight ==
  /\ Quiet /\ today < LastDay
  /\ today' = today + 1
  /\ idemKey' = [k \in ExtensionKeys |-> [idemKey[k] EXCEPT !.expired = idemKey[k].state # "free"]]
  /\ stripe' = [p \in Plans |-> IF stripe[p].status = "trialing" /\ stripe[p].end <= today + 1
                                  THEN [stripe[p] EXCEPT !.status = "active"] ELSE stripe[p]]
  /\ UNCHANGED <<trial, extension, joining, listed, worked, granted, overlapped, trialMishaps>>

ExtensionStep(x) ==
  \/ ReserveKey(x) \/ LookupKey(x) \/ LoadTrial(x) \/ CheckStripe(x) \/ UpdateTrialEnd(x)
  \/ WriteTrialEnd(x) \/ ReleaseKey(x) \/ CompleteKey(x)
JoinStep(m) == LoadJoin(m) \/ CreateSubscription(m) \/ PersistJoin(m)

TrialNext ==
  \/ \E x \in Extensions : ExtensionStep(x) \/ ExtensionDies(x)
  \/ \E m \in Joins : JoinStep(m) \/ JoinDies(m)
  \/ \E k \in ExtensionKeys : SweepExpired(k)
  \/ ListEnded \/ ExpireTrial \/ Midnight

TrialSpec == TrialInit /\ [][TrialNext]_trialVars

-----------------------------------------------------------------------------
(* Properties *)

TrialTypeOK ==
  /\ today \in 0..LastDay /\ trialMishaps \in 0..MaxTrialMishaps
  /\ trial.status \in {"trialing", "expired"} /\ trial.billed \in Plans \union {NoPlan}
  /\ \A p \in Plans : stripe[p].status \in {"none", "trialing", "active"} /\ stripe[p].end \in Nat
  /\ \A k \in ExtensionKeys : idemKey[k].state \in {"free", "reserved", "done"}
  /\ \A x \in Extensions :
       extension[x].at \in {"new", "lookup", "load", "stripe", "update", "write",
                            "release", "complete", "over"}
  /\ \A m \in Joins : joining[m].at \in {"new", "create", "persist", "over"}

\* While a key lasts, at most one extension is committed under it, and whoever
\* is told of an extension under a key is told of one that was committed.
ExtendedOnce ==
  /\ \A k \in ExtensionKeys : worked[k] <= 1
  /\ \A x \in Extensions :
       extension[x].answer # NoAnswer => <<ExtensionKey[x], extension[x].answer>> \in granted

\* No failure or death leaves Stripe charging before the end the store shows,
\* as long as no extension is committed while a subscription is being created.
BilledNoEarlier ==
  trial.billed # NoPlan /\ ~overlapped => stripe[trial.billed].end >= trial.end

\* A trial that Stripe bills is never expired by the cron.
CardKeepsTrial == trial.status = "expired" => trial.billed = NoPlan

\* A trial is extended once a request, billed no earlier than it shows, and
\* expired only when nobody has put a card to it.
TrialSafe == ExtendedOnce /\ BilledNoEarlier /\ CardKeepsTrial

\* No extension brings a charge forward: the end Stripe has for a trial moves
\* later or not at all, whatever was lost, repeated or undone before.
NeverSooner ==
  [][\A p \in Plans : stripe[p].status = "trialing" => stripe'[p].end >= stripe[p].end]_trialVars
=============================================================================
