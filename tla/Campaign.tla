------------------------------- MODULE Campaign -------------------------------
(***************************************************************************)
(* One email campaign (internal/campaign): its row, its recipients, the    *)
(* store's monthly budget, the merchant's requests and the replicas whose  *)
(* send workers poll for it.  Nothing claims the campaign: two replicas    *)
(* may dispatch it at once.                                                *)
(***************************************************************************)
EXTENDS Integers, FiniteSets

CONSTANTS
  Addresses,        \* customers the segment resolves to, by number
  Refused,          \* addresses the mail provider refuses
  AllCustomers,     \* the campaign has no segment: segment_id is null
  Senders,          \* replicas that run the send worker
  SendBatchSize,
  Allotment,        \* campaign_email_budget.remaining at the start
  MaxCampaignAsks,  \* bound on the merchant's requests
  MaxSendMishaps    \* bound on crashes and failed writes

ASSUME CampaignAssumption ==
  /\ Addresses \subseteq Nat /\ IsFiniteSet(Addresses) /\ Refused \subseteq Addresses /\ IsFiniteSet(Senders)
  /\ AllCustomers \in BOOLEAN /\ SendBatchSize \in Nat \ {0} /\ Allotment \in Nat
  /\ MaxCampaignAsks \in Nat /\ MaxSendMishaps \in Nat

VARIABLES
  campaign,     \* status, and whether heartbeat_at is recent
  recipient,    \* row <<address, n>> |-> status: the nth row of an address
  remaining,    \* of the month's budget
  sender,       \* a replica's step, the rows of its batch still to send, progress
  request,      \* the merchant's requests under way: the row each has read
  mailed,       \* history: emails the provider accepted, by address
  attempts,     \* history: emails handed to the provider
  heedless,     \* history: attempts of a replica while the campaign stands paused
  creations,    \* history: how often recipients were created
  campaignAsks, sendMishaps
campaignVars == <<campaign, recipient, remaining, sender, request, mailed, attempts,
                  heedless, creations, campaignAsks, sendMishaps>>

\* created_at, and the order of the rows in the table for those of one insert.
Before(q, r) == q[2] < r[2] \/ (q[2] = r[2] /\ q[1] < r[1])

Copies == 1..MaxCampaignAsks
Rows == Addresses \X Copies
Polling == [at |-> "poll", batch |-> {}, progressed |-> FALSE]

CampaignInit ==
  /\ campaign = [status |-> "draft", fresh |-> FALSE]
  /\ recipient = [r \in Rows |-> "absent"]
  /\ remaining = Allotment
  /\ sender = [s \in Senders |-> Polling]
  /\ request = {} /\ mailed = [a \in Addresses |-> 0] /\ attempts = 0
  /\ heedless = [s \in Senders |-> 0] /\ creations = 0
  /\ campaignAsks = 0 /\ sendMishaps = 0

Pending == {r \in Rows : recipient[r] = "pending"}
Dispatching(s) == sender[s].at \notin {"poll", "activate", "down", "recover"}

\* A write that ends a pause ends what the replicas owe it.
SetCampaign(row) ==
  /\ campaign' = row
  /\ heedless' = IF row.status = "paused" THEN heedless ELSE [s \in Senders |-> 0]

-----------------------------------------------------------------------------
(* The merchant: each request reads the row and saves it whole *)

Allowed(kind) ==
  CASE kind = "schedule" -> campaign.status = "draft"
    [] kind = "send" -> campaign.status \in {"draft", "scheduled"}
    [] kind = "pause" -> campaign.status = "sending"
    [] kind = "resume" -> campaign.status = "paused"

Becomes(kind) ==
  CASE kind = "schedule" -> "scheduled" [] kind = "pause" -> "paused" [] OTHER -> "sending"

CampaignRequest(kind) ==
  /\ campaignAsks < MaxCampaignAsks /\ Allowed(kind)
  /\ campaignAsks' = campaignAsks + 1
  /\ request' = request \union
       {[kind |-> kind, row |-> campaign, number |-> campaignAsks,
         at |-> CASE kind = "schedule" -> "create" [] kind = "send" -> "count" [] OTHER -> "save"]}
  /\ UNCHANGED <<campaign, recipient, remaining, sender, mailed, attempts, heedless,
                 creations, sendMishaps>>

Proceeds(q, step) == request' = (request \ {q}) \union {[q EXCEPT !.at = step]}

NoneYet == \A r \in Rows : recipient[r] = "absent"

CountRecipients(q) ==
  /\ q.at = "count"
  /\ Proceeds(q, IF NoneYet THEN "create" ELSE "save")
  /\ UNCHANGED <<campaign, recipient, remaining, sender, mailed, attempts, heedless,
                 creations, campaignAsks, sendMishaps>>

\* resolveAndCreateRecipients: nothing keeps an address from a second row.
\* Without a segment it ends in a nil dereference and the request with it.
CreateRecipients(q) ==
  /\ q.at = "create"
  /\ creations' = creations + 1
  /\ recipient' = [r \in Rows |-> IF r[2] = creations + 1 THEN "pending" ELSE recipient[r]]
  /\ IF AllCustomers THEN request' = request \ {q} ELSE Proceeds(q, "save")
  /\ UNCHANGED <<campaign, remaining, sender, mailed, attempts, heedless,
                 campaignAsks, sendMishaps>>

SaveCampaign(q) ==
  /\ q.at = "save"
  /\ SetCampaign([q.row EXCEPT !.status = Becomes(q.kind)])
  /\ request' = request \ {q}
  /\ UNCHANGED <<recipient, remaining, sender, mailed, attempts, creations,
                 campaignAsks, sendMishaps>>

-----------------------------------------------------------------------------
(* The send worker *)

\* FindScheduledReady; scheduled_at may have passed or not.
FindReady(s) ==
  /\ sender[s].at = "poll" /\ campaign.status = "scheduled"
  /\ sender' = [sender EXCEPT ![s].at = "activate"]
  /\ UNCHANGED <<campaign, recipient, remaining, request, mailed, attempts, heedless,
                 creations, campaignAsks, sendMishaps>>

Activate(s) ==
  /\ sender[s].at = "activate"
  /\ SetCampaign([campaign EXCEPT !.status = "sending"])
  /\ sender' = [sender EXCEPT ![s].at = "poll"]
  /\ UNCHANGED <<recipient, remaining, request, mailed, attempts, creations,
                 campaignAsks, sendMishaps>>

FindSendable(s) ==
  /\ sender[s].at = "poll" /\ campaign.status = "sending"
  /\ sender' = [sender EXCEPT ![s].at = "fetch"]
  /\ UNCHANGED <<campaign, recipient, remaining, request, mailed, attempts, heedless,
                 creations, campaignAsks, sendMishaps>>

Beat(s) ==
  /\ Dispatching(s) /\ ~campaign.fresh
  /\ campaign' = [campaign EXCEPT !.fresh = TRUE]
  /\ UNCHANGED <<recipient, remaining, sender, request, mailed, attempts, heedless,
                 creations, campaignAsks, sendMishaps>>

\* Mutant: rows another replica has in its batch are passed over.
Unclaimed == Pending \ UNION {sender[s].batch : s \in Senders}

Fetchable == Pending

FetchBatch(s) ==
  /\ sender[s].at = "fetch"
  /\ LET batch == {r \in Fetchable :
                    Cardinality({q \in Fetchable : Before(q, r)}) < SendBatchSize} IN
       sender' = [sender EXCEPT ![s].batch = batch, ![s].progressed = FALSE,
                                ![s].at = IF batch = {} THEN "finish" ELSE "reserve"]
  /\ UNCHANGED <<campaign, recipient, remaining, request, mailed, attempts, heedless,
                 creations, campaignAsks, sendMishaps>>

\* Mutant: the budget need only not be used up.
SomeLeft(n) == remaining > 0 /\ n > 0

Affordable(n) == remaining >= n

\* The guarded UPDATE of the budget; when it finds too little the campaign is
\* paused.
ReserveBudget(s) ==
  /\ sender[s].at = "reserve"
  /\ LET n == Cardinality(sender[s].batch) IN
       IF Affordable(n)
         THEN /\ remaining' = remaining - n
              /\ sender' = [sender EXCEPT ![s].at = "send"]
              /\ UNCHANGED <<campaign, heedless>>
         ELSE /\ SetCampaign([campaign EXCEPT !.status = "paused"])
              /\ sender' = [sender EXCEPT ![s] = Polling]
              /\ UNCHANGED remaining
  /\ UNCHANGED <<recipient, request, mailed, attempts, creations, campaignAsks, sendMishaps>>

Outcome(accepted) == IF accepted THEN "sent" ELSE "failed"

\* The next email of the batch, and the write that records it.  The write may
\* fail, and the replica may die before it: the row stays 'pending' whatever
\* became of the email.
SendEmail(s) ==
  LET r == CHOOSE r \in sender[s].batch : ~\E q \in sender[s].batch : Before(q, r)
      accepted == r[1] \notin Refused
      rest == [sender[s] EXCEPT !.batch = @ \ {r}]
      Unrecorded(next) == /\ sendMishaps < MaxSendMishaps
                          /\ sendMishaps' = sendMishaps + 1
                          /\ sender' = [sender EXCEPT ![s] = next]
                          /\ UNCHANGED recipient
  IN
  /\ sender[s].at = "send" /\ sender[s].batch # {}
  /\ \/ /\ recipient' = [recipient EXCEPT ![r] = Outcome(accepted)]
        /\ sender' = [sender EXCEPT ![s] = [rest EXCEPT !.progressed = TRUE]]
        /\ UNCHANGED sendMishaps
     \/ Unrecorded(rest)
     \/ Unrecorded([Polling EXCEPT !.at = "down"])
  /\ mailed' = IF accepted THEN [mailed EXCEPT ![r[1]] = @ + 1] ELSE mailed
  /\ attempts' = attempts + 1
  /\ heedless' = [heedless EXCEPT ![s] = @ + IF campaign.status = "paused" THEN 1 ELSE 0]
  /\ UNCHANGED <<campaign, remaining, request, creations, campaignAsks>>

\* Mutant: the refresh looks for 'cancelled' alone.
NeverStopped == campaign.status = "cancelled"

StoppedByUser == campaign.status \in {"paused", "cancelled"}

\* A batch that moved nobody ends the dispatch with an error; the campaign
\* stays 'sending', and the next poll dispatches it again.
Refresh(s) ==
  /\ sender[s].at = "send" /\ sender[s].batch = {}
  /\ sender' = [sender EXCEPT ![s] = IF ~sender[s].progressed \/ StoppedByUser
                                       THEN Polling ELSE [@ EXCEPT !.at = "fetch"]]
  /\ UNCHANGED <<campaign, recipient, remaining, request, mailed, attempts, heedless,
                 creations, campaignAsks, sendMishaps>>

\* 'sent', whatever the status has become.
Finish(s) ==
  /\ sender[s].at = "finish"
  /\ SetCampaign([campaign EXCEPT !.status = "sent"])
  /\ sender' = [sender EXCEPT ![s] = Polling]
  /\ UNCHANGED <<recipient, remaining, request, mailed, attempts, creations,
                 campaignAsks, sendMishaps>>

-----------------------------------------------------------------------------
(* Crashes and the recovery scan *)

SenderCrash(s) ==
  /\ sender[s].at # "down" /\ sendMishaps < MaxSendMishaps
  /\ sendMishaps' = sendMishaps + 1
  /\ sender' = [sender EXCEPT ![s] = [Polling EXCEPT !.at = "down"]]
  /\ UNCHANGED <<campaign, recipient, remaining, request, mailed, attempts, heedless,
                 creations, campaignAsks>>

\* StaleDuration passes without a heartbeat.
HeartbeatStops ==
  /\ campaign.fresh /\ ~\E s \in Senders : Dispatching(s)
  /\ campaign' = [campaign EXCEPT !.fresh = FALSE]
  /\ UNCHANGED <<recipient, remaining, sender, request, mailed, attempts, heedless,
                 creations, campaignAsks, sendMishaps>>

\* RecoverStuckCampaigns at boot: it reads, then pauses.
SenderBoot(s) ==
  /\ sender[s].at = "down"
  /\ sender' = [sender EXCEPT ![s].at =
                  IF campaign.status = "sending" /\ ~campaign.fresh THEN "recover" ELSE "poll"]
  /\ UNCHANGED <<campaign, recipient, remaining, request, mailed, attempts, heedless,
                 creations, campaignAsks, sendMishaps>>

PauseStuck(s) ==
  /\ sender[s].at = "recover"
  /\ SetCampaign([campaign EXCEPT !.status = "paused"])
  /\ sender' = [sender EXCEPT ![s] = Polling]
  /\ UNCHANGED <<recipient, remaining, request, mailed, attempts, creations,
                 campaignAsks, sendMishaps>>

SenderStep(s) ==
  \/ SenderBoot(s) \/ PauseStuck(s) \/ FindReady(s) \/ Activate(s) \/ FindSendable(s)
  \/ FetchBatch(s) \/ ReserveBudget(s) \/ SendEmail(s) \/ Refresh(s)
  \/ Finish(s)

CampaignNext ==
  \/ \E kind \in {"schedule", "send", "pause", "resume"} : CampaignRequest(kind)
  \/ \E q \in request : CountRecipients(q) \/ CreateRecipients(q) \/ SaveCampaign(q)
  \/ \E s \in Senders : SenderStep(s) \/ Beat(s) \/ SenderCrash(s)
  \/ HeartbeatStops

CampaignSpec == CampaignInit /\ [][CampaignNext]_campaignVars

-----------------------------------------------------------------------------
(* Properties *)

CampaignTypeOK ==
  /\ campaign.status \in {"draft", "scheduled", "sending", "sent", "paused"}
  /\ recipient \in [Rows -> {"absent", "pending", "sent", "failed"}]
  /\ remaining \in 0..Allotment
  /\ \A s \in Senders : sender[s].batch \subseteq Rows
  /\ creations \in 0..MaxCampaignAsks /\ campaignAsks \in 0..MaxCampaignAsks
  /\ sendMishaps \in 0..MaxSendMishaps

\* However many replicas send, no email is attempted that the month's budget
\* does not cover, and the budget is not overdrawn.
WithinAllotment == attempts <= Allotment - remaining /\ remaining >= 0

\* 'sent' means that every recipient has been tried, unless a second Send made
\* more of them meanwhile.
SentMeansDone == campaign.status = "sent" /\ creations <= 1 => Pending = {}

\* A replica mails a recipient again only when the first time went unrecorded.
MailedOnce ==
  \A a \in Addresses : mailed[a] <= creations * (Cardinality(Senders) + sendMishaps)

\* After a pause a replica sends at most the rest of one batch.
PauseHeeded == \A s \in Senders : heedless[s] <= SendBatchSize

\* A campaign stays within its budget, reaches everybody before it is called
\* sent, mails nobody without need and stops when paused.
CampaignSafe == WithinAllotment /\ SentMeansDone /\ MailedOnce /\ PauseHeeded
=============================================================================
